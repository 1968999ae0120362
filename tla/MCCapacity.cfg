SPECIFICATION Spec
CONSTANTS
  Unit = 4
  MaxPayload = 32
  Frame <- MCFrame
  HeaderLen <- MCHeaderLen
  BankSizes <- MCBankSizes
  RunInput = 3
  Result = 6
  Terminal = 5
  StartedPrefix = 4
  EffectBody = 8
  TimerBody = 17
  MarkerBody = 4
INVARIANTS
  TypeOK
  RunCanEnd
  FirstBoundaryFits
CHECK_DEADLOCK FALSE
