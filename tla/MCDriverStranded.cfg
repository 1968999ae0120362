SPECIFICATION Spec
CONSTANTS
  k = k
  i = i
  g = g
  p = p
  none = none
  Kinds <- MCKinds
  Inputs <- MCInputs
  Gates <- MCGates
  Payloads <- MCPayloads
  Deadlines <- MCDeadlines
  Readings <- MCReadings
  Versions <- MCVersions
  NoArg <- none
  MaxSeq = 3
  Program <- MCProgram
  WriteThrough = TRUE
  LastRun = 1
  Width <- MCWidth
  BankRoom = 5
  OutcomeBytes = 1
  TerminalBytes = 1
  Persistent = TRUE
  Oldest = 1
  Ticks = 2
  Early = 1
PROPERTY
  NoEffectForfeited
