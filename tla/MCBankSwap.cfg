SPECIFICATION Spec
CONSTANTS
  MaxGeneration = 3
  MaxRun = 4
  WriteThrough = FALSE
INVARIANTS
  TypeOK
  OneAuthority
  FaultsElectNoOther
  SwapFollowsAuthority
  StartedRunsStay
PROPERTIES
  AuthorityMovesBySuccession
