SPECIFICATION Spec
CONSTANTS
  Effects = 1
  LastIteration = 1
  Slots = 10
INVARIANTS
  HealthyBoardsPass
CHECK_DEADLOCK FALSE
