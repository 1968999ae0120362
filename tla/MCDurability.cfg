SPECIFICATION Spec
CONSTANT Rounds = 2
INVARIANTS
  ConformingIsHeld
  BreachIsSeen
CHECK_DEADLOCK FALSE
