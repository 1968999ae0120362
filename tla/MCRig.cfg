SPECIFICATION Spec
CONSTANTS
  Effects = 1
  LastIteration = 1
  Slots = 10
INVARIANTS
  NeverAccused
  NeverExcused
  BudgetSuffices
CHECK_DEADLOCK FALSE
