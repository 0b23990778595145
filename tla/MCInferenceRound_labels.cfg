SPECIFICATION Spec
CONSTANTS
  N = 2
  T = 1
  Iters = 2
  Interval = 2
  Statistics = TRUE
INVARIANTS
  KnownStatesKept
CHECK_DEADLOCK FALSE
