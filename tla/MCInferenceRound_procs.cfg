SPECIFICATION LonelySpec
CONSTANTS
  N = 2
  T = 1
  Iters = 3
  Interval = 2
  Statistics = FALSE
INVARIANTS
  RemoteStatesArePast
PROPERTIES
  PullsWhileWorkersWait
  FinishesAlone
CHECK_DEADLOCK FALSE
