SPECIFICATION FairSpec
CONSTANTS
  N = 2
  MaxLaunches = 1
PROPERTY Barrier2Opens
CHECK_DEADLOCK FALSE
