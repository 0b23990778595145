SPECIFICATION FairSpec
CONSTANTS
  N = 3
  MaxLaunches = 2
INVARIANTS
  BarrierSafety
  AllGoneCleared
PROPERTIES
  ImplementsPhaseBarrier
  BarriersOpen
CHECK_DEADLOCK FALSE
