SPECIFICATION Spec
CONSTANTS
  N = 1
  T = 2
  Iters = 5
  Interval = 2
  Statistics = TRUE
INVARIANTS
  FilesInOrder
  SamplesWhole
PROPERTIES
  ImplementsPublishedFiles
CHECK_DEADLOCK FALSE
