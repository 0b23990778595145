SPECIFICATION LoadSpec
CONSTANTS
  N = 2
  T = 3
  MaxSize = 7
  NumVertices = 3
  MaxEdges = 3
INVARIANTS
  FileJudged
  OneWorkerEach
  IndexHoldsGraph
CHECK_DEADLOCK FALSE
