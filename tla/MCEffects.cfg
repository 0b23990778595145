SPECIFICATION Spec
CONSTANTS
  Elements = {"e1", "e2"}
  Loose = {"e2"}
  Promises = {"p1"}
  MaxFxOps = 4
  Requests = {"r1", "r2"}
  Watched = {"r1"}
  Scripts = {"f", "g"}
  MaxHolds = 2
INVARIANTS
  JobsTakeTurns
  LastFadeHolds
  OverOnce
PROPERTIES
  PromisesKept
  TimedRequestsEnd
  ReadyInTime
CHECK_DEADLOCK FALSE
