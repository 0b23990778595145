SPECIFICATION StartupKillSpec
CONSTANTS
  N = 2
  MaxLaunches = 3
INVARIANTS
  CleanBarrierSafety
  CleanStartup
PROPERTIES
  NoTruncationUnderMapping
CHECK_DEADLOCK FALSE
