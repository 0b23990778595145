SPECIFICATION Spec
CONSTANTS
  NIterations = 3
  Environments = {"env","b"}
  Datasets = {"own", "other"}
  Available <- MCAvailable
  Vertices = 3
  State0 <- MCState0
  NoDataset = "none"
  MaxStarts = 2
  MaxInFlight = 2
  MaxFaults = 1
  Files = {"environments.json", "datasets.json"}
  NoFile = "none"
  MaxRequests = 3
  MaxFailures = 1
INVARIANTS
  OnlyKnownIntervalRuns
  ChartsShowTheRun
  FilesHoldWhatWasSaved
PROPERTIES
  PollingEnds
CHECK_DEADLOCK FALSE
