CONSTANTS
  Scores <- MCScores
  Tiers <- MCTiers
  QualityThreshold = 85
  RefineFloor = 60
  MinScoreToCache = 70
  MaxIterations = 3
  MaxSubTasks = 5
  MaxSteps = 50
  MaxRuns = 2
  Threads <- MCThreads
  Procs = {"p1", "p2"}
  HostOf <- MCHostOf
  Backends = {"sqlite", "postgres"}
  Keys = {"k1", "k2"}
  Importances = {1}
  MaxEntries = 2
  MaxCalls = 4
  Heartbeats = {"h1", "h2"}
  CacheKeys = {"k1", "k2", "k3"}
  CacheScores = {1, 2}
  MaxRows = 1
  MaintenanceRows = 2
  MaxHeartbeats = 3
  MaxCacheFaults = 2
SPECIFICATION MCSpec
INVARIANTS WorkflowInv MemoryInv ArtifactInv
CHECK_DEADLOCK FALSE
