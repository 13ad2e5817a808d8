CONSTANTS
  t1 = t1
  t2 = t2
  primary = primary
  spare = spare
  Threads <- MCThreads
  Backends <- MCBackends
  Entries <- MCEntries
  Strategies <- MCStrategies
  MaxFailures = 2
  Period = 2
  MaxErrors = 4
  MaxPollErrors = 3
  MaxRetries = 1
  MaxNodes = 2
  MaxChanges = 2
  MaxDrops = 1
  MaxLLMRetries = 1
  InnerRetries = 2
  Window = 6
  MinOutput = 2
  MaxMessages = 4
  MaxTokens = 2
SPECIFICATION MCSpec
INVARIANTS PoolInv WatchInv CallInv
PROPERTIES CircuitRecovers CancelIsNoticed
CHECK_DEADLOCK FALSE
