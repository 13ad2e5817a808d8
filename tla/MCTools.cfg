CONSTANTS
  Workers = {w1, w2}
  PoolSize = 1
  MaxSandboxes = 2
  MaxCalls = 2
  MaxStarts = 2
  NumSubTasks = 2
  MaxWorkers = 2
  MaxRounds = 2
  MaxAttempts = 2
  MaxLookups = 1
  Procs = {"p1", "p2"}
  KeyNames = {"ka", "kb"}
  Values = {"va", "vb"}
  Valid <- MCValid
  MaxMessages = 2
  MaxPrompts = 2
  MaxFaults = 1
SPECIFICATION MCSpec
INVARIANTS SandboxInv SubTasksInv PromptInv
PROPERTIES NodeEnds
CHECK_DEADLOCK FALSE
