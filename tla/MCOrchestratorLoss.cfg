CONSTANTS
  research = research
  code = code
  Subtasks <- MCSubtasks
  MaxRetries = 1
  RetryEnabled = TRUE
  MaxFaults = 1
  MaxCrashes = 1
  MaxHuman = 1
SPECIFICATION Spec
INVARIANT NoSubtaskLost
CHECK_DEADLOCK FALSE
