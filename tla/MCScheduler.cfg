CONSTANTS
  AgentMap <- MCAgentMap
  Priority <- MCPriority
  MaxSlots = 1
  Threshold = 2
  MaxWork = 2
  MaxPressure = 1
  MaxFaults = 1
SPECIFICATION Spec
INVARIANT SchedulerInv
PROPERTIES TodoIsServed StopHalts
CHECK_DEADLOCK FALSE
