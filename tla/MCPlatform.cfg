CONSTANTS
  Machines <- MCMachines
  Settings <- MCSettings
  MaxRetries = 2
  MaxFaults = 3
  MaxRivals = 1
  Threads = {t1, t2, t3}
  Objects = {o1, o2, o3}
  None = None
  Ttl = 2
  MaxCalls = 2
  MaxCrashes = 1
  Users = {u1, u2, u3}
  MinConnections = 1
  MaxConnections = 2
  MaxRestarts = 1
  Keys = {"ka", "kb"}
  Ttls = {1, 2}
  MaxValue = 3
  MaxTime = 4
  MaxSqlCalls = 1
  d1 = d1
  d2 = d2
  Details = {d1, d2}
  Processes = {p1, p2}
  Publishers = {p1}
  MaxSignals = 3
  MaxOverrides = 2
  MaxKills = 1
SYMMETRY Symmetry
SPECIFICATION MCSpec
INVARIANTS StorageInv RequestInv PlanInv UpgradeInv
PROPERTIES CandidateIsKept
CHECK_DEADLOCK FALSE
