CONSTANTS
  r1 = r1
  i1 = i1
  i2 = i2
  Runs = {r1}
  Issues = {i1, i2}
  MaxFaults = 1
  MaxKills = 1
  MaxHuman = 3
  a1 = a1
  a2 = a2
  p1 = p1
  p2 = p2
  Agents = {a1, a2}
  Procs = {p1, p2}
  Costs = {0, 2}
  MaxCents = 3
  MaxBeats = 1
  MaxStreak = 2
  Keep = 3
  MaxKilled = 1
SPECIFICATION MCSpec
INVARIANTS SpendingInv
PROPERTIES QuestionsAreAwaited LocksHold ATodoIsTakenUp ABreakerReopens
CHECK_DEADLOCK FALSE
