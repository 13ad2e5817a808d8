CONSTANTS
  Beats = {p1, p2}
  Generated = {a}
  Remote = {r}
  Contents = {x, y}
  MinUses = 1
  MaxSessions = 3
  MaxEnds = 1
  Positive = {70, 90}
  Negative = {20, 50}
  Quota = 1
  MaxDrafts = 2
  MaxDeaths = 1
SYMMETRY SkillsSymmetry
SPECIFICATION SkillsSpec
INVARIANT LibraryInv
PROPERTIES LocalIsPermanent SweepLeavesNoOrphans
CHECK_DEADLOCK FALSE
