CONSTANTS
  r1 = r1
  r2 = r2
  i1 = i1
  i2 = i2
  Runs <- MCRuns
  Issues <- MCIssues
  MaxFaults = 1
  MaxKills = 1
  MaxHuman = 1
SYMMETRY Symmetry
SPECIFICATION Spec
INVARIANT HeartbeatInv
PROPERTIES ImplementsLifecycle
CHECK_DEADLOCK FALSE
