------------------------------ MODULE MCHeartbeat ------------------------------
(***************************************************************************)
(* TLC instance of Heartbeat: two issues and two overlapping heartbeats.   *)
(***************************************************************************)
EXTENDS HeartbeatLifecycle, TLC

CONSTANTS r1, r2, i1, i2

MCRuns == {r1, r2}
MCIssues == {i1, i2}

\* No action prefers a run or an issue to another.
Symmetry == Permutations(MCRuns) \cup Permutations(MCIssues)
=============================================================================
