------------------------------- MODULE MCWorkflow -------------------------------
(***************************************************************************)
(* Workflow with the real thresholds, limits and step budget, the scores   *)
(* one for each interval the thresholds cut out; and side by side with it  *)
(* two stores its nodes read and write while other agents do so too: the   *)
(* memory and the result cache.  subject says which of the three a         *)
(* behaviour is about; the others stay as they are.                        *)
(***************************************************************************)
EXTENDS Workflow, TLC

CONSTANTS Threads, Procs, HostOf, Backends, Keys, Importances, MaxEntries, MaxCalls,
          Heartbeats, CacheKeys, CacheScores, MaxRows, MaintenanceRows, MaxHeartbeats,
          MaxCacheFaults

VARIABLES subject,
          backend, rows, used, clock, holder, writer, at, call, found, excess,
          score, lapsed, older, step, key, mine, surplus, since, heartbeats,
          troubles, blind, unpaid, seen

mems == <<backend, rows, used, clock, holder, writer, at, call, found, excess>>
results == <<score, lapsed, older, step, key, mine, surplus, since, heartbeats,
             troubles, blind, unpaid, seen>>
all == <<subject, vars, mems, results>>

Mem == INSTANCE MemoryStore WITH pc <- at
Results == INSTANCE ArtifactCache
  WITH Procs <- Heartbeats, Keys <- CacheKeys, Scores <- CacheScores, MaxRuns <- MaxHeartbeats,
       MaxFaults <- MaxCacheFaults, excess <- surplus, runs <- heartbeats, faults <- troubles

ASSUME Mem!MemoryStoreAssumption /\ Results!ArtifactCacheAssumption

OnWorkflow == subject = "workflow"
OnMemory == subject = "memory"
OnResults == subject = "results"

MCInit ==
  /\ subject \in {"workflow", "memory", "results"}
  /\ ~OnWorkflow => threshold = CHOOSE t \in Tiers : TRUE
  /\ ~OnMemory => backend = "sqlite"
  /\ Init /\ Mem!Init /\ Results!Init
MCNext ==
  \/ OnWorkflow /\ Next /\ UNCHANGED <<subject, mems, results>>
  \/ OnMemory /\ Mem!Next /\ UNCHANGED <<subject, vars, results>>
  \/ OnResults /\ Results!Next /\ UNCHANGED <<subject, vars, mems>>
MCSpec == MCInit /\ [][MCNext]_all

\* See MemoryStore and ArtifactCache.
MemoryInv == OnMemory => Mem!MemoryInv
ArtifactInv == OnResults => Results!ArtifactInv

MCScores == {55, 65, 80, 90}
MCTiers == {75, 85}
MCThreads == {"heartbeat", "worker", "other"}
MCHostOf == [t \in MCThreads |-> IF t = "other" THEN "p2" ELSE "p1"]
=============================================================================
