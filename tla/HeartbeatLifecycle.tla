-------------------------- MODULE HeartbeatLifecycle --------------------------
(***************************************************************************)
(* Heartbeat implements IssueLifecycle.  The worker of an issue is the run *)
(* that holds its checkout and has it as its issue; a checkout that a run  *)
(* got without knowing it, or was killed on, is nobody's work.             *)
(***************************************************************************)
EXTENDS Heartbeat

WorkerOf(i) ==
  IF holder[i] # None /\ issue[holder[i]] = i THEN holder[i] ELSE None

StageAt(p) ==
  CASE p = "picked" -> "taken"
    [] p = "release" -> "concluded"
    [] OTHER -> "marked"

StageOf(i) == IF WorkerOf(i) = None THEN "free" ELSE StageAt(pc[WorkerOf(i)])

workerBar == [i \in Issues |-> WorkerOf(i)]
stageBar == [i \in Issues |-> StageOf(i)]

Lifecycle == INSTANCE IssueLifecycle
               WITH Workers <- Runs, worker <- workerBar, stage <- stageBar

\* The heartbeats, with their overlaps, kills, lost calls and the people, are an
\* implementation of the life cycle: at most one worker, which marks once and
\* concludes once, and no status written from outside but by people.
ImplementsLifecycle == Lifecycle!Spec
=============================================================================
