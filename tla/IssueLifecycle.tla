---------------------------- MODULE IssueLifecycle ----------------------------
(***************************************************************************)
(* What the heartbeats of an agent promise about its issues, whatever they *)
(* call, lose or retry on the way: an issue is taken by one worker at a    *)
(* time, which marks it once, concludes it once and leaves it.  Nobody     *)
(* else but a person writes its status.  Heartbeat.tla implements this     *)
(* (HeartbeatLifecycle.tla).                                               *)
(***************************************************************************)
CONSTANTS Issues, Workers

None == "none"

VARIABLES
  status,  \* status of each issue
  worker,  \* who works on each issue
  stage    \* how far its worker is

vars == <<status, worker, stage>>

Free(i) == worker[i] = None

Init ==
  /\ status = [i \in Issues |-> "todo"]
  /\ worker = [i \in Issues |-> None]
  /\ stage = [i \in Issues |-> "free"]

Take(i) ==
  /\ Free(i) /\ status[i] \notin {"done", "cancelled"}
  /\ \E w \in Workers : worker' = [worker EXCEPT ![i] = w]
  /\ stage' = [stage EXCEPT ![i] = "taken"]
  /\ UNCHANGED status

\* A write may fail; the worker goes on.
Write(i, values) ==
  \E s \in values \cup {status[i]} : status' = [status EXCEPT ![i] = s]

Mark(i) ==
  /\ stage[i] = "taken"
  /\ Write(i, {"in_progress"})
  /\ stage' = [stage EXCEPT ![i] = "marked"]
  /\ UNCHANGED worker

Conclude(i) ==
  /\ stage[i] = "marked"
  /\ Write(i, {"done", "blocked"})
  /\ stage' = [stage EXCEPT ![i] = "concluded"]
  /\ UNCHANGED worker

\* The worker releases the issue, or dies.
Leave(i) ==
  /\ ~Free(i)
  /\ worker' = [worker EXCEPT ![i] = None]
  /\ stage' = [stage EXCEPT ![i] = "free"]
  /\ UNCHANGED status

\* People cancel and reopen issues whoever works on them.
Intervene(i) ==
  /\ \E s \in {"todo", "cancelled"} : status' = [status EXCEPT ![i] = s]
  /\ UNCHANGED <<worker, stage>>

Next ==
  \E i \in Issues : Take(i) \/ Mark(i) \/ Conclude(i) \/ Leave(i) \/ Intervene(i)

Spec == Init /\ [][Next]_vars
=============================================================================
