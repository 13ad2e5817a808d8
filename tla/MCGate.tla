-------------------------------- MODULE MCGate --------------------------------
(***************************************************************************)
(* The heartbeats of one agent, one after the other as the scheduler       *)
(* starts them, on two issues; and the breaker every heartbeat passes      *)
(* first, with two heartbeats: of one agent, started by the scheduler and  *)
(* by the server, or of two agents.  subject says which of the two a       *)
(* behaviour is about; the other stays as it is.                           *)
(***************************************************************************)
EXTENDS Heartbeat, TLC

CONSTANTS r1, i1, i2, a1, a2, p1, p2,
          Agents, Procs, Costs, MaxCents, MaxBeats, MaxStreak, Keep, MaxKilled

VARIABLES subject, agentOf, ledger, newest, window, row, beat, seen, unheard,
          killed

breaker == <<agentOf, ledger, newest, window, row, beat, seen, unheard, killed>>
all == <<subject, vars, breaker>>

B == INSTANCE SpendingBreaker
       WITH pc <- beat, faults <- killed, MaxFaults <- MaxKilled

ASSUME B!SpendingAssumption

OnHeartbeat == subject = "heartbeat"
OnBreaker == subject = "breaker"

\* Who is called a1 is arbitrary, and newest is not read before it is set.
MCInit ==
  /\ Init /\ B!Init
  /\ agentOf[p1] = a1 /\ newest = a1
  /\ (OnHeartbeat /\ agentOf[p2] = a1) \/ OnBreaker
MCNext ==
  \/ OnHeartbeat /\ Next /\ UNCHANGED <<subject, breaker>>
  \/ OnBreaker /\ B!Next /\ UNCHANGED <<subject, vars>>
\* Fairness of Heartbeat and of SpendingBreaker, each while it is the subject.
MCFairness ==
  /\ \A r \in Runs : WF_all(OnHeartbeat /\ Advance(r) /\ UNCHANGED <<subject, breaker>>)
  /\ \A i \in Issues : WF_all(OnHeartbeat /\ Expire(i) /\ UNCHANGED <<subject, breaker>>)
  /\ \A p \in Procs : WF_all(OnBreaker /\ B!Heartbeat(p) /\ UNCHANGED <<subject, vars>>)
  /\ \A a \in Agents : WF_all(OnBreaker /\ B!CooldownEnds(a) /\ UNCHANGED <<subject, vars>>)
MCSpec == MCInit /\ [][MCNext]_all /\ MCFairness

\* See SpendingBreaker.
SpendingInv == B!SpendingInv
LocksHold == B!LocksHold

\* IsTakenUp and Reopens: no action prefers an issue or an agent to another, so
\* one stands for all.
ATodoIsTakenUp == OnHeartbeat => IsTakenUp(i1)
ABreakerReopens == OnBreaker => B!Reopens(a1)
=============================================================================
