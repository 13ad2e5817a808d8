--------------------------- MODULE SpendingBreaker ---------------------------
(***************************************************************************)
(* agents/spending_tracker.py: the ledger of cost events in one SQLite     *)
(* file, and in it a circuit breaker row for each agent id.  Every         *)
(* heartbeat is a process of its own with its own SpendingTracker: _lock   *)
(* orders the threads of one process only, so that the statements of two   *)
(* heartbeats interleave.  The ledger is shared by all agents of the host. *)
(*                                                                         *)
(* Three methods that change a row are not called by the program           *)
(* (close_breaker_after_probe, reset_breaker, prune), and --spending-reset *)
(* calls reset() without an agent id: it writes the row "global", which no *)
(* heartbeat reads.  None of them is an action.                            *)
(***************************************************************************)
EXTENDS Naturals, Sequences, FiniteSets, SequencesExt

CONSTANTS
  Agents,     \* agent ids, the scopes of the breaker
  Procs,      \* heartbeats that may run at the same time
  Costs,      \* cents a heartbeat may cost
  MaxCents,   \* max_cents_per_window
  MaxBeats,   \* max_heartbeats_per_window
  MaxStreak,  \* max_consecutive_non_idle
  Keep,       \* bound: an event left the window when Keep newer ones came
  MaxFaults   \* bound: killed heartbeats and failed statements

SpendingAssumption ==
  /\ IsFiniteSet(Procs) /\ Costs \subseteq Nat
  /\ {MaxCents, MaxBeats, Keep, MaxFaults} \subseteq Nat /\ MaxStreak \in Nat \ {0}

VARIABLES
  agentOf, \* the agent each heartbeat runs for
  ledger,  \* cost_events, oldest first, the last Keep of them
  newest,  \* the agent that recorded the last one
  window,  \* how many of them are no older than window_seconds
  row,     \* circuit_breaker by scope; an agent without a row reads as closed,
           \* and how long a cooldown is (the trip count) is left open
  pc,      \* the next step of each heartbeat
  seen,    \* the state of the row a heartbeat is about to replace, as it was read
  unheard, \* history: agents one of whose events was not evaluated to the end
  faults   \* faults so far

vars == <<agentOf, ledger, newest, window, row, pc, seen, unheard, faults>>

\* cooldown_until: none, in the future, in the past, or a hundred years away.
Row == [state : {"closed", "open", "half_open"},
        until : {"none", "ahead", "past", "forever"}]
Event == [idle : BOOLEAN, cents : Costs]
Closed == [state |-> "closed", until |-> "none"]

Of(a) == {p \in Procs : agentOf[p] = a}
Locked(a) == row[a].state = "open" /\ row[a].until = "forever"
Recording(p) == pc[p] \in {"velocity", "frequency", "streak", "trip", "upsert"}

\* What the three queries of _evaluate_thresholds select.
InWindow == SubSeq(ledger, Len(ledger) - window + 1, Len(ledger))
Total == FoldLeft(LAMBDA sum, e : sum + e.cents, 0, InWindow)
Busy == Len(SelectSeq(InWindow, LAMBDA e : ~e.idle))
Streak ==
  /\ Len(ledger) >= MaxStreak
  /\ \A i \in Len(ledger) - MaxStreak + 1 .. Len(ledger) : ~ledger[i].idle

Init ==
  /\ agentOf \in [Procs -> Agents]
  /\ ledger = <<>> /\ newest \in Agents /\ window = 0
  /\ row = [a \in Agents |-> Closed]
  /\ pc = [p \in Procs |-> "start"]
  /\ seen = [p \in Procs |-> "none"]
  /\ unheard = {} /\ faults = 0

Go(p, step) == pc' = [pc EXCEPT ![p] = step]
Write(a, r) == row' = [row EXCEPT ![a] = r]

-----------------------------------------------------------------------------
(* check_circuit_breaker, first thing in a heartbeat                       *)

\* Mutant: the breaker never half-opens.
CheckNeverProbing(p) ==
  /\ pc[p] = "start"
  /\ LET r == row[agentOf[p]]
     IN  Go(p, IF r.state = "open" THEN "start" ELSE "work")
  /\ UNCHANGED <<agentOf, ledger, newest, window, row, seen, unheard, faults>>

\* The row is read, and while it is open and the cooldown is not over the
\* heartbeat ends.
Check(p) ==
  /\ pc[p] = "start"
  /\ LET r == row[agentOf[p]]
     IN  Go(p, CASE r.state # "open"                    -> "work"
                 [] r.state = "open" /\ r.until = "past" -> "probe"
                 [] OTHER                                -> "start")
  /\ UNCHANGED <<agentOf, ledger, newest, window, row, seen, unheard, faults>>

\* The update to half_open names the scope only, whatever the row is by now.
HalfOpen(p) ==
  /\ pc[p] = "probe"
  /\ Write(agentOf[p], [row[agentOf[p]] EXCEPT !.state = "half_open"])
  /\ Go(p, "work")
  /\ UNCHANGED <<agentOf, ledger, newest, window, seen, unheard, faults>>

\* A check that fails lets the heartbeat through.
CheckFails(p) ==
  /\ pc[p] \in {"start", "probe"} /\ faults < MaxFaults
  /\ faults' = faults + 1
  /\ Go(p, "work")
  /\ UNCHANGED <<agentOf, ledger, newest, window, row, seen, unheard>>

-----------------------------------------------------------------------------
(* The heartbeat's work ends                                               *)

\* record_event: with nothing to do the event is idle and free.
Record(p) ==
  /\ pc[p] = "work"
  /\ \E e \in Event :
       /\ e.idle => e.cents = 0
       /\ ledger' = LET l == Append(ledger, e)
                    IN  IF Len(l) > Keep THEN Tail(l) ELSE l
  /\ newest' = agentOf[p]
  /\ window' = IF window < Keep THEN window + 1 ELSE Keep
  /\ Go(p, "velocity")
  /\ UNCHANGED <<agentOf, row, seen, unheard, faults>>

\* A workflow that raised: nothing is recorded.
Raise(p) ==
  /\ pc[p] = "work"
  /\ Go(p, "start")
  /\ UNCHANGED <<agentOf, ledger, newest, window, row, seen, unheard, faults>>

\* BillingExhaustedError: lock_permanently.
LockPermanently(p) ==
  /\ pc[p] = "work"
  /\ Write(agentOf[p], [state |-> "open", until |-> "forever"])
  /\ Go(p, "start")
  /\ UNCHANGED <<agentOf, ledger, newest, window, seen, unheard, faults>>

-----------------------------------------------------------------------------
(* _evaluate_thresholds: three queries, the first that exceeds its limit   *)
(* trips the breaker                                                       *)

Evaluate(p, from, exceeded, otherwise) ==
  /\ pc[p] = from
  /\ Go(p, IF exceeded THEN "trip" ELSE otherwise)
  /\ UNCHANGED <<agentOf, ledger, newest, window, row, seen, unheard, faults>>

Velocity(p) == Evaluate(p, "velocity", Total > MaxCents, "frequency")
Frequency(p) == Evaluate(p, "frequency", Busy > MaxBeats, "streak")
\* Mutant: the streak must exceed its limit.
ConsecutiveOffByOne(p) ==
  Evaluate(p, "streak", Streak /\ Len(ledger) > MaxStreak, "start")
Consecutive(p) == Evaluate(p, "streak", Streak, "start")

\* Mutant: the breaker is tripped again when it is open.
TripReadAnyway(p) ==
  /\ pc[p] = "trip"
  /\ LET r == row[agentOf[p]]
     IN  seen' = [seen EXCEPT ![p] = r.state] /\ Go(p, "upsert")
  /\ UNCHANGED <<agentOf, ledger, newest, window, row, unheard, faults>>

\* _trip_breaker reads the row: an open breaker is left alone.
TripRead(p) ==
  /\ pc[p] = "trip"
  /\ LET r == row[agentOf[p]]
     IN  IF r.state = "open"
         THEN Go(p, "start") /\ UNCHANGED seen
         ELSE Go(p, "upsert") /\ seen' = [seen EXCEPT ![p] = r.state]
  /\ UNCHANGED <<agentOf, ledger, newest, window, row, unheard, faults>>

\* The upsert replaces the row, whatever it is by now.
Trip(p) ==
  /\ pc[p] = "upsert"
  /\ Write(agentOf[p], [state |-> "open", until |-> "ahead"])
  /\ seen' = [seen EXCEPT ![p] = "none"]
  /\ Go(p, "start")
  /\ UNCHANGED <<agentOf, ledger, newest, window, unheard, faults>>

\* A statement fails and record_event swallows it, or the process is killed.
Fail(p) ==
  /\ pc[p] # "start" /\ faults < MaxFaults
  /\ faults' = faults + 1
  /\ unheard' = IF Recording(p) THEN unheard \cup {agentOf[p]} ELSE unheard
  /\ seen' = [seen EXCEPT ![p] = "none"]
  /\ Go(p, "start")
  /\ UNCHANGED <<agentOf, ledger, newest, window, row>>

-----------------------------------------------------------------------------
(* Time                                                                    *)

CooldownEnds(a) ==
  /\ row[a].until = "ahead"
  /\ Write(a, [row[a] EXCEPT !.until = "past"])
  /\ UNCHANGED <<agentOf, ledger, newest, window, pc, seen, unheard, faults>>

EventLeavesWindow ==
  /\ window > 0
  /\ window' = window - 1
  /\ UNCHANGED <<agentOf, ledger, newest, row, pc, seen, unheard, faults>>

-----------------------------------------------------------------------------

Heartbeat(p) ==
  \/ Check(p) \/ HalfOpen(p) \/ CheckFails(p)
  \/ Record(p) \/ Raise(p) \/ LockPermanently(p)
  \/ Velocity(p) \/ Frequency(p) \/ Consecutive(p) \/ TripRead(p) \/ Trip(p)

Next ==
  \/ \E p \in Procs : Heartbeat(p) \/ Fail(p)
  \/ \E a \in Agents : CooldownEnds(a)
  \/ EventLeavesWindow

\* Heartbeats are started again and again, and time passes.
Fairness ==
  /\ \A p \in Procs : WF_vars(Heartbeat(p))
  /\ \A a \in Agents : WF_vars(CooldownEnds(a))

Spec == Init /\ [][Next]_vars /\ Fairness

-----------------------------------------------------------------------------
(* Properties                                                              *)

\* The type invariant.
TypeOK ==
  /\ agentOf \in [Procs -> Agents]
  /\ ledger \in Seq(Event) /\ Len(ledger) <= Keep
  /\ window \in 0..Len(ledger)
  /\ newest \in Agents
  /\ row \in [Agents -> Row]
  /\ pc \in [Procs -> {"start", "probe", "work", "velocity", "frequency",
                       "streak", "trip", "upsert"}]
  /\ seen \in [Procs -> {"none", "closed", "half_open"}]
  /\ \A a \in Agents : row[a].state = "closed" <=> row[a].until = "none"
  /\ unheard \subseteq Agents

\* lock_permanently: only a manual reset clears the lock.  It is lost in one
\* way: to a heartbeat of the same agent that had read the row before.
PermanentLockHolds ==
  [][\A a \in Agents : Locked(a) /\ ~Locked(a)' =>
       \E p \in Of(a) :
         \/ pc[p] = "probe"
         \/ pc[p] = "upsert" /\ seen[p] # "open"]_vars

\* With one heartbeat at a time, as the scheduler runs an agent, the lock
\* stands against every heartbeat that begins after it.
LockStopsLoneAgent ==
  [][\A a \in Agents : Cardinality(Of(a)) = 1 /\ Locked(a) =>
       /\ Locked(a)'
       /\ faults' = faults =>
            \A p \in Of(a) : pc[p] = "start" => pc'[p] = "start"]_vars

\* A runaway is noticed: when the newest MaxStreak heartbeats of the host were
\* all busy and the agent of the newest has evaluated it, its breaker is not
\* closed.  (An idle heartbeat of any agent ends the streak.)
RunawayTrips ==
  Streak =>
    \/ row[newest].state # "closed"
    \/ newest \in unheard
    \/ \E p \in Of(newest) : Recording(p)

\* A tripped breaker is for a time only: the agent works again, unless it was
\* locked for good.
Reopens(a) ==
  (row[a].state = "open") ~> (Locked(a) \/ \E p \in Of(a) : pc[p] = "work")

\* What a permanent lock promises about every step.
LocksHold == PermanentLockHolds /\ LockStopsLoneAgent

\* What every state of the breaker satisfies.
SpendingInv == TypeOK /\ RunawayTrips

=============================================================================
