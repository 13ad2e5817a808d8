------------------------------ MODULE BackendPool ------------------------------
(***************************************************************************)
(* agents/backend_pool.py: the threads of one agent process share a pool   *)
(* of LLM backends, each behind a circuit breaker.  A step is what a       *)
(* thread does under one lock, or between two of them, so the strategy's   *)
(* survey, the second is_available check, the call and the recording of    *)
(* its outcome interleave with those of the other threads.                 *)
(***************************************************************************)
EXTENDS Integers, Sequences, FiniteSets

CONSTANTS
  Threads,     \* threads that call generate()
  Backends,    \* the configured backends
  Entries,     \* the same as a sequence, in configuration order
  Strategies,  \* the strategies the pool may be built with
  MaxFailures, \* max_consecutive_failures
  Period,      \* bound: _rr_index is kept modulo this multiple of 1..N
  MaxErrors    \* bound: backend calls that fail

ASSUME PoolAssumption ==
  /\ Entries \in Seq(Backends)
  /\ Backends = {Entries[i] : i \in 1..Len(Entries)}
  /\ \A i, j \in 1..Len(Entries) : Entries[i] = Entries[j] => i = j
  /\ Len(Entries) > 0
  /\ Strategies \subseteq {"failover", "round_robin", "least_loaded"}
  /\ MaxFailures \in Nat \ {0}
  /\ MaxErrors \in Nat
  /\ Period \in Nat \ {0}

ASSUME ThreadsFinite == IsFiniteSet(Threads)

VARIABLES
  strategy, \* fixed when the pool is built
  circuit,  \* circuit_state of each backend
  fails,    \* consecutive_failures of each backend
  cooled,   \* recovery_timeout has passed since last_failure_time
  inflight, \* total_inflight of each backend
  rr,       \* _rr_index modulo Period
  pc,       \* where each thread stands in generate()
  cursor,   \* position of the survey of _select_order in Entries
  order,    \* entries the thread has still to try
  at,       \* backend the thread has chosen
  verdict,  \* outcome of the thread's last backend call
  tried,    \* history: backends that failed in this generate()
  passed,   \* history: backends it found unavailable
  raised,   \* history: its last generate() raised
  errors

breaker == <<circuit, fails, cooled>>
shared == <<strategy, breaker, inflight, rr>>
thread == <<pc, cursor, order, at, verdict>>
history == <<tried, passed, raised>>
vars == <<shared, thread, history, errors>>

None == "none"
Circuits == {"closed", "open", "half_open"}
Pcs == {"idle", "survey", "try", "ready", "call", "release"}

Init ==
  /\ strategy \in Strategies
  /\ circuit = [b \in Backends |-> "closed"]
  /\ fails = [b \in Backends |-> 0]
  /\ cooled = [b \in Backends |-> FALSE]
  /\ inflight = [b \in Backends |-> 0]
  /\ rr = 0
  /\ pc = [t \in Threads |-> "idle"]
  /\ cursor = [t \in Threads |-> 1]
  /\ order = [t \in Threads |-> <<>>]
  /\ at = [t \in Threads |-> None]
  /\ verdict = [t \in Threads |-> "ok"]
  /\ tried = [t \in Threads |-> {}]
  /\ passed = [t \in Threads |-> {}]
  /\ raised = [t \in Threads |-> FALSE]
  /\ errors = 0

Goto(t, p) == pc' = [pc EXCEPT ![t] = p]

-----------------------------------------------------------------------------
(* The circuit breaker of one backend                                      *)

\* Mutant: only a closed circuit cools down, so an open one stays open.
CooledOnlyClosed(b) == circuit[b] = "closed" /\ cooled[b]

\* recovery_timeout has passed since the circuit opened.
Cooled(b) == circuit[b] = "open" /\ cooled[b]

\* is_available, the answer; ...
Available(b) == circuit[b] # "open" \/ Cooled(b)

\* ... and its effect: an open circuit that has cooled down half-opens.
NoteChecked(b) ==
  circuit' = IF Cooled(b) THEN [circuit EXCEPT ![b] = "half_open"] ELSE circuit

RecordSuccess(b) ==
  /\ circuit' = [circuit EXCEPT ![b] = "closed"]
  /\ fails' = [fails EXCEPT ![b] = 0]
  /\ UNCHANGED cooled

RecordFailure(b) ==
  /\ fails' = [fails EXCEPT ![b] = @ + 1]
  /\ cooled' = [cooled EXCEPT ![b] = FALSE]
  /\ circuit' = IF circuit[b] = "half_open" \/ fails[b] + 1 >= MaxFailures
                THEN [circuit EXCEPT ![b] = "open"] ELSE circuit

\* Time passes: recovery_timeout since the last failure of an open backend.
CoolDown(b) ==
  /\ circuit[b] = "open"
  /\ ~cooled[b]
  /\ cooled' = [cooled EXCEPT ![b] = TRUE]
  /\ UNCHANGED <<strategy, circuit, fails, inflight, rr, thread, history, errors>>

-----------------------------------------------------------------------------
(* generate(): the strategy selects an order                               *)

Begin(t) ==
  /\ pc[t] = "idle"
  /\ Goto(t, "survey")
  /\ cursor' = [cursor EXCEPT ![t] = 1]
  /\ order' = [order EXCEPT ![t] = <<>>]
  /\ verdict' = [verdict EXCEPT ![t] = "ok"]
  /\ tried' = [tried EXCEPT ![t] = {}]
  /\ passed' = [passed EXCEPT ![t] = {}]
  /\ raised' = [raised EXCEPT ![t] = FALSE]
  /\ UNCHANGED <<shared, at, errors>>

\* _select_order looks at one entry after the other.
Survey(t) ==
  /\ pc[t] = "survey"
  /\ cursor[t] <= Len(Entries)
  /\ cursor' = [cursor EXCEPT ![t] = @ + 1]
  /\ LET b == Entries[cursor[t]] IN
       /\ NoteChecked(b)
       /\ order' = [order EXCEPT ![t] = IF Available(b) THEN Append(@, b) ELSE @]
       /\ passed' = [passed EXCEPT ![t] = IF Available(b) THEN @ ELSE @ \cup {b}]
  /\ UNCHANGED <<strategy, fails, cooled, inflight, rr, pc, at, verdict,
                 tried, raised, errors>>

\* Mutant: the turn starts one entry further, and does not wrap around.
RotatedWithoutWrap(n) == [i \in 1..n |-> IF i + (rr % n) > n THEN n ELSE i + (rr % n)]

\* available[idx:] + available[:idx], as positions.
Rotated(n) == [i \in 1..n |-> ((i - 1 + (rr % n)) % n) + 1]

\* The positions of s by rising load, entries of equal load as they stand.
SortsByLoad(p, s) ==
  \A i, j \in 1..Len(s) : i < j =>
    \/ inflight[s[p[i]]] < inflight[s[p[j]]]
    \/ inflight[s[p[i]]] = inflight[s[p[j]]] /\ p[i] < p[j]

\* With every circuit open all entries are returned, as configured.
Arrange(t) ==
  /\ pc[t] = "survey"
  /\ cursor[t] > Len(Entries)
  /\ LET s == order[t]
         n == Len(s)
     IN \/ /\ n = 0
           /\ order' = [order EXCEPT ![t] = Entries]
           /\ UNCHANGED rr
        \/ /\ n > 0 /\ strategy = "failover"
           /\ UNCHANGED <<order, rr>>
        \/ /\ n > 0 /\ strategy = "round_robin"
           /\ order' = [order EXCEPT ![t] = [i \in 1..n |-> s[Rotated(n)[i]]]]
           /\ rr' = (rr + 1) % Period
        \/ /\ n > 0 /\ strategy = "least_loaded"
           /\ \E p \in [1..n -> 1..n] :
                /\ SortsByLoad(p, s)
                /\ order' = [order EXCEPT ![t] = [i \in 1..n |-> s[p[i]]]]
           /\ UNCHANGED rr
  /\ Goto(t, "try")
  /\ UNCHANGED <<strategy, breaker, inflight, cursor, at, verdict, history, errors>>

-----------------------------------------------------------------------------
(* generate(): the entries are tried in that order                         *)

\* An entry that has become unavailable since the survey is passed over.
PassOver(t) ==
  /\ pc[t] = "try"
  /\ order[t] # <<>>
  /\ ~Available(Head(order[t]))
  /\ order' = [order EXCEPT ![t] = Tail(@)]
  /\ passed' = [passed EXCEPT ![t] = @ \cup {Head(order[t])}]
  /\ UNCHANGED <<shared, pc, cursor, at, verdict, tried, raised, errors>>

\* is_available, asked again.
Choose(t) ==
  /\ pc[t] = "try"
  /\ order[t] # <<>>
  /\ Available(Head(order[t]))
  /\ NoteChecked(Head(order[t]))
  /\ at' = [at EXCEPT ![t] = Head(order[t])]
  /\ order' = [order EXCEPT ![t] = Tail(@)]
  /\ Goto(t, "ready")
  /\ UNCHANGED <<strategy, fails, cooled, inflight, rr, cursor, verdict,
                 history, errors>>

\* The call leaves; the circuit may have changed since it was asked.
StartCall(t) ==
  /\ pc[t] = "ready"
  /\ inflight' = [inflight EXCEPT ![at[t]] = @ + 1]
  /\ Goto(t, "call")
  /\ UNCHANGED <<strategy, breaker, rr, cursor, order, at, verdict,
                 tried, passed, raised, errors>>

CallSucceeds(t) ==
  /\ pc[t] = "call"
  /\ RecordSuccess(at[t])
  /\ verdict' = [verdict EXCEPT ![t] = "ok"]
  /\ Goto(t, "release")
  /\ UNCHANGED <<strategy, inflight, rr, cursor, order, at, history, errors>>

\* retry_llm_call gave up, or the error was not worth a retry.
CallFails(t) ==
  /\ pc[t] = "call"
  /\ errors < MaxErrors
  /\ errors' = errors + 1
  /\ RecordFailure(at[t])
  /\ verdict' = [verdict EXCEPT ![t] = "failed"]
  /\ tried' = [tried EXCEPT ![t] = @ \cup {at[t]}]
  /\ Goto(t, "release")
  /\ UNCHANGED <<strategy, inflight, rr, cursor, order, at, passed, raised>>

GiveBack(t) == inflight' = [inflight EXCEPT ![at[t]] = @ - 1]

\* The finally clause, then the return or the next entry.
ReleaseCall(t) ==
  /\ pc[t] = "release"
  /\ GiveBack(t)
  /\ at' = [at EXCEPT ![t] = None]
  /\ Goto(t, IF verdict[t] = "ok" THEN "idle" ELSE "try")
  /\ UNCHANGED <<strategy, breaker, rr, cursor, order, verdict,
                 tried, passed, raised, errors>>

\* "all backends failed".
Raise(t) ==
  /\ pc[t] = "try"
  /\ order[t] = <<>>
  /\ raised' = [raised EXCEPT ![t] = TRUE]
  /\ Goto(t, "idle")
  /\ UNCHANGED <<shared, cursor, order, at, verdict, tried, passed, errors>>

-----------------------------------------------------------------------------

Advance(t) ==
  \/ Survey(t) \/ Arrange(t) \/ PassOver(t) \/ Choose(t) \/ StartCall(t)
  \/ CallSucceeds(t) \/ CallFails(t) \/ ReleaseCall(t) \/ Raise(t)

Next ==
  \/ \E b \in Backends : CoolDown(b)
  \/ \E t \in Threads : Begin(t) \/ Advance(t)

\* Every backend call ends (the clients set timeouts), clocks run, and the
\* agent keeps calling its model.
Fairness ==
  /\ \A b \in Backends : WF_vars(CoolDown(b))
  /\ \A t \in Threads : WF_vars(Begin(t)) /\ WF_vars(Advance(t))

Spec == Init /\ [][Next]_vars /\ Fairness

-----------------------------------------------------------------------------
(* Properties                                                              *)

Calling(b) == {t \in Threads : pc[t] \in {"call", "release"} /\ at[t] = b}

\* The type invariant; a thread past its choice has a backend.
TypeOK ==
  /\ strategy \in Strategies
  /\ circuit \in [Backends -> Circuits]
  /\ fails \in [Backends -> Nat]
  /\ cooled \in [Backends -> BOOLEAN]
  /\ inflight \in [Backends -> Nat]
  /\ rr \in 0..(Period - 1)
  /\ pc \in [Threads -> Pcs]
  /\ cursor \in [Threads -> 1..(Len(Entries) + 1)]
  /\ order \in [Threads -> Seq(Backends)]
  /\ at \in [Threads -> Backends \cup {None}]
  /\ verdict \in [Threads -> {"ok", "failed"}]
  /\ tried \in [Threads -> SUBSET Backends]
  /\ passed \in [Threads -> SUBSET Backends]
  /\ raised \in [Threads -> BOOLEAN]
  /\ errors \in Nat
  /\ \A t \in Threads : pc[t] \in {"ready", "call", "release"} => at[t] \in Backends

\* A circuit is closed exactly while its failures in a row are below the
\* threshold, whatever late answers of other threads do to it.
BreakerMatchesCount ==
  \A b \in Backends : circuit[b] = "closed" <=> fails[b] < MaxFailures

\* The load least_loaded sorts by is the number of calls really under way: no
\* way out of a call forgets to give its unit back.
InflightIsCallsUnderWay ==
  \A b \in Backends : inflight[b] = Cardinality(Calling(b))

\* generate() raises only after each backend failed it or was found open, and
\* it never asks a backend twice.
RaisesOnlyAfterAll ==
  \A t \in Threads :
    /\ raised[t] => tried[t] \cup passed[t] = Backends
    /\ pc[t] = "call" => at[t] \notin tried[t]

\* Failover sends a request past an earlier backend only when that one failed
\* this very request or was found open by it.
FailoverKeepsPriority ==
  strategy = "failover" =>
    \A t \in Threads : \A i, j \in 1..Len(Entries) :
      pc[t] = "call" /\ at[t] = Entries[j] /\ i < j =>
        Entries[i] \in tried[t] \cup passed[t]

\* An opened circuit closes again once its backend is well, for the primary
\* and, in round-robin, for every backend.
CircuitRecovers ==
  \A b \in Backends :
    (circuit[b] = "open" /\ (b = Entries[1] \/ strategy = "round_robin"))
      ~> circuit[b] = "closed"

\* What every state of a pool satisfies.
PoolInv ==
  /\ TypeOK /\ BreakerMatchesCount /\ InflightIsCallsUnderWay
  /\ RaisesOnlyAfterAll /\ FailoverKeepsPriority

=============================================================================
