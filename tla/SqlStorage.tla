----------------------------- MODULE SqlStorage -----------------------------
(***************************************************************************)
(* The SQL backends of agents/storage behind the stores: PostgresBackend,  *)
(* which takes a connection of a pool for every call and for a whole       *)
(* transaction, and SQLiteBackend, which opens one for every call, writes  *)
(* under a lock and leaves transaction() at the interface's default.       *)
(*                                                                         *)
(* A thread makes one call after the other: a transaction of two           *)
(* statements (record_event's), an executemany of two rows, or a fetch.    *)
(* rows[t] are the statements of t's current call that are committed,      *)
(* pending[t] those executed on its connection and not committed.          *)
(*                                                                         *)
(* A connection is "broken" when the server has closed it and the client   *)
(* has not noticed, "closed" once a statement on it has failed for that.   *)
(***************************************************************************)
EXTENDS Integers, FiniteSets

CONSTANTS
  Threads,
  MinConnections, MaxConnections,
  MaxCalls,     \* calls of a thread
  MaxRestarts   \* restarts of the server, which close every connection

SqlStorageAssumption ==
  /\ IsFiniteSet(Threads)
  /\ MinConnections \in Nat /\ MaxConnections \in Nat \ {0}
  /\ MinConnections <= MaxConnections
  /\ MaxCalls \in Nat /\ MaxRestarts \in Nat

VARIABLES
  db,           \* "postgres" or "sqlite"
  pc, kind, rows, pending,
  result,       \* what the call returned: "none" yet, "ok", "raised"
  unsure,       \* history: the answer of the call's commit was lost
  conn,         \* [Threads -> Connections \cup {"none"}]: the connection in use
  idle,         \* connections in the pool: how many are open, how many broken
  lost,         \* calls <<t, n>> whose connection the pool still counts as used
  exposed,      \* history: fetches <<t, n>> done when the server restarted
  calls, restarts
pool == <<conn, idle, lost, exposed>>
vars == <<db, pc, kind, rows, pending, result, unsure, pool, calls, restarts>>

Connections == {"open", "broken", "closed"}
Kinds == {"transaction", "many", "fetch"}
Both == {1, 2}

Init ==
  /\ db \in {"postgres", "sqlite"}
  /\ pc = [t \in Threads |-> "out"] /\ kind = [t \in Threads |-> "fetch"]
  /\ rows = [t \in Threads |-> {}] /\ pending = [t \in Threads |-> {}]
  /\ result = [t \in Threads |-> "none"] /\ unsure = [t \in Threads |-> FALSE]
  /\ conn = [t \in Threads |-> "none"]
  /\ idle = [open |-> IF db = "postgres" THEN MinConnections ELSE 0, broken |-> 0]
  /\ lost = {} /\ exposed = {}
  /\ calls = [t \in Threads |-> 0] /\ restarts = 0

Used == {t \in Threads : conn[t] # "none"}
Idle == idle.open + idle.broken
\* The connections that the pool has handed out: its table of the used ones.
Taken == Cardinality(Used) + Cardinality(lost)

-----------------------------------------------------------------------------

Go(t, to) == pc' = [pc EXCEPT ![t] = to]
Returns(t, r) == result' = [result EXCEPT ![t] = r]

Call(t) ==
  /\ pc[t] = "out" /\ calls[t] < MaxCalls
  /\ calls' = [calls EXCEPT ![t] = @ + 1]
  /\ \E k \in Kinds : kind' = [kind EXCEPT ![t] = k]
  /\ rows' = [rows EXCEPT ![t] = {}] /\ unsure' = [unsure EXCEPT ![t] = FALSE]
  /\ Returns(t, "none")
  /\ Go(t, IF db = "postgres" THEN "get" ELSE "first")
  /\ UNCHANGED <<db, pending, pool, restarts>>

-----------------------------------------------------------------------------
(* PostgresBackend                                                         *)

\* _getconn: an idle connection, which may be broken, or a new one.
GetConnection(t) ==
  /\ pc[t] = "get"
  /\ \/ \E how \in {"open", "broken"} :
          /\ idle[how] > 0
          /\ idle' = [idle EXCEPT ![how] = @ - 1]
          /\ conn' = [conn EXCEPT ![t] = how]
     \/ /\ Idle = 0 /\ Taken < MaxConnections
        /\ conn' = [conn EXCEPT ![t] = "open"]
        /\ UNCHANGED idle
  /\ Go(t, "first")
  /\ UNCHANGED <<db, kind, rows, pending, result, unsure, lost, exposed, calls, restarts>>

\* The pool does not wait: PoolError when it is exhausted, the driver's error when
\* the server refuses a new connection, outside of the try that gives back.
NoConnection(t) ==
  /\ pc[t] = "get" /\ Idle = 0
  /\ Returns(t, "raised") /\ Go(t, "out")
  /\ UNCHANGED <<db, kind, rows, pending, unsure, pool, calls, restarts>>

\* One statement of the call on its connection; a fetch has nothing to commit.
Execute(t) ==
  /\ db = "postgres" /\ pc[t] \in {"first", "second"} /\ conn[t] = "open"
  /\ IF kind[t] = "fetch"
     THEN /\ Returns(t, "ok") /\ Go(t, "put")
          /\ UNCHANGED pending
     ELSE /\ pending' = [pending EXCEPT ![t] = @ \cup {IF pc[t] = "first" THEN 1 ELSE 2}]
          /\ Go(t, IF pc[t] = "first" THEN "second" ELSE "commit")
          /\ UNCHANGED result
  /\ UNCHANGED <<db, kind, rows, unsure, pool, calls, restarts>>

\* What a connection is to the client once a call of the driver failed on it.
Noticed(c) == IF c = "broken" THEN "closed" ELSE c

\* It raises: of the statement, or because the connection is broken.
Raises(t) ==
  /\ db = "postgres" /\ pc[t] \in {"first", "second"}
  /\ conn' = [conn EXCEPT ![t] = Noticed(@)]
  /\ Returns(t, "raised")
  /\ Go(t, IF kind[t] = "fetch" THEN "put" ELSE "rollback")
  /\ UNCHANGED <<db, kind, rows, pending, unsure, idle, lost, exposed, calls, restarts>>

Commit(t) ==
  /\ db = "postgres" /\ pc[t] = "commit" /\ conn[t] = "open"
  /\ rows' = [rows EXCEPT ![t] = pending[t]]
  /\ pending' = [pending EXCEPT ![t] = {}]
  /\ \/ Returns(t, "ok") /\ Go(t, "put") /\ UNCHANGED <<unsure, conn>>
     \/ /\ Returns(t, "raised") /\ Go(t, "rollback")
        /\ unsure' = [unsure EXCEPT ![t] = TRUE]
        /\ conn' = [conn EXCEPT ![t] = "closed"]
  /\ UNCHANGED <<db, kind, idle, lost, exposed, calls, restarts>>

CommitFails(t) ==
  /\ db = "postgres" /\ pc[t] = "commit" /\ conn[t] = "broken"
  /\ conn' = [conn EXCEPT ![t] = Noticed(@)]
  /\ Returns(t, "raised") /\ Go(t, "rollback")
  /\ UNCHANGED <<db, kind, rows, pending, unsure, idle, lost, exposed, calls, restarts>>

\* A rollback on a connection that is gone raises in turn; the caller gets an
\* error either way, and the finally clause is reached.
Rollback(t) ==
  /\ pc[t] = "rollback"
  /\ pending' = [pending EXCEPT ![t] = {}]
  /\ conn' = [conn EXCEPT ![t] = Noticed(@)]
  /\ Go(t, "put")
  /\ UNCHANGED <<db, kind, rows, result, unsure, idle, lost, exposed, calls, restarts>>

\* What putconn makes of the pool: it keeps a connection that it has room for
\* and does not know to be closed.
PoolAfterPut(t) ==
  IF conn[t] = "closed" \/ Idle >= MinConnections THEN idle
  ELSE [idle EXCEPT ![conn[t]] = @ + 1]

\* Before it keeps one, putconn ends the transaction that a fetch has left open.
\* On a broken connection that raises, before the pool has forgotten its use.
PutRaises(t) == conn[t] = "broken" /\ kind[t] = "fetch" /\ Idle < MinConnections

PutConnection(t) ==
  /\ pc[t] = "put"
  /\ IF PutRaises(t)
     THEN /\ lost' = lost \cup {<<t, calls[t]>>}
          /\ Returns(t, "raised")
          /\ UNCHANGED idle
     ELSE /\ idle' = PoolAfterPut(t)
          /\ UNCHANGED <<lost, result>>
  /\ conn' = [conn EXCEPT ![t] = "none"]
  /\ Go(t, "out")
  /\ UNCHANGED <<db, kind, rows, pending, unsure, exposed, calls, restarts>>

\* The server restarts: every connection is closed, what was pending is gone.
Restart ==
  /\ db = "postgres" /\ restarts < MaxRestarts
  /\ restarts' = restarts + 1
  /\ conn' = [t \in Threads |-> IF conn[t] = "open" THEN "broken" ELSE conn[t]]
  /\ idle' = [open |-> 0, broken |-> Idle]
  /\ pending' = [t \in Threads |-> {}]
  /\ exposed' = exposed \cup
       {<<t, calls[t]>> : t \in {u \in Threads : /\ pc[u] = "put" /\ kind[u] = "fetch"
                                                 /\ conn[u] = "open"}}
  /\ UNCHANGED <<db, pc, kind, rows, result, unsure, lost, calls>>

-----------------------------------------------------------------------------
(* SQLiteBackend                                                           *)

\* What one call of SQLiteBackend commits: a statement of a transaction, which
\* is the default no-op, on its own; the rows of an executemany together.
Committed(t) ==
  IF kind[t] = "transaction" THEN rows[t] \cup {IF pc[t] = "first" THEN 1 ELSE 2} ELSE Both

\* Connect, execute, commit and close, under the write lock.
WriteSqlite(t) ==
  /\ db = "sqlite" /\ pc[t] \in {"first", "second"} /\ kind[t] # "fetch"
  /\ rows' = [rows EXCEPT ![t] = Committed(t)]
  /\ IF Both \subseteq rows'[t]
     THEN Returns(t, "ok") /\ Go(t, "out")
     ELSE Go(t, "second") /\ UNCHANGED result
  /\ UNCHANGED <<db, kind, pending, unsure, pool, calls, restarts>>

ReadSqlite(t) ==
  /\ db = "sqlite" /\ pc[t] = "first" /\ kind[t] = "fetch"
  /\ Returns(t, "ok") /\ Go(t, "out")
  /\ UNCHANGED <<db, kind, rows, pending, unsure, pool, calls, restarts>>

\* Busy for longer than the timeout, or an error of the statement.
RaisesSqlite(t) ==
  /\ db = "sqlite" /\ pc[t] \in {"first", "second"}
  /\ Returns(t, "raised") /\ Go(t, "out")
  /\ UNCHANGED <<db, kind, rows, pending, unsure, pool, calls, restarts>>

-----------------------------------------------------------------------------

Next ==
  \/ \E t \in Threads :
       \/ Call(t) \/ GetConnection(t) \/ NoConnection(t)
       \/ Execute(t) \/ Raises(t) \/ Commit(t) \/ CommitFails(t) \/ Rollback(t)
       \/ PutConnection(t)
       \/ WriteSqlite(t) \/ ReadSqlite(t) \/ RaisesSqlite(t)
  \/ Restart

Spec == Init /\ [][Next]_vars

-----------------------------------------------------------------------------
(* Properties                                                              *)

TypeOK ==
  /\ db \in {"postgres", "sqlite"}
  /\ pc \in [Threads -> {"out", "get", "first", "second", "commit", "rollback", "put"}]
  /\ kind \in [Threads -> Kinds] /\ result \in [Threads -> {"none", "ok", "raised"}]
  /\ rows \in [Threads -> SUBSET Both] /\ pending \in [Threads -> SUBSET Both]
  /\ conn \in [Threads -> Connections \cup {"none"}]

\* "commits on success / rolls back on exception" (postgres.py), and an
\* executemany in both backends: when the call is over, both statements are
\* there if it returned, and none if it raised, whatever failed on the way, but
\* for a commit of which only the answer was lost.
AllOrNothing ==
  \A t \in Threads :
    /\ pc[t] = "out" /\ kind[t] # "fetch"
    /\ db = "postgres" \/ kind[t] = "many"
    => /\ result[t] = "ok" => rows[t] = Both
       /\ result[t] = "raised" => rows[t] = IF unsure[t] THEN Both ELSE {}

\* A connection is with a thread exactly while its call goes on, and every way
\* out of a call gives it back, but for a fetch that was done when the server
\* restarted: only such a one costs the pool a connection. The pool never has
\* more than it may.
ConnectionsComeBack ==
  /\ \A t \in Threads : conn[t] # "none" <=> db = "postgres" /\ pc[t] \notin {"out", "get"}
  /\ lost \subseteq exposed
  /\ Taken + Idle <= MaxConnections
  /\ Idle <= MinConnections

\* Only a restart of the server leaves broken connections in the pool: one that
\* a call found or made closed is not put back for the next call to fail on.
ClosedLeave == restarts = 0 => idle.broken = 0

SqlInv == TypeOK /\ AllOrNothing /\ ConnectionsComeBack /\ ClosedLeave

=============================================================================
