----------------------------- MODULE MemoryStore ------------------------------
(* The long-term memory of the agents (agents/memory_store.py): storing with *)
(* deduplication and eviction, and recall, by the threads of several          *)
(* processes on one database.  Threads of a process share the store and its   *)
(* lock; between processes there are the database's transactions only.        *)
EXTENDS Integers, FiniteSets

CONSTANTS
  Threads,     \* threads that use the store
  Procs,       \* operating system processes
  HostOf,      \* the process of a thread
  Backends,    \* the storage to consider, of "sqlite" and "postgres"
  Keys,        \* content hashes: content, agent and task
  Importances, \* values of importance
  MaxEntries,  \* max_entries
  MaxCalls     \* bound: calls in a behaviour

Nobody == "nobody"

MemoryStoreAssumption ==
  /\ IsFiniteSet(Threads) /\ Nobody \notin Threads
  /\ HostOf \in [Threads -> Procs]
  /\ Backends \subseteq {"sqlite", "postgres"}
  /\ Importances \subseteq Nat
  /\ {MaxEntries, MaxCalls} \subseteq Nat \ {0}

NoKey == "none"
RowIds == 1 .. MaxCalls

VARIABLES
  backend,  \* where the rows are
  rows,     \* table memories: id -> row
  used,     \* ids given out (AUTOINCREMENT)
  clock,    \* calls so far; a call's number is its timestamp
  holder,   \* the thread that holds a process's lock
  writer,   \* the thread whose SQLite transaction has the write lock
  pc,       \* where a thread is
  call,     \* its arguments and the time it took
  found,    \* the duplicate its lookup returned, or the rows it recalled
  excess    \* rows it found above the limit

vars == <<backend, rows, used, clock, holder, writer, pc, call, found,
          excess>>
tables == <<rows, used>>

Row == [key : Keys, stamp : 1 .. MaxCalls, imp : Importances, by : Procs]
NoCall == [key |-> NoKey, imp |-> 0, now |-> 0]

Present == DOMAIN rows
Host(t) == HostOf[t]

Init ==
  /\ backend \in Backends
  /\ rows = << >> /\ used = 0 /\ clock = 0
  /\ holder = [p \in Procs |-> Nobody] /\ writer = Nobody
  /\ pc = [t \in Threads |-> "idle"]
  /\ call = [t \in Threads |-> NoCall]
  /\ found = [t \in Threads |-> {}]
  /\ excess = [t \in Threads |-> 0]

Go(t, l) == pc' = [pc EXCEPT ![t] = l]

\* The call is over: the lock is released.
Return(t) ==
  /\ Go(t, "idle")
  /\ holder' = [holder EXCEPT ![Host(t)] = Nobody]
  /\ call' = [call EXCEPT ![t] = NoCall]
  /\ found' = [found EXCEPT ![t] = {}]
  /\ excess' = [excess EXCEPT ![t] = 0]

\* A statement that writes gets the database, or waits for the writer.
MayWrite(t) == writer = Nobody

\* DELETE of the n rows with the oldest updated_at.
Stalest(n) ==
  {S \in SUBSET Present :
     /\ Cardinality(S) = n
     /\ \A i \in S, j \in Present \ S : rows[i].stamp <= rows[j].stamp}

Restricted(f, S) == [i \in S |-> f[i]]

-----------------------------------------------------------------------------
(* Calls                                                                   *)

Begin(t, key, imp, l) ==
  /\ pc[t] = "idle" /\ clock < MaxCalls
  /\ clock' = clock + 1
  /\ call' = [call EXCEPT ![t] = [key |-> key, imp |-> imp, now |-> clock + 1]]
  /\ Go(t, l)
  /\ UNCHANGED <<backend, tables, holder, writer, found, excess>>

Store(t) == \E k \in Keys, i \in Importances : Begin(t, k, i, "store")
Recall(t) == Begin(t, NoKey, 0, "recall")

Lock(t, from, to) ==
  /\ pc[t] = from
  /\ holder[Host(t)] = Nobody
  /\ holder' = [holder EXCEPT ![Host(t)] = t]
  /\ Go(t, to)
  /\ UNCHANGED <<backend, tables, clock, writer, call, found, excess>>

LockStore(t) == Lock(t, "store", "lookup")
LockRecall(t) == Lock(t, "recall", "search")

-----------------------------------------------------------------------------
(* store                                                                   *)

\* The rows with the hash of the call; the lowest id is the one returned.
Same(t) == {i \in Present : rows[i].key = call[t].key}
First(t) == {i \in Same(t) : \A j \in Same(t) : i <= j}

\* Mutant: the lookup is done before the lock is taken.
LookupUnlocked(t) ==
  /\ pc[t] = "store"
  /\ holder' = holder
  /\ found' = [found EXCEPT ![t] = First(t)]
  /\ call' = call
  /\ Go(t, IF Same(t) = {} THEN "insert" ELSE "bump")
  /\ UNCHANGED <<backend, tables, clock, writer, excess>>

\* SELECT by content_hash.
Lookup(t) ==
  /\ pc[t] = "lookup"
  /\ found' = [found EXCEPT ![t] = First(t)]
  /\ call' = [call EXCEPT ![t].imp =
       IF \E i \in First(t) : rows[i].imp > @
       THEN rows[CHOOSE i \in First(t) : TRUE].imp ELSE @]
  /\ Go(t, IF Same(t) = {} THEN "insert" ELSE "bump")
  /\ UNCHANGED <<backend, tables, clock, holder, writer, excess>>

\* A hit: the row's time and importance are written, if it is still there.
Bump(t) ==
  /\ pc[t] = "bump" /\ MayWrite(t)
  /\ rows' = [i \in Present |->
       IF i \in found[t]
       THEN [rows[i] EXCEPT !.stamp = call[t].now, !.imp = call[t].imp]
       ELSE rows[i]]
  /\ Return(t)
  /\ UNCHANGED <<backend, used, clock, writer>>

NewRow(t) == [key |-> call[t].key, stamp |-> call[t].now, imp |-> call[t].imp,
              by |-> Host(t)]
With(t, id) == [i \in Present \cup {id} |-> IF i = id THEN NewRow(t) ELSE rows[i]]

\* SQLite: the insert opens a transaction that stays open while the embedding
\* server is asked.
OpenInsert(t) ==
  /\ pc[t] = "insert" /\ backend = "sqlite" /\ MayWrite(t)
  /\ writer' = t
  /\ Go(t, "embed")
  /\ UNCHANGED <<backend, tables, clock, holder, call, found, excess>>

\* The row, its embedding (left out here), the eviction of the stalest
\* rows above the limit: one transaction.
Commit(t) ==
  /\ pc[t] = "embed"
  /\ used' = used + 1
  /\ LET all == With(t, used')
         over == Cardinality(DOMAIN all) - MaxEntries
     IN  \E gone \in SUBSET DOMAIN all :
           /\ Cardinality(gone) = IF over > 0 THEN over ELSE 0
           /\ \A i \in gone, j \in DOMAIN all \ gone : all[i].stamp <= all[j].stamp
           /\ rows' = Restricted(all, DOMAIN all \ gone)
  /\ writer' = Nobody
  /\ Return(t)
  /\ UNCHANGED <<backend, clock>>

\* Postgres: insert, count and delete are transactions of their own.
Insert(t) ==
  /\ pc[t] = "insert" /\ backend = "postgres"
  /\ used' = used + 1
  /\ rows' = With(t, used')
  /\ Go(t, "count")
  /\ UNCHANGED <<backend, clock, holder, writer, call, found, excess>>

Over == Cardinality(Present) - MaxEntries

Count(t) ==
  /\ pc[t] = "count" /\ Over > 0
  /\ excess' = [excess EXCEPT ![t] = Over]
  /\ Go(t, "evict")
  /\ UNCHANGED <<backend, tables, clock, holder, writer, call, found>>

CountFits(t) ==
  /\ pc[t] = "count" /\ Over <= 0
  /\ Return(t)
  /\ UNCHANGED <<backend, tables, clock, writer>>

Evict(t) ==
  /\ pc[t] = "evict"
  /\ \E gone \in Stalest(excess[t]) \cup (IF excess[t] > Cardinality(Present)
                                          THEN {Present} ELSE {}) :
       /\ rows' = Restricted(rows, Present \ gone)
  /\ Return(t)
  /\ UNCHANGED <<backend, used, clock, writer>>

-----------------------------------------------------------------------------
(* recall                                                                  *)

\* The ranked rows, cut and filtered by owner: any rows, as far as this model
\* goes.  What is found is touched, and an empty result writes nothing.
Search(t) ==
  /\ pc[t] = "search"
  /\ \E S \in SUBSET Present :
       IF S = {}
       THEN Return(t)
       ELSE /\ found' = [found EXCEPT ![t] = S]
            /\ Go(t, "touch")
            /\ UNCHANGED <<holder, call, excess>>
  /\ UNCHANGED <<backend, tables, clock, writer>>

\* Recall keeps a memory young: in SQLite it is evicted the later for it, in
\* Postgres only its access count moves.
Touch(t) ==
  /\ pc[t] = "touch" /\ MayWrite(t)
  /\ rows' = [i \in Present |->
       IF i \in found[t] /\ backend = "sqlite"
       THEN [rows[i] EXCEPT !.stamp = call[t].now] ELSE rows[i]]
  /\ Return(t)
  /\ UNCHANGED <<backend, used, clock, writer>>

\* Fifteen seconds behind another process's transaction: "database is locked".
Locked(t) ==
  /\ pc[t] \in {"bump", "touch"} \/ (pc[t] = "insert" /\ backend = "sqlite")
  /\ ~MayWrite(t)
  /\ Return(t)
  /\ UNCHANGED <<backend, tables, clock, writer>>

Step(t) ==
  \/ LockStore(t) \/ LockRecall(t)
  \/ Lookup(t) \/ Bump(t) \/ OpenInsert(t) \/ Commit(t)
  \/ Insert(t) \/ Count(t) \/ CountFits(t) \/ Evict(t)
  \/ Search(t) \/ Touch(t) \/ Locked(t)

Next == \E t \in Threads : Store(t) \/ Recall(t) \/ Step(t)

Spec == Init /\ [][Next]_vars

-----------------------------------------------------------------------------
(* Properties                                                              *)

\* The type invariant.
TypeOK ==
  /\ Present \subseteq RowIds /\ \A i \in Present : rows[i] \in Row
  /\ used \in 0 .. MaxCalls
  /\ holder \in [Procs -> Threads \cup {Nobody}] /\ writer \in Threads \cup {Nobody}
  /\ found \in [Threads -> SUBSET RowIds] /\ excess \in [Threads -> Nat]

\* The lock makes lookup and insert one step among the threads of a process:
\* no process writes the same memory twice, whatever other processes do and
\* whatever was evicted or failed in between.
OncePerProcess ==
  \A i, j \in Present :
    rows[i].key = rows[j].key /\ rows[i].by = rows[j].by => i = j

\* A SQLite store never has more rows than its limit, not even with several
\* processes; a Postgres store has one more per thread that has not counted.
CapacityHolds ==
  Cardinality(Present) <= MaxEntries +
    (IF backend = "sqlite" THEN 0
     ELSE Cardinality({t \in Threads : pc[t] \in {"count", "evict"}}))

\* What every state of the memory satisfies.
MemoryInv == TypeOK /\ OncePerProcess /\ CapacityHolds

=============================================================================
