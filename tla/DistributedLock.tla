--------------------------- MODULE DistributedLock ---------------------------
(***************************************************************************)
(* The lock of agents/storage: RedisDistributedLock, a key with a lease,   *)
(* and LocalLock, a threading.Lock behind the same interface.  A thread    *)
(* uses a lock object; threads may share one, as they would share the      *)
(* threading.Lock it replaces, or have create_lock make each its own.      *)
(*                                                                         *)
(* object[t] is the object thread t uses, key the object whose token is    *)
(* the value of the key in Redis and ttl what is left of the key's life,   *)
(* mutex[o] the threading.Lock inside object o.  patience[t] is how long   *)
(* acquire still waits, lease[t] (history) what is left of the time t may  *)
(* count on.                                                               *)
(***************************************************************************)
EXTENDS Integers, FiniteSets

CONSTANTS
  Threads,      \* threads of all the processes that use one lock name
  Objects,      \* lock objects made for that name
  None,         \* no object
  Ttl,          \* ttl_seconds
  MaxCalls,     \* acquisitions a thread asks for
  MaxCrashes    \* processes that are killed

DistributedLockAssumption ==
  /\ None \notin Objects /\ Ttl \in Nat \ {0}
  /\ MaxCalls \in Nat /\ MaxCrashes \in Nat

VARIABLES backend, object, pc, patience, key, ttl, owned, mutex, lease, asked, crashes
vars == <<backend, object, pc, patience, key, ttl, owned, mutex, lease, asked, crashes>>
fixed == <<backend, object>>

Forever == -1

Init ==
  /\ backend \in {"redis", "local"}
  /\ object \in [Threads -> Objects]
  /\ pc = [t \in Threads |-> "out"]
  /\ patience = [t \in Threads |-> 0]
  /\ key = None /\ ttl = 0
  /\ owned = [o \in Objects |-> FALSE]
  /\ mutex = [o \in Objects |-> FALSE]
  /\ lease = [t \in Threads |-> 0]
  /\ asked = [t \in Threads |-> 0]
  /\ crashes = 0

-----------------------------------------------------------------------------
(* acquire                                                                 *)

\* The call: it waits for ever, does not wait, or waits a while.
Ask(t) ==
  /\ pc[t] = "out" /\ asked[t] < MaxCalls
  /\ asked' = [asked EXCEPT ![t] = @ + 1]
  /\ \E w \in {Forever, 0, 1} : patience' = [patience EXCEPT ![t] = w]
  /\ pc' = [pc EXCEPT ![t] = "acquire"]
  /\ UNCHANGED <<fixed, key, ttl, owned, mutex, lease, crashes>>

Enter(t) ==
  /\ pc' = [pc EXCEPT ![t] = "in"]
  /\ lease' = [lease EXCEPT ![t] = IF backend = "redis" THEN Ttl ELSE 0]
  /\ patience' = [patience EXCEPT ![t] = 0]

\* SET NX EX: one attempt of the loop that finds no key.
SetKey(t) ==
  /\ backend = "redis" /\ pc[t] = "acquire" /\ key = None
  /\ key' = object[t] /\ ttl' = Ttl
  /\ owned' = [owned EXCEPT ![object[t]] = TRUE]
  /\ Enter(t)
  /\ UNCHANGED <<fixed, mutex, asked, crashes>>

\* threading.Lock.acquire.
Lock(t) ==
  /\ backend = "local" /\ pc[t] = "acquire" /\ ~mutex[object[t]]
  /\ mutex' = [mutex EXCEPT ![object[t]] = TRUE]
  /\ Enter(t)
  /\ UNCHANGED <<fixed, key, ttl, owned, asked, crashes>>

Taken(t) == IF backend = "redis" THEN key # None ELSE mutex[object[t]]

\* acquire returns False: the lock is taken and the patience is used up.
GiveUp(t) ==
  /\ pc[t] = "acquire" /\ patience[t] = 0 /\ Taken(t)
  /\ pc' = [pc EXCEPT ![t] = "out"]
  /\ UNCHANGED <<fixed, patience, key, ttl, owned, mutex, lease, asked, crashes>>

-----------------------------------------------------------------------------
(* release                                                                 *)

\* What a bare delete would leave of the key.
KeyAfterDelete(o) == None
\* What the Lua script leaves of it: get, compare and delete are one step.
KeyAfterRelease(o) == IF key = o THEN None ELSE key

Leave(t) ==
  /\ pc' = [pc EXCEPT ![t] = "out"]
  /\ lease' = [lease EXCEPT ![t] = 0]

\* An object that does not own the key returns at once.
Release(t) ==
  /\ backend = "redis" /\ pc[t] = "in"
  /\ LET o == object[t] IN
       IF owned[o]
       THEN /\ key' = KeyAfterRelease(o)
            /\ ttl' = IF key' = None THEN 0 ELSE ttl
            /\ owned' = [owned EXCEPT ![o] = FALSE]
       ELSE UNCHANGED <<key, ttl, owned>>
  /\ Leave(t)
  /\ UNCHANGED <<fixed, patience, mutex, asked, crashes>>

Unlock(t) ==
  /\ backend = "local" /\ pc[t] = "in"
  /\ mutex' = [mutex EXCEPT ![object[t]] = FALSE]
  /\ Leave(t)
  /\ UNCHANGED <<fixed, patience, key, ttl, owned, asked, crashes>>

-----------------------------------------------------------------------------

\* Time passes: the key expires when its life is over, waiters lose patience.
Tick ==
  /\ ttl' = IF ttl = 0 THEN 0 ELSE ttl - 1
  /\ key' = IF ttl <= 1 THEN None ELSE key
  /\ lease' = [t \in Threads |-> IF lease[t] = 0 THEN 0 ELSE lease[t] - 1]
  /\ patience' = [t \in Threads |-> IF patience[t] > 0 THEN patience[t] - 1 ELSE patience[t]]
  /\ UNCHANGED <<fixed, pc, owned, mutex, asked, crashes>>

\* The process whose threads use object o is killed; what it held stays.  A
\* threading.Lock dies with the process and all its users.
Crash(o) ==
  /\ backend = "redis" /\ crashes < MaxCrashes
  /\ \E t \in Threads : object[t] = o /\ pc[t] # "gone"
  /\ crashes' = crashes + 1
  /\ pc' = [t \in Threads |-> IF object[t] = o THEN "gone" ELSE pc[t]]
  /\ lease' = [t \in Threads |-> IF object[t] = o THEN 0 ELSE lease[t]]
  /\ patience' = [t \in Threads |-> IF object[t] = o THEN 0 ELSE patience[t]]
  /\ UNCHANGED <<fixed, key, ttl, owned, mutex, asked>>

Next ==
  \/ \E t \in Threads : Ask(t) \/ SetKey(t) \/ Lock(t) \/ GiveUp(t) \/ Release(t) \/ Unlock(t)
  \/ \E o \in Objects : Crash(o)
  \/ Tick

Spec == Init /\ [][Next]_vars

-----------------------------------------------------------------------------
(* Properties                                                              *)

TypeOK ==
  /\ backend \in {"redis", "local"} /\ object \in [Threads -> Objects]
  /\ pc \in [Threads -> {"out", "acquire", "in", "gone"}]
  /\ patience \in [Threads -> {Forever, 0, 1}]
  /\ key \in Objects \cup {None} /\ ttl \in 0..Ttl /\ (key = None <=> ttl = 0)
  /\ owned \in [Objects -> BOOLEAN] /\ mutex \in [Objects -> BOOLEAN]
  /\ lease \in [Threads -> 0..Ttl]

\* t is in its critical section, with time left.
Safe(t) == pc[t] = "in" /\ (backend = "local" \/ lease[t] > 0)

Alone(t) == \A s \in Threads \ {t} : object[s] # object[t]

\* The lock excludes these two: in Redis threads with an object, and so a token,
\* of their own; in one process threads that share the object.  (When two threads
\* share a Redis lock, the one that outstayed its lease deletes the key the
\* other has set since, their token being the same; and two LocalLocks of one
\* name do not know each other.)
Guarded(s, t) ==
  IF backend = "redis" THEN Alone(s) /\ Alone(t) ELSE object[s] = object[t]

\* "Mutual exclusion lock" (base.py): two threads the lock guards against each
\* other are never both in their critical sections, as long as neither has
\* outstayed its lease; late releases, retries and kills change nothing.
Exclusion ==
  \A s, t \in Threads : s # t /\ Guarded(s, t) => ~(Safe(s) /\ Safe(t))

\* A thread within its lease has the key, whatever others, late in releasing
\* theirs, or killed with it, did to it.
LeaseIsHeld ==
  \A t \in Threads :
    backend = "redis" /\ Safe(t) /\ Alone(t) =>
      key = object[t] /\ ttl >= lease[t] /\ owned[object[t]]

LockInv == TypeOK /\ Exclusion /\ LeaseIsHeld

=============================================================================
