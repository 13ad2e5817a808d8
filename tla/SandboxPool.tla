----------------------------- MODULE SandboxPool -----------------------------
(***************************************************************************)
(* The pool of sandbox containers the code-running tools share             *)
(* (agents/sandbox/client.py): the threads that run a tool, the            *)
(* maintenance thread and the thread that starts and stops the pool.  The  *)
(* queue is a thread-safe FIFO, the list of all handles has a lock, and    *)
(* nothing else is synchronised.  The container server is external: it     *)
(* creates and kills containers on request, in time or later than the      *)
(* client waits, and lets them end with their time to live, which is also  *)
(* the age at which the client calls a handle expired.                     *)
(***************************************************************************)
EXTENDS Integers, Sequences, FiniteSets, SequencesExt

CONSTANTS
    Workers,       \* threads that call tools
    PoolSize,      \* config.pool_size
    MaxSandboxes,  \* bound: containers created
    MaxCalls,      \* bound: tool calls
    MaxStarts      \* bound: calls of start

ASSUME SandboxPoolAssumption ==
    /\ IsFiniteSet(Workers)
    /\ {PoolSize, MaxSandboxes, MaxCalls, MaxStarts} \subseteq Nat

Ids == 1 .. MaxSandboxes
None == 0

VARIABLES
    lazy,       \* the pool is warmed by the first call, not by start
    started, stopping, warmed,  \* _started, _stop_event, _warmed
    pool,       \* the queue of idle sandboxes
    handles,    \* _all_handles
    used,       \* containers created so far
    alive,      \* those the server still runs
    late,       \* history: those it created after the client had given up
    old,        \* those whose time to live is over
    pc,         \* where each worker is
    held,       \* the sandbox it works with
    warming,    \* how many it still has to create for the pool
    calls,      \* tool calls so far
    mpc,        \* where the maintenance thread is
    fresh, expired, mine,   \* what it took out of the queue, or has created
    missing,    \* how many sandboxes it still has to create
    opc,        \* where the thread that starts and stops the pool is
    doomed,     \* the sandboxes stop has still to kill
    starts      \* calls of start so far

lifecycle == <<lazy, started, stopping, starts>>
server == <<used, alive, late>>
worker == <<pc, held, warming, calls>>
maintenance == <<mpc, fresh, expired, mine, missing>>
owner == <<opc, doomed>>
vars == <<lifecycle, warmed, pool, handles, server, old, worker, maintenance, owner>>

Init ==
    /\ lazy \in BOOLEAN
    /\ started = FALSE /\ stopping = FALSE /\ warmed = FALSE
    /\ pool = << >> /\ handles = {} /\ used = 0 /\ alive = {} /\ late = {} /\ old = {}
    /\ pc = [w \in Workers |-> "idle"]
    /\ held = [w \in Workers |-> None]
    /\ warming = [w \in Workers |-> 0]
    /\ calls = 0
    /\ mpc = "off" /\ fresh = << >> /\ expired = {} /\ mine = None /\ missing = 0
    /\ opc = "new" /\ doomed = {} /\ starts = 0

\* _create_sandbox: the server refuses, or a container is created; the client
\* gets it, or gave up after sixty seconds without calling the creation off.
Created(c) ==
    \/ c = None /\ UNCHANGED server
    \/ /\ used < MaxSandboxes
       /\ used' = used + 1 /\ alive' = alive \cup {used + 1}
       /\ \/ c = used + 1 /\ UNCHANGED late
          \/ c = None /\ late' = late \cup {used + 1}

\* _kill_sandbox: a failure is logged.
Kill(c) == alive' \in {alive, alive \ {c}} /\ UNCHANGED <<used, late>>

\* The time to live of a container is over.
Lapse(c) ==
    /\ c \in 1 .. used /\ c \notin old
    /\ old' = old \cup {c} /\ alive' = alive \ {c}
    /\ UNCHANGED <<lifecycle, warmed, pool, handles, used, late, worker, maintenance, owner>>

-----------------------------------------------------------------------------
(* A tool call                                                             *)

Go(w, next) == pc' = [pc EXCEPT ![w] = next]
Hold(w, c) == held' = [held EXCEPT ![w] = c]

WorkerFrame == UNCHANGED <<lifecycle, old, maintenance, owner>>

\* A tool of a graph that was built with this pool is called; the first one to
\* look warms the pool.  The look and the flag that follows it are two steps.
Call(w) ==
    /\ pc[w] = "idle" /\ starts > 0 /\ calls < MaxCalls
    /\ calls' = calls + 1
    /\ Go(w, IF warmed THEN "get" ELSE "flag")
    /\ WorkerFrame /\ UNCHANGED <<warmed, pool, handles, server, held, warming>>

Flag(w) ==
    /\ pc[w] = "flag"
    /\ warmed' = TRUE
    /\ warming' = [warming EXCEPT ![w] = PoolSize]
    /\ Go(w, "warm")
    /\ WorkerFrame /\ UNCHANGED <<pool, handles, server, held, calls>>

\* A failure to create one is logged; the loop goes on.
Warm(w) ==
    /\ pc[w] = "warm" /\ warming[w] > 0
    /\ warming' = [warming EXCEPT ![w] = @ - 1]
    /\ \E c \in Ids \cup {None} :
         /\ Created(c)
         /\ pool' = IF c = None THEN pool ELSE Append(pool, c)
         /\ Hold(w, c)
         /\ Go(w, IF c = None THEN "warm" ELSE "warmed")
    /\ WorkerFrame /\ UNCHANGED <<warmed, handles, calls>>

\* The handle is in the queue already when it is added to the list.
Warmed(w) ==
    /\ pc[w] = "warmed"
    /\ handles' = handles \cup {held[w]}
    /\ Hold(w, None) /\ Go(w, "warm")
    /\ WorkerFrame /\ UNCHANGED <<warmed, pool, server, warming, calls>>

WarmDone(w) ==
    /\ pc[w] = "warm" /\ warming[w] = 0
    /\ Go(w, "get")
    /\ WorkerFrame /\ UNCHANGED <<warmed, pool, handles, server, held, warming, calls>>

\* The head of the queue: a fresh one is taken into use, an old one is killed.
Get(w) ==
    /\ pc[w] = "get" /\ pool # << >>
    /\ Hold(w, Head(pool)) /\ pool' = Tail(pool)
    /\ Go(w, IF Head(pool) \in old THEN "replace" ELSE "run")
    /\ WorkerFrame /\ UNCHANGED <<warmed, handles, server, warming, calls>>

Replace(w) ==
    /\ pc[w] = "replace"
    /\ Kill(held[w]) /\ handles' = handles \ {held[w]}
    /\ Hold(w, None) /\ Go(w, "create")
    /\ WorkerFrame /\ UNCHANGED <<warmed, pool, warming, calls>>

\* Five seconds at an empty queue.
GetEmpty(w) ==
    /\ pc[w] = "get" /\ pool = << >>
    /\ Go(w, "create")
    /\ WorkerFrame /\ UNCHANGED <<warmed, pool, handles, server, held, warming, calls>>

\* A failure here is the failure of the tool.
Create(w) ==
    /\ pc[w] = "create"
    /\ \E c \in Ids \cup {None} :
         Created(c) /\ Hold(w, c) /\ Go(w, IF c = None THEN "idle" ELSE "track")
    /\ WorkerFrame /\ UNCHANGED <<warmed, pool, handles, warming, calls>>

Track(w) ==
    /\ pc[w] = "track"
    /\ handles' = handles \cup {held[w]}
    /\ Go(w, "run")
    /\ WorkerFrame /\ UNCHANGED <<warmed, pool, server, held, warming, calls>>

\* Mutant: a sandbox goes back to the pool before the command is run.
RunReturned(w) ==
    /\ pc[w] = "run"
    /\ pool' = Append(pool, held[w])
    /\ Go(w, "release")
    /\ WorkerFrame /\ UNCHANGED <<warmed, handles, server, held, warming, calls>>

\* The command's result, or sixty seconds without one: the thread goes on.
Run(w) ==
    /\ pc[w] = "run"
    /\ Go(w, "release")
    /\ WorkerFrame /\ UNCHANGED <<warmed, pool, handles, server, held, warming, calls>>

\* The event is looked at, then the handle is put back or killed.
Release(w) ==
    /\ pc[w] = "release"
    /\ Go(w, IF stopping THEN "kill" ELSE "put")
    /\ WorkerFrame /\ UNCHANGED <<warmed, pool, handles, server, held, warming, calls>>

Put(w) ==
    /\ pc[w] = "put"
    /\ pool' = Append(pool, held[w])
    /\ Hold(w, None) /\ Go(w, "idle")
    /\ WorkerFrame /\ UNCHANGED <<warmed, handles, server, warming, calls>>

KillReleased(w) ==
    /\ pc[w] = "kill"
    /\ Kill(held[w])
    /\ Hold(w, None) /\ Go(w, "idle")
    /\ WorkerFrame /\ UNCHANGED <<warmed, pool, handles, warming, calls>>

Step(w) ==
    \/ Flag(w) \/ Warm(w) \/ Warmed(w) \/ WarmDone(w)
    \/ Get(w) \/ GetEmpty(w) \/ Replace(w) \/ Create(w) \/ Track(w)
    \/ Run(w) \/ Release(w) \/ Put(w) \/ KillReleased(w)

-----------------------------------------------------------------------------
(* The maintenance thread, every thirty seconds                            *)

MaintenanceFrame == UNCHANGED <<lifecycle, warmed, old, worker, owner>>

Wake ==
    /\ mpc = "wait"
    /\ mpc' = IF stopping THEN "off" ELSE "drain"
    /\ MaintenanceFrame /\ UNCHANGED <<pool, handles, server, fresh, expired, mine, missing>>

\* One sandbox at a time comes out of the queue: the fresh ones too.
Drain ==
    /\ mpc = "drain" /\ pool # << >>
    /\ pool' = Tail(pool)
    /\ IF Head(pool) \in old
       THEN expired' = expired \cup {Head(pool)} /\ UNCHANGED fresh
       ELSE fresh' = Append(fresh, Head(pool)) /\ UNCHANGED expired
    /\ MaintenanceFrame /\ UNCHANGED <<handles, server, mpc, mine, missing>>

Drained ==
    /\ mpc = "drain" /\ pool = << >>
    /\ mpc' = "recycle"
    /\ MaintenanceFrame /\ UNCHANGED <<pool, handles, server, fresh, expired, mine, missing>>

Recycle ==
    /\ mpc = "recycle" /\ expired # {}
    /\ \E c \in expired :
         expired' = expired \ {c} /\ Kill(c) /\ handles' = handles \ {c}
    /\ MaintenanceFrame /\ UNCHANGED <<pool, mpc, fresh, mine, missing>>

GiveBack ==
    /\ mpc = "recycle" /\ expired = {}
    /\ pool' = pool \o fresh
    /\ fresh' = << >>
    /\ mpc' = "count"
    /\ MaintenanceFrame /\ UNCHANGED <<handles, server, expired, mine, missing>>

Count ==
    /\ mpc = "count"
    /\ missing' = IF Len(pool) < PoolSize THEN PoolSize - Len(pool) ELSE 0
    /\ mpc' = "replenish"
    /\ MaintenanceFrame /\ UNCHANGED <<pool, handles, server, fresh, expired, mine>>

\* A failure ends the round.
Replenish ==
    /\ mpc = "replenish" /\ missing > 0
    /\ \E c \in Ids \cup {None} :
         /\ Created(c)
         /\ mine' = c
         /\ pool' = IF c = None THEN pool ELSE Append(pool, c)
         /\ missing' = IF c = None THEN 0 ELSE missing - 1
         /\ mpc' = IF c = None THEN "wait" ELSE "list"
    /\ MaintenanceFrame /\ UNCHANGED <<handles, fresh, expired>>

Listed ==
    /\ mpc = "list"
    /\ handles' = handles \cup {mine}
    /\ mine' = None /\ mpc' = "replenish"
    /\ MaintenanceFrame /\ UNCHANGED <<pool, server, fresh, expired, missing>>

Replenished ==
    /\ mpc = "replenish" /\ missing = 0
    /\ mpc' = "wait"
    /\ MaintenanceFrame /\ UNCHANGED <<pool, handles, server, fresh, expired, mine, missing>>

Maintain ==
    \/ Wake \/ Drain \/ Drained \/ Recycle \/ GiveBack
    \/ Count \/ Replenish \/ Listed \/ Replenished

-----------------------------------------------------------------------------
(* start and stop                                                          *)

\* An eager start warms the pool, once in the life of the object, before any
\* other thread knows of it: with n sandboxes, and k more come too late.  The
\* event is never cleared: the maintenance thread of a second start ends at once,
\* and one that a stop did not wait for goes on.
Start ==
    /\ ~started /\ opc \in {"new", "stopped"} /\ starts < MaxStarts
    /\ starts' = starts + 1
    /\ started' = TRUE
    /\ opc' = "up"
    /\ mpc' = IF mpc = "off" THEN "wait" ELSE mpc
    /\ IF lazy \/ warmed
       THEN UNCHANGED <<warmed, pool, handles, server>>
       ELSE \E n, k \in 0 .. PoolSize :
              /\ n + k <= PoolSize /\ used + n + k <= MaxSandboxes
              /\ warmed' = TRUE
              /\ used' = used + n + k
              /\ alive' = alive \cup (used + 1 .. used + n + k)
              /\ late' = late \cup (used + n + 1 .. used + n + k)
              /\ handles' = handles \cup (used + 1 .. used + n)
              /\ pool' = pool \o [i \in 1 .. n |-> used + i]
    /\ UNCHANGED <<lazy, stopping, old, worker, fresh, expired, mine, missing, doomed>>

OwnerFrame == UNCHANGED <<lazy, starts, warmed, old, worker, maintenance>>

Stop ==
    /\ started /\ opc = "up"
    /\ stopping' = TRUE
    /\ opc' = "join"
    /\ OwnerFrame /\ UNCHANGED <<started, pool, handles, server, doomed>>

\* The maintenance thread has ended, or five seconds are over.
Snapshot ==
    /\ opc = "join"
    /\ doomed' = handles /\ handles' = {}
    /\ opc' = "kill"
    /\ OwnerFrame /\ UNCHANGED <<started, stopping, pool, server>>

KillAll ==
    /\ opc = "kill" /\ doomed # {}
    /\ \E c \in doomed : Kill(c) /\ doomed' = doomed \ {c}
    /\ OwnerFrame /\ UNCHANGED <<opc, started, stopping, pool, handles>>

\* What is in the queue now is dropped, not killed.
Stopped ==
    /\ opc = "kill" /\ doomed = {}
    /\ pool' = << >>
    /\ started' = FALSE
    /\ opc' = "stopped"
    /\ OwnerFrame /\ UNCHANGED <<stopping, handles, server, doomed>>

Owner == Start \/ Stop \/ Snapshot \/ KillAll \/ Stopped

Next ==
    \/ \E c \in Ids : Lapse(c)
    \/ \E w \in Workers : Call(w) \/ Step(w)
    \/ Maintain \/ Owner

Spec == Init /\ [][Next]_vars

-----------------------------------------------------------------------------
(* Properties                                                              *)

\* The type invariant.
TypeOK ==
    /\ {lazy, started, stopping, warmed} \subseteq BOOLEAN
    /\ pool \in Seq(Ids) /\ fresh \in Seq(Ids)
    /\ handles \subseteq Ids /\ alive \subseteq 1 .. used /\ old \subseteq 1 .. used
    /\ late \subseteq 1 .. used
    /\ held \in [Workers -> Ids \cup {None}]
    /\ warming \in [Workers -> 0 .. PoolSize]
    /\ expired \subseteq Ids /\ doomed \subseteq Ids /\ mine \in Ids \cup {None}

\* The workers that use a sandbox now; one that only adds a handle to the list
\* has it no longer.
Using(c) == {w \in Workers : held[w] = c /\ pc[w] # "warmed"}

\* However the workers, the maintenance and a stop interleave, a sandbox is in
\* one place: once in the queue, or in one worker's hands, or in the
\* maintenance thread's.  No two tool calls are given the same one at a time.
InOnePlace ==
    LET all == pool \o fresh
    IN  /\ IsInjective(all)
        /\ ToSet(all) \cap expired = {}
        /\ \A c \in Ids :
             /\ Cardinality(Using(c)) <= 1
             /\ Using(c) # {} => c \notin ToSet(all) \cup expired

\* While the pool is not being stopped, the sandbox a tool works in is not
\* killed under it by anyone: it ends with its time to live only.
UseIsUndisturbed ==
    ~stopping =>
      \A w \in Workers :
        pc[w] \in {"track", "run", "release", "put"} => held[w] \in alive \cup old

\* Before a stop nothing is forgotten: a container that runs is in the list
\* that stop kills from, or its creator is about to add it; but for those that
\* came after their creator had given up.
NothingIsForgotten ==
    ~stopping =>
      alive \subseteq handles \cup {held[w] : w \in Workers} \cup {mine} \cup late

\* What every state of the sandbox pool satisfies.
SandboxInv == TypeOK /\ InOnePlace /\ UseIsUndisturbed /\ NothingIsForgotten

=============================================================================
