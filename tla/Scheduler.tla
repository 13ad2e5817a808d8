------------------------------- MODULE Scheduler -------------------------------
(***************************************************************************)
(* agents/scheduler.py under agents/orchestrator_main.py: one thread polls *)
(* the board, queues roles and spawns heartbeat subprocesses.  A tick is   *)
(* cut where a signal can fall with an effect: SIGTERM runs stop() in the  *)
(* same thread, between any two of these steps, and the tick then goes on. *)
(***************************************************************************)
EXTENDS Naturals, Sequences, FiniteSets, SequencesExt

CONSTANTS
  AgentMap,     \* _agent_map: the roles, in the order in which they are polled
  Priority,     \* AgentPriority: role -> number, the smaller the more urgent
  MaxSlots,     \* the concurrency budget
  Threshold,    \* crash_threshold
  MaxWork,      \* bound: issues that arrive
  MaxPressure,  \* bound: changes of the memory pressure
  MaxFaults     \* bound: failed polls and spawns

Roles == Range(AgentMap)
None == "none"

ASSUME SchedulerAssumption ==
  /\ AgentMap \in Seq(STRING) /\ IsInjective(AgentMap) /\ None \notin Roles
  /\ Priority \in [Roles -> Nat]
  /\ MaxSlots \in Nat \ {0} /\ Threshold \in Nat \ {0}
  /\ {MaxWork, MaxPressure, MaxFaults} \subseteq Nat

VARIABLES
  board,     \* whether a todo issue is assigned to each role
  proc,      \* _active: absent ("none"), or what its process is doing
  overdue,   \* roles whose process has run for longer than agent_timeout
  failures,  \* _consecutive_failures, counted up to the threshold
  cooling,   \* roles whose backoff has not elapsed
  queue,     \* PriorityQueue: roles in the order of their created_at
  paused,    \* _memory_paused
  pressure,  \* memory use: low (< resume), mid, high (>= threshold)
  running,   \* _running
  pc,        \* the next step of the main thread
  pending,   \* what _poll_pending_tasks found
  available, \* the local count of free slots in _spawn_from_queue
  popped,    \* role whose process was started and is not yet in _active
  cut,       \* history: the step that the first SIGTERM fell before
  work, moods, faults \* the bounds: issues, pressure changes, faults so far

tables == <<proc, overdue>>
health == <<failures, cooling>>
memory == <<paused, pressure>>
locals == <<pending, available, popped>>
bounds == <<work, moods, faults>>
vars == <<board, tables, health, queue, memory, running, pc, locals, cut, bounds>>

Init ==
  /\ board = [r \in Roles |-> None]
  /\ proc = [r \in Roles |-> None] /\ overdue = {}
  /\ failures = [r \in Roles |-> 0] /\ cooling = {}
  /\ queue = <<>>
  /\ paused = FALSE /\ pressure = "low"
  /\ running = FALSE /\ pc = "boot"
  /\ pending = {} /\ available = 0 /\ popped = None
  /\ cut = None
  /\ work = 0 /\ moods = 0 /\ faults = 0

Active == {r \in Roles : proc[r] # None}
Queued == Range(queue)

-----------------------------------------------------------------------------
(* AgentHealth                                                             *)

Failed(S) ==
  /\ failures' = [r \in Roles |->
       IF r \in S /\ failures[r] < Threshold THEN failures[r] + 1 ELSE failures[r]]
  /\ cooling' = cooling \cup S

IsHealthy(r) == failures[r] < Threshold

IsReady(r) == IsHealthy(r) \/ r \notin cooling

-----------------------------------------------------------------------------
(* The tick                                                                *)

Run ==
  /\ pc = "boot" /\ pc' = "sleep" /\ running' = TRUE
  /\ UNCHANGED <<board, tables, health, queue, memory, locals, cut, bounds>>

\* Mutant: the loop does not look at _running again.
WakeAlways ==
  /\ pc = "sleep" /\ pc' = "reap"
  /\ UNCHANGED <<board, tables, health, queue, memory, running, locals, cut, bounds>>

\* The loop condition; a stopped loop returns and the program ends.
Wake ==
  /\ pc = "sleep" /\ pc' = IF running THEN "reap" ELSE "halted"
  /\ UNCHANGED <<board, tables, health, queue, memory, running, locals, cut, bounds>>

Exited == {r \in Roles : proc[r] \in {"ok", "crashed"}}

\* _handle_finished: a success clears the count, anything else adds to it.
HandleFinished ==
  /\ pc = "reap" /\ pc' = "timeouts"
  /\ proc' = [r \in Roles |-> IF r \in Exited THEN None ELSE proc[r]]
  /\ overdue' = overdue \ Exited
  /\ failures' = [r \in Roles |->
       CASE proc[r] = "ok" -> 0
         [] proc[r] = "crashed" /\ failures[r] < Threshold -> failures[r] + 1
         [] OTHER -> failures[r]]
  /\ cooling' = {r \in cooling : proc[r] # "ok"} \cup {r \in Roles : proc[r] = "crashed"}
  /\ UNCHANGED <<board, queue, memory, running, locals, cut, bounds>>

\* Mutant: a process that has timed out is counted and left in its slot.
CountTimeouts ==
  /\ pc = "timeouts" /\ pc' = "memory"
  /\ Failed(overdue)
  /\ UNCHANGED <<board, tables, queue, memory, running, locals, cut, bounds>>

\* _handle_timeouts: SIGKILL, and the table forgets the process.
HandleTimeouts ==
  /\ pc = "timeouts" /\ pc' = "memory"
  /\ proc' = [r \in Roles |-> IF r \in overdue THEN None ELSE proc[r]]
  /\ Failed(overdue)
  /\ overdue' = {}
  /\ UNCHANGED <<board, queue, memory, running, locals, cut, bounds>>

\* _check_memory_pressure, with the hysteresis between resume and threshold.
CheckMemoryPressure ==
  /\ pc = "memory"
  /\ paused' = (pressure = "high" \/ (paused /\ pressure # "low"))
  /\ pc' = IF paused' THEN "sleep" ELSE "poll"
  /\ UNCHANGED <<board, tables, health, queue, pressure, running, locals, cut, bounds>>

\* A role whose request fails is left out of this tick.
PollPendingTasks ==
  /\ pc = "poll" /\ pc' = "enqueue"
  /\ \E S \in SUBSET {r \in Roles : board[r] = "todo"} :
       LET missed == Cardinality({r \in Roles : board[r] = "todo"} \ S)
       IN  /\ faults + missed <= MaxFaults
           /\ faults' = faults + missed
           /\ pending' = S
  /\ UNCHANGED <<board, tables, health, queue, memory, running, available, popped, cut,
                 work, moods>>

\* The pending roles that have no process, do not wait yet and may start.
Admitted == {r \in pending : proc[r] = None /\ r \notin Queued /\ IsReady(r)}

\* Roles as _agent_map has them, none twice.
InMapOrder(s) ==
  \A x, y \in DOMAIN s : \A i, j \in DOMAIN AgentMap :
    x < y /\ s[x] = AgentMap[i] /\ s[y] = AgentMap[j] => i < j

\* _enqueue_pending, and the first line of _spawn_from_queue.
EnqueuePending ==
  /\ pc = "enqueue" /\ pc' = "spawn"
  /\ \E s \in [1..Cardinality(Admitted) -> Admitted] :
       InMapOrder(s) /\ queue' = queue \o s
  /\ available' = MaxSlots - Cardinality(Active)
  /\ pending' = {}
  /\ UNCHANGED <<board, tables, health, memory, running, popped, cut, bounds>>

\* PriorityQueue.pop: the most urgent, the oldest among equals.
IsFirst(i) ==
  \A j \in DOMAIN queue :
    \/ Priority[queue[i]] < Priority[queue[j]]
    \/ Priority[queue[i]] = Priority[queue[j]] /\ i <= j

\* Popen returns or raises: a role that cannot be spawned has left the queue.
Spawn ==
  /\ pc = "spawn" /\ available > 0
  /\ \E i \in DOMAIN queue :
       /\ IsFirst(i)
       /\ queue' = RemoveAt(queue, i)
       /\ \/ popped' = queue[i] /\ pc' = "register" /\ UNCHANGED faults
          \/ faults < MaxFaults /\ faults' = faults + 1 /\ UNCHANGED <<popped, pc>>
  /\ UNCHANGED <<board, tables, health, memory, running, pending, available, cut,
                 work, moods>>

Register ==
  /\ pc = "register" /\ pc' = "spawn"
  /\ proc' = [proc EXCEPT ![popped] = "running"]
  /\ popped' = None
  /\ available' = available - 1
  /\ UNCHANGED <<board, overdue, health, queue, memory, running, pending, cut, bounds>>

TickEnds ==
  /\ pc = "spawn" /\ (available = 0 \/ queue = <<>>)
  /\ pc' = "sleep" /\ available' = 0
  /\ UNCHANGED <<board, tables, health, queue, memory, running, pending, popped, cut, bounds>>

\* Mutant: stop() leaves the processes to themselves.
StopLoopOnly ==
  /\ pc # "halted" /\ cut = None
  /\ cut' = pc /\ running' = FALSE
  /\ UNCHANGED <<board, tables, health, queue, memory, pc, locals, bounds>>

\* The signal handler: stop() ends every process in the table, by force after
\* the grace period.  The interrupted step then goes on.
Stop ==
  /\ pc # "halted" /\ cut = None
  /\ cut' = pc /\ running' = FALSE
  /\ proc' = [r \in Roles |-> None] /\ overdue' = {}
  /\ UNCHANGED <<board, health, queue, memory, pc, locals, bounds>>

-----------------------------------------------------------------------------
(* The world: the board, the processes, time and memory                    *)

Arrive(r) ==
  /\ board[r] = None /\ work < MaxWork
  /\ board' = [board EXCEPT ![r] = "todo"]
  /\ work' = work + 1
  /\ UNCHANGED <<tables, health, queue, memory, running, pc, locals, cut, moods, faults>>

\* A heartbeat takes its issue, which is no longer todo: the scheduler does not
\* ask for it again, whether the heartbeat finishes it or is killed over it.
Take(r) ==
  /\ proc[r] = "running" /\ board[r] = "todo"
  /\ board' = [board EXCEPT ![r] = None]
  /\ UNCHANGED <<tables, health, queue, memory, running, pc, locals, cut, bounds>>

Exit(r) ==
  /\ proc[r] = "running"
  /\ \E how \in {"ok", "crashed"} : proc' = [proc EXCEPT ![r] = how]
  /\ UNCHANGED <<board, overdue, health, queue, memory, running, pc, locals, cut, bounds>>

\* A heartbeat may run for ever, on a full pipe for instance.
TimePasses(r) ==
  /\ proc[r] = "running" /\ r \notin overdue
  /\ overdue' = overdue \cup {r}
  /\ UNCHANGED <<board, proc, health, queue, memory, running, pc, locals, cut, bounds>>

BackoffEnds(r) ==
  /\ r \in cooling /\ cooling' = cooling \ {r}
  /\ UNCHANGED <<board, tables, failures, queue, memory, running, pc, locals, cut, bounds>>

PressureChanges ==
  /\ moods < MaxPressure /\ moods' = moods + 1
  /\ pressure' \in {"mid", "high"} /\ pressure' # pressure
  /\ UNCHANGED <<board, tables, health, queue, paused, running, pc, locals, cut, work, faults>>

PressureFalls ==
  /\ pressure # "low" /\ pressure' = "low"
  /\ UNCHANGED <<board, tables, health, queue, paused, running, pc, locals, cut, bounds>>

-----------------------------------------------------------------------------

Tick ==
  \/ Run \/ Wake \/ HandleFinished \/ HandleTimeouts \/ CheckMemoryPressure
  \/ PollPendingTasks \/ EnqueuePending \/ Spawn \/ Register \/ TickEnds

Next ==
  \/ Tick
  \/ Stop
  \/ \E r \in Roles : Arrive(r) \/ Take(r) \/ Exit(r) \/ TimePasses(r) \/ BackoffEnds(r)
  \/ PressureChanges \/ PressureFalls

\* The thread runs, clocks run, and memory is freed in the end.
Fairness ==
  /\ WF_vars(Tick) /\ WF_vars(PressureFalls)
  /\ \A r \in Roles : WF_vars(TimePasses(r)) /\ WF_vars(BackoffEnds(r))

Spec == Init /\ [][Next]_vars /\ Fairness

-----------------------------------------------------------------------------
(* Properties                                                              *)

\* The type invariant.
TypeOK ==
  /\ board \in [Roles -> {None, "todo"}]
  /\ proc \in [Roles -> {None, "running", "ok", "crashed"}]
  /\ overdue \subseteq Active
  /\ failures \in [Roles -> 0..Threshold] /\ cooling \subseteq Roles
  /\ queue \in Seq(Roles)
  /\ paused \in BOOLEAN /\ pressure \in {"low", "mid", "high"}
  /\ running \in BOOLEAN
  /\ pc \in {"boot", "sleep", "reap", "timeouts", "memory", "poll", "enqueue", "spawn",
             "register", "halted"}
  /\ pending \subseteq Roles /\ available \in 0..MaxSlots
  /\ popped \in Roles \cup {None}
  /\ cut \in {None, "boot", "sleep", "reap", "timeouts", "memory", "poll", "enqueue",
              "spawn", "register"}

\* The budget holds at every moment, with the process that is started and not
\* yet in the table: _spawn_from_queue counts its slots once, before it spawns.
SlotsRespected ==
  Cardinality(Active) + (IF popped = None THEN 0 ELSE 1) <= MaxSlots

\* A role waits in the queue at most once, runs no process and is not in
\* backoff: so what is popped ticks later, without being looked at again, never
\* gets a second process and never cuts a backoff short.
QueuedAreIdleAndReady ==
  /\ IsInjective(queue)
  /\ \A r \in Queued \cup ({popped} \ {None}) : proc[r] = None /\ IsReady(r)

\* A SIGTERM while the loop sleeps leaves no process behind when the program
\* ends.  (One that falls inside a tick can: the tick goes on and spawns.)
StopAsleepLeavesNothing == pc = "halted" /\ cut = "sleep" => Active = {}

\* A todo issue gets its role a process, whatever crashes, hangs, backs off or
\* cannot be polled, unless the scheduler is stopped or work of more urgent
\* roles keeps coming back: a heartbeat that leaves its issue todo is spawned
\* again in front of everyone else.
MoreUrgentWork(r) == \E q \in Roles : Priority[q] < Priority[r] /\ board[q] = "todo"
TodoIsServed ==
  \A r \in Roles :
    <>[]~MoreUrgentWork(r) =>
      ((board[r] = "todo" /\ running) ~> (proc[r] # None \/ cut # None))

\* A SIGTERM ends the loop, unless it falls before run() has set its flag.
StopHalts == (cut # None /\ cut # "boot") ~> pc = "halted"

\* What every state of the scheduler satisfies.
SchedulerInv ==
  TypeOK /\ SlotsRespected /\ QueuedAreIdleAndReady /\ StopAsleepLeavesNothing

=============================================================================
