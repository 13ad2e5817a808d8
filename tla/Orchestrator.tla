----------------------------- MODULE Orchestrator -----------------------------
(***************************************************************************)
(* The fan-out/fan-in agent of agents/orchestrator.py: one parent issue,   *)
(* the child issues it is decomposed into, and the heartbeats that drive   *)
(* it.  A heartbeat keeps nothing between two runs, so the variables are   *)
(* the issues on the Paperclip server, the locals of the heartbeat that is *)
(* running (if any), and the history the properties speak about.           *)
(*                                                                         *)
(* Every call to the server is a step of its own.  Between two of them the *)
(* children's workers, people and the death of the container interleave.   *)
(***************************************************************************)
EXTENDS Naturals

CONSTANTS
  Subtasks,     \* the subtasks the router plans, after the max_children cut
  MaxRetries,   \* config.paperclip.orchestrator_max_retries
  RetryEnabled, \* config.paperclip.orchestrator_retry_failed
  MaxFaults,    \* bound: API calls that end in a PaperclipAPIError
  MaxCrashes,   \* bound: heartbeats killed half-way
  MaxHuman      \* bound: interventions of people on the board

ASSUME OrchestratorAssumption ==
  /\ MaxRetries \in Nat
  /\ RetryEnabled \in BOOLEAN
  /\ MaxFaults \in Nat /\ MaxCrashes \in Nat /\ MaxHuman \in Nat

VARIABLES
  parent,   \* status of the parent issue
  child,    \* status of each child issue; "absent" until it is created
  marker,   \* highest <!-- retry:n --> comment on each child
  produced, \* children whose worker has posted an output
  working,  \* children whose worker's heartbeat is running
  result,   \* the last result comment the orchestrator left on the parent
  pc,       \* where the running heartbeat stands; "idle" when none runs
  seen,     \* issue.status as get_issue last returned it
  snap,     \* children as get_children last returned them
  left,     \* children this heartbeat has still to look at
  failed,   \* the local permanently_failed
  retrying, \* the child being retried, if any
  gathered, \* children created so far, or outputs in the local raw_sections
  unread,   \* done children whose comments raised an API error
  resets,   \* history: times the orchestrator has put each child back to todo
  unmarked, \* history: resets of each child that left no retry marker
  refused,  \* history: children whose reset raised an API error
  notMade,  \* history: children whose creation raised an API error
  touched,  \* history: children whose status a person changed
  posts,    \* history: combined or partial results posted
  reopens,  \* history: times a person reopened the finished parent
  faults, crashes, humans

issues == <<parent, child, marker, produced, result>>
board == <<issues, working>>
local == <<pc, seen, snap, left, failed, retrying, gathered, unread>>
retryLog == <<resets, unmarked, refused>>
history == <<retryLog, notMade, touched, posts, reopens>>
bounds == <<faults, crashes, humans>>
vars == <<board, local, history, bounds>>

Statuses == {"absent", "todo", "in_progress", "blocked", "done", "cancelled"}

\* The children issues of a snapshot (or of the board).
Made(s) == {c \in Subtasks : s[c] # "absent"}

DoneIn(s) == {c \in Subtasks : s[c] = "done"}

NoResult ==
  [kind |-> "none", included |-> {}, unread |-> {}, failed |-> {}]

Init ==
  /\ parent = "todo"
  /\ child = [c \in Subtasks |-> "absent"]
  /\ marker = [c \in Subtasks |-> 0]
  /\ produced = {} /\ working = {}
  /\ result = NoResult
  /\ pc = "idle"
  /\ seen = "todo"
  /\ snap = [c \in Subtasks |-> "absent"]
  /\ left = {} /\ failed = {} /\ retrying = {} /\ gathered = {} /\ unread = {}
  /\ resets = [c \in Subtasks |-> 0]
  /\ unmarked = [c \in Subtasks |-> 0]
  /\ refused = {} /\ notMade = {} /\ touched = {}
  /\ posts = 0 /\ reopens = 0
  /\ faults = 0 /\ crashes = 0 /\ humans = 0

-----------------------------------------------------------------------------
(* A call to the server.  It is answered ("ok"), or it raises a            *)
(* PaperclipAPIError; the server may have done the work all the same       *)
(* ("lost": the answer, not the request, went missing).                    *)

Reads == {"ok", "fail"}
Writes == {"ok", "fail", "lost"}

Call(out) ==
  IF out = "ok" THEN UNCHANGED faults
  ELSE /\ faults < MaxFaults
       /\ faults' = faults + 1

Applied(out) == out # "fail"

\* update_issue(parent, status=s), whatever its status has become.
WriteParent(s) ==
  \E out \in Writes :
    /\ Call(out)
    /\ parent' = IF Applied(out) THEN s ELSE parent

\* The heartbeat ends: its locals are gone.
EndRun ==
  /\ pc' = "idle"
  /\ seen' = "todo"
  /\ snap' = [c \in Subtasks |-> "absent"]
  /\ left' = {} /\ failed' = {} /\ retrying' = {} /\ gathered' = {}
  /\ unread' = {}

Goto(p) == pc' = p

-----------------------------------------------------------------------------
(* A heartbeat picks the parent up (agents/heartbeat.py)                   *)

\* Mutant: an issue once started is not assigned again.
AssignableTodoOnly == {"todo"}

\* Assignments are fetched in these statuses, so a finished issue is not, and
\* a blocked one is ranked only when its agent was woken for it.
Assignable == {"todo", "in_progress"}

\* Assignments, ranking and checkout.
Pick ==
  /\ pc = "idle"
  /\ parent \in Assignable
  /\ Goto("picked")
  /\ UNCHANGED <<board, seen, snap, left, failed, retrying, gathered, unread,
                 history, bounds>>

\* The same for a blocked parent, when a person's comment woke its agent.
PickWoken ==
  /\ pc = "idle"
  /\ parent = "blocked"
  /\ humans < MaxHuman /\ humans' = humans + 1
  /\ Goto("picked")
  /\ UNCHANGED <<board, seen, snap, left, failed, retrying, gathered, unread,
                 history, faults, crashes>>

\* Step 5b; a failure is not fatal.
MarkInProgress ==
  /\ pc = "picked"
  /\ WriteParent("in_progress")
  /\ Goto("issue")
  /\ UNCHANGED <<child, marker, produced, result, working, seen, snap, left,
                 failed, retrying, gathered, unread, history, crashes, humans>>

\* get_issue and get_comments of the parent.
FetchIssue ==
  /\ pc = "issue"
  /\ \E out \in Reads :
       /\ Call(out)
       /\ IF out = "ok"
          THEN /\ seen' = parent
               /\ Goto("children")
               /\ UNCHANGED <<snap, left, failed, retrying, gathered, unread>>
          ELSE EndRun
  /\ UNCHANGED <<board, history, crashes, humans>>

\* Mutant: aggregation starts on the first child that is done.
PhaseOfAny(s) ==
  IF Made(s) = {} THEN "triage"
  ELSE IF DoneIn(s) # {} THEN "collect"
  ELSE "eval"

\* _detect_phase: DECOMPOSE, AGGREGATE or POLL.
Phase(s) ==
  IF Made(s) = {} THEN "triage"
  ELSE IF DoneIn(s) = Made(s) THEN "collect"
  ELSE "eval"

\* The dispatch on the children just fetched.  A parent seen "done" is not
\* aggregated again (_aggregate_and_present, first lines).
Dispatch ==
  IF seen = "done" /\ Phase(child) = "collect"
  THEN EndRun
  ELSE /\ snap' = child
       /\ left' = Made(child)
       /\ Goto(Phase(child))
       /\ UNCHANGED <<seen, failed, retrying, gathered, unread>>

\* get_children and the dispatch.
FetchChildren ==
  /\ pc = "children"
  /\ \/ UNCHANGED faults /\ Dispatch
     \/ Call("fail") /\ EndRun
  /\ UNCHANGED <<board, history, crashes, humans>>

-----------------------------------------------------------------------------
(* DECOMPOSE                                                               *)

\* The router asks for several agents, and list_agents answers.
Delegate ==
  /\ pc = "triage"
  /\ Goto("create")
  /\ left' = Subtasks
  /\ UNCHANGED <<board, seen, snap, failed, retrying, gathered, unread,
                 history, bounds>>

AgentDiscoveryFails ==
  /\ pc = "triage"
  /\ Call("fail")
  /\ EndRun
  /\ UNCHANGED <<board, history, crashes, humans>>

\* _run_directly: a fast task, or one the router does not split.
GoDirect ==
  /\ pc = "triage"
  /\ Goto("direct")
  /\ UNCHANGED <<board, seen, snap, left, failed, retrying, gathered, unread,
                 history, bounds>>

\* Its outcome is written whatever the parent has become meanwhile; an error
\* of the workflow leaves the parent as it is.
FinishDirect ==
  /\ pc = "direct"
  /\ \/ WriteParent("done")
     \/ WriteParent("blocked")
     \/ Call("fail") /\ UNCHANGED parent
  /\ EndRun
  /\ UNCHANGED <<child, marker, produced, result, working, history,
                 crashes, humans>>

\* One create_subtask of the loop; a failed one is logged and skipped.
CreateChild(c) ==
  /\ pc = "create"
  /\ c \in left
  /\ \E out \in Writes :
       /\ Call(out)
       /\ child' = IF Applied(out) THEN [child EXCEPT ![c] = "todo"] ELSE child
       /\ gathered' = IF out = "ok" THEN gathered \cup {c} ELSE gathered
       /\ notMade' = IF out = "ok" THEN notMade ELSE notMade \cup {c}
  /\ left' = left \ {c}
  /\ UNCHANGED <<parent, marker, produced, result, working, pc, seen, snap,
                 failed, retrying, unread, retryLog, touched, posts, reopens,
                 crashes, humans>>

\* The plan comment and the parent's status, both best effort.  With no child
\* created the heartbeat gives up before them.
FinishDecompose ==
  /\ pc = "create"
  /\ left = {}
  /\ \/ gathered = {} /\ UNCHANGED <<parent, faults>>
     \/ gathered # {} /\ WriteParent("in_progress")
  /\ EndRun
  /\ UNCHANGED <<child, marker, produced, result, working, history,
                 crashes, humans>>

-----------------------------------------------------------------------------
(* POLL: _poll_children_once, and the same evaluation in the wait loop     *)

\* Mutant: every child that is not done is retried.
IsBlockedOrPending(c) == snap[c] # "done"

IsBlocked(c) == snap[c] = "blocked"

\* Children that are not blocked only count as done or as pending.
SkipChild(c) ==
  /\ pc = "eval"
  /\ c \in left
  /\ ~IsBlocked(c)
  /\ left' = left \ {c}
  /\ UNCHANGED <<board, pc, seen, snap, failed, retrying, gathered, unread,
                 history, bounds>>

\* Mutant: one retry too many.
RetriesExceeded(c) == marker[c] > MaxRetries

\* _count_retries against the limit.
RetriesExhausted(c) == marker[c] >= MaxRetries

\* _maybe_retry_child, up to the decision.  When the comments cannot be read
\* the child counts as pending.
JudgeBlocked(c) ==
  /\ pc = "eval"
  /\ c \in left
  /\ IsBlocked(c)
  /\ left' = left \ {c}
  /\ \/ /\ ~RetryEnabled \/ RetriesExhausted(c)
        /\ failed' = failed \cup {c}
        /\ UNCHANGED <<pc, retrying, faults>>
     \/ /\ RetryEnabled
        /\ Call("fail")
        /\ UNCHANGED <<pc, failed, retrying>>
     \/ /\ RetryEnabled /\ ~RetriesExhausted(c)
        /\ Goto("reset")
        /\ retrying' = {c}
        /\ UNCHANGED <<failed, faults>>
  /\ UNCHANGED <<board, seen, snap, gathered, unread, history, crashes, humans>>

\* The child goes back to "todo", whatever it has become since the snapshot.
\* An API error counts it as permanently failed, also when the server acted.
ResetChild(c) ==
  /\ pc = "reset"
  /\ c \in retrying
  /\ \E out \in Writes :
       /\ Call(out)
       /\ child' = IF Applied(out) THEN [child EXCEPT ![c] = "todo"] ELSE child
       /\ resets' = IF Applied(out) THEN [resets EXCEPT ![c] = @ + 1]
                    ELSE resets
       /\ unmarked' = IF out = "lost" THEN [unmarked EXCEPT ![c] = @ + 1]
                      ELSE unmarked
       /\ IF out = "ok"
          THEN Goto("mark") /\ UNCHANGED <<failed, retrying, refused>>
          ELSE /\ Goto("eval")
               /\ failed' = failed \cup {c}
               /\ retrying' = {}
               /\ refused' = refused \cup {c}
  /\ UNCHANGED <<parent, marker, produced, result, working, seen, snap, left,
                 gathered, unread, notMade, touched, posts, reopens,
                 crashes, humans>>

\* The retry marker; when the comment fails the retry stands all the same.
MarkRetry(c) ==
  /\ pc = "mark"
  /\ c \in retrying
  /\ \E out \in Writes :
       /\ Call(out)
       /\ marker' = IF Applied(out) THEN [marker EXCEPT ![c] = @ + 1]
                    ELSE marker
       /\ unmarked' = IF Applied(out) THEN unmarked
                      ELSE [unmarked EXCEPT ![c] = @ + 1]
  /\ Goto("eval")
  /\ retrying' = {}
  /\ UNCHANGED <<parent, child, produced, result, working, seen, snap, left,
                 failed, gathered, unread, resets, refused, notMade, touched,
                 posts, reopens, crashes, humans>>

\* Something failed for good and something is done: aggregate what there is.
DecidePartial ==
  /\ pc = "eval" /\ left = {}
  /\ failed # {} /\ DoneIn(snap) # {}
  /\ Goto("collect")
  /\ left' = DoneIn(snap)
  /\ UNCHANGED <<board, seen, snap, failed, retrying, gathered, unread,
                 history, bounds>>

\* Something failed for good and nothing is done: the parent waits for a person.
DecideBlock ==
  /\ pc = "eval" /\ left = {}
  /\ failed # {} /\ DoneIn(snap) = {}
  /\ WriteParent("blocked")
  /\ EndRun
  /\ UNCHANGED <<child, marker, produced, result, working, history,
                 crashes, humans>>

\* Nothing failed: exit idle, or stay when the WebSocket is connected.
DecideIdle ==
  /\ pc = "eval" /\ left = {} /\ failed = {}
  /\ EndRun
  /\ UNCHANGED <<board, history, bounds>>

DecideWait ==
  /\ pc = "eval" /\ left = {} /\ failed = {}
  /\ Goto("wait")
  /\ UNCHANGED <<board, seen, snap, left, failed, retrying, gathered, unread,
                 history, bounds>>

\* _ws_wait_for_children: an event or 60 s pass, the event is cleared and the
\* children are fetched again; an API error is another round of the loop.
Wake ==
  /\ pc = "wait"
  /\ \/ UNCHANGED faults /\ Dispatch
     \/ Call("fail") /\ UNCHANGED local
  /\ UNCHANGED <<board, history, crashes, humans>>

\* poll_timeout: fall through to the idle exit.
WaitTimeout ==
  /\ pc = "wait"
  /\ EndRun
  /\ UNCHANGED <<board, history, bounds>>

-----------------------------------------------------------------------------
(* AGGREGATE: _aggregate_and_present and _aggregate_with_partial_failures  *)

\* _extract_child_result: no output when the comments cannot be read, or when
\* none of them carries a result.
CollectChild(c) ==
  /\ pc = "collect"
  /\ c \in left
  /\ left' = left \ {c}
  /\ \/ /\ gathered' = IF c \in produced THEN gathered \cup {c} ELSE gathered
        /\ UNCHANGED <<unread, faults>>
     \/ /\ Call("fail")
        /\ unread' = unread \cup {c}
        /\ UNCHANGED gathered
  /\ UNCHANGED <<board, pc, seen, snap, failed, retrying, history,
                 crashes, humans>>

\* The combined result and "done" are one update_issue call.
Post ==
  /\ pc = "collect" /\ left = {}
  /\ gathered # {}
  /\ \E out \in Writes :
       /\ Call(out)
       /\ IF Applied(out)
          THEN /\ parent' = "done"
               /\ posts' = posts + 1
               /\ result' = [kind |-> IF failed = {} THEN "full" ELSE "partial",
                             included |-> gathered,
                             unread |-> unread,
                             failed |-> failed]
          ELSE UNCHANGED <<parent, posts, result>>
  /\ EndRun
  /\ UNCHANGED <<child, marker, produced, working, retryLog, notMade, touched,
                 reopens, crashes, humans>>

\* No output could be read: block the parent.
PostNothing ==
  /\ pc = "collect" /\ left = {}
  /\ gathered = {}
  /\ WriteParent("blocked")
  /\ EndRun
  /\ UNCHANGED <<child, marker, produced, result, working, history,
                 crashes, humans>>

-----------------------------------------------------------------------------
(* The container of the orchestrator, or of a worker, dies                 *)

Crash ==
  /\ pc # "idle"
  /\ crashes < MaxCrashes
  /\ crashes' = crashes + 1
  /\ unmarked' = [c \in Subtasks |->
                    unmarked[c] + (IF pc = "mark" /\ c \in retrying THEN 1 ELSE 0)]
  /\ EndRun
  /\ UNCHANGED <<board, resets, refused, notMade, touched, posts, reopens,
                 faults, humans>>

-----------------------------------------------------------------------------
(* The children's workers: ordinary heartbeats of other agents             *)

\* Checkout and step 5b of a worker, on a child that is up for work.
WorkerClaim(c) ==
  /\ child[c] = "todo"
  /\ c \notin working
  /\ working' = working \cup {c}
  /\ child' = [child EXCEPT ![c] = "in_progress"]
  /\ UNCHANGED <<parent, marker, produced, result, local, history, bounds>>

\* Step 9: the outcome is written whatever the child has become meanwhile.
WorkerFinish(c) ==
  /\ c \in working
  /\ working' = working \ {c}
  /\ \/ /\ child' = [child EXCEPT ![c] = "done"]
        /\ produced' = produced \cup {c}
     \/ /\ child' = [child EXCEPT ![c] = "blocked"]
        /\ UNCHANGED produced
  /\ UNCHANGED <<parent, marker, result, local, history, bounds>>

\* A worker killed by SIGKILL leaves the child as it is.
WorkerDies(c) ==
  /\ c \in working
  /\ crashes < MaxCrashes
  /\ crashes' = crashes + 1
  /\ working' = working \ {c}
  /\ UNCHANGED <<issues, local, history, faults, humans>>

-----------------------------------------------------------------------------
(* People working on the board                                             *)

\* A reply on a blocked child wakes its agent, which checks it out again.
HumanResumes(c) ==
  /\ child[c] = "blocked" /\ c \notin working
  /\ child' = [child EXCEPT ![c] = "in_progress"]
  /\ working' = working \cup {c}
  /\ touched' = touched \cup {c}
  /\ humans < MaxHuman /\ humans' = humans + 1
  /\ UNCHANGED <<parent, marker, produced, result, local, retryLog, notMade,
                 posts, reopens, faults, crashes>>

HumanSets(c) ==
  /\ child[c] # "absent"
  /\ \E s \in {"done", "cancelled"} : child' = [child EXCEPT ![c] = s]
  /\ touched' = touched \cup {c}
  /\ humans < MaxHuman /\ humans' = humans + 1
  /\ UNCHANGED <<parent, marker, produced, result, working, local, retryLog,
                 notMade, posts, reopens, faults, crashes>>

HumanSetsParent ==
  /\ \/ /\ parent # "done"
        /\ \E s \in {"done", "cancelled"} : parent' = s
        /\ UNCHANGED reopens
     \/ /\ parent = "done"
        /\ parent' = "todo"
        /\ reopens' = reopens + 1
  /\ humans < MaxHuman /\ humans' = humans + 1
  /\ UNCHANGED <<child, marker, produced, result, working, local, retryLog,
                 notMade, touched, posts, faults, crashes>>

-----------------------------------------------------------------------------

RetryStep(c) == ResetChild(c) \/ MarkRetry(c)

Heartbeat ==
  \/ Pick \/ MarkInProgress \/ FetchIssue \/ FetchChildren
  \/ Delegate \/ AgentDiscoveryFails \/ GoDirect \/ FinishDirect
  \/ FinishDecompose
  \/ DecidePartial \/ DecideBlock \/ DecideIdle \/ DecideWait
  \/ Wake \/ WaitTimeout \/ Post \/ PostNothing
  \/ \E c \in Subtasks : \/ CreateChild(c) \/ SkipChild(c) \/ JudgeBlocked(c)
                         \/ RetryStep(c) \/ CollectChild(c)

Worker(c) == WorkerClaim(c) \/ WorkerFinish(c)

Human ==
  \/ PickWoken
  \/ HumanSetsParent
  \/ \E c \in Subtasks : HumanResumes(c) \/ HumanSets(c)

Next ==
  \/ Heartbeat
  \/ Crash
  \/ \E c \in Subtasks : Worker(c) \/ WorkerDies(c)
  \/ Human

\* The parent's agent is rescheduled until the parent is finished, every wait
\* of a heartbeat is bounded by a timeout, and so are the children's.
Fairness ==
  /\ WF_vars(Heartbeat)
  /\ \A c \in Subtasks : WF_vars(WorkerClaim(c)) /\ WF_vars(WorkerFinish(c))

Spec == Init /\ [][Next]_vars /\ Fairness

-----------------------------------------------------------------------------
(* Properties                                                              *)

Pcs == {"idle", "picked", "issue", "children", "triage", "create", "direct",
        "eval", "reset", "mark", "wait", "collect"}

Results ==
  [kind : {"none", "full", "partial"}, included : SUBSET Subtasks,
   unread : SUBSET Subtasks, failed : SUBSET Subtasks]

TypeIssues ==
  /\ parent \in Statuses \ {"absent"}
  /\ child \in [Subtasks -> Statuses]
  /\ marker \in [Subtasks -> Nat]
  /\ produced \in SUBSET Subtasks
  /\ working \in SUBSET Subtasks
  /\ result \in Results

TypeLocal ==
  /\ pc \in Pcs
  /\ seen \in Statuses \ {"absent"}
  /\ snap \in [Subtasks -> Statuses]
  /\ left \in SUBSET Subtasks
  /\ failed \in SUBSET Subtasks
  /\ retrying \in SUBSET Subtasks
  /\ gathered \in SUBSET Subtasks
  /\ unread \in SUBSET Subtasks

TypeHistory ==
  /\ resets \in [Subtasks -> Nat]
  /\ unmarked \in [Subtasks -> Nat]
  /\ refused \in SUBSET Subtasks
  /\ notMade \in SUBSET Subtasks
  /\ touched \in SUBSET Subtasks
  /\ posts \in Nat /\ reopens \in Nat
  /\ faults \in Nat /\ crashes \in Nat /\ humans \in Nat

\* The type invariant: what each issue, local and history variable may hold.
TypeOK == TypeIssues /\ TypeLocal /\ TypeHistory

\* A child is never put back to "todo" more than MaxRetries times, except once
\* more for every reset whose retry marker was lost to an API error or a crash
\* (_maybe_retry_child counts markers, not resets).
RetryBudget ==
  \A c \in Subtasks : resets[c] <= MaxRetries + unmarked[c]

\* With retries on, a child is given up only after all of them, or because the
\* call that should have reset it failed.  This holds of the decision being
\* taken and of the failures a posted result lists.
GivesUpOnlyAfterRetries ==
  RetryEnabled =>
    \A c \in failed \cup result.failed :
      resets[c] >= MaxRetries \/ c \in refused

\* A posted result holds outputs of children that produced one, and a combined
\* (not partial) one leaves out no child that exists, unless its comments could
\* not be read or a person, not its worker, closed it.
CombinedResultIsComplete ==
  /\ result.included \subseteq produced
  /\ result.kind = "full" =>
       Made(child) \subseteq result.included \cup result.unread \cup touched

\* The parent carries one result per time it was opened: neither a retried
\* heartbeat nor a lost answer posts it twice.
OneResultPerOpening == posts <= 1 + reopens

\* Finished work is not sent back: a child that is done goes back to "todo"
\* only if a person moved it after the orchestrator saw it blocked.
DoneWorkIsNotRedone ==
  [][\A c \in Subtasks :
       child[c] = "done" /\ child'[c] = "todo" => c \in touched]_vars

\* A child nothing will move any more: cancelled, or left "in_progress" by a
\* worker that was killed.
Stranded(c) ==
  child[c] = "cancelled" \/ (child[c] = "in_progress" /\ c \notin working)

\* As long as no child is stranded, a parent that is open is finished, blocked
\* for a person or cancelled in the end.
ParentSettles ==
  [](\A c \in Subtasks : ~Stranded(c)) =>
    (parent \in {"todo", "in_progress"} ~>
       parent \in {"done", "blocked", "cancelled"})

\* README.md promises that killed containers retry with zero data loss: a
\* combined result would then stand for every planned subtask whose creation
\* did not fail.
NoSubtaskLost ==
  result.kind = "full" => Made(child) \cup notMade = Subtasks

\* What every state of an orchestration satisfies, for any constants.
OrchestratorInv ==
  TypeOK /\ RetryBudget /\ GivesUpOnlyAfterRetries /\ OneResultPerOpening

=============================================================================
