------------------------------- MODULE SubTasks -------------------------------
(***************************************************************************)
(* The sub-tasks of a decomposed request, run side by side                 *)
(* (agents/parallel_subtasks.py): a pool of threads, each with a private   *)
(* copy of the state, in which a specialist writes, calls tools            *)
(* (agents/specialist_nodes.py, agents/tools) and is judged, again and     *)
(* again; and the workflow's own thread, which collects the results, waits *)
(* no longer than its timeout for them, and merges them.  The threads      *)
(* share the registry of tools, and so the count of quick lookups.  The    *)
(* model and the tools are external: a model writes what it likes.         *)
(***************************************************************************)
EXTENDS Integers, FiniteSets

CONSTANTS
    NumSubTasks,   \* sub-tasks of the request
    MaxWorkers,    \* parallel_max_workers
    MaxRounds,     \* MAX_TOOL_CALLING_ITERATIONS
    MaxAttempts,   \* max_iterations of a sub-task
    MaxLookups     \* _max_lookups of the quick_lookup tool

SubTasksAssumption ==
    /\ {NumSubTasks, MaxLookups, MaxRounds} \subseteq Nat
    /\ {MaxWorkers, MaxAttempts} \subseteq Nat \ {0}

Ids == 1 .. NumSubTasks

\* What a model writes: text (a call that is no JSON included), questions, or a
\* call of a tool: a permitted one, quick_lookup, one the skills do not permit,
\* or with parameters the call cannot be made with.
Calls == {"call", "lookup", "blocked", "odd"}
Outputs == Calls \cup {"text", "question"}

Ended == {"done", "raised"}

VARIABLES
    tools,    \* the sub-tasks whose specialist may call tools
    pc,       \* where the thread of each sub-task is
    output,   \* what its specialist wrote last
    round,    \* tool_iteration
    noted,    \* the note that a call was not executed is in the output
    errored,  \* the error of the tool loop is in tool_calls
    attempt,  \* iteration_count
    status,   \* the status in the thread's copy of the sub-task
    lookups,  \* _call_count of quick_lookup
    searches, \* the searches it let through
    node,     \* the workflow's thread: "waiting", "late", "merged"
    results   \* what it has collected

thread == <<pc, output, round, noted, errored, attempt, status>>
vars == <<tools, thread, lookups, searches, node, results>>

Init ==
    /\ tools \in SUBSET Ids
    /\ pc = [i \in Ids |-> "queued"]
    /\ output = [i \in Ids |-> "text"]
    /\ round = [i \in Ids |-> 0]
    /\ noted = [i \in Ids |-> FALSE]
    /\ errored = [i \in Ids |-> FALSE]
    /\ attempt = [i \in Ids |-> 0]
    /\ status = [i \in Ids |-> "pending"]
    /\ lookups = 0 /\ searches = 0
    /\ node = "waiting"
    /\ results = [i \in Ids |-> "none"]

-----------------------------------------------------------------------------
(* A sub-task                                                              *)

Go(i, next) == pc' = [pc EXCEPT ![i] = next]
Frame == UNCHANGED <<tools, node, results>>

\* The pool takes the sub-tasks in the order they were submitted.
Take(i) ==
    /\ pc[i] = "queued"
    /\ \A j \in 1 .. i - 1 : pc[j] # "queued"
    /\ Cardinality({j \in Ids : pc[j] \notin Ended \cup {"queued"}}) < MaxWorkers
    /\ Go(i, "write")
    /\ Frame /\ UNCHANGED <<output, round, noted, errored, attempt, status, lookups, searches>>

\* execute_sub_task: the first output; a question ends the sub-task.  The
\* model may fail, and with it the thread.
Write(i) ==
    /\ pc[i] = "write"
    /\ \/ /\ Go(i, "raised")
          /\ UNCHANGED <<output, status>>
       \/ \E o \in Outputs :
            /\ output' = [output EXCEPT ![i] = o]
            /\ status' = [status EXCEPT ![i] =
                 IF o = "question" THEN "clarification_needed"
                 ELSE IF i \in tools THEN @ ELSE "executed"]
            /\ Go(i, IF o = "question" THEN "done"
                     ELSE IF i \in tools THEN "loop" ELSE "critic")
    /\ round' = [round EXCEPT ![i] = 0]
    /\ noted' = [noted EXCEPT ![i] = FALSE]
    /\ errored' = [errored EXCEPT ![i] = FALSE]
    /\ Frame /\ UNCHANGED <<attempt, lookups, searches>>

\* The loop is left; a call that is still there at its limit gets the note.
Leave(i) ==
    /\ status' = [status EXCEPT ![i] = "executed"]
    /\ Go(i, "critic")

LastRound(i) == round[i] >= MaxRounds

Settle(i) ==
    /\ pc[i] = "loop" /\ (LastRound(i) \/ output[i] \notin Calls)
    /\ noted' = [noted EXCEPT ![i] = LastRound(i) /\ output[i] \in Calls]
    /\ Leave(i)
    /\ Frame /\ UNCHANGED <<output, round, errored, attempt, lookups, searches>>

\* A permitted tool runs, or a call that is not permitted is answered with an
\* error: either way the specialist is told.
CallTool(i) ==
    /\ pc[i] = "loop" /\ ~LastRound(i) /\ output[i] \in {"call", "blocked"}
    /\ Go(i, "continue")
    /\ Frame /\ UNCHANGED <<output, round, noted, errored, attempt, status, lookups, searches>>

\* A call that cannot be made raises in the loop, which ends with a record.
Misfire(i) ==
    /\ pc[i] = "loop" /\ ~LastRound(i) /\ output[i] = "odd"
    /\ errored' = [errored EXCEPT ![i] = TRUE]
    /\ Leave(i)
    /\ Frame /\ UNCHANGED <<output, round, noted, attempt, lookups, searches>>

\* Mutant: the count and the limit are compared, and counted after the search.
LookUpThenCount(i) ==
    /\ pc[i] = "loop" /\ ~LastRound(i) /\ output[i] = "lookup"
    /\ lookups' = searches
    /\ Go(i, IF lookups < MaxLookups THEN "search" ELSE "continue")
    /\ Frame /\ UNCHANGED <<output, round, noted, errored, attempt, status, searches>>

\* quick_lookup: compared and counted under its lock, then searched for.
LookUp(i) ==
    /\ pc[i] = "loop" /\ ~LastRound(i) /\ output[i] = "lookup"
    /\ lookups' = IF lookups < MaxLookups THEN lookups + 1 ELSE lookups
    /\ Go(i, IF lookups < MaxLookups THEN "search" ELSE "continue")
    /\ Frame /\ UNCHANGED <<output, round, noted, errored, attempt, status, searches>>

Search(i) ==
    /\ pc[i] = "search"
    /\ searches' = searches + 1
    /\ Go(i, "continue")
    /\ Frame /\ UNCHANGED <<output, round, noted, errored, attempt, status, lookups>>

\* The specialist goes on; here nobody looks for questions.  A model that fails
\* now ends the loop with a record, and the last output stands.
Continue(i) ==
    /\ pc[i] = "continue"
    /\ \/ /\ \E o \in Outputs : output' = [output EXCEPT ![i] = o]
          /\ round' = [round EXCEPT ![i] = @ + 1]
          /\ Go(i, "loop")
          /\ UNCHANGED <<errored, status>>
       \/ /\ errored' = [errored EXCEPT ![i] = TRUE]
          /\ Leave(i)
          /\ UNCHANGED <<output, round>>
    /\ Frame /\ UNCHANGED <<noted, attempt, lookups, searches>>

\* evaluate_sub_output and should_approve_sub_output: completed, failed, or
\* once more from the start while there are attempts.
Judge(i) ==
    /\ pc[i] = "critic"
    /\ \/ /\ Go(i, "raised")
          /\ UNCHANGED <<attempt, status, output, round, noted, errored>>
       \/ \E verdict \in {"completed", "failed", "refine"} :
            /\ verdict = "refine" => attempt[i] + 1 < MaxAttempts
            /\ attempt' = [attempt EXCEPT ![i] = @ + 1]
            /\ status' = [status EXCEPT ![i] = IF verdict = "refine" THEN "evaluated" ELSE verdict]
            /\ Go(i, IF verdict = "refine" THEN "write" ELSE "done")
            /\ output' = [output EXCEPT ![i] = "text"]
            /\ round' = [round EXCEPT ![i] = 0]
            /\ noted' = [noted EXCEPT ![i] = FALSE]
            /\ errored' = [errored EXCEPT ![i] = FALSE]
    /\ Frame /\ UNCHANGED <<lookups, searches>>

Run(i) ==
    \/ Take(i) \/ Write(i) \/ Settle(i) \/ CallTool(i) \/ Misfire(i)
    \/ LookUp(i) \/ Search(i) \/ Continue(i) \/ Judge(i)

-----------------------------------------------------------------------------
(* The workflow's thread                                                   *)

\* A finished thread's sub-task; "failed" for one that raised.
Collect(i) ==
    /\ node = "waiting" /\ pc[i] \in Ended /\ results[i] = "none"
    /\ results' = [results EXCEPT ![i] = IF pc[i] = "raised" THEN "failed" ELSE status[i]]
    /\ UNCHANGED <<tools, thread, lookups, searches, node>>

\* as_completed gives up: what is not collected yet has failed.
TimeOut ==
    /\ node = "waiting" /\ \E i \in Ids : results[i] = "none"
    /\ node' = "late"
    /\ results' = [i \in Ids |-> IF results[i] = "none" THEN "failed" ELSE results[i]]
    /\ UNCHANGED <<tools, thread, lookups, searches>>

\* Mutant: the node that gave up waiting does not end.
MergeInTime ==
    /\ node = "waiting" /\ \A i \in Ids : results[i] # "none"
    /\ \A i \in Ids : pc[i] \in Ended
    /\ node' = "merged"
    /\ UNCHANGED <<tools, thread, lookups, searches, results>>

\* The pool is shut down, which waits for every thread, late or not; then the
\* results replace the sub-tasks.
Merge ==
    /\ node # "merged" /\ \A i \in Ids : results[i] # "none"
    /\ \A i \in Ids : pc[i] \in Ended
    /\ node' = "merged"
    /\ UNCHANGED <<tools, thread, lookups, searches, results>>

Next == (\E i \in Ids : Run(i) \/ Collect(i)) \/ TimeOut \/ Merge

\* A call of the model or of a tool comes back: each has a timeout.
Fairness ==
    /\ \A i \in Ids : WF_vars(Run(i)) /\ WF_vars(Collect(i))
    /\ WF_vars(Merge)

Spec == Init /\ [][Next]_vars /\ Fairness

-----------------------------------------------------------------------------
(* Properties                                                              *)

\* The type invariant.
TypeOK ==
    /\ output \in [Ids -> Outputs]
    /\ round \in [Ids -> 0 .. MaxRounds]
    /\ attempt \in [Ids -> 0 .. MaxAttempts]
    /\ lookups \in 0 .. MaxLookups
    /\ node \in {"waiting", "late", "merged"}
    /\ results \in [Ids -> {"none", "completed", "failed", "clarification_needed"}]

\* All the threads together search no more often than the tool allows.
LookupLimitHolds ==
    searches + Cardinality({i \in Ids : pc[i] = "search"}) <= MaxLookups

\* An output that reaches the critic with a tool call still in it says that the
\* call was not executed, or its tool_calls say that the loop broke.
CallsAreAccountedFor ==
    \A i \in tools :
      pc[i] = "critic" /\ output[i] \in Calls => noted[i] \/ errored[i]

\* Once the node has ended no thread of it runs, and every sub-task is settled:
\* completed only if its critic approved it, asking if its specialist asked,
\* unless it was late.
MergeIsSettled ==
    node = "merged" =>
      \A i \in Ids :
        /\ pc[i] \in Ended
        /\ results[i] = "completed" => pc[i] = "done" /\ status[i] = "completed"
        /\ results[i] \in {"completed", "clarification_needed", "failed"}
        /\ results[i] = "clarification_needed" => status[i] = "clarification_needed"

\* What every state of the sub-tasks satisfies.
SubTasksInv == TypeOK /\ LookupLimitHolds /\ CallsAreAccountedFor /\ MergeIsSettled

\* The node ends: with MaxWorkers threads for any number of sub-tasks, and
\* although it waits for threads whose results it no longer wants.
NodeEnds == node = "waiting" ~> node = "merged"
=============================================================================
