-------------------------------- MODULE Workflow --------------------------------
(***************************************************************************)
(* The agent workflow: the node graph of agents/graph.py run by the engine *)
(* of agents/graph_engine.py, its quality gates (decision_functions.py),   *)
(* the artifact cache it reads and fills, and the verdict the heartbeat    *)
(* draws from the final state.  The runs are successive runs of the same   *)
(* request by one agent, which is how the cache comes into play.  One      *)
(* action is one turn of the engine loop: a node and the decision function *)
(* that follows it.                                                        *)
(***************************************************************************)
EXTENDS Integers, Sequences, FiniteSets

CONSTANTS
  Scores,           \* the scores critics give
  Tiers,            \* the values of effective_quality_threshold
  QualityThreshold, \* config.workflow.quality_threshold
  RefineFloor,      \* below it nothing is refined
  MinScoreToCache,  \* config.cache.min_score_to_cache
  MaxIterations,    \* specialist_max_iterations and a sub-task's max_iterations
  MaxSubTasks,      \* the router's limit
  MaxSteps,         \* DEFAULT_MAX_STEPS of the engine
  MaxRuns           \* bound: runs of the request

ASSUME WorkflowAssumption ==
  /\ Scores \subseteq Nat /\ Tiers \subseteq Nat
  /\ {QualityThreshold, RefineFloor, MinScoreToCache} \subseteq Nat
  /\ {MaxIterations, MaxSubTasks, MaxSteps, MaxRuns} \subseteq Nat \ {0}

VARIABLES
  threshold, \* effective_quality_threshold, a function of the request
  node,      \* the engine's current node
  steps,     \* nodes executed in this run
  state,     \* the AgentState fields that steer the workflow
  cache,     \* the artifact store: kind of cache key -> entry
  outcome,   \* what the heartbeat made of the run
  runs,      \* runs started
  visited    \* history: how often each closing node ran in this run

vars == <<threshold, node, steps, state, cache, outcome, runs, visited>>

Absent == -1 \* final_score before anything sets it
NoEntry == [output |-> "none", score |-> 0, final |-> 0]
Closing == {"format", "post", "skill_cleanup", "persist_memory"}
Settled == {"completed", "failed"}

\* create_initial_state.
InitialState ==
  [iteration |-> 0, score |-> 0, final |-> Absent, output |-> "none",
   decision |-> "refine", clarification |-> FALSE,
   decomposed |-> FALSE, parallel |-> FALSE, subs |-> <<>>, index |-> 1,
   completed |-> 0, hit |-> FALSE]

NewSubTask == [status |-> "pending", iterations |-> 0]

Init ==
  /\ threshold \in Tiers
  /\ node = "END"
  /\ steps = 0
  /\ state = InitialState
  /\ cache = [k \in {"single", "multi"} |-> NoEntry]
  /\ outcome = "none"
  /\ runs = 0
  /\ visited = [n \in Closing |-> 0]

-----------------------------------------------------------------------------
(* The engine                                                              *)

\* The loop executes the node it stands at unless the step budget is used up.
At(n) == node = n /\ steps < MaxSteps

\* The loop goes on at n; what a closing node does is counted when it ran.
Goto(n) ==
  /\ node' = n
  /\ steps' = steps + 1
  /\ visited' = IF node \in Closing THEN [visited EXCEPT ![node] = @ + 1]
                ELSE visited
  /\ UNCHANGED <<threshold, runs, outcome>>

\* Mutant: the run ends with the post.
EdgeToEndAfterPost ==
  [skill_generator |-> "skill_loader", skill_loader |-> "inject_memory",
   inject_memory |-> "cache_lookup", memory_note |-> "record_lesson_uses",
   format |-> "post", post |-> "END", persist_memory |-> "END"]

\* Unconditional edges of the graph.
EdgeTo == [skill_generator |-> "skill_loader", skill_loader |-> "inject_memory",
           inject_memory |-> "cache_lookup", memory_note |-> "record_lesson_uses",
           format |-> "post", post |-> "skill_cleanup",
           persist_memory |-> "END"]

Start ==
  /\ node = "END" /\ runs < MaxRuns
  /\ runs = 0 \/ outcome # "none"
  /\ node' = "router"
  /\ steps' = 0
  /\ state' = InitialState
  /\ outcome' = "none"
  /\ runs' = runs + 1
  /\ visited' = [n \in Closing |-> 0]
  /\ UNCHANGED <<threshold, cache>>

Follow ==
  /\ node \in DOMAIN EdgeTo /\ At(node)
  /\ Goto(EdgeTo[node])
  /\ UNCHANGED <<state, cache>>

\* The loop is left at a node that is still to run: WorkflowTimeoutError,
\* NodeTimeoutError, a cancelled run or a node that raises, with the heartbeat
\* posting a failure; or WorkflowRecursionError, when no step is left.
Abort ==
  /\ node # "END"
  /\ node' = "END"
  /\ outcome' = IF steps >= MaxSteps THEN "exceeded" ELSE "aborted"
  /\ UNCHANGED <<threshold, steps, state, cache, runs, visited>>

-----------------------------------------------------------------------------
(* Routing and the cache                                                   *)

Router ==
  /\ At("router")
  /\ Goto("skill_generator")
  /\ \/ UNCHANGED state
     \/ \E n \in 0..MaxSubTasks, parallel \in BOOLEAN :
          state' = [state EXCEPT !.decomposed = TRUE, !.parallel = parallel,
                                 !.subs = [i \in 1..n |-> NewSubTask]]
  /\ UNCHANGED cache

\* The key is made of the request, its skills, its task type and its adapter.
Key == IF state.decomposed THEN "multi" ELSE "single"

CacheMissTo ==
  IF ~state.decomposed THEN "specialist"
  ELSE IF state.parallel THEN "parallel_subtasks" ELSE "sub_specialist"

\* An entry past its time to live is deleted; other skills, or an error of the
\* store, leave it where it is.
CacheMiss ==
  /\ At("cache_lookup")
  /\ cache' \in {cache, [cache EXCEPT ![Key] = NoEntry]}
  /\ Goto(CacheMissTo)
  /\ UNCHANGED state

CacheHit ==
  /\ At("cache_lookup") /\ cache[Key] # NoEntry
  /\ state' = [state EXCEPT !.hit = TRUE, !.output = cache[Key].output,
                            !.score = cache[Key].score, !.final = cache[Key].final]
  /\ Goto("format")
  /\ UNCHANGED cache

-----------------------------------------------------------------------------
(* One specialist                                                          *)

\* A clarification question is not judged: it goes to the closing nodes.
AfterSpecialist(clarification, critic) ==
  IF clarification THEN "skill_cleanup" ELSE critic

Specialist ==
  /\ At("specialist")
  /\ \E asks \in BOOLEAN :
       /\ state' = [state EXCEPT !.clarification = asks,
                                 !.output = IF asks THEN "question" ELSE "answer"]
       /\ Goto(AfterSpecialist(asks, "heuristic_critic"))
  /\ UNCHANGED cache

\* heuristic_evaluate_output and should_use_llm_critic
HeuristicCritic ==
  /\ At("heuristic_critic")
  /\ \E h \in Scores :
       IF h >= threshold
       THEN /\ state' = [state EXCEPT !.score = h, !.decision = "pass"]
            /\ Goto("format")
       ELSE UNCHANGED state /\ Goto("critic_output")
  /\ UNCHANGED cache

CriticOutput ==
  /\ At("critic_output")
  /\ \E s \in Scores : state' = [state EXCEPT !.score = s]
  /\ Goto("memory_note")
  /\ UNCHANGED cache

\* should_approve_output and should_approve_sub_output, after the iteration is
\* counted.
Gate(score, iteration) ==
  IF score >= threshold THEN "approved"
  ELSE IF score < RefineFloor \/ iteration >= MaxIterations THEN "fail"
  ELSE "refine"

Judge(refined) ==
  LET verdict == Gate(state.score, state.iteration + 1)
  IN  /\ state' = [state EXCEPT !.iteration = @ + 1,
                                !.decision = IF verdict = "approved" THEN "pass"
                                             ELSE verdict]
      /\ Goto(CASE verdict = "approved" -> "format"
                [] verdict = "refine"   -> refined
                [] OTHER                -> "skill_cleanup")

RecordLessonUses ==
  /\ At("record_lesson_uses")
  /\ Judge("specialist")
  /\ UNCHANGED cache

-----------------------------------------------------------------------------
(* Several specialists                                                     *)

InRange == state.index <= Len(state.subs)

\* Without a sub-task left the node returns the state as it is.
SubSpecialist ==
  /\ At("sub_specialist")
  /\ \/ /\ ~InRange
        /\ UNCHANGED state
        /\ Goto("sub_critic_output")
     \/ /\ InRange
        /\ \E asks \in BOOLEAN :
             /\ state' = [state EXCEPT !.clarification = asks,
                  !.subs[state.index].status =
                      IF asks THEN "clarification_needed" ELSE "executed"]
             /\ Goto(AfterSpecialist(asks, "sub_critic_output"))
  /\ UNCHANGED cache

\* has_more_subtasks moves on from a settled sub-task.
NextIndex(status) == IF status \in Settled THEN state.index + 1 ELSE state.index

\* evaluate_sub_output and sub_output_and_more_check
SubCriticOutput ==
  /\ At("sub_critic_output")
  /\ \/ /\ ~InRange
        /\ UNCHANGED state
        /\ Goto("aggregator")
     \/ /\ InRange
        /\ \E s \in Scores :
             LET i == state.index
                 verdict == Gate(s, state.subs[i].iterations + 1)
                 status == CASE verdict = "approved" -> "completed"
                             [] verdict = "fail"     -> "failed"
                             [] OTHER                -> "evaluated"
             IN  /\ state' = [state EXCEPT
                      !.subs[i] = [status |-> status, iterations |-> @.iterations + 1],
                      !.index = NextIndex(status),
                      !.completed = @ + (IF status = "completed" THEN 1 ELSE 0)]
                 /\ Goto(IF verdict # "refine" /\ NextIndex(status) > Len(state.subs)
                         THEN "aggregator" ELSE "sub_specialist")
  /\ UNCHANGED cache

WithStatus(subs, status) == {i \in DOMAIN subs : subs[i].status = status}
Completed(subs) == Cardinality(WithStatus(subs, "completed"))

\* Each sub-task runs in a thread of its own and is collected when it is
\* settled, asks, raises or is late (the last two count as failed).
ParallelSubtasks ==
  /\ At("parallel_subtasks")
  /\ \E result \in [DOMAIN state.subs -> Settled \cup {"clarification_needed"}] :
       LET subs == [i \in DOMAIN state.subs |-> [NewSubTask EXCEPT !.status = result[i]]]
           asks == WithStatus(subs, "clarification_needed") # {}
       IN  /\ state' = IF subs = <<>> THEN state
                       ELSE [state EXCEPT !.subs = subs, !.clarification = asks,
                               !.completed = Completed(subs),
                               !.index = Len(subs) + 1]
           /\ Goto(AfterSpecialist(asks, "aggregator"))
  /\ UNCHANGED cache

\* The completed ones are put together, by the model or one after the other, and
\* counted; without any there is only an error to present.
Aggregator ==
  /\ At("aggregator")
  /\ state' = IF Completed(state.subs) = 0 THEN state
              ELSE [state EXCEPT !.completed = Completed(state.subs)]
  /\ Goto("final_critic")
  /\ UNCHANGED cache

\* evaluate_aggregated_output and should_approve_output: an aggregate is never
\* refined.
FinalCritic ==
  /\ At("final_critic")
  /\ \E s \in Scores :
       LET verdict == Gate(s, state.iteration + 1)
       IN  /\ state' = [state EXCEPT !.score = s, !.iteration = @ + 1,
                          !.output = "answer",
                          !.decision = IF verdict = "approved" THEN "pass" ELSE verdict]
           /\ Goto(IF verdict = "approved" THEN "format" ELSE "skill_cleanup")
  /\ UNCHANGED cache

-----------------------------------------------------------------------------
(* Closing                                                                 *)

Effective(score, final) == IF final > 0 THEN final ELSE score

\* ArtifactStore.store: good enough, and better than what is there.
\* final_score is 0 when the state has none.
SkillCleanup ==
  /\ At("skill_cleanup")
  /\ LET old == cache[Key]
         new == [output |-> state.output, score |-> state.score,
                 final |-> IF state.final = Absent THEN 0 ELSE state.final]
         worth == Effective(new.score, new.final)
         stores == /\ ~state.hit /\ state.output # "none"
                   /\ worth >= MinScoreToCache
                   /\ worth > Effective(old.score, old.final)
     IN  cache' = IF stores THEN [cache EXCEPT ![Key] = new] ELSE cache
  /\ Goto("persist_memory")
  /\ UNCHANGED state

\* Steps 8 and 9 of the heartbeat.
Verdict ==
  IF state.clarification THEN "question"
  ELSE IF (IF state.final = Absent THEN state.score ELSE state.final)
             >= QualityThreshold
       THEN "done" ELSE "blocked"

Deliver ==
  /\ node = "END" /\ runs > 0 /\ outcome = "none"
  /\ outcome' = Verdict
  /\ UNCHANGED <<threshold, node, steps, state, cache, runs, visited>>

Next ==
  \/ Start \/ Follow \/ Abort
  \/ Router \/ CacheMiss \/ CacheHit
  \/ Specialist \/ HeuristicCritic \/ CriticOutput \/ RecordLessonUses
  \/ SubSpecialist \/ SubCriticOutput \/ ParallelSubtasks
  \/ Aggregator \/ FinalCritic \/ SkillCleanup \/ Deliver

Spec == Init /\ [][Next]_vars

-----------------------------------------------------------------------------
(* Properties                                                              *)

Nodes == DOMAIN EdgeTo \cup
  {"router", "cache_lookup", "specialist", "heuristic_critic", "critic_output",
   "record_lesson_uses", "sub_specialist", "sub_critic_output",
   "parallel_subtasks", "aggregator", "final_critic", "skill_cleanup", "END"}

\* Values of the workflow's state: a gate counts no more iterations than it
\* allows, for the output or for a sub-task.
TypeOK ==
  /\ threshold \in Tiers
  /\ node \in Nodes /\ steps \in 0..MaxSteps
  /\ state.iteration \in 0..MaxIterations
  /\ state.score \in Scores \cup {0} /\ state.final \in Scores \cup {0, Absent}
  /\ state.output \in {"none", "answer", "question"}
  /\ state.decision \in {"refine", "pass", "fail"}
  /\ {state.clarification, state.decomposed, state.parallel, state.hit} \subseteq BOOLEAN
  /\ state.index \in 1..MaxSubTasks + 1 /\ state.completed \in 0..MaxSubTasks
  /\ \A i \in DOMAIN state.subs :
       state.subs[i] \in
         [status : Settled \cup {"pending", "executed", "evaluated", "clarification_needed"},
          iterations : 0..MaxIterations]
  /\ outcome \in {"none", "done", "blocked", "question", "aborted", "exceeded"}
  /\ runs \in 0..MaxRuns

\* The engine's step budget, a guard against a decision function stuck in a
\* loop (WorkflowRecursionError), is never used up by a legal run: not by five
\* sub-tasks of which each is refined as often as its gate allows.
StepBudgetSuffices == outcome # "exceeded"

\* "Sits at the end of every terminal path (success, blocked, fail,
\* clarification) so the agent never finishes amnesiac" (graph.py): a run that
\* the heartbeat judges was cleaned up and remembered exactly once, and was
\* formatted and posted exactly when its output was approved or cached.
EveryEndIsRemembered ==
  outcome \in {"done", "blocked", "question"} =>
    /\ visited.skill_cleanup = 1 /\ visited.persist_memory = 1
    /\ visited.format = visited.post
    /\ visited.format = IF state.hit \/ state.decision = "pass" THEN 1 ELSE 0

\* A run in which a specialist asks for clarification presents nothing as a
\* completed task: the question goes to the user through the heartbeat.
QuestionsAreNotResults ==
  state.clarification => node \notin {"format", "post"} /\ visited.format = 0

\* Only settled sub-tasks are aggregated, and the count of completed ones, kept
\* by the sub-task loop or by the thread pool, is right.
AggregatesSettledWork ==
  node \in {"aggregator", "final_critic"} =>
    /\ \A i \in DOMAIN state.subs : state.subs[i].status \in Settled
    /\ state.completed = Completed(state.subs)

\* What every state of a workflow run satisfies.
WorkflowInv ==
  /\ TypeOK /\ StepBudgetSuffices /\ EveryEndIsRemembered
  /\ QuestionsAreNotResults /\ AggregatesSettledWork

=============================================================================
