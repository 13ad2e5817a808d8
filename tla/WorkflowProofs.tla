---------------------------- MODULE WorkflowProofs ----------------------------
(***************************************************************************)
(* Proofs about Workflow, for any scores, thresholds and limits, any       *)
(* number of runs, and any step budget that is as large as the limits ask  *)
(* for; and about the memory and the result cache its nodes share, for any *)
(* threads, processes, keys, scores and limits.                            *)
(***************************************************************************)
EXTENDS MCWorkflow, FiniteSetTheorems, SequenceTheorems, TLAPS

\* The longest runs: a specialist refined as often as its gate allows, and every
\* sub-task refined as often.  The code's 50 steps are enough for three
\* iterations and five sub-tasks.
EnoughSteps ==
  /\ 5 * MaxIterations + 9 <= MaxSteps
  /\ 2 * (MaxSubTasks * MaxIterations) + 11 <= MaxSteps

SubTask ==
  [status : Settled \cup {"pending", "executed", "evaluated", "clarification_needed"},
   iterations : 0..MaxIterations]

AgentState ==
  [iteration : 0..MaxIterations, score : Scores \cup {0}, final : Scores \cup {0, Absent},
   output : {"none", "answer", "question"}, decision : {"refine", "pass", "fail"},
   clarification : BOOLEAN, decomposed : BOOLEAN, parallel : BOOLEAN,
   subs : Seq(SubTask), index : 1..(MaxSubTasks + 1), completed : 0..MaxSubTasks,
   hit : BOOLEAN]

Entry ==
  [output : {"none", "answer", "question"}, score : Scores \cup {0}, final : Scores \cup {0}]

Types ==
  /\ threshold \in Tiers /\ node \in Nodes /\ steps \in 0..MaxSteps
  /\ state \in AgentState /\ Len(state.subs) <= MaxSubTasks
  /\ cache \in [{"single", "multi"} -> Entry]
  /\ outcome \in {"none", "done", "blocked", "question", "aborted", "exceeded"}
  /\ runs \in 0..MaxRuns
  /\ visited \in [Closing -> Nat]

Opening == {"router", "skill_generator", "skill_loader", "inject_memory", "cache_lookup"}
Refining == {"specialist", "heuristic_critic", "critic_output", "memory_note",
             "record_lesson_uses"}
Looping == {"sub_specialist", "sub_critic_output"}
Joining == {"aggregator", "final_critic"}

\* Before the closing nodes nothing is approved, asked or visited.
Undecided ==
  node \notin Closing \cup {"END"} =>
    /\ state.decision # "pass" /\ ~state.hit /\ ~state.clarification
    /\ visited = [n \in Closing |-> 0]

\* How far the counters are.
Counted ==
  /\ node \notin Refining \cup Closing \cup {"END"} => state.iteration = 0
  /\ node \in Refining => state.iteration < MaxIterations
  /\ node \in Opening \cup {"parallel_subtasks"} =>
       /\ state.index = 1 /\ state.completed = 0
       /\ \A i \in 1..Len(state.subs) : state.subs[i] = NewSubTask

\* The sub-tasks before the index are settled, those after it untouched.
InTurn ==
  node \in Looping =>
    /\ \A i \in 1..Len(state.subs) : i < state.index => state.subs[i].status \in Settled
    /\ \A i \in 1..Len(state.subs) : i > state.index => state.subs[i] = NewSubTask
    /\ state.completed = Completed(state.subs)
    /\ IF InRange THEN /\ state.subs[state.index].status \notin Settled
                       /\ state.subs[state.index].iterations < MaxIterations
       ELSE state.subs = <<>>

\* Which closing nodes have run when one of them is to run, and at the end.
Presented == state.hit \/ state.decision = "pass"
Passed(format, post, cleanup, memory) ==
  /\ visited.format = format /\ visited.post = post
  /\ visited.skill_cleanup = cleanup /\ visited.persist_memory = memory
Shown == IF Presented THEN 1 ELSE 0
Remembered ==
  /\ node = "format" => Presented /\ Passed(0, 0, 0, 0)
  /\ node = "post" => Presented /\ Passed(1, 0, 0, 0)
  /\ node = "skill_cleanup" => Passed(Shown, Shown, 0, 0)
  /\ node = "persist_memory" => Passed(Shown, Shown, 1, 0)
  /\ node = "END" /\ runs > 0 /\ outcome \notin {"aborted", "exceeded"}
       => Passed(Shown, Shown, 1, 1)
  /\ node # "END" => outcome = "none"
  /\ runs = 0 => node = "END" /\ outcome = "none"

\* A question leads to the end without being presented.
Asked ==
  state.clarification =>
    /\ node \in {"skill_cleanup", "persist_memory", "END"}
    /\ visited.format = 0

IInv ==
  Types /\ Undecided /\ Counted /\ InTurn /\ Remembered /\ Asked /\ AggregatesSettledWork

\* The rounds the sub-task loop may still make.
RoundsLeft ==
  IF InRange
  THEN (MaxIterations - state.subs[state.index].iterations)
         + MaxIterations * (Len(state.subs) - state.index)
  ELSE 1

\* What is left of the budget is enough for the way to the end.
WithinBudget ==
  /\ node = "router" => steps = 0
  /\ node = "skill_generator" => steps = 1
  /\ node = "skill_loader" => steps = 2
  /\ node = "inject_memory" => steps = 3
  /\ node = "cache_lookup" => steps = 4
  /\ node = "specialist" => steps + 5 * (MaxIterations - state.iteration) + 4 <= MaxSteps
  /\ node = "heuristic_critic" => steps + 5 * (MaxIterations - state.iteration) + 3 <= MaxSteps
  /\ node = "critic_output" => steps + 5 * (MaxIterations - state.iteration) + 2 <= MaxSteps
  /\ node = "memory_note" => steps + 5 * (MaxIterations - state.iteration) + 1 <= MaxSteps
  /\ node = "record_lesson_uses" => steps + 5 * (MaxIterations - state.iteration) <= MaxSteps
  /\ node = "sub_specialist" => steps + 2 * RoundsLeft + 6 <= MaxSteps
  /\ node = "sub_critic_output" => steps + 2 * RoundsLeft + 5 <= MaxSteps
  /\ node = "parallel_subtasks" => steps + 7 <= MaxSteps
  /\ node = "aggregator" => steps + 6 <= MaxSteps
  /\ node = "final_critic" => steps + 5 <= MaxSteps
  /\ node = "format" => steps + 4 <= MaxSteps
  /\ node = "post" => steps + 3 <= MaxSteps
  /\ node = "skill_cleanup" => steps + 2 <= MaxSteps
  /\ node = "persist_memory" => steps + 1 <= MaxSteps
  /\ outcome # "exceeded"

-----------------------------------------------------------------------------
(* Sub-tasks                                                               *)

\* One sub-task is put in place of another.
LEMMA Replaced ==
  ASSUME NEW s \in Seq(SubTask), NEW i \in 1..Len(s), NEW t \in SubTask
  PROVE  LET r == [s EXCEPT ![i] = t]
         IN  /\ r \in Seq(SubTask) /\ Len(r) = Len(s) /\ r[i] = t
             /\ \A j \in 1..Len(s) : j # i => r[j] = s[j]
BY ExceptSeq

\* There are no more completed sub-tasks than sub-tasks.
LEMMA CompletedBound ==
  ASSUME NEW s \in Seq(SubTask)
  PROVE  /\ IsFiniteSet(WithStatus(s, "completed")) /\ Completed(s) \in 0..Len(s)
         /\ \A i \in 1..Len(s) : s[i].status # "completed" => Completed(s) < Len(s)
<1>1. Len(s) \in Nat /\ DOMAIN s = 1..Len(s)
  BY LenProperties
<1>2. IsFiniteSet(1..Len(s)) /\ Cardinality(1..Len(s)) = Len(s)
  BY <1>1, FS_Interval
<1>3. WithStatus(s, "completed") \subseteq 1..Len(s)
  BY <1>1 DEF WithStatus
<1>4. /\ IsFiniteSet(WithStatus(s, "completed"))
      /\ Completed(s) \in Nat /\ Completed(s) <= Len(s)
      /\ Completed(s) = Len(s) => WithStatus(s, "completed") = 1..Len(s)
  BY <1>2, <1>3, FS_Subset, FS_CardinalityType DEF Completed
<1>5. ASSUME NEW i \in 1..Len(s), s[i].status # "completed" PROVE Completed(s) < Len(s)
  <2>1. i \notin WithStatus(s, "completed")
    BY <1>5 DEF WithStatus
  <2>. QED BY <1>1, <1>4, <2>1
<1>. QED BY <1>1, <1>4, <1>5

\* A sub-task that completes is one more.
LEMMA OneMoreCompleted ==
  ASSUME NEW s \in Seq(SubTask), NEW i \in 1..Len(s), NEW t \in SubTask,
         s[i].status # "completed"
  PROVE  Completed([s EXCEPT ![i] = t])
           = Completed(s) + (IF t.status = "completed" THEN 1 ELSE 0)
<1>. DEFINE r == [s EXCEPT ![i] = t]
<1>1. /\ DOMAIN s = 1..Len(s) /\ DOMAIN r = 1..Len(s) /\ r[i] = t
      /\ \A j \in 1..Len(s) : j # i => r[j] = s[j]
  BY Replaced, LenProperties
<1>2. i \notin WithStatus(s, "completed") /\ IsFiniteSet(WithStatus(s, "completed"))
  BY CompletedBound DEF WithStatus
<1>. HIDE DEF r
<1>3. CASE t.status = "completed"
  <2>1. WithStatus(r, "completed") = WithStatus(s, "completed") \cup {i}
    BY <1>1, <1>3 DEF WithStatus
  <2>. QED BY <1>2, <1>3, <2>1, FS_AddElement DEF Completed, r
<1>4. CASE t.status # "completed"
  <2>1. WithStatus(r, "completed") = WithStatus(s, "completed")
    BY <1>1, <1>2, <1>4 DEF WithStatus
  <2>2. Completed(s) \in Nat
    BY CompletedBound, LenProperties
  <2>. QED BY <1>4, <2>1, <2>2 DEF Completed, r
<1>. QED BY <1>3, <1>4

\* None of new sub-tasks is completed.
LEMMA NewAreNotCompleted ==
  ASSUME NEW s \in Seq(SubTask), \A i \in 1..Len(s) : s[i] = NewSubTask
  PROVE  Completed(s) = 0
<1>1. DOMAIN s = 1..Len(s) /\ NewSubTask.status = "pending"
  BY LenProperties DEF NewSubTask
<1>2. WithStatus(s, "completed") = {}
  BY <1>1 DEF WithStatus
<1>. QED BY <1>2, FS_EmptySet DEF Completed

\* What a specialist does to the sub-task at the index.
LEMMA SubWorked ==
  ASSUME Types, SubSpecialist, InRange
  PROVE  \E asks \in BOOLEAN, t \in SubTask :
           LET i == state.index
           IN  /\ i \in 1..Len(state.subs)
               /\ t.iterations = state.subs[i].iterations
               /\ t.status = IF asks THEN "clarification_needed" ELSE "executed"
               /\ state'.subs = [state.subs EXCEPT ![i] = t]
               /\ Len(state'.subs) = Len(state.subs)
               /\ state'.clarification = asks
               /\ Goto(IF asks THEN "skill_cleanup" ELSE "sub_critic_output")
               /\ state' \in AgentState
               /\ UNCHANGED <<state.iteration, state.decision, state.hit, state.index,
                              state.completed>>
<1>. DEFINE i == state.index
<1>1. PICK asks \in BOOLEAN :
        /\ state' = [state EXCEPT !.clarification = asks,
             !.subs[i].status = IF asks THEN "clarification_needed" ELSE "executed"]
        /\ Goto(AfterSpecialist(asks, "sub_critic_output"))
  BY DEF SubSpecialist
<1>. DEFINE t == [state.subs[i] EXCEPT !.status =
                    IF asks THEN "clarification_needed" ELSE "executed"]
            r == [state.subs EXCEPT ![i] = t]
<1>2. /\ state \in AgentState /\ Len(state.subs) <= MaxSubTasks
      /\ state.subs \in Seq(SubTask) /\ i \in 1..Len(state.subs)
  BY LenProperties DEF Types, AgentState, InRange
<1>3. /\ t \in SubTask /\ t.iterations = state.subs[i].iterations
      /\ t.status = IF asks THEN "clarification_needed" ELSE "executed"
  <2>1. state.subs[i] \in SubTask
    BY <1>2, ElementOfSeq
  <2>. QED BY <2>1 DEF SubTask
<1>4. state' = [state EXCEPT !.clarification = asks, !.subs = r]
  BY <1>1, <1>2 DEF AgentState
<1>5. r \in Seq(SubTask) /\ Len(r) = Len(state.subs)
  BY <1>2, <1>3, Replaced
<1>6. r = [state.subs EXCEPT ![i] = t]
  OBVIOUS
<1>. HIDE DEF t, r
<1>7. /\ state' \in AgentState /\ state'.subs = r /\ state'.clarification = asks
      /\ UNCHANGED <<state.iteration, state.decision, state.hit, state.index,
                     state.completed>>
  BY <1>2, <1>4, <1>5 DEF AgentState
<1>8. Goto(IF asks THEN "skill_cleanup" ELSE "sub_critic_output")
  BY <1>1 DEF AfterSpecialist
<1>. QED BY <1>2, <1>3, <1>5, <1>6, <1>7, <1>8

\* What the critic's verdict on the sub-task at the index does to the list.
LEMMA SubJudged ==
  ASSUME Types, InTurn, SubCriticOutput, InRange
  PROVE  \E t \in SubTask :
           LET i == state.index
           IN  /\ i \in 1..Len(state.subs)
               /\ t.iterations = state.subs[i].iterations + 1
               /\ state'.subs = [state.subs EXCEPT ![i] = t]
               /\ Len(state'.subs) = Len(state.subs)
               /\ Completed(state'.subs) = state'.completed
               /\ \/ /\ t.status \in Settled /\ state'.index = i + 1
                     /\ Goto(IF i + 1 > Len(state.subs) THEN "aggregator" ELSE "sub_specialist")
                  \/ /\ t.status = "evaluated" /\ state'.index = i
                     /\ t.iterations < MaxIterations
                     /\ Goto("sub_specialist")
               /\ state' \in AgentState
               /\ UNCHANGED <<state.iteration, state.decision, state.hit, state.clarification>>
<1>. USE WorkflowAssumption
<1>. DEFINE i == state.index
            n == state.subs[i].iterations + 1
<1>1. /\ state \in AgentState /\ Len(state.subs) <= MaxSubTasks
      /\ state.subs \in Seq(SubTask) /\ i \in 1..Len(state.subs)
      /\ state.subs[i] \in SubTask /\ state.subs[i].status \notin Settled
      /\ state.subs[i].iterations < MaxIterations
      /\ state.completed = Completed(state.subs)
  <2>1. /\ state \in AgentState /\ Len(state.subs) <= MaxSubTasks
        /\ state.subs \in Seq(SubTask) /\ state.index \in 1..(MaxSubTasks + 1)
    BY DEF Types, AgentState
  <2>2. Len(state.subs) \in Nat /\ state.index \in 1..Len(state.subs)
    BY <2>1, LenProperties DEF InRange
  <2>3. state.subs[state.index] \in SubTask
    BY <2>1, <2>2, ElementOfSeq
  <2>. QED BY <2>1, <2>2, <2>3 DEF InTurn, SubCriticOutput, At, Looping
<1>2. PICK s \in Scores :
        LET verdict == Gate(s, n)
            status == CASE verdict = "approved" -> "completed"
                        [] verdict = "fail"     -> "failed"
                        [] OTHER                -> "evaluated"
        IN  /\ state' = [state EXCEPT
                 !.subs[i] = [status |-> status, iterations |-> @.iterations + 1],
                 !.index = NextIndex(status),
                 !.completed = @ + (IF status = "completed" THEN 1 ELSE 0)]
            /\ Goto(IF verdict # "refine" /\ NextIndex(status) > Len(state.subs)
                    THEN "aggregator" ELSE "sub_specialist")
  BY DEF SubCriticOutput
<1>. DEFINE verdict == Gate(s, n)
            status == CASE verdict = "approved" -> "completed"
                        [] verdict = "fail"     -> "failed"
                        [] OTHER                -> "evaluated"
            t == [status |-> status, iterations |-> n]
            r == [state.subs EXCEPT ![i] = t]
<1>3. /\ verdict \in {"approved", "fail", "refine"} /\ n \in 1..MaxIterations
      /\ verdict = "refine" => n < MaxIterations
  <2>1. state.subs[i].iterations \in 0..MaxIterations
    BY <1>1 DEF SubTask
  <2>2. n \in 1..MaxIterations
    <3>1. state.subs[i].iterations < MaxIterations /\ MaxIterations \in Nat
      BY <1>1
    <3>. QED BY <2>1, <3>1
  <2>. HIDE DEF n, i
  <2>. QED BY <2>2 DEF Gate
<1>4. /\ status \in {"completed", "failed", "evaluated"}
      /\ status = "evaluated" <=> verdict = "refine"
  BY <1>3
<1>5. t \in SubTask
  BY <1>3, <1>4 DEF SubTask, Settled
<1>6. r \in Seq(SubTask) /\ Len(r) = Len(state.subs)
  BY <1>1, <1>5, Replaced
<1>7. /\ Completed(r) = Completed(state.subs) + (IF status = "completed" THEN 1 ELSE 0)
      /\ Completed(state.subs) < Len(state.subs) /\ Completed(state.subs) \in Nat
  <2>1. state.subs[i].status # "completed" /\ t.status = status
    BY <1>1 DEF Settled
  <2>2. Completed(r) = Completed(state.subs) + (IF t.status = "completed" THEN 1 ELSE 0)
    <3>. HIDE DEF t
    <3>. QED BY <1>1, <1>5, <2>1, OneMoreCompleted
  <2>. QED BY <1>1, <2>1, <2>2, CompletedBound, LenProperties
<1>8. state' = [state EXCEPT !.subs = r, !.index = NextIndex(status),
                  !.completed = @ + (IF status = "completed" THEN 1 ELSE 0)]
  BY <1>1, <1>2 DEF AgentState
<1>9. Goto(IF verdict # "refine" /\ NextIndex(status) > Len(state.subs)
           THEN "aggregator" ELSE "sub_specialist")
  BY <1>2
<1>10. NextIndex(status) = IF status = "evaluated" THEN i ELSE i + 1
  BY <1>4 DEF NextIndex, Settled
<1>11. t.status = status /\ t.iterations = n
  OBVIOUS
<1>. HIDE DEF t, r, status, verdict
<1>12. /\ state'.subs = r /\ state'.index = NextIndex(status)
       /\ state'.completed = Completed(r)
       /\ UNCHANGED <<state.iteration, state.decision, state.hit, state.clarification>>
  BY <1>1, <1>7, <1>8 DEF AgentState
<1>13. state' \in AgentState
  <2>1. NextIndex(status) \in 1..(MaxSubTasks + 1)
    BY <1>1, <1>10, LenProperties
  <2>2. state.completed + (IF status = "completed" THEN 1 ELSE 0) \in 0..MaxSubTasks
    BY <1>1, <1>7, LenProperties
  <2>. QED BY <1>1, <1>6, <1>8, <2>1, <2>2 DEF AgentState
<1>14. r = [state.subs EXCEPT ![i] = t]
  BY DEF r
<1>15. \/ t.status \in Settled /\ state'.index = i + 1
          /\ Goto(IF i + 1 > Len(state.subs) THEN "aggregator" ELSE "sub_specialist")
       \/ /\ t.status = "evaluated" /\ state'.index = i /\ t.iterations < MaxIterations
          /\ Goto("sub_specialist")
  BY <1>3, <1>4, <1>9, <1>10, <1>11, <1>12 DEF Settled
<1>. QED BY <1>1, <1>5, <1>6, <1>11, <1>12, <1>13, <1>14, <1>15

\* What the thread pool makes of the list.
LEMMA Collected ==
  ASSUME Types, ParallelSubtasks
  PROVE  /\ state' \in AgentState /\ Len(state'.subs) = Len(state.subs)
         /\ Len(state'.subs) <= MaxSubTasks
         /\ state.subs # <<>> =>
              /\ state'.completed = Completed(state'.subs)
              /\ ~state'.clarification =>
                   \A i \in 1..Len(state'.subs) : state'.subs[i].status \in Settled
         /\ state.subs = <<>> => UNCHANGED state
         /\ Goto(IF state.subs # <<>> /\ state'.clarification
                 THEN "skill_cleanup" ELSE "aggregator")
         /\ UNCHANGED <<state.iteration, state.decision, state.hit>>
<1>. USE WorkflowAssumption
<1>1. /\ state \in AgentState /\ Len(state.subs) <= MaxSubTasks
      /\ state.subs \in Seq(SubTask) /\ DOMAIN state.subs = 1..Len(state.subs)
      /\ Len(state.subs) \in Nat
  BY LenProperties DEF Types, AgentState
<1>2. PICK result \in [DOMAIN state.subs -> Settled \cup {"clarification_needed"}] :
        LET subs == [j \in DOMAIN state.subs |-> [NewSubTask EXCEPT !.status = result[j]]]
            asks == WithStatus(subs, "clarification_needed") # {}
        IN  /\ state' = IF subs = <<>> THEN state
                        ELSE [state EXCEPT !.subs = subs, !.clarification = asks,
                                !.completed = Completed(subs), !.index = Len(subs) + 1]
            /\ Goto(AfterSpecialist(asks, "aggregator"))
  BY DEF ParallelSubtasks
<1>. DEFINE subs == [j \in DOMAIN state.subs |-> [NewSubTask EXCEPT !.status = result[j]]]
            asks == WithStatus(subs, "clarification_needed") # {}
<1>3. /\ subs \in Seq(SubTask) /\ Len(subs) = Len(state.subs)
      /\ DOMAIN subs = 1..Len(state.subs)
      /\ \A j \in 1..Len(state.subs) :
           subs[j].status \in Settled \cup {"clarification_needed"}
  <2>1. \A j \in 1..Len(state.subs) :
          /\ [NewSubTask EXCEPT !.status = result[j]] \in SubTask
          /\ [NewSubTask EXCEPT !.status = result[j]].status
               \in Settled \cup {"clarification_needed"}
    <3>. SUFFICES ASSUME NEW j \in 1..Len(state.subs)
                  PROVE  LET t == [NewSubTask EXCEPT !.status = result[j]]
                         IN  t \in SubTask /\ t.status \in Settled \cup {"clarification_needed"}
      OBVIOUS
    <3>1. result[j] \in Settled \cup {"clarification_needed"}
      BY <1>1
    <3>. QED BY <3>1 DEF NewSubTask, SubTask, Settled
  <2>. QED BY <1>1, <2>1
<1>4. /\ subs = <<>> <=> state.subs = <<>>
      /\ ~asks => \A j \in 1..Len(state.subs) : subs[j].status \in Settled
      /\ subs = <<>> => ~asks
  BY <1>1, <1>3 DEF WithStatus
<1>5. Completed(subs) \in 0..MaxSubTasks
  <2>. HIDE DEF subs
  <2>. QED BY <1>1, <1>3, CompletedBound
<1>6. /\ state' = IF subs = <<>> THEN state
                  ELSE [state EXCEPT !.subs = subs, !.clarification = asks,
                          !.completed = Completed(subs), !.index = Len(subs) + 1]
      /\ Goto(AfterSpecialist(asks, "aggregator"))
  BY <1>2
<1>. HIDE DEF subs, asks
<1>7. asks \in BOOLEAN
  BY DEF asks
<1>8. CASE state.subs = <<>>
  BY <1>1, <1>4, <1>6, <1>8 DEF AfterSpecialist
<1>9. CASE state.subs # <<>>
  <2>1. /\ state'.subs = subs /\ state'.clarification = asks
        /\ state'.completed = Completed(subs)
        /\ UNCHANGED <<state.iteration, state.decision, state.hit>>
    BY <1>1, <1>4, <1>6, <1>9 DEF AgentState
  <2>2. state' \in AgentState
    <3>1. Len(subs) + 1 \in 1..(MaxSubTasks + 1)
      BY <1>1, <1>3
    <3>2. state' = [state EXCEPT !.subs = subs, !.clarification = asks,
                       !.completed = Completed(subs), !.index = Len(subs) + 1]
      BY <1>4, <1>6, <1>9
    <3>. QED BY <1>1, <1>3, <1>5, <1>7, <3>1, <3>2 DEF AgentState
  <2>. QED BY <1>1, <1>3, <1>4, <1>6, <1>9, <2>1, <2>2 DEF AfterSpecialist
<1>. QED BY <1>8, <1>9

-----------------------------------------------------------------------------
(* Types                                                                   *)

LEMMA InitTypes == Init => Types
<1>. SUFFICES ASSUME Init PROVE Types
  OBVIOUS
<1>. USE WorkflowAssumption DEF Init
<1>1. state \in AgentState /\ Len(state.subs) <= MaxSubTasks
  BY EmptySeq DEF InitialState, AgentState, Absent
<1>2. cache \in [{"single", "multi"} -> Entry]
  BY DEF Entry, NoEntry
<1>3. visited \in [Closing -> Nat]
  OBVIOUS
<1>. QED BY <1>1, <1>2, <1>3 DEF Types, Nodes

\* What the engine's turn does to its own variables.
LEMMA Turn ==
  ASSUME Types, NEW n \in Nodes, At(node), Goto(n)
  PROVE  /\ node' = n /\ steps' = steps + 1 /\ steps' \in 0..MaxSteps
         /\ UNCHANGED <<threshold, runs, outcome>>
         /\ visited' \in [Closing -> Nat]
BY WorkflowAssumption DEF Types, At, Goto

\* A state whose steering fields are set stays a state.
LEMMA TypesStep == IInv /\ [Next]_vars => Types'
<1>. SUFFICES ASSUME IInv, [Next]_vars PROVE Types'
  OBVIOUS
<1>0. Types
  BY DEF IInv
<1>. USE WorkflowAssumption
<1>t. /\ state \in AgentState /\ Len(state.subs) <= MaxSubTasks
      /\ cache \in [{"single", "multi"} -> Entry] /\ Key \in {"single", "multi"}
  BY <1>0 DEF Types, Key
<1>1. CASE Start
  <2>1. InitialState \in AgentState /\ Len(InitialState.subs) <= MaxSubTasks
    BY EmptySeq DEF InitialState, AgentState, Absent
  <2>2. visited' \in [Closing -> Nat]
    BY <1>1 DEF Start
  <2>. QED BY <1>0, <1>1, <2>1, <2>2 DEF Start, Types, Nodes
<1>2. CASE Follow
  <2>1. EdgeTo[node] \in Nodes
    BY <1>2 DEF Follow, EdgeTo, Nodes
  <2>. QED BY <1>2, <2>1, <1>0, Turn DEF Follow, Types
<1>3. CASE Abort
  BY <1>0, <1>3 DEF Abort, Types, Nodes
<1>4. CASE Router
  <2>1. "skill_generator" \in Nodes
    BY DEF Nodes, EdgeTo
  <2>2. CASE UNCHANGED state
    BY <1>4, <2>1, <2>2, <1>0, Turn DEF Router, At, Types
  <2>3. ASSUME NEW n \in 0..MaxSubTasks, NEW parallel \in BOOLEAN,
               state' = [state EXCEPT !.decomposed = TRUE, !.parallel = parallel,
                                      !.subs = [i \in 1..n |-> NewSubTask]]
        PROVE  state' \in AgentState /\ Len(state'.subs) <= MaxSubTasks
    <3>1. NewSubTask \in SubTask
      BY DEF NewSubTask, SubTask
    <3>. DEFINE new == [i \in 1..n |-> NewSubTask]
    <3>2. new \in Seq(SubTask) /\ Len(new) = n
      BY <3>1
    <3>3. state' = [state EXCEPT !.decomposed = TRUE, !.parallel = parallel, !.subs = new]
      BY <2>3
    <3>. HIDE DEF new
    <3>4. state' \in AgentState
      BY <1>t, <3>2, <3>3 DEF AgentState
    <3>5. state'.subs = new
      BY <1>t, <3>3 DEF AgentState
    <3>. QED BY <3>2, <3>4, <3>5
  <2>. QED BY <1>4, <2>1, <2>2, <2>3, <1>0, Turn DEF Router, At, Types
<1>5. CASE CacheMiss
  <2>1. CacheMissTo \in Nodes
    BY DEF CacheMissTo, Nodes, EdgeTo
  <2>2. cache' \in [{"single", "multi"} -> Entry]
    BY <1>5, <1>t DEF CacheMiss, Entry, NoEntry
  <2>. QED BY <1>5, <2>1, <2>2, <1>0, Turn DEF CacheMiss, At, Types
<1>6. CASE CacheHit
  <2>1. "format" \in Nodes /\ cache[Key] \in Entry
    BY <1>t DEF Nodes, EdgeTo
  <2>2. state' \in AgentState /\ state'.subs = state.subs
    BY <1>6, <1>t, <2>1 DEF CacheHit, AgentState, Entry
  <2>. QED BY <1>6, <1>t, <2>1, <2>2, <1>0, Turn DEF CacheHit, At, Types
<1>7. CASE Specialist
  <2>1. PICK asks \in BOOLEAN :
          /\ state' = [state EXCEPT !.clarification = asks,
                                    !.output = IF asks THEN "question" ELSE "answer"]
          /\ Goto(AfterSpecialist(asks, "heuristic_critic"))
    BY <1>7 DEF Specialist
  <2>2. AfterSpecialist(asks, "heuristic_critic") \in Nodes
    BY DEF AfterSpecialist, Nodes, EdgeTo
  <2>3. state' \in AgentState /\ state'.subs = state.subs
    BY <1>t, <2>1 DEF AgentState
  <2>. QED BY <1>7, <1>t, <2>1, <2>2, <2>3, <1>0, Turn DEF Specialist, At, Types
<1>8. CASE HeuristicCritic
  <2>1. PICK h \in Scores :
          \/ /\ state' = [state EXCEPT !.score = h, !.decision = "pass"]
             /\ Goto("format")
          \/ UNCHANGED state /\ Goto("critic_output")
    BY <1>8 DEF HeuristicCritic
  <2>2. {"format", "critic_output"} \subseteq Nodes
    BY DEF Nodes, EdgeTo
  <2>3. state' \in AgentState /\ state'.subs = state.subs
    BY <1>t, <2>1 DEF AgentState
  <2>. QED BY <1>8, <1>t, <2>1, <2>2, <2>3, <1>0, Turn DEF HeuristicCritic, At, Types
<1>9. CASE CriticOutput
  <2>1. PICK s \in Scores : state' = [state EXCEPT !.score = s]
    BY <1>9 DEF CriticOutput
  <2>2. "memory_note" \in Nodes
    BY DEF Nodes, EdgeTo
  <2>3. state' \in AgentState /\ state'.subs = state.subs
    BY <1>t, <2>1 DEF AgentState
  <2>. QED BY <1>9, <1>t, <2>2, <2>3, <1>0, Turn DEF CriticOutput, At, Types
<1>10. CASE RecordLessonUses
  <2>1. /\ state' = [state EXCEPT !.iteration = @ + 1,
                       !.decision = IF Gate(state.score, state.iteration + 1) = "approved"
                                    THEN "pass" ELSE Gate(state.score, state.iteration + 1)]
        /\ \E n \in {"format", "specialist", "skill_cleanup"} : Goto(n)
    BY <1>10 DEF RecordLessonUses, Judge, Gate
  <2>2. {"format", "specialist", "skill_cleanup"} \subseteq Nodes
    BY DEF Nodes, EdgeTo
  <2>3. state.iteration < MaxIterations
    BY <1>10 DEF RecordLessonUses, At, IInv, Counted, Refining
  <2>4. state' \in AgentState /\ state'.subs = state.subs
    <3>. DEFINE v == Gate(state.score, state.iteration + 1)
                d == IF v = "approved" THEN "pass" ELSE v
    <3>1. d \in {"refine", "pass", "fail"}
      BY DEF Gate
    <3>2. state.iteration + 1 \in 0..MaxIterations
      BY <1>t, <2>3 DEF AgentState
    <3>3. state' = [state EXCEPT !.iteration = @ + 1, !.decision = d]
      BY <2>1
    <3>. HIDE DEF d
    <3>. QED BY <1>t, <3>1, <3>2, <3>3 DEF AgentState
  <2>. QED BY <1>10, <1>t, <2>1, <2>2, <2>4, <1>0, Turn DEF RecordLessonUses, At, Types
<1>11. CASE SubSpecialist
  <2>1. {"sub_critic_output", "skill_cleanup"} \subseteq Nodes
    BY DEF Nodes, EdgeTo
  <2>2. \E n \in {"sub_critic_output", "skill_cleanup"} : Goto(n)
    BY <1>11 DEF SubSpecialist, AfterSpecialist
  <2>3. state' \in AgentState /\ Len(state'.subs) <= MaxSubTasks
    <3>1. CASE UNCHANGED state
      BY <1>t, <3>1
    <3>2. CASE InRange
      BY <1>0, <1>t, <1>11, <3>2, SubWorked
    <3>. QED BY <1>11, <3>1, <3>2 DEF SubSpecialist
  <2>. QED BY <1>11, <1>0, <2>1, <2>2, <2>3, Turn DEF SubSpecialist, At, Types
<1>12. CASE SubCriticOutput
  <2>1. {"aggregator", "sub_specialist"} \subseteq Nodes
    BY DEF Nodes, EdgeTo
  <2>2. \E n \in {"aggregator", "sub_specialist"} : Goto(n)
    BY <1>12 DEF SubCriticOutput
  <2>3. state' \in AgentState /\ Len(state'.subs) <= MaxSubTasks
    <3>1. CASE UNCHANGED state
      BY <1>t, <3>1
    <3>2. CASE InRange
      BY <1>0, <1>t, <1>12, <3>2, SubJudged DEF IInv
    <3>. QED BY <1>12, <3>1, <3>2 DEF SubCriticOutput
  <2>. QED BY <1>12, <1>0, <2>1, <2>2, <2>3, Turn DEF SubCriticOutput, At, Types
<1>13. CASE ParallelSubtasks
  <2>1. {"aggregator", "skill_cleanup"} \subseteq Nodes
    BY DEF Nodes, EdgeTo
  <2>2. \E n \in {"aggregator", "skill_cleanup"} : Goto(n)
    BY <1>13 DEF ParallelSubtasks, AfterSpecialist
  <2>3. state' \in AgentState /\ Len(state'.subs) <= MaxSubTasks
    BY <1>t, <1>13, Collected DEF IInv
  <2>. QED BY <1>13, <1>0, <2>1, <2>2, <2>3, Turn DEF ParallelSubtasks, At, Types
<1>14. CASE Aggregator
  <2>1. "final_critic" \in Nodes
    BY DEF Nodes, EdgeTo
  <2>2. Completed(state.subs) \in 0..MaxSubTasks
    BY <1>t, CompletedBound DEF AgentState
  <2>3. state' \in AgentState /\ state'.subs = state.subs
    BY <1>t, <1>14, <2>2 DEF Aggregator, AgentState
  <2>. QED BY <1>14, <1>t, <1>0, <2>1, <2>3, Turn DEF Aggregator, At, Types
<1>15. CASE FinalCritic
  <2>1. PICK s \in Scores :
          /\ state' = [state EXCEPT !.score = s, !.iteration = @ + 1, !.output = "answer",
               !.decision = IF Gate(s, state.iteration + 1) = "approved"
                            THEN "pass" ELSE Gate(s, state.iteration + 1)]
          /\ \E n \in {"format", "skill_cleanup"} : Goto(n)
    BY <1>15 DEF FinalCritic
  <2>2. {"format", "skill_cleanup"} \subseteq Nodes
    BY DEF Nodes, EdgeTo
  <2>3. state.iteration = 0
    BY <1>15 DEF FinalCritic, At, IInv, Counted, Refining, Closing
  <2>4. state' \in AgentState /\ state'.subs = state.subs
    <3>1. 0 < MaxIterations
      OBVIOUS
    <3>. DEFINE v == Gate(s, state.iteration + 1)
                d == IF v = "approved" THEN "pass" ELSE v
    <3>2. d \in {"refine", "pass", "fail"} /\ state.iteration + 1 \in 0..MaxIterations
      BY <2>3 DEF Gate
    <3>3. state' = [state EXCEPT !.score = s, !.iteration = @ + 1, !.output = "answer",
                      !.decision = d]
      BY <2>1
    <3>. HIDE DEF d
    <3>. QED BY <1>t, <3>2, <3>3 DEF AgentState
  <2>. QED BY <1>15, <1>t, <1>0, <2>1, <2>2, <2>4, Turn DEF FinalCritic, At, Types
<1>16. CASE SkillCleanup
  <2>1. "persist_memory" \in Nodes
    BY DEF Nodes, EdgeTo
  <2>2. \/ cache' = cache
        \/ cache' = [cache EXCEPT ![Key] =
             [output |-> state.output, score |-> state.score,
              final |-> IF state.final = Absent THEN 0 ELSE state.final]]
    BY <1>16 DEF SkillCleanup
  <2>3. cache' \in [{"single", "multi"} -> Entry]
    BY <1>t, <2>2 DEF Entry, AgentState
  <2>. QED BY <1>16, <1>0, <2>1, <2>3, Turn DEF SkillCleanup, At, Types
<1>17. CASE Deliver
  BY <1>0, <1>17 DEF Deliver, Verdict, Types
<1>18. CASE UNCHANGED vars
  BY <1>0, <1>18 DEF vars, Types
<1>. QED
  BY <1>1, <1>2, <1>3, <1>4, <1>5, <1>6, <1>7, <1>8, <1>9, <1>10, <1>11, <1>12, <1>13,
     <1>14, <1>15, <1>16, <1>17, <1>18 DEF Next

-----------------------------------------------------------------------------
(* The way through the graph                                               *)

\* The engine counts a closing node when it goes on from it.
LEMMA Moved ==
  ASSUME Types, NEW n, Goto(n)
  PROVE  /\ node' = n /\ steps' = steps + 1 /\ UNCHANGED <<threshold, runs, outcome>>
         /\ node \notin Closing => visited' = visited
         /\ node \in Closing => visited' = [visited EXCEPT ![node] = @ + 1]
BY DEF Goto

\* Approval, a question and a hit lead straight to the closing nodes.
LEMMA UndecidedStep == IInv /\ [Next]_vars => Undecided'
<1>. SUFFICES ASSUME IInv, [Next]_vars, (node \notin Closing \cup {"END"})'
              PROVE  /\ state'.decision # "pass" /\ ~state'.hit /\ ~state'.clarification
                     /\ visited' = [n \in Closing |-> 0]
  BY DEF Undecided
<1>. USE DEF Closing
<1>t. Types /\ state \in AgentState
  BY DEF IInv, Types
<1>u. node \notin Closing \cup {"END"} =>
        /\ state.decision # "pass" /\ ~state.hit /\ ~state.clarification
        /\ visited = [n \in Closing |-> 0]
  BY DEF IInv, Undecided
<1>1. CASE Start
  BY <1>1 DEF Start, InitialState
<1>2. CASE Follow
  <2>1. node' = EdgeTo[node] /\ node \in DOMAIN EdgeTo /\ Goto(EdgeTo[node])
    BY <1>2 DEF Follow, Goto
  <2>2. node \in {"skill_generator", "skill_loader", "inject_memory", "memory_note"}
    BY <2>1 DEF EdgeTo
  <2>. QED BY <1>2, <1>t, <1>u, <2>1, <2>2, Moved DEF Follow
<1>3. CASE Abort
  BY <1>3 DEF Abort
<1>4. CASE Router
  <2>1. UNCHANGED <<state.decision, state.hit, state.clarification>>
    BY <1>4, <1>t DEF Router, AgentState
  <2>. QED BY <1>4, <1>t, <1>u, <2>1, Moved DEF Router, At
<1>5. CASE CacheMiss
  BY <1>5, <1>t, <1>u, Moved DEF CacheMiss, At
<1>6. CASE CacheHit
  BY <1>6 DEF CacheHit, Goto
<1>7. CASE Specialist
  <2>1. PICK asks \in BOOLEAN :
          /\ state' = [state EXCEPT !.clarification = asks,
                                    !.output = IF asks THEN "question" ELSE "answer"]
          /\ Goto(AfterSpecialist(asks, "heuristic_critic"))
    BY <1>7 DEF Specialist
  <2>2. ~asks
    BY <2>1 DEF Goto, AfterSpecialist
  <2>3. /\ UNCHANGED <<state.decision, state.hit>> /\ ~state'.clarification
    BY <1>t, <2>1, <2>2 DEF AgentState
  <2>. QED BY <1>7, <1>t, <1>u, <2>1, <2>3, Moved DEF Specialist, At
<1>8. CASE HeuristicCritic
  BY <1>8, <1>t, <1>u, Moved DEF HeuristicCritic, At
<1>9. CASE CriticOutput
  <2>1. UNCHANGED <<state.decision, state.hit, state.clarification>>
    BY <1>9, <1>t DEF CriticOutput, AgentState
  <2>. QED BY <1>9, <1>t, <1>u, <2>1, Moved DEF CriticOutput, At
<1>10. CASE RecordLessonUses
  <2>. DEFINE v == Gate(state.score, state.iteration + 1)
  <2>1. /\ state' = [state EXCEPT !.iteration = @ + 1,
                       !.decision = IF v = "approved" THEN "pass" ELSE v]
        /\ Goto(CASE v = "approved" -> "format" [] v = "refine" -> "specialist"
                  [] OTHER -> "skill_cleanup")
    BY <1>10 DEF RecordLessonUses, Judge
  <2>2. v = "refine"
    <3>1. v \in {"approved", "fail", "refine"}
      BY DEF Gate
    <3>. HIDE DEF v
    <3>. QED BY <2>1, <3>1 DEF Goto
  <2>3. state'.decision = "refine" /\ UNCHANGED <<state.hit, state.clarification>>
    BY <1>t, <2>1, <2>2 DEF AgentState
  <2>. QED BY <1>10, <1>t, <1>u, <2>1, <2>3, Moved DEF RecordLessonUses, At
<1>11. CASE SubSpecialist
  <2>1. CASE InRange
    <3>1. ~state'.clarification /\ UNCHANGED <<state.decision, state.hit>>
          /\ \E n : Goto(n)
      BY <1>11, <1>t, <2>1, SubWorked DEF Goto
    <3>. QED BY <1>11, <1>t, <1>u, <3>1, Moved DEF SubSpecialist, At
  <2>2. CASE ~InRange
    BY <1>11, <1>t, <1>u, <2>2, Moved DEF SubSpecialist, At
  <2>. QED BY <2>1, <2>2
<1>12. CASE SubCriticOutput
  <2>1. CASE InRange
    <3>1. /\ UNCHANGED <<state.decision, state.hit, state.clarification>>
          /\ \E n : Goto(n)
      BY <1>12, <1>t, <2>1, SubJudged DEF IInv
    <3>. QED BY <1>12, <1>t, <1>u, <3>1, Moved DEF SubCriticOutput, At
  <2>2. CASE ~InRange
    BY <1>12, <1>t, <1>u, <2>2, Moved DEF SubCriticOutput, At
  <2>. QED BY <2>1, <2>2
<1>13. CASE ParallelSubtasks
  <2>1. /\ UNCHANGED <<state.decision, state.hit>>
        /\ state.subs = <<>> => UNCHANGED state
        /\ Goto(IF state.subs # <<>> /\ state'.clarification
                THEN "skill_cleanup" ELSE "aggregator")
    BY <1>13, <1>t, Collected
  <2>2. ~state'.clarification
    BY <1>13, <1>u, <2>1 DEF Goto, ParallelSubtasks, At
  <2>. QED BY <1>13, <1>t, <1>u, <2>1, <2>2, Moved DEF ParallelSubtasks, At
<1>14. CASE Aggregator
  <2>1. UNCHANGED <<state.decision, state.hit, state.clarification>>
    BY <1>14, <1>t DEF Aggregator, AgentState
  <2>. QED BY <1>14, <1>t, <1>u, <2>1, Moved DEF Aggregator, At
<1>15. CASE FinalCritic
  BY <1>15 DEF FinalCritic, Goto
<1>16. CASE SkillCleanup
  BY <1>16 DEF SkillCleanup, Goto
<1>17. CASE Deliver
  BY <1>17 DEF Deliver
<1>18. CASE UNCHANGED vars
  BY <1>18, <1>u DEF vars
<1>. QED
  BY <1>1, <1>2, <1>3, <1>4, <1>5, <1>6, <1>7, <1>8, <1>9, <1>10, <1>11, <1>12, <1>13,
     <1>14, <1>15, <1>16, <1>17, <1>18 DEF Next

\* Only the refining nodes and the last critic count iterations.
LEMMA CountedStep == IInv /\ [Next]_vars => Counted'
<1>. SUFFICES ASSUME IInv, [Next]_vars PROVE Counted'
  OBVIOUS
<1>. USE WorkflowAssumption DEF Closing, Opening, Refining
<1>t. Types /\ state \in AgentState /\ Counted
  BY DEF IInv, Types
<1>1. CASE Start
  BY <1>1, EmptySeq DEF Start, InitialState, Counted
<1>2. CASE Follow
  BY <1>2, <1>t DEF Follow, EdgeTo, Goto, Counted
<1>3. CASE Abort
  BY <1>3 DEF Abort, Counted
<1>4. CASE Router
  <2>0. node = "router" /\ node' = "skill_generator"
    BY <1>4 DEF Router, At, Goto
  <2>1. CASE UNCHANGED state
    BY <1>t, <2>0, <2>1 DEF Counted
  <2>2. ASSUME NEW n \in 0..MaxSubTasks, NEW parallel \in BOOLEAN,
               state' = [state EXCEPT !.decomposed = TRUE, !.parallel = parallel,
                                      !.subs = [i \in 1..n |-> NewSubTask]]
        PROVE  Counted'
    <3>1. /\ state'.subs = [i \in 1..n |-> NewSubTask]
          /\ UNCHANGED <<state.iteration, state.index, state.completed>>
      BY <1>t, <2>2 DEF AgentState
    <3>2. \A i \in 1..Len(state'.subs) : state'.subs[i] = NewSubTask
      BY <3>1
    <3>. QED BY <1>t, <2>0, <3>1, <3>2 DEF Counted
  <2>. QED BY <1>4, <2>1, <2>2 DEF Router
<1>5. CASE CacheMiss
  BY <1>5, <1>t DEF CacheMiss, CacheMissTo, At, Goto, Counted, Types, AgentState
<1>6. CASE CacheHit
  BY <1>6 DEF CacheHit, Goto, Counted
<1>7. CASE Specialist
  <2>1. UNCHANGED state.iteration /\ node = "specialist"
    BY <1>7, <1>t DEF Specialist, At, AgentState
  <2>2. node' \in {"heuristic_critic", "skill_cleanup"}
    BY <1>7 DEF Specialist, AfterSpecialist, Goto
  <2>. QED BY <1>t, <2>1, <2>2 DEF Counted
<1>8. CASE HeuristicCritic
  <2>1. UNCHANGED state.iteration /\ node = "heuristic_critic"
    BY <1>8, <1>t DEF HeuristicCritic, At, AgentState
  <2>2. node' \in {"format", "critic_output"}
    BY <1>8 DEF HeuristicCritic, Goto
  <2>. QED BY <1>t, <2>1, <2>2 DEF Counted
<1>9. CASE CriticOutput
  <2>1. UNCHANGED state.iteration /\ node = "critic_output" /\ node' = "memory_note"
    BY <1>9, <1>t DEF CriticOutput, At, AgentState, Goto
  <2>. QED BY <1>t, <2>1 DEF Counted
<1>10. CASE RecordLessonUses
  <2>. DEFINE v == Gate(state.score, state.iteration + 1)
  <2>1. /\ state' = [state EXCEPT !.iteration = @ + 1,
                       !.decision = IF v = "approved" THEN "pass" ELSE v]
        /\ node' = CASE v = "approved" -> "format" [] v = "refine" -> "specialist"
                     [] OTHER -> "skill_cleanup"
    BY <1>10 DEF RecordLessonUses, Judge, Goto
  <2>2. v = "refine" => state.iteration + 1 < MaxIterations
    BY <1>t DEF Gate, AgentState
  <2>3. v \in {"approved", "fail", "refine"}
    BY DEF Gate
  <2>4. state'.iteration = state.iteration + 1
    BY <1>t, <2>1 DEF AgentState
  <2>. HIDE DEF v
  <2>5. node' \in {"format", "skill_cleanup"} \/ (node' = "specialist" /\ v = "refine")
    BY <2>1, <2>3
  <2>. QED BY <2>2, <2>4, <2>5 DEF Counted
<1>11. CASE SubSpecialist
  <2>1. UNCHANGED state.iteration /\ state.iteration = 0
    BY <1>11, <1>t, SubWorked DEF SubSpecialist, At, Counted
  <2>2. node' \in {"sub_critic_output", "skill_cleanup"}
    BY <1>11 DEF SubSpecialist, AfterSpecialist, Goto
  <2>. QED BY <2>1, <2>2 DEF Counted
<1>12. CASE SubCriticOutput
  <2>1. UNCHANGED state.iteration /\ state.iteration = 0
    BY <1>12, <1>t, SubJudged DEF SubCriticOutput, At, Counted, IInv
  <2>2. node' \in {"sub_specialist", "aggregator"}
    BY <1>12 DEF SubCriticOutput, Goto
  <2>. QED BY <2>1, <2>2 DEF Counted
<1>13. CASE ParallelSubtasks
  <2>1. UNCHANGED state.iteration /\ state.iteration = 0
    BY <1>13, <1>t, Collected DEF ParallelSubtasks, At, Counted
  <2>2. node' \in {"aggregator", "skill_cleanup"}
    BY <1>13 DEF ParallelSubtasks, AfterSpecialist, Goto
  <2>. QED BY <2>1, <2>2 DEF Counted
<1>14. CASE Aggregator
  <2>1. UNCHANGED state.iteration /\ state.iteration = 0 /\ node' = "final_critic"
    BY <1>14, <1>t DEF Aggregator, At, Counted, AgentState, Goto
  <2>. QED BY <2>1 DEF Counted
<1>15. CASE FinalCritic
  BY <1>15 DEF FinalCritic, Goto, Counted
<1>16. CASE SkillCleanup
  BY <1>16 DEF SkillCleanup, Goto, Counted
<1>17. CASE Deliver
  BY <1>17 DEF Deliver, Counted
<1>18. CASE UNCHANGED vars
  BY <1>18, <1>t DEF vars, Counted
<1>. QED
  BY <1>1, <1>2, <1>3, <1>4, <1>5, <1>6, <1>7, <1>8, <1>9, <1>10, <1>11, <1>12, <1>13,
     <1>14, <1>15, <1>16, <1>17, <1>18 DEF Next

\* The loop takes the sub-tasks one after the other, and leaves them settled to
\* the aggregator; so does the thread pool.
LEMMA InTurnStep == IInv /\ [Next]_vars => InTurn' /\ AggregatesSettledWork'
<1>. SUFFICES ASSUME IInv, [Next]_vars PROVE InTurn' /\ AggregatesSettledWork'
  OBVIOUS
<1>. USE WorkflowAssumption DEF Looping
<1>t. /\ Types /\ state \in AgentState /\ Counted /\ InTurn /\ AggregatesSettledWork
      /\ state.subs \in Seq(SubTask) /\ Len(state.subs) \in Nat
      /\ DOMAIN state.subs = 1..Len(state.subs)
  BY LenProperties DEF IInv, Types, AgentState
<1>1. CASE CacheMiss
  <2>1. CASE node' \notin Looping
    BY <1>1, <2>1 DEF CacheMiss, CacheMissTo, Goto, InTurn, AggregatesSettledWork
  <2>2. CASE node' \in Looping
    <3>1. /\ node = "cache_lookup" /\ node' = "sub_specialist" /\ UNCHANGED state
          /\ state.index = 1 /\ state.completed = 0
          /\ \A i \in 1..Len(state.subs) : state.subs[i] = NewSubTask
      BY <1>1, <1>t, <2>2 DEF CacheMiss, CacheMissTo, At, Goto, Counted, Opening
    <3>2. Completed(state.subs) = 0
      BY <1>t, <3>1, NewAreNotCompleted
    <3>3. CASE InRange
      BY <1>t, <3>1, <3>2, <3>3
         DEF InTurn, InRange, NewSubTask, Settled, AggregatesSettledWork
    <3>4. CASE ~InRange
      <4>1. state.subs = <<>>
        BY <1>t, <3>1, <3>4, EmptySeq DEF InRange
      <4>. QED BY <1>t, <3>1, <3>2, <3>4, <4>1 DEF InTurn, InRange, AggregatesSettledWork
    <3>. QED BY <3>3, <3>4
  <2>. QED BY <2>1, <2>2
<1>2. CASE SubSpecialist
  <2>1. CASE ~InRange
    BY <1>2, <1>t, <2>1
       DEF SubSpecialist, Goto, At, InTurn, InRange, AggregatesSettledWork
  <2>2. CASE InRange
    <3>1. PICK asks \in BOOLEAN, t \in SubTask :
            /\ state.index \in 1..Len(state.subs)
            /\ t.iterations = state.subs[state.index].iterations
            /\ t.status = IF asks THEN "clarification_needed" ELSE "executed"
            /\ state'.subs = [state.subs EXCEPT ![state.index] = t]
            /\ Len(state'.subs) = Len(state.subs)
            /\ Goto(IF asks THEN "skill_cleanup" ELSE "sub_critic_output")
            /\ UNCHANGED <<state.index, state.completed>>
      BY <1>2, <1>t, <2>2, SubWorked
    <3>2. state.subs[state.index].status \notin Settled /\ t.status \notin Settled
      BY <1>2, <1>t, <2>2, <3>1 DEF SubSpecialist, At, InTurn, Settled
    <3>3. Completed(state'.subs) = Completed(state.subs)
      <4>1. state.subs[state.index].status # "completed" /\ t.status # "completed"
        BY <3>2 DEF Settled
      <4>2. Completed(state.subs) \in Nat
        BY <1>t, CompletedBound
      <4>. QED BY <1>t, <3>1, <4>1, <4>2, OneMoreCompleted
    <3>4. CASE asks
      BY <3>1, <3>4 DEF Goto, InTurn, AggregatesSettledWork
    <3>5. CASE ~asks
      <4>1. node' = "sub_critic_output"
        BY <3>1, <3>5 DEF Goto
      <4>2. /\ state'.subs[state.index] = t
            /\ \A j \in 1..Len(state.subs) : j # state.index => state'.subs[j] = state.subs[j]
        BY <1>t, <3>1, Replaced
      <4>3. /\ state.completed = Completed(state.subs)
            /\ state.subs[state.index].iterations < MaxIterations
            /\ \A j \in 1..Len(state.subs) :
                 /\ j < state.index => state.subs[j].status \in Settled
                 /\ j > state.index => state.subs[j] = NewSubTask
        BY <1>2, <1>t, <2>2 DEF SubSpecialist, At, InTurn
      <4>. QED BY <1>t, <3>1, <3>2, <3>3, <4>1, <4>2, <4>3
           DEF InTurn, InRange, AggregatesSettledWork
    <3>. QED BY <3>4, <3>5
  <2>. QED BY <2>1, <2>2
<1>3. CASE SubCriticOutput
  <2>1. CASE ~InRange
    <3>1. /\ node' = "aggregator" /\ UNCHANGED state /\ state.subs = <<>>
          /\ state.completed = Completed(state.subs)
      BY <1>3, <1>t, <2>1 DEF SubCriticOutput, Goto, At, InTurn
    <3>2. DOMAIN state.subs = {}
      BY <1>t, <3>1
    <3>. QED BY <3>1, <3>2 DEF InTurn, AggregatesSettledWork
  <2>2. CASE InRange
    <3>1. PICK t \in SubTask :
            /\ state.index \in 1..Len(state.subs)
            /\ state'.subs = [state.subs EXCEPT ![state.index] = t]
            /\ Len(state'.subs) = Len(state.subs)
            /\ Completed(state'.subs) = state'.completed
            /\ \/ /\ t.status \in Settled /\ state'.index = state.index + 1
                  /\ Goto(IF state.index + 1 > Len(state.subs)
                          THEN "aggregator" ELSE "sub_specialist")
               \/ /\ t.status = "evaluated" /\ state'.index = state.index
                  /\ t.iterations < MaxIterations
                  /\ Goto("sub_specialist")
            /\ state' \in AgentState
      BY <1>3, <1>t, <2>2, SubJudged
    <3>2. /\ state'.subs[state.index] = t
          /\ \A j \in 1..Len(state.subs) : j # state.index => state'.subs[j] = state.subs[j]
      BY <1>t, <3>1, Replaced
    <3>3. \A j \in 1..Len(state.subs) :
            /\ j < state.index => state.subs[j].status \in Settled
            /\ j > state.index => state.subs[j] = NewSubTask
      BY <1>3, <1>t, <2>2 DEF SubCriticOutput, At, InTurn
    <3>4. DOMAIN state'.subs = 1..Len(state.subs)
      BY <3>1, LenProperties DEF AgentState
    <3>5. CASE node' = "aggregator"
      <4>1. /\ t.status \in Settled
            /\ \A j \in 1..Len(state.subs) : j < state.index + 1
        BY <1>t, <3>1, <3>5 DEF Goto
      <4>2. \A j \in 1..Len(state.subs) : j < state.index \/ j = state.index
        BY <3>1, <4>1
      <4>3. \A j \in 1..Len(state.subs) : state'.subs[j].status \in Settled
        BY <3>2, <3>3, <4>1, <4>2
      <4>. QED BY <3>1, <3>4, <3>5, <4>3 DEF InTurn, AggregatesSettledWork
    <3>6. CASE node' # "aggregator"
      <4>1. /\ node' = "sub_specialist" /\ state'.index \in 1..Len(state.subs)
            /\ \/ t.status \in Settled /\ state'.index = state.index + 1
               \/ /\ t.status = "evaluated" /\ state'.index = state.index
                  /\ t.iterations < MaxIterations
        BY <1>t, <3>1, <3>6 DEF Goto
      <4>m. MaxIterations > 0 /\ NewSubTask.status \notin Settled /\ NewSubTask.iterations = 0
        BY DEF NewSubTask, Settled
      <4>. DEFINE Fine == /\ state'.subs[state'.index].status \notin Settled
                          /\ state'.subs[state'.index].iterations < MaxIterations
                          /\ \A j \in 1..Len(state.subs) :
                               /\ j < state'.index => state'.subs[j].status \in Settled
                               /\ j > state'.index => state'.subs[j] = NewSubTask
      <4>2. ASSUME t.status \in Settled, state'.index = state.index + 1
            PROVE  Fine
        <5>1. state'.subs[state'.index] = NewSubTask
          BY <3>1, <3>2, <3>3, <4>1, <4>2
        <5>2. \A j \in 1..Len(state.subs) :
                /\ j < state'.index => j < state.index \/ j = state.index
                /\ j > state'.index => j > state.index
          BY <3>1, <4>2
        <5>. QED BY <3>2, <3>3, <4>2, <4>m, <5>1, <5>2
      <4>3. ASSUME t.status = "evaluated", state'.index = state.index,
                   t.iterations < MaxIterations
            PROVE  Fine
        <5>1. t.status \notin Settled
          BY <4>3 DEF Settled
        <5>2. \A j \in 1..Len(state.subs) :
                j < state.index \/ j > state.index => j # state.index
          BY <3>1
        <5>. QED BY <3>1, <3>2, <3>3, <4>3, <5>1, <5>2
      <4>4. Fine
        BY <4>1, <4>2, <4>3
      <4>. QED BY <3>1, <4>1, <4>4, SMTT(30) DEF InTurn, InRange, AggregatesSettledWork
    <3>. QED BY <3>5, <3>6
  <2>. QED BY <2>1, <2>2
<1>4. CASE ParallelSubtasks
  <2>1. /\ node' \in {"skill_cleanup", "aggregator"}
        /\ state' \in AgentState
        /\ state.subs = <<>> => UNCHANGED state
        /\ state.subs # <<>> =>
             /\ state'.completed = Completed(state'.subs)
             /\ ~state'.clarification =>
                  \A i \in 1..Len(state'.subs) : state'.subs[i].status \in Settled
        /\ node' = "aggregator" => state.subs = <<>> \/ ~state'.clarification
    BY <1>4, <1>t, Collected DEF Goto
  <2>2. DOMAIN state'.subs = 1..Len(state'.subs)
    BY <2>1, LenProperties DEF AgentState
  <2>3. CASE state.subs # <<>>
    BY <2>1, <2>2, <2>3 DEF InTurn, AggregatesSettledWork
  <2>4. CASE state.subs = <<>>
    <3>1. state.completed = 0 /\ Completed(state.subs) = 0 /\ Len(state.subs) = 0
      BY <1>4, <1>t, <2>4, NewAreNotCompleted DEF ParallelSubtasks, At, Counted
    <3>. QED BY <2>1, <2>2, <2>4, <3>1 DEF InTurn, AggregatesSettledWork
  <2>. QED BY <2>3, <2>4
<1>5. CASE Aggregator
  <2>1. UNCHANGED <<state.subs, state.completed>> /\ node = "aggregator" /\ node' = "final_critic"
    BY <1>5, <1>t DEF Aggregator, At, AgentState, Goto, AggregatesSettledWork
  <2>. QED BY <1>t, <2>1 DEF InTurn, AggregatesSettledWork
<1>6. CASE UNCHANGED vars
  BY <1>6, <1>t DEF vars, InTurn, InRange, AggregatesSettledWork
<1>7. CASE node' \notin Looping \cup {"aggregator", "final_critic"}
  BY <1>7 DEF InTurn, AggregatesSettledWork
<1>8. ASSUME \/ Start \/ Abort \/ Router \/ CacheHit \/ Specialist \/ HeuristicCritic
             \/ CriticOutput \/ FinalCritic \/ SkillCleanup \/ Deliver
      PROVE  node' \notin Looping \cup {"aggregator", "final_critic"}
  BY <1>8 DEF Start, Abort, Router, CacheHit, Specialist, AfterSpecialist,
     HeuristicCritic, CriticOutput, FinalCritic, SkillCleanup, Deliver, Goto
<1>9. ASSUME Follow PROVE node' \notin Looping \cup {"aggregator", "final_critic"}
  <2>1. node \in DOMAIN EdgeTo /\ node' = EdgeTo[node]
    BY <1>9 DEF Follow, Goto
  <2>. QED BY <2>1 DEF EdgeTo
<1>10. ASSUME RecordLessonUses
       PROVE  node' \notin Looping \cup {"aggregator", "final_critic"}
  <2>1. node' \in {"format", "specialist", "skill_cleanup"}
    BY <1>10 DEF RecordLessonUses, Judge, Gate, Goto
  <2>. QED BY <2>1
<1>. QED BY <1>1, <1>2, <1>3, <1>4, <1>5, <1>6, <1>7, <1>8, <1>9, <1>10 DEF Next

-----------------------------------------------------------------------------
(* The closing nodes                                                       *)

\* A turn between nodes before the closing ones.
LEMMA Elsewhere ==
  ASSUME IInv, node # "END", NEW n, n \notin Closing \cup {"END"}, Goto(n)
  PROVE  Remembered'
<1>1. /\ node' = n /\ outcome = "none" /\ outcome' = "none" /\ runs # 0 /\ runs' = runs
  BY DEF IInv, Remembered, Goto
<1>. QED BY <1>1 DEF Remembered, Closing

\* A turn that enters the closing nodes: at format with something to present, at
\* skill_cleanup without.
LEMMA Arrives ==
  ASSUME IInv, node \notin Closing \cup {"END"}, NEW n \in {"format", "skill_cleanup"}, Goto(n),
         n = "format" <=> Presented', state'.clarification => n = "skill_cleanup"
  PROVE  Remembered' /\ Asked'
<1>1. /\ node' = n /\ outcome' = "none" /\ runs' = runs /\ runs # 0
      /\ visited' = [m \in Closing |-> 0]
  BY DEF IInv, Remembered, Goto, Undecided
<1>2. /\ visited'.format = 0 /\ visited'.post = 0
      /\ visited'.skill_cleanup = 0 /\ visited'.persist_memory = 0
  BY <1>1 DEF Closing
<1>3. Passed(0, 0, 0, 0)'
  BY <1>2 DEF Passed
<1>4. n = "skill_cleanup" => Shown' = 0
  BY DEF Shown
<1>. QED BY <1>1, <1>2, <1>3, <1>4 DEF Remembered, Asked, Passed

\* Every path through the closing nodes ends with the memory persisted.
LEMMA RememberedStep == IInv /\ [Next]_vars => Remembered' /\ Asked'
<1>. SUFFICES ASSUME IInv, [Next]_vars PROVE Remembered' /\ Asked'
  OBVIOUS
<1>t. /\ Types /\ state \in AgentState /\ Undecided /\ Remembered /\ Asked
      /\ visited \in [Closing -> Nat] /\ runs \in Nat
  BY DEF IInv, Types
<1>u. ASSUME Undecided', node' \notin Closing \cup {"END"} PROVE Asked'
  BY <1>u DEF Undecided, Asked
<1>v. Undecided'
  BY UndecidedStep
<1>1. CASE Start
  <2>1. node' = "router" /\ outcome' = "none" /\ runs' # 0
    BY <1>1, <1>t DEF Start
  <2>2. Remembered'
    BY <2>1 DEF Remembered
  <2>. QED BY <1>u, <1>v, <2>1, <2>2 DEF Closing
<1>2. CASE Follow
  <2>1. node \in DOMAIN EdgeTo /\ node' = EdgeTo[node] /\ Goto(EdgeTo[node]) /\ UNCHANGED state
    BY <1>2 DEF Follow, Goto
  <2>2. CASE node \in {"skill_generator", "skill_loader", "inject_memory", "memory_note"}
    <3>1. node # "END" /\ EdgeTo[node] \notin Closing \cup {"END"}
      BY <2>2 DEF EdgeTo, Closing
    <3>2. Remembered'
      BY <2>1, <3>1, Elsewhere
    <3>. QED BY <1>u, <1>v, <2>1, <3>1, <3>2
  <2>3. CASE node \in {"format", "post", "persist_memory"}
    <3>1. /\ outcome' = "none" /\ runs' = runs /\ runs # 0
          /\ visited' = [visited EXCEPT ![node] = @ + 1]
      BY <1>t, <2>1, <2>3 DEF Goto, Remembered, Closing
    <3>2. Shown' = Shown /\ Presented' = Presented
      BY <2>1 DEF Shown, Presented
    <3>3. CASE node = "format"
      <4>1. node' = "post" /\ Passed(0, 0, 0, 0) /\ Presented
        BY <1>t, <2>1, <3>3 DEF EdgeTo, Remembered
      <4>2. Passed(1, 0, 0, 0)'
        BY <1>t, <3>1, <3>3, <4>1 DEF Passed, Closing
      <4>3. ~state'.clarification
        BY <1>t, <2>1, <3>3 DEF Asked
      <4>. QED BY <3>1, <3>2, <4>1, <4>2, <4>3 DEF Remembered, Asked, Passed
    <3>4. CASE node = "post"
      <4>1. node' = "skill_cleanup" /\ Passed(1, 0, 0, 0) /\ Presented
        BY <1>t, <2>1, <3>4 DEF EdgeTo, Remembered
      <4>2. Passed(1, 1, 0, 0)'
        BY <1>t, <3>1, <3>4, <4>1 DEF Passed, Closing
      <4>3. ~state'.clarification /\ Shown' = 1
        BY <1>t, <2>1, <3>2, <3>4, <4>1 DEF Asked, Shown
      <4>. QED BY <3>1, <3>2, <4>1, <4>2, <4>3 DEF Remembered, Asked, Passed
    <3>5. CASE node = "persist_memory"
      <4>1. node' = "END" /\ Passed(Shown, Shown, 1, 0)
        BY <1>t, <2>1, <3>5 DEF EdgeTo, Remembered
      <4>2. Passed(Shown, Shown, 1, 1)' /\ visited'.format = visited.format
        BY <1>t, <3>1, <3>2, <3>5, <4>1 DEF Passed, Closing
      <4>. QED BY <1>t, <2>1, <3>1, <3>2, <4>1, <4>2 DEF Remembered, Asked, Passed
    <3>. QED BY <2>3, <3>3, <3>4, <3>5
  <2>. QED BY <2>1, <2>2, <2>3 DEF EdgeTo
<1>3. CASE Abort
  <2>1. /\ node' = "END" /\ outcome' \in {"aborted", "exceeded"} /\ runs' = runs /\ runs # 0
        /\ UNCHANGED <<state, visited>>
    BY <1>3, <1>t DEF Abort, Remembered
  <2>. QED BY <1>t, <2>1 DEF Remembered, Asked
<1>4. CASE Router
  <2>1. node = "router" /\ node' = "skill_generator" /\ Goto("skill_generator")
    BY <1>4 DEF Router, At, Goto
  <2>2. node' \notin Closing \cup {"END"} /\ "skill_generator" \notin Closing \cup {"END"}
    BY <2>1 DEF Closing
  <2>. QED BY <1>u, <1>v, <2>1, <2>2, Elsewhere
<1>5. CASE CacheMiss
  <2>1. node = "cache_lookup" /\ node' = CacheMissTo /\ Goto(CacheMissTo)
    BY <1>5 DEF CacheMiss, At, Goto
  <2>2. CacheMissTo \notin Closing \cup {"END"}
    BY DEF Closing, CacheMissTo
  <2>. QED BY <1>u, <1>v, <2>1, <2>2, Elsewhere
<1>6. CASE CacheHit
  <2>1. /\ node = "cache_lookup" /\ Goto("format")
        /\ state'.hit /\ state'.clarification = state.clarification
    BY <1>6, <1>t DEF CacheHit, At, AgentState
  <2>2. Presented' /\ ~state'.clarification /\ node \notin Closing \cup {"END"}
    BY <1>t, <2>1 DEF Presented, Undecided, Closing
  <2>. QED BY <2>1, <2>2, Arrives
<1>7. CASE Specialist
  <2>1. PICK asks \in BOOLEAN :
          /\ state' = [state EXCEPT !.clarification = asks,
                                    !.output = IF asks THEN "question" ELSE "answer"]
          /\ Goto(IF asks THEN "skill_cleanup" ELSE "heuristic_critic")
    BY <1>7 DEF Specialist, AfterSpecialist
  <2>2. node = "specialist" /\ node \notin Closing \cup {"END"}
    BY <1>7 DEF Specialist, At, Closing
  <2>3. UNCHANGED <<state.hit, state.decision>>
    BY <1>t, <2>1 DEF AgentState
  <2>4. CASE asks
    <3>1. ~Presented'
      BY <1>t, <2>2, <2>3 DEF Presented, Undecided
    <3>. QED BY <2>1, <2>2, <2>4, <3>1, Arrives
  <2>5. CASE ~asks
    <3>1. Goto("heuristic_critic") /\ "heuristic_critic" \notin Closing \cup {"END"}
      BY <2>1, <2>5 DEF Closing
    <3>2. node' = "heuristic_critic"
      BY <3>1 DEF Goto
    <3>. QED BY <1>u, <1>v, <2>2, <3>1, <3>2, Elsewhere
  <2>. QED BY <2>4, <2>5
<1>8. CASE HeuristicCritic
  <2>1. PICK h \in Scores :
          \/ /\ state' = [state EXCEPT !.score = h, !.decision = "pass"]
             /\ Goto("format")
          \/ UNCHANGED state /\ Goto("critic_output")
    BY <1>8 DEF HeuristicCritic
  <2>2. node = "heuristic_critic" /\ node \notin Closing \cup {"END"}
    BY <1>8 DEF HeuristicCritic, At, Closing
  <2>3. CASE Goto("critic_output")
    <3>1. node' = "critic_output" /\ "critic_output" \notin Closing \cup {"END"}
      BY <2>3 DEF Goto, Closing
    <3>. QED BY <1>u, <1>v, <2>2, <2>3, <3>1, Elsewhere
  <2>4. CASE /\ state' = [state EXCEPT !.score = h, !.decision = "pass"]
             /\ Goto("format")
    <3>1. state'.decision = "pass" /\ UNCHANGED state.clarification
      BY <1>t, <2>4 DEF AgentState
    <3>2. Presented' /\ ~state'.clarification
      BY <1>t, <2>2, <3>1 DEF Presented, Undecided
    <3>. QED BY <2>2, <2>4, <3>2, Arrives
  <2>. QED BY <2>1, <2>3, <2>4
<1>9. CASE CriticOutput
  <2>1. node = "critic_output" /\ node' = "memory_note" /\ Goto("memory_note")
    BY <1>9 DEF CriticOutput, At, Goto
  <2>2. "memory_note" \notin Closing \cup {"END"}
    BY DEF Closing
  <2>. QED BY <1>u, <1>v, <2>1, <2>2, Elsewhere
<1>10. CASE RecordLessonUses
  <2>. DEFINE v == Gate(state.score, state.iteration + 1)
  <2>1. /\ state' = [state EXCEPT !.iteration = @ + 1,
                       !.decision = IF v = "approved" THEN "pass" ELSE v]
        /\ Goto(CASE v = "approved" -> "format" [] v = "refine" -> "specialist"
                  [] OTHER -> "skill_cleanup")
    BY <1>10 DEF RecordLessonUses, Judge
  <2>2. v \in {"approved", "fail", "refine"}
    BY DEF Gate
  <2>3. node = "record_lesson_uses" /\ node \notin Closing \cup {"END"}
    BY <1>10 DEF RecordLessonUses, At, Closing
  <2>4. /\ UNCHANGED <<state.hit, state.clarification>>
        /\ state'.decision = IF v = "approved" THEN "pass" ELSE v
    BY <1>t, <2>1 DEF AgentState
  <2>5. ~state'.clarification /\ (Presented' <=> v = "approved")
    BY <1>t, <2>2, <2>3, <2>4 DEF Presented, Undecided
  <2>. HIDE DEF v
  <2>6. CASE v = "refine"
    <3>1. node' = "specialist" /\ Goto("specialist") /\ "specialist" \notin Closing \cup {"END"}
      BY <2>1, <2>6 DEF Goto, Closing
    <3>. QED BY <1>u, <1>v, <2>3, <3>1, Elsewhere
  <2>7. CASE v = "approved"
    BY <2>1, <2>3, <2>5, <2>7, Arrives
  <2>8. CASE v = "fail"
    <3>1. Goto("skill_cleanup")
      BY <2>1, <2>8
    <3>. QED BY <2>3, <2>5, <2>8, <3>1, Arrives
  <2>. QED BY <2>2, <2>6, <2>7, <2>8
<1>11. CASE SubSpecialist
  <2>1. node = "sub_specialist" /\ node \notin Closing \cup {"END"}
    BY <1>11 DEF SubSpecialist, At, Closing
  <2>2. CASE Goto("sub_critic_output")
    <3>1. node' = "sub_critic_output" /\ "sub_critic_output" \notin Closing \cup {"END"}
      BY <2>2 DEF Goto, Closing
    <3>. QED BY <1>u, <1>v, <2>1, <2>2, <3>1, Elsewhere
  <2>3. CASE InRange /\ ~Goto("sub_critic_output")
    <3>1. Goto("skill_cleanup") /\ UNCHANGED <<state.decision, state.hit>>
      BY <1>11, <1>t, <2>3, SubWorked
    <3>2. ~Presented'
      BY <1>t, <2>1, <3>1 DEF Presented, Undecided
    <3>. QED BY <2>1, <3>1, <3>2, Arrives
  <2>. QED BY <1>11, <2>2, <2>3 DEF SubSpecialist
<1>12. CASE SubCriticOutput
  <2>1. node = "sub_critic_output"
    BY <1>12 DEF SubCriticOutput, At
  <2>2. PICK n \in {"aggregator", "sub_specialist"} : Goto(n)
    BY <1>12 DEF SubCriticOutput
  <2>3. node' = n /\ n \notin Closing \cup {"END"}
    BY <2>2 DEF Goto, Closing
  <2>. QED BY <1>u, <1>v, <2>1, <2>2, <2>3, Elsewhere
<1>13. CASE ParallelSubtasks
  <2>1. node = "parallel_subtasks" /\ node \notin Closing \cup {"END"}
    BY <1>13 DEF ParallelSubtasks, At, Closing
  <2>2. /\ Goto(IF state.subs # <<>> /\ state'.clarification
                THEN "skill_cleanup" ELSE "aggregator")
        /\ UNCHANGED <<state.decision, state.hit>>
    BY <1>13, <1>t, Collected
  <2>3. CASE state.subs # <<>> /\ state'.clarification
    <3>1. ~Presented'
      BY <1>t, <2>1, <2>2 DEF Presented, Undecided
    <3>. QED BY <2>1, <2>2, <2>3, <3>1, Arrives
  <2>4. CASE ~(state.subs # <<>> /\ state'.clarification)
    <3>1. node' = "aggregator" /\ Goto("aggregator") /\ "aggregator" \notin Closing \cup {"END"}
      BY <2>2, <2>4 DEF Goto, Closing
    <3>. QED BY <1>u, <1>v, <2>1, <3>1, Elsewhere
  <2>. QED BY <2>3, <2>4
<1>14. CASE Aggregator
  <2>1. node = "aggregator" /\ node' = "final_critic" /\ Goto("final_critic")
    BY <1>14 DEF Aggregator, At, Goto
  <2>2. "final_critic" \notin Closing \cup {"END"}
    BY DEF Closing
  <2>. QED BY <1>u, <1>v, <2>1, <2>2, Elsewhere
<1>15. CASE FinalCritic
  <2>1. PICK s \in Scores :
          LET v == Gate(s, state.iteration + 1)
          IN  /\ state' = [state EXCEPT !.score = s, !.iteration = @ + 1, !.output = "answer",
                            !.decision = IF v = "approved" THEN "pass" ELSE v]
              /\ Goto(IF v = "approved" THEN "format" ELSE "skill_cleanup")
    BY <1>15 DEF FinalCritic
  <2>. DEFINE v == Gate(s, state.iteration + 1)
  <2>2. v \in {"approved", "fail", "refine"}
    BY DEF Gate
  <2>3. node = "final_critic" /\ node \notin Closing \cup {"END"}
    BY <1>15 DEF FinalCritic, At, Closing
  <2>4. /\ UNCHANGED <<state.hit, state.clarification>>
        /\ state'.decision = IF v = "approved" THEN "pass" ELSE v
        /\ Goto(IF v = "approved" THEN "format" ELSE "skill_cleanup")
    BY <1>t, <2>1 DEF AgentState
  <2>5. ~state'.clarification /\ (Presented' <=> v = "approved")
    BY <1>t, <2>2, <2>3, <2>4 DEF Presented, Undecided
  <2>. HIDE DEF v
  <2>6. CASE v = "approved"
    BY <2>3, <2>4, <2>5, <2>6, Arrives
  <2>7. CASE v # "approved"
    BY <2>3, <2>4, <2>5, <2>7, Arrives
  <2>. QED BY <2>6, <2>7
<1>16. CASE SkillCleanup
  <2>1. /\ node = "skill_cleanup" /\ node' = "persist_memory" /\ UNCHANGED state
        /\ outcome' = outcome /\ runs' = runs /\ visited' = [visited EXCEPT ![node] = @ + 1]
    BY <1>16 DEF SkillCleanup, At, Goto, Closing
  <2>2. /\ outcome = "none" /\ runs # 0 /\ Passed(Shown, Shown, 0, 0)
        /\ Shown' = Shown
    BY <1>t, <2>1 DEF Remembered, Shown, Presented
  <2>3. Passed(Shown, Shown, 1, 0)' /\ visited'.format = visited.format
    BY <1>t, <2>1, <2>2 DEF Passed, Closing
  <2>. QED BY <1>t, <2>1, <2>2, <2>3 DEF Remembered, Asked, Passed
<1>17. CASE Deliver
  <2>1. /\ node = "END" /\ runs # 0 /\ outcome = "none"
        /\ UNCHANGED <<node, state, runs, visited>>
    BY <1>17, <1>t DEF Deliver
  <2>. QED BY <1>t, <2>1 DEF Remembered, Asked, Passed, Shown, Presented
<1>18. CASE UNCHANGED vars
  BY <1>18, <1>t DEF vars, Remembered, Asked, Passed, Shown, Presented
<1>. QED
  BY <1>1, <1>2, <1>3, <1>4, <1>5, <1>6, <1>7, <1>8, <1>9, <1>10, <1>11, <1>12, <1>13,
     <1>14, <1>15, <1>16, <1>17, <1>18 DEF Next

-----------------------------------------------------------------------------
(* The step budget                                                         *)

\* Rounds per sub-task times sub-tasks.
LEMMA Products ==
  ASSUME NEW m \in Nat, NEW k \in Nat, NEW n \in Nat
  PROVE  /\ m * k \in Nat /\ m * n \in Nat
         /\ k >= 1 => m * (k - 1) = m * k - m
         /\ k <= n => m * k <= m * n
         /\ k >= 1 => m <= m * k
<1>1. m * k \in Nat /\ m * n \in Nat
  OBVIOUS
<1>2. m * (k - 1) = m * k - m
  OBVIOUS
<1>3. ASSUME k <= n PROVE m * k <= m * n
  <2>1. n - k \in Nat /\ m * (n - k) \in Nat
    BY <1>3
  <2>2. m * n = m * k + m * (n - k)
    OBVIOUS
  <2>. QED BY <1>1, <2>1, <2>2
<1>4. ASSUME k >= 1 PROVE m <= m * k
  <2>1. k - 1 \in Nat /\ m * (k - 1) \in Nat
    BY <1>4
  <2>. QED BY <1>1, <1>2, <2>1
<1>. QED BY <1>1, <1>2, <1>3, <1>4

\* With a sub-task at the index there is a round left for it, and all the rounds
\* of those after it.
LEMMA Rounds ==
  ASSUME Types
  PROVE  /\ RoundsLeft \in Nat
         /\ InRange =>
              /\ state.subs[state.index].iterations \in 0..MaxIterations
              /\ MaxIterations * (Len(state.subs) - state.index) \in Nat
              /\ RoundsLeft >= MaxIterations - state.subs[state.index].iterations
<1>. USE WorkflowAssumption
<1>1. /\ state.subs \in Seq(SubTask) /\ state.index \in 1..(MaxSubTasks + 1)
      /\ Len(state.subs) \in Nat
  BY LenProperties DEF Types, AgentState
<1>2. CASE InRange
  <2>1. state.subs[state.index] \in SubTask
    BY <1>1, <1>2, ElementOfSeq DEF InRange
  <2>2. state.subs[state.index].iterations \in 0..MaxIterations
    BY <2>1 DEF SubTask
  <2>3. Len(state.subs) - state.index \in Nat
    BY <1>1, <1>2 DEF InRange
  <2>4. MaxIterations * (Len(state.subs) - state.index) \in Nat
    BY <2>3, Products
  <2>. DEFINE k == state.subs[state.index].iterations
              left == MaxIterations * (Len(state.subs) - state.index)
  <2>5. RoundsLeft = (MaxIterations - k) + left
    BY <1>2 DEF RoundsLeft
  <2>6. k \in 0..MaxIterations /\ left \in Nat /\ MaxIterations \in Nat
    BY <2>2, <2>4
  <2>7. RoundsLeft \in Nat /\ RoundsLeft >= MaxIterations - k
    <3>. HIDE DEF k, left
    <3>. QED BY <2>5, <2>6
  <2>. QED BY <1>2, <2>2, <2>4, <2>7
<1>3. CASE ~InRange
  BY <1>3 DEF RoundsLeft
<1>. QED BY <1>2, <1>3

\* Every path keeps what the way to the end still needs.
LEMMA BudgetStep ==
  ASSUME EnoughSteps, IInv, IInv', WithinBudget, [Next]_vars
  PROVE  WithinBudget'
<1>. DEFINE P == MaxSubTasks * MaxIterations
<1>t. /\ Types /\ Types' /\ state \in AgentState /\ Counted /\ steps \in Nat
      /\ MaxSteps \in Nat /\ MaxIterations \in Nat /\ MaxIterations >= 1
      /\ state.iteration \in 0..MaxIterations /\ outcome # "exceeded"
  <2>1. /\ Types /\ Types' /\ state \in AgentState /\ Counted /\ outcome # "exceeded"
        /\ steps \in 0..MaxSteps
    BY DEF IInv, Types, WithinBudget
  <2>2. MaxSteps \in Nat /\ MaxIterations \in Nat /\ MaxIterations >= 1
    BY WorkflowAssumption
  <2>. QED BY <2>1, <2>2 DEF AgentState
<1>b. /\ P \in Nat /\ MaxIterations <= P /\ P = MaxIterations * MaxSubTasks
      /\ 5 * MaxIterations + 9 <= MaxSteps /\ 2 * P + 11 <= MaxSteps /\ MaxSteps >= 14
  <2>1. MaxSubTasks \in Nat /\ MaxSubTasks >= 1
    BY WorkflowAssumption
  <2>2. /\ MaxIterations * MaxSubTasks \in Nat
        /\ MaxIterations <= MaxIterations * MaxSubTasks
        /\ MaxIterations * MaxSubTasks = P
    BY <1>t, <2>1, Products
  <2>3. 5 * MaxIterations + 9 <= MaxSteps /\ 2 * P + 11 <= MaxSteps
    BY DEF EnoughSteps
  <2>4. MaxSteps >= 14
    BY <1>t, <2>3
  <2>. QED BY <2>2, <2>3, <2>4
<1>. HIDE DEF P
<1>1. CASE Start
  BY <1>1 DEF Start, WithinBudget
<1>2. CASE Follow
  <2>1. /\ node \in DOMAIN EdgeTo /\ node' = EdgeTo[node] /\ steps' = steps + 1
        /\ UNCHANGED <<state, outcome>>
    BY <1>2 DEF Follow, Goto
  <2>2. CASE node = "skill_generator"
    BY <1>t, <2>1, <2>2 DEF EdgeTo, WithinBudget
  <2>3. CASE node = "skill_loader"
    BY <1>t, <2>1, <2>3 DEF EdgeTo, WithinBudget
  <2>4. CASE node = "inject_memory"
    BY <1>t, <2>1, <2>4 DEF EdgeTo, WithinBudget
  <2>5. CASE node = "memory_note"
    <3>1. node' = "record_lesson_uses"
      BY <2>1, <2>5 DEF EdgeTo
    <3>. QED BY <1>t, <2>1, <2>5, <3>1 DEF WithinBudget
  <2>6. CASE node = "format"
    BY <1>t, <2>1, <2>6 DEF EdgeTo, WithinBudget
  <2>7. CASE node = "post"
    BY <1>t, <2>1, <2>7 DEF EdgeTo, WithinBudget
  <2>8. CASE node = "persist_memory"
    BY <1>t, <2>1, <2>8 DEF EdgeTo, WithinBudget
  <2>. QED BY <2>1, <2>2, <2>3, <2>4, <2>5, <2>6, <2>7, <2>8 DEF EdgeTo
<1>3. CASE Abort
  <2>1. steps < MaxSteps
    <3>1. node \in Nodes /\ node # "END"
      BY <1>3, <1>t DEF Abort, Types
    <3>2. RoundsLeft \in Nat
      BY <1>t, Rounds
    <3>3. node \in Refining => state.iteration < MaxIterations
      BY <1>t DEF Counted
    <3>4. CASE node \in Refining
      <4>1. MaxIterations - state.iteration >= 1
        BY <1>t, <3>3, <3>4
      <4>. QED BY <1>t, <3>4, <4>1 DEF Refining, WithinBudget
    <3>5. CASE node \in Opening
      BY <1>t, <1>b, <3>5 DEF Opening, WithinBudget
    <3>6. CASE node \in Looping
      BY <1>t, <3>2, <3>6 DEF Looping, WithinBudget
    <3>7. CASE node \in Joining \cup Closing \cup {"parallel_subtasks"}
      BY <1>t, <3>7 DEF Joining, Closing, WithinBudget
    <3>. QED BY <3>1, <3>4, <3>5, <3>6, <3>7
             DEF Nodes, EdgeTo, Refining, Opening, Looping, Joining, Closing
  <2>. QED BY <1>3, <1>t, <2>1 DEF Abort, WithinBudget
<1>4. CASE Router
  <2>1. node = "router" /\ node' = "skill_generator" /\ steps' = steps + 1 /\ outcome' = outcome
    BY <1>4 DEF Router, At, Goto
  <2>. QED BY <1>t, <2>1 DEF WithinBudget
<1>5. CASE CacheMiss
  <2>1. /\ node = "cache_lookup" /\ node' = CacheMissTo /\ steps' = 5 /\ outcome' = outcome
        /\ UNCHANGED state
    BY <1>5, <1>t DEF CacheMiss, At, Goto, WithinBudget
  <2>2. CASE node' = "specialist"
    <3>1. state'.iteration = 0
      BY <1>t, <2>1 DEF Counted, Refining, Closing
    <3>2. steps' + 5 * (MaxIterations - state'.iteration) + 4 <= MaxSteps
      BY <1>t, <1>b, <2>1, <3>1
    <3>. QED BY <1>t, <2>1, <2>2, <3>2 DEF WithinBudget
  <2>3. CASE node' = "parallel_subtasks"
    BY <1>t, <1>b, <2>1, <2>3 DEF WithinBudget
  <2>4. CASE node' = "sub_specialist"
    <3>1. RoundsLeft' <= P
      <4>1. /\ state.subs \in Seq(SubTask) /\ Len(state.subs) \in Nat
            /\ Len(state.subs) <= MaxSubTasks /\ MaxSubTasks \in Nat
        BY <1>t, WorkflowAssumption, LenProperties DEF Types, AgentState
      <4>2. /\ state.index = 1
            /\ \A j \in 1..Len(state.subs) : state.subs[j].iterations = 0
        <5>1. state.index = 1 /\ \A j \in 1..Len(state.subs) : state.subs[j] = NewSubTask
          BY <1>t, <2>1 DEF Counted, Opening
        <5>. QED BY <5>1 DEF NewSubTask
      <4>3. RoundsLeft' = RoundsLeft
        BY <2>1 DEF RoundsLeft, InRange
      <4>4. CASE InRange
        <5>1. Len(state.subs) >= 1 /\ state.subs[1].iterations = 0
          BY <4>1, <4>2, <4>4 DEF InRange
        <5>. DEFINE left == MaxIterations * (Len(state.subs) - 1)
                    every == MaxIterations * Len(state.subs)
        <5>2. RoundsLeft = (MaxIterations - 0) + left
          BY <4>2, <4>4, <5>1 DEF RoundsLeft
        <5>3. left = every - MaxIterations /\ every <= MaxIterations * MaxSubTasks /\ every \in Nat
          BY <1>t, <4>1, <5>1, Products
        <5>4. every <= P
          BY <1>b, <5>3
        <5>. HIDE DEF left, every
        <5>5. RoundsLeft = every
          BY <1>t, <5>2, <5>3
        <5>. QED BY <4>3, <5>4, <5>5
      <4>5. CASE ~InRange
        BY <1>t, <1>b, <4>3, <4>5 DEF RoundsLeft
      <4>. QED BY <4>4, <4>5
    <3>2. RoundsLeft' \in Nat
      <4>1. RoundsLeft' = RoundsLeft
        BY <2>1 DEF RoundsLeft, InRange
      <4>. QED BY <1>t, <4>1, Rounds
    <3>3. steps' + 2 * RoundsLeft' + 6 <= MaxSteps
      <4>. DEFINE R == RoundsLeft'
      <4>1. R \in Nat /\ R <= P /\ steps' = 5
        BY <2>1, <3>1, <3>2
      <4>. HIDE DEF R
      <4>2. 5 + 2 * R + 6 <= MaxSteps
        BY <1>t, <1>b, <4>1
      <4>. QED BY <4>1, <4>2 DEF R
    <3>. QED BY <1>t, <2>1, <2>4, <3>3 DEF WithinBudget
  <2>. QED BY <2>1, <2>2, <2>3, <2>4 DEF CacheMissTo
<1>6. CASE CacheHit
  <2>1. node = "cache_lookup" /\ node' = "format" /\ steps' = 5 /\ outcome' = outcome
    BY <1>6, <1>t DEF CacheHit, At, Goto, WithinBudget
  <2>. QED BY <1>t, <1>b, <2>1 DEF WithinBudget
<1>7. CASE Specialist
  <2>1. /\ node = "specialist" /\ node' \in {"skill_cleanup", "heuristic_critic"}
        /\ steps' = steps + 1 /\ outcome' = outcome /\ state'.iteration = state.iteration
    BY <1>7, <1>t DEF Specialist, AfterSpecialist, At, Goto, AgentState
  <2>2. steps + 5 * (MaxIterations - state.iteration) + 4 <= MaxSteps
    BY <2>1 DEF WithinBudget
  <2>. QED BY <1>t, <2>1, <2>2 DEF WithinBudget
<1>8. CASE HeuristicCritic
  <2>1. /\ node = "heuristic_critic" /\ node' \in {"format", "critic_output"}
        /\ steps' = steps + 1 /\ outcome' = outcome /\ state'.iteration = state.iteration
    BY <1>8, <1>t DEF HeuristicCritic, At, Goto, AgentState
  <2>2. /\ steps + 5 * (MaxIterations - state.iteration) + 3 <= MaxSteps
        /\ state.iteration < MaxIterations
    BY <1>t, <2>1 DEF WithinBudget, Counted, Refining
  <2>. QED BY <1>t, <2>1, <2>2 DEF WithinBudget
<1>9. CASE CriticOutput
  <2>1. /\ node = "critic_output" /\ node' = "memory_note"
        /\ steps' = steps + 1 /\ outcome' = outcome /\ state'.iteration = state.iteration
    BY <1>9, <1>t DEF CriticOutput, At, Goto, AgentState
  <2>2. steps + 5 * (MaxIterations - state.iteration) + 2 <= MaxSteps
    BY <2>1 DEF WithinBudget
  <2>. QED BY <1>t, <2>1, <2>2 DEF WithinBudget
<1>10. CASE RecordLessonUses
  <2>1. /\ node = "record_lesson_uses" /\ steps' = steps + 1 /\ outcome' = outcome
        /\ node' \in {"format", "specialist", "skill_cleanup"}
        /\ state'.iteration = state.iteration + 1
    <3>1. node' \in {"format", "specialist", "skill_cleanup"}
      BY <1>10 DEF RecordLessonUses, Judge, Gate, Goto
    <3>2. state'.iteration = state.iteration + 1
      BY <1>10, <1>t DEF RecordLessonUses, Judge, AgentState
    <3>. QED BY <1>10, <3>1, <3>2 DEF RecordLessonUses, At, Judge, Goto
  <2>2. /\ steps + 5 * (MaxIterations - state.iteration) <= MaxSteps
        /\ state.iteration < MaxIterations
    BY <1>t, <2>1 DEF WithinBudget, Counted, Refining
  <2>3. /\ steps' + 5 * (MaxIterations - state'.iteration) + 4 <= MaxSteps
        /\ steps' + 4 <= MaxSteps
    BY <1>t, <2>1, <2>2
  <2>. QED BY <1>t, <2>1, <2>3 DEF WithinBudget
<1>11. CASE SubSpecialist
  <2>1. /\ node = "sub_specialist" /\ node' \in {"skill_cleanup", "sub_critic_output"}
        /\ steps' = steps + 1 /\ outcome' = outcome
    BY <1>11 DEF SubSpecialist, AfterSpecialist, At, Goto
  <2>2. RoundsLeft' = RoundsLeft
    <3>1. CASE InRange
      <4>1. PICK t \in SubTask :
              /\ state.index \in 1..Len(state.subs)
              /\ t.iterations = state.subs[state.index].iterations
              /\ state'.subs = [state.subs EXCEPT ![state.index] = t]
              /\ Len(state'.subs) = Len(state.subs) /\ state'.index = state.index
        BY <1>11, <1>t, <3>1, SubWorked
      <4>2. state'.subs[state.index] = t
        BY <1>t, <4>1, Replaced DEF AgentState
      <4>. QED BY <4>1, <4>2 DEF RoundsLeft, InRange
    <3>2. CASE ~InRange
      BY <1>11, <3>2 DEF SubSpecialist, RoundsLeft, InRange
    <3>. QED BY <3>1, <3>2
  <2>3. RoundsLeft \in Nat /\ steps + 2 * RoundsLeft + 6 <= MaxSteps
    BY <1>t, <2>1, Rounds DEF WithinBudget
  <2>4. /\ steps' + 2 * RoundsLeft' + 5 <= MaxSteps
        /\ steps' + 2 <= MaxSteps
    BY <1>t, <2>1, <2>2, <2>3
  <2>. QED BY <1>t, <2>1, <2>4 DEF WithinBudget
<1>12. CASE SubCriticOutput
  <2>1. /\ node = "sub_critic_output" /\ node' \in {"aggregator", "sub_specialist"}
        /\ steps' = steps + 1 /\ outcome' = outcome
    BY <1>12 DEF SubCriticOutput, At, Goto
  <2>2. RoundsLeft \in Nat /\ steps + 2 * RoundsLeft + 5 <= MaxSteps
    BY <1>t, <2>1, Rounds DEF WithinBudget
  <2>3. CASE ~InRange
    <3>1. node' = "aggregator" /\ RoundsLeft = 1
      BY <1>12, <2>3 DEF SubCriticOutput, Goto, RoundsLeft
    <3>2. steps' + 6 <= MaxSteps
      BY <1>t, <2>1, <2>2, <3>1
    <3>. QED BY <1>t, <2>1, <3>1, <3>2 DEF WithinBudget
  <2>4. CASE InRange
    <3>1. InTurn /\ state.subs[state.index].iterations < MaxIterations
      BY <2>1, <2>4 DEF IInv, InTurn, Looping
    <3>2. PICK t \in SubTask :
            /\ state.index \in 1..Len(state.subs)
            /\ t.iterations = state.subs[state.index].iterations + 1
            /\ state'.subs = [state.subs EXCEPT ![state.index] = t]
            /\ Len(state'.subs) = Len(state.subs)
            /\ \/ /\ t.status \in Settled /\ state'.index = state.index + 1
                  /\ Goto(IF state.index + 1 > Len(state.subs)
                          THEN "aggregator" ELSE "sub_specialist")
               \/ /\ t.status = "evaluated" /\ state'.index = state.index
                  /\ Goto("sub_specialist")
      BY <1>12, <1>t, <2>4, <3>1, SubJudged
    <3>. DEFINE left == MaxIterations * (Len(state.subs) - state.index)
                k == state.subs[state.index].iterations
    <3>3. k \in 0..MaxIterations /\ left \in Nat /\ RoundsLeft = (MaxIterations - k) + left
      BY <1>t, <2>4, Rounds DEF RoundsLeft
    <3>4. RoundsLeft >= 1 /\ k \in Nat /\ k < MaxIterations
      <4>1. k < MaxIterations
        BY <3>1
      <4>. HIDE DEF left, k
      <4>. QED BY <1>t, <3>3, <4>1
    <3>5. CASE node' = "aggregator"
      <4>1. steps' + 6 <= MaxSteps
        BY <1>t, <2>1, <2>2, <3>4
      <4>. QED BY <1>t, <2>1, <3>5, <4>1 DEF WithinBudget
    <3>6. CASE node' = "sub_specialist"
      <4>1. state.index \in Nat /\ Len(state.subs) \in Nat
        BY <1>t, LenProperties DEF AgentState
      <4>2. RoundsLeft' <= RoundsLeft - 1 /\ RoundsLeft' \in Int
        <5>2. CASE state'.index = state.index
          <6>1. state'.subs[state.index] = t /\ InRange'
            BY <1>t, <2>4, <3>2, <5>2, Replaced DEF AgentState, InRange
          <6>2. RoundsLeft' = (MaxIterations - (k + 1)) + left
            BY <3>2, <5>2, <6>1 DEF RoundsLeft
          <6>. HIDE DEF left, k
          <6>. QED BY <1>t, <3>3, <6>2
        <5>3. CASE state'.index # state.index
          <6>1. /\ state'.index = state.index + 1
                /\ node' = (IF state.index + 1 > Len(state.subs) THEN "aggregator" ELSE "sub_specialist")
            BY <3>2, <5>3 DEF Goto
          <6>2. InRange' /\ Len(state.subs) - state.index \in Nat /\ Len(state.subs) - state.index >= 1
            <7>1. ~(state.index + 1 > Len(state.subs))
              BY <3>6, <6>1
            <7>2. state.index + 1 <= Len(state.subs)
              BY <4>1, <7>1
            <7>. QED BY <3>2, <4>1, <6>1, <7>2 DEF InRange
          <6>3. state'.subs[state'.index] = NewSubTask
            <7>1. /\ state.index + 1 \in 1..Len(state.subs) /\ state.index + 1 > state.index
                  /\ state.index + 1 # state.index
              BY <4>1, <6>2
            <7>2. state.subs[state.index + 1] = NewSubTask
              BY <2>1, <3>1, <7>1 DEF InTurn, Looping
            <7>. QED BY <1>t, <3>2, <6>1, <7>1, <7>2, Replaced DEF AgentState
          <6>4. RoundsLeft' = (MaxIterations - 0) + MaxIterations * (Len(state.subs) - (state.index + 1))
            <7>1. state'.subs[state'.index].iterations = 0
              BY <6>3 DEF NewSubTask
            <7>. QED BY <3>2, <6>1, <6>2, <7>1 DEF RoundsLeft
          <6>5. MaxIterations * ((Len(state.subs) - state.index) - 1) = left - MaxIterations
            BY <1>t, <6>2, Products
          <6>6. (Len(state.subs) - state.index) - 1 = Len(state.subs) - (state.index + 1)
            BY <4>1
          <6>7. RoundsLeft' = (MaxIterations - 0) + (left - MaxIterations)
            BY <6>4, <6>5, <6>6
          <6>. HIDE DEF left, k
          <6>. QED BY <1>t, <3>3, <3>4, <6>7
        <5>. QED BY <5>2, <5>3
      <4>3. steps' + 2 * RoundsLeft' + 6 <= MaxSteps
        <5>. DEFINE before == RoundsLeft
                    after == RoundsLeft'
        <5>1. before \in Nat /\ steps + 2 * before + 5 <= MaxSteps
          BY <2>2
        <5>2. after \in Int /\ after <= before - 1 /\ steps' = steps + 1
          BY <2>1, <4>2
        <5>. HIDE DEF before, after
        <5>3. steps + 1 + 2 * after + 6 <= MaxSteps
          BY <1>t, <5>1, <5>2
        <5>. QED BY <5>2, <5>3 DEF after
      <4>. QED BY <1>t, <2>1, <3>6, <4>3 DEF WithinBudget
    <3>. QED BY <2>1, <3>5, <3>6
  <2>. QED BY <2>3, <2>4
<1>13. CASE ParallelSubtasks
  <2>1. /\ node = "parallel_subtasks" /\ node' \in {"skill_cleanup", "aggregator"}
        /\ steps' = steps + 1 /\ outcome' = outcome
    BY <1>13 DEF ParallelSubtasks, AfterSpecialist, At, Goto
  <2>. QED BY <1>t, <2>1 DEF WithinBudget
<1>14. CASE Aggregator
  <2>1. node = "aggregator" /\ node' = "final_critic" /\ steps' = steps + 1 /\ outcome' = outcome
    BY <1>14 DEF Aggregator, At, Goto
  <2>. QED BY <1>t, <2>1 DEF WithinBudget
<1>15. CASE FinalCritic
  <2>1. /\ node = "final_critic" /\ node' \in {"format", "skill_cleanup"}
        /\ steps' = steps + 1 /\ outcome' = outcome
    BY <1>15 DEF FinalCritic, At, Goto
  <2>. QED BY <1>t, <2>1 DEF WithinBudget
<1>16. CASE SkillCleanup
  <2>1. /\ node = "skill_cleanup" /\ node' = "persist_memory"
        /\ steps' = steps + 1 /\ outcome' = outcome
    BY <1>16 DEF SkillCleanup, At, Goto
  <2>. QED BY <1>t, <2>1 DEF WithinBudget
<1>17. CASE Deliver
  BY <1>17 DEF Deliver, Verdict, WithinBudget
<1>18. CASE UNCHANGED vars
  <2>1. UNCHANGED <<node, steps, state, outcome, RoundsLeft>>
    BY <1>18 DEF vars, RoundsLeft, InRange
  <2>. QED BY <2>1 DEF WithinBudget
<1>. QED
  BY <1>1, <1>2, <1>3, <1>4, <1>5, <1>6, <1>7, <1>8, <1>9, <1>10, <1>11, <1>12, <1>13,
     <1>14, <1>15, <1>16, <1>17, <1>18 DEF Next

-----------------------------------------------------------------------------
(* Theorems                                                                *)

LEMMA InitIInv == Init => IInv /\ WithinBudget
<1>. SUFFICES ASSUME Init PROVE IInv /\ WithinBudget
  OBVIOUS
<1>1. /\ node = "END" /\ outcome = "none" /\ runs = 0 /\ state = InitialState
      /\ state.clarification = FALSE
  BY DEF Init, InitialState
<1>2. Types
  BY InitTypes
<1>3. Undecided /\ Counted /\ InTurn /\ Remembered /\ Asked /\ AggregatesSettledWork
  BY <1>1 DEF Undecided, Counted, Opening, Refining, InTurn, Looping, Remembered, Asked,
     AggregatesSettledWork
<1>. QED BY <1>1, <1>2, <1>3 DEF IInv, WithinBudget

LEMMA NextIInv == IInv /\ [Next]_vars => IInv'
BY TypesStep, UndecidedStep, CountedStep, InTurnStep, RememberedStep DEF IInv

\* What the rest follows from.
THEOREM Invariance == Spec => []IInv
BY InitIInv, NextIInv, PTL DEF Spec

\* The budget is never used up, however the specialists and critics answer.
LEMMA Budget == ASSUME EnoughSteps PROVE Spec => [](IInv /\ WithinBudget)
<1>1. Init => IInv /\ WithinBudget
  BY InitIInv
<1>2. (IInv /\ WithinBudget) /\ [Next]_vars => (IInv /\ WithinBudget)'
  <2>. SUFFICES ASSUME IInv, WithinBudget, [Next]_vars PROVE IInv' /\ WithinBudget'
    OBVIOUS
  <2>1. IInv'
    BY NextIInv
  <2>. QED BY <2>1, BudgetStep
<1>. QED BY <1>1, <1>2, PTL DEF Spec

\* Every run that the heartbeat judges was cleaned up and remembered exactly
\* once and presented exactly when it had something to present, a question is
\* never presented as a result, only settled sub-tasks are aggregated and
\* counted right, and the step budget of the engine is never used up.
THEOREM Safety == ASSUME EnoughSteps PROVE Spec => []WorkflowInv
<1>1. IInv /\ WithinBudget => WorkflowInv
  <2>. SUFFICES ASSUME IInv, WithinBudget PROVE WorkflowInv
    OBVIOUS
  <2>1. TypeOK
    <3>1. /\ state.subs \in Seq(SubTask) /\ DOMAIN state.subs = 1..Len(state.subs)
          /\ Types /\ state \in AgentState
      BY LenProperties DEF IInv, Types, AgentState
    <3>2. \A j \in DOMAIN state.subs : state.subs[j] \in SubTask
      BY <3>1, ElementOfSeq
    <3>. QED BY <3>1, <3>2 DEF Types, AgentState, SubTask, TypeOK
  <2>2. StepBudgetSuffices
    BY DEF WithinBudget, StepBudgetSuffices
  <2>3. EveryEndIsRemembered
    <3>. SUFFICES ASSUME outcome \in {"done", "blocked", "question"}
                  PROVE  Passed(Shown, Shown, 1, 1)
      BY DEF EveryEndIsRemembered, Passed, Shown, Presented
    <3>1. Remembered /\ runs \in Nat
      BY DEF IInv, Types
    <3>2. node = "END" /\ runs > 0
      BY <3>1 DEF Remembered
    <3>. QED BY <3>1, <3>2 DEF Remembered
  <2>4. QuestionsAreNotResults
    BY DEF IInv, Asked, QuestionsAreNotResults
  <2>. QED BY <2>1, <2>2, <2>3, <2>4 DEF IInv, WorkflowInv
<1>. QED BY <1>1, Budget, PTL

-----------------------------------------------------------------------------
(* The memory                                                              *)

Holding == {"lookup", "bump", "insert", "embed", "count", "evict", "search", "touch"}
Storing == {"store", "lookup", "bump", "insert", "embed"}

MemTypes ==
  /\ backend \in {"sqlite", "postgres"}
  /\ Mem!Present \subseteq 1..used /\ \A i \in Mem!Present : rows[i] \in Mem!Row
  /\ used \in 0..MaxCalls /\ clock \in 0..MaxCalls
  /\ holder \in [Procs -> Threads \cup {Mem!Nobody}] /\ writer \in Threads \cup {Mem!Nobody}
  /\ at \in [Threads -> Holding \cup {"idle", "store", "recall"}]
  /\ found \in [Threads -> SUBSET Mem!RowIds] /\ excess \in [Threads -> Nat]
  /\ call \in [Threads -> [key : Keys \cup {Mem!NoKey}, imp : Importances \cup {0},
                           now : 0..MaxCalls]]

\* A call has its time, one that stores has its arguments.
CallsAreMade ==
  \A t \in Threads :
    /\ at[t] # "idle" => call[t].now \in 1..MaxCalls
    /\ at[t] \in Storing => call[t].key \in Keys /\ call[t].imp \in Importances

\* Every call under way that may still insert finds an id.
Inserting == {t \in Threads : at[t] \in {"store", "lookup", "insert", "embed"}}
IdsSuffice == used + Cardinality(Inserting) <= clock

\* From its lookup to its return a thread holds the lock of its process.
LocksAreHeld == \A t \in Threads : at[t] \in Holding => holder[HostOf[t]] = t

\* What a thread is about to insert, its process has not inserted.
InsertsAreNew ==
  \A t \in Threads : at[t] \in {"insert", "embed"} =>
    \A i \in Mem!Present : rows[i].key = call[t].key => rows[i].by # HostOf[t]

\* A thread that evicts has counted one row too many at least.
Counting == {t \in Threads : at[t] \in {"count", "evict"}}
EvictionsAreOwed ==
  \A t \in Threads :
    /\ at[t] \in {"count", "evict"} => backend = "postgres"
    /\ at[t] = "embed" => backend = "sqlite"
    /\ at[t] = "evict" => excess[t] > 0

MemIInv ==
  /\ MemTypes /\ CallsAreMade /\ IdsSuffice /\ LocksAreHeld /\ InsertsAreNew
  /\ Mem!OncePerProcess /\ EvictionsAreOwed /\ Mem!CapacityHolds

LEMMA MemCounts ==
  \A S : Mem!Cardinality(S) = Cardinality(S) /\ (Mem!IsFiniteSet(S) <=> IsFiniteSet(S))
BY DEF Mem!IsFiniteSet, IsFiniteSet, Mem!Cardinality, Cardinality

LEMMA MemCapacity ==
  Mem!CapacityHolds <=>
    Cardinality(Mem!Present)
      <= MaxEntries + (IF backend = "sqlite" THEN 0 ELSE Cardinality(Counting))
<1>1. Counting = {t \in Threads : at[t] \in {"count", "evict"}}
  BY DEF Counting
<1>. QED BY <1>1, MemCounts DEF Mem!CapacityHolds

LEMMA MemInitially == ASSUME Mem!MemoryStoreAssumption PROVE Mem!Init => MemIInv
<1> SUFFICES ASSUME Mem!Init PROVE MemIInv
  OBVIOUS
<1> USE MemCounts DEF Mem!Init, Mem!Present
<1>1. /\ DOMAIN rows = {} /\ Cardinality({}) = 0
      /\ MaxCalls \in Nat \ {0} /\ MaxEntries \in Nat \ {0}
  BY FS_EmptySet DEF Mem!MemoryStoreAssumption
<1>2. MemTypes
  BY <1>1 DEF MemTypes, Mem!MemoryStoreAssumption, Holding, Mem!NoCall
<1>3. Inserting = {} /\ Counting = {}
  BY DEF Inserting, Counting
<1>4. CallsAreMade /\ LocksAreHeld /\ InsertsAreNew /\ Mem!OncePerProcess
  BY <1>1 DEF CallsAreMade, LocksAreHeld, InsertsAreNew, Mem!OncePerProcess, Storing,
     Holding
<1>5. IdsSuffice
  BY <1>1, <1>3 DEF IdsSuffice
<1>6. EvictionsAreOwed /\ Mem!CapacityHolds
  BY <1>1, <1>3, MemCapacity DEF EvictionsAreOwed
<1>. QED BY <1>2, <1>4, <1>5, <1>6 DEF MemIInv

\* The rows and threads are finitely many.
LEMMA MemFinite ==
  ASSUME Mem!MemoryStoreAssumption, MemTypes
  PROVE  /\ IsFiniteSet(Mem!Present) /\ Cardinality(Mem!Present) \in Nat
         /\ \A S \in SUBSET Threads : IsFiniteSet(S) /\ Cardinality(S) \in Nat
<1>1. IsFiniteSet(1..used)
  BY FS_Interval DEF MemTypes
<1>. QED BY <1>1, MemCounts, FS_Subset, FS_CardinalityType DEF MemTypes,
     Mem!MemoryStoreAssumption

\* A set of threads with one more or one less.
LEMMA OneThread ==
  ASSUME Mem!MemoryStoreAssumption, NEW S \in SUBSET Threads, NEW t \in Threads
  PROVE  /\ Cardinality(S) \in Nat
         /\ t \in S => /\ Cardinality(S \cup {t}) = Cardinality(S)
                       /\ Cardinality(S \ {t}) = Cardinality(S) - 1
         /\ t \notin S => /\ Cardinality(S \cup {t}) = Cardinality(S) + 1
                          /\ Cardinality(S \ {t}) = Cardinality(S)
<1>1. IsFiniteSet(S)
  BY MemCounts, FS_Subset DEF Mem!MemoryStoreAssumption
<1>2. /\ Cardinality(S) \in Nat
      /\ Cardinality(S \cup {t}) = IF t \in S THEN Cardinality(S) ELSE Cardinality(S) + 1
  BY <1>1, FS_AddElement, FS_CardinalityType
<1>3. Cardinality(S \ {t}) = IF t \in S THEN Cardinality(S) - 1 ELSE Cardinality(S)
  BY <1>1, FS_RemoveElement
<1>. QED BY <1>2, <1>3

\* Where a thread goes decides which of the counted sets it is in.
LEMMA MemMoves ==
  ASSUME Mem!MemoryStoreAssumption, NEW t \in Threads,
         \A u \in Threads : u # t => at'[u] = at[u]
  PROVE  /\ Cardinality(Inserting) \in Nat
         /\ Cardinality(Inserting') = Cardinality(Inserting)
              + (IF at'[t] \in {"store", "lookup", "insert", "embed"} THEN 1 ELSE 0)
              - (IF at[t] \in {"store", "lookup", "insert", "embed"} THEN 1 ELSE 0)
         /\ Cardinality(Counting) \in Nat
         /\ Cardinality(Counting') = Cardinality(Counting)
              + (IF at'[t] \in {"count", "evict"} THEN 1 ELSE 0)
              - (IF at[t] \in {"count", "evict"} THEN 1 ELSE 0)
<1>1. /\ Inserting \in SUBSET Threads /\ Counting \in SUBSET Threads
      /\ t \in Inserting <=> at[t] \in {"store", "lookup", "insert", "embed"}
      /\ t \in Counting <=> at[t] \in {"count", "evict"}
  BY DEF Inserting, Counting
<1>2. Cardinality(Inserting) \in Nat /\ Cardinality(Counting) \in Nat
  BY <1>1, OneThread
<1>3. Cardinality(Inserting') = Cardinality(Inserting)
        + (IF at'[t] \in {"store", "lookup", "insert", "embed"} THEN 1 ELSE 0)
        - (IF at[t] \in {"store", "lookup", "insert", "embed"} THEN 1 ELSE 0)
  <2>1. CASE at'[t] \in {"store", "lookup", "insert", "embed"}
    <3>1. Inserting' = Inserting \cup {t}
      BY <2>1 DEF Inserting
    <3>2. CASE at[t] \in {"store", "lookup", "insert", "embed"}
      <4>1. Cardinality(Inserting') = Cardinality(Inserting)
        BY <3>1, <3>2, <1>1, OneThread
      <4>. QED BY <4>1, <2>1, <3>2, <1>2
    <3>3. CASE at[t] \notin {"store", "lookup", "insert", "embed"}
      BY <2>1, <3>1, <3>3, <1>1, OneThread
    <3>. QED BY <3>2, <3>3
  <2>2. CASE at'[t] \notin {"store", "lookup", "insert", "embed"}
    <3>1. Inserting' = Inserting \ {t}
      BY <2>2 DEF Inserting
    <3>2. CASE at[t] \in {"store", "lookup", "insert", "embed"}
      BY <2>2, <3>1, <3>2, <1>1, OneThread
    <3>3. CASE at[t] \notin {"store", "lookup", "insert", "embed"}
      <4>1. Cardinality(Inserting') = Cardinality(Inserting)
        BY <3>1, <3>3, <1>1, OneThread
      <4>. QED BY <4>1, <2>2, <3>3, <1>2
    <3>. QED BY <3>2, <3>3
  <2>. QED BY <2>1, <2>2
<1>4. Cardinality(Counting') = Cardinality(Counting)
        + (IF at'[t] \in {"count", "evict"} THEN 1 ELSE 0)
        - (IF at[t] \in {"count", "evict"} THEN 1 ELSE 0)
  <2>1. CASE at'[t] \in {"count", "evict"}
    <3>1. Counting' = Counting \cup {t}
      BY <2>1 DEF Counting
    <3>2. CASE at[t] \in {"count", "evict"}
      <4>1. Cardinality(Counting') = Cardinality(Counting)
        BY <3>1, <3>2, <1>1, OneThread
      <4>. QED BY <4>1, <2>1, <3>2, <1>2
    <3>3. CASE at[t] \notin {"count", "evict"}
      BY <2>1, <3>1, <3>3, <1>1, OneThread
    <3>. QED BY <3>2, <3>3
  <2>2. CASE at'[t] \notin {"count", "evict"}
    <3>1. Counting' = Counting \ {t}
      BY <2>2 DEF Counting
    <3>2. CASE at[t] \in {"count", "evict"}
      BY <2>2, <3>1, <3>2, <1>1, OneThread
    <3>3. CASE at[t] \notin {"count", "evict"}
      <4>1. Cardinality(Counting') = Cardinality(Counting)
        BY <3>1, <3>3, <1>1, OneThread
      <4>. QED BY <4>1, <2>2, <3>3, <1>2
    <3>. QED BY <3>2, <3>3
  <2>. QED BY <2>1, <2>2
<1>. QED BY <1>2, <1>3, <1>4

MemCallInv == MemTypes /\ CallsAreMade /\ IdsSuffice /\ LocksAreHeld

LEMMA MemReturns ==
  ASSUME Mem!MemoryStoreAssumption, MemCallInv, NEW t \in Threads, at[t] \in Holding,
         Mem!Return(t), UNCHANGED <<backend, clock>>,
         writer' \in {writer, Mem!Nobody},
         Mem!Present' \subseteq 1..used', \A i \in Mem!Present' : rows'[i] \in Mem!Row,
         used' = IF at[t] = "embed" THEN used + 1 ELSE used
  PROVE  MemCallInv'
<1>. USE DEF MemCallInv
<1>1. at' = [at EXCEPT ![t] = "idle"]
  BY DEF Mem!Return, Mem!Go
<1>2. IdsSuffice' /\ used' \in 0..MaxCalls
  <2>1. /\ Cardinality(Inserting) \in Nat /\ Cardinality(Inserting') \in Nat
        /\ Cardinality(Inserting') = Cardinality(Inserting)
             - (IF at[t] \in {"store", "lookup", "insert", "embed"} THEN 1 ELSE 0)
    <3>1. at'[t] = "idle" /\ \A u \in Threads : u # t => at'[u] = at[u]
      BY <1>1 DEF MemTypes
    <3>2. Inserting' \in SUBSET Threads
      BY DEF Inserting
    <3>. QED BY <3>1, <3>2, MemMoves, MemFinite
  <2>. QED BY <2>1 DEF IdsSuffice, MemTypes, Mem!MemoryStoreAssumption
<1>3. MemTypes'
  BY <1>1, <1>2 DEF MemTypes, Mem!Return, Mem!Host, Mem!NoCall, Mem!RowIds,
     Mem!MemoryStoreAssumption,
     Holding, Mem!Row
<1>4. CallsAreMade'
  BY <1>1 DEF CallsAreMade, MemTypes, Mem!Return, Storing
<1>5. LocksAreHeld'
  BY <1>1 DEF LocksAreHeld, MemTypes, Mem!Return, Mem!Host, Mem!MemoryStoreAssumption,
     Holding
<1>. QED BY <1>2, <1>3, <1>4, <1>5

LEMMA MemCallStep ==
  ASSUME Mem!MemoryStoreAssumption, MemCallInv, Mem!Next PROVE MemCallInv'
<1>1. PICK t \in Threads : Mem!Store(t) \/ Mem!Recall(t) \/ Mem!Step(t)
  BY DEF Mem!Next
<1>. USE DEF MemCallInv
<1>2. ASSUME NEW k \in Keys \cup {Mem!NoKey}, NEW i \in Importances \cup {0}, NEW l \in {"store", "recall"},
             Mem!Begin(t, k, i, l), l = "store" => k \in Keys /\ i \in Importances
      PROVE  MemCallInv'
  <2>1. at' = [at EXCEPT ![t] = l]
    BY <1>2 DEF Mem!Begin, Mem!Go
  <2>2. IdsSuffice'
    <3>1. /\ Cardinality(Inserting) \in Nat
          /\ Cardinality(Inserting') <= Cardinality(Inserting) + 1
          /\ Cardinality(Inserting') \in Int
      <4>1. at[t] = "idle" /\ at'[t] = l /\ \A u \in Threads : u # t => at'[u] = at[u]
        BY <1>2, <2>1 DEF Mem!Begin, MemTypes
      <4>. QED BY <1>2, <4>1, MemMoves
    <3>. QED BY <1>2, <3>1 DEF IdsSuffice, MemTypes, Mem!Begin, Mem!tables
  <2>3. MemTypes'
    BY <1>2, <2>1 DEF MemTypes, Mem!Begin, Mem!tables, Mem!Present, Mem!Row, Mem!RowIds,
       Mem!MemoryStoreAssumption
  <2>4. CallsAreMade'
    BY <1>2, <2>1 DEF CallsAreMade, MemTypes, Mem!Begin, Storing, Mem!MemoryStoreAssumption
  <2>5. LocksAreHeld'
    BY <1>2, <2>1 DEF LocksAreHeld, MemTypes, Mem!Begin, Holding
  <2>. QED BY <2>2, <2>3, <2>4, <2>5
<1>3. CASE Mem!Store(t) \/ Mem!Recall(t)
  BY <1>2, <1>3 DEF Mem!Store, Mem!Recall
<1>4. ASSUME NEW from, NEW to, <<from, to>> \in {<<"store", "lookup">>, <<"recall", "search">>},
             Mem!Lock(t, from, to)
      PROVE  MemCallInv'
  <2>1. at' = [at EXCEPT ![t] = to] /\ at[t] = from
    BY <1>4 DEF Mem!Lock, Mem!Go
  <2>2. IdsSuffice'
    <3>1. Cardinality(Inserting') = Cardinality(Inserting) /\ Cardinality(Inserting) \in Nat
      <4>1. at[t] = from /\ at'[t] = to /\ \A u \in Threads : u # t => at'[u] = at[u]
        BY <1>4, <2>1 DEF MemTypes
      <4>. QED BY <1>4, <4>1, MemMoves
    <3>. QED BY <1>4, <3>1 DEF IdsSuffice, MemTypes, Mem!Lock, Mem!tables
  <2>3. MemTypes'
    BY <1>4, <2>1 DEF MemTypes, Mem!Lock, Mem!tables, Mem!Present, Mem!Row, Mem!RowIds,
       Mem!MemoryStoreAssumption,
       Holding, Mem!Host
  <2>4. CallsAreMade'
    BY <1>4, <2>1 DEF CallsAreMade, MemTypes, Mem!Lock, Storing
  <2>5. LocksAreHeld'
    BY <1>4, <2>1 DEF LocksAreHeld, MemTypes, Mem!Lock, Holding, Mem!Host,
       Mem!MemoryStoreAssumption
  <2>. QED BY <2>2, <2>3, <2>4, <2>5
<1>5. CASE Mem!LockStore(t) \/ Mem!LockRecall(t)
  BY <1>4, <1>5 DEF Mem!LockStore, Mem!LockRecall
<1>6. CASE Mem!Lookup(t)
  <2>. DEFINE to == IF Mem!Same(t) = {} THEN "insert" ELSE "bump"
  <2>1. at' = [at EXCEPT ![t] = to] /\ at[t] = "lookup" /\ to \in {"insert", "bump"}
    BY <1>6 DEF Mem!Lookup, Mem!Go
  <2>. HIDE DEF to
  <2>a. Mem!First(t) \in SUBSET Mem!Present /\ Mem!Present \subseteq Mem!RowIds
    BY DEF Mem!First, Mem!Same, MemTypes, Mem!RowIds, Mem!MemoryStoreAssumption
  <2>b. \E imp \in Importances : call' = [call EXCEPT ![t].imp = imp]
    <3>1. call[t].imp \in Importances /\ \A i \in Mem!Present : rows[i].imp \in Importances
      BY <2>1 DEF CallsAreMade, Storing, MemTypes, Mem!Row
    <3>2. CASE \E i \in Mem!First(t) : rows[i].imp > call[t].imp
      <4>1. (CHOOSE i \in Mem!First(t) : TRUE) \in Mem!First(t)
        BY <3>2
      <4>. QED BY <1>6, <2>a, <3>1, <3>2, <4>1 DEF Mem!Lookup, MemTypes
    <3>3. CASE ~\E i \in Mem!First(t) : rows[i].imp > call[t].imp
      BY <1>6, <3>1, <3>3 DEF Mem!Lookup, MemTypes
    <3>. QED BY <3>2, <3>3
  <2>c. /\ call'[t].key = call[t].key /\ call'[t].now = call[t].now
        /\ call'[t].imp \in Importances
        /\ \A u \in Threads : u # t => call'[u] = call[u]
        /\ call' \in [Threads ->
                      [key : Keys \cup {Mem!NoKey}, imp : Importances \cup {0}, now : 0..MaxCalls]]
    <3>1. PICK imp \in Importances : call' = [call EXCEPT ![t].imp = imp]
      BY <2>b
    <3>2. call[t] \in [key : Keys \cup {Mem!NoKey}, imp : Importances \cup {0}, now : 0..MaxCalls]
      BY DEF MemTypes
    <3>3. /\ call'[t] = [call[t] EXCEPT !.imp = imp]
          /\ \A u \in Threads : u # t => call'[u] = call[u]
          /\ call' = [u \in Threads |-> call'[u]]
      BY <3>1 DEF MemTypes
    <3>4. /\ call'[t].key = call[t].key /\ call'[t].now = call[t].now /\ call'[t].imp = imp
          /\ call'[t] \in [key : Keys \cup {Mem!NoKey}, imp : Importances \cup {0}, now : 0..MaxCalls]
      BY <3>2, <3>3
    <3>. QED BY <3>3, <3>4 DEF MemTypes
  <2>2. IdsSuffice' /\ used' \in 0..MaxCalls
    <3>1. at'[t] = to /\ \A u \in Threads : u # t => at'[u] = at[u]
      BY <2>1 DEF MemTypes
    <3>2. Cardinality(Inserting) \in Nat /\ Cardinality(Inserting') <= Cardinality(Inserting)
      BY <2>1, <3>1, MemMoves
    <3>3. Inserting' \in SUBSET Threads
      BY DEF Inserting
    <3>4. Cardinality(Inserting') \in Nat
      BY <3>3, OneThread
    <3>. QED BY <1>6, <3>2, <3>4 DEF IdsSuffice, MemTypes, Mem!Lookup, Mem!tables,
         Mem!MemoryStoreAssumption
  <2>3. MemTypes'
    BY <1>6, <2>1, <2>2, <2>a, <2>c DEF MemTypes, Mem!Lookup, Mem!tables, Mem!Present,
       Mem!Row, Mem!RowIds,
       Mem!MemoryStoreAssumption, Holding
  <2>4. CallsAreMade'
    BY <1>6, <2>1, <2>c DEF CallsAreMade, MemTypes, Mem!Lookup, Storing
  <2>5. LocksAreHeld'
    BY <1>6, <2>1 DEF LocksAreHeld, MemTypes, Mem!Lookup, Holding
  <2>. QED BY <2>2, <2>3, <2>4, <2>5
<1>7. CASE Mem!OpenInsert(t)
  <2>1. at' = [at EXCEPT ![t] = "embed"] /\ at[t] = "insert"
    BY <1>7 DEF Mem!OpenInsert, Mem!Go
  <2>2. IdsSuffice' /\ used' \in 0..MaxCalls
    <3>1. at'[t] = "embed" /\ \A u \in Threads : u # t => at'[u] = at[u]
      BY <2>1 DEF MemTypes
    <3>2. Cardinality(Inserting) \in Nat /\ Cardinality(Inserting') = Cardinality(Inserting)
      BY <2>1, <3>1, MemMoves
    <3>3. Inserting' \in SUBSET Threads
      BY DEF Inserting
    <3>4. Cardinality(Inserting') \in Nat
      BY <3>3, OneThread
    <3>. QED BY <1>7, <3>2, <3>4 DEF IdsSuffice, MemTypes, Mem!OpenInsert, Mem!tables,
         Mem!MemoryStoreAssumption
  <2>3. MemTypes'
    BY <1>7, <2>1, <2>2 DEF MemTypes, Mem!OpenInsert, Mem!tables, Mem!Present, Mem!Row,
       Mem!RowIds,
       Mem!MemoryStoreAssumption, Holding
  <2>4. CallsAreMade'
    BY <1>7, <2>1 DEF CallsAreMade, MemTypes, Mem!OpenInsert, Storing
  <2>5. LocksAreHeld'
    BY <1>7, <2>1 DEF LocksAreHeld, MemTypes, Mem!OpenInsert, Holding
  <2>. QED BY <2>2, <2>3, <2>4, <2>5
<1>8. CASE Mem!Insert(t)
  <2>1. at' = [at EXCEPT ![t] = "count"] /\ at[t] = "insert"
    BY <1>8 DEF Mem!Insert, Mem!Go
  <2>r. Mem!NewRow(t) \in Mem!Row
    BY <2>1 DEF Mem!NewRow, Mem!Row, Mem!Host, CallsAreMade, Storing, MemTypes,
       Mem!MemoryStoreAssumption
  <2>2. IdsSuffice' /\ used' \in 0..MaxCalls
    <3>1. at'[t] = "count" /\ \A u \in Threads : u # t => at'[u] = at[u]
      BY <2>1 DEF MemTypes
    <3>2. Cardinality(Inserting) \in Nat /\ Cardinality(Inserting') = Cardinality(Inserting) - 1
      BY <2>1, <3>1, MemMoves
    <3>3. Inserting' \in SUBSET Threads
      BY DEF Inserting
    <3>4. Cardinality(Inserting') \in Nat
      BY <3>3, OneThread
    <3>. QED BY <1>8, <3>2, <3>4 DEF IdsSuffice, MemTypes, Mem!Insert, Mem!tables,
         Mem!MemoryStoreAssumption
  <2>3. MemTypes'
    BY <1>8, <2>1, <2>r, <2>2 DEF MemTypes, Mem!Insert, Mem!tables, Mem!Present, Mem!Row,
       Mem!RowIds,
       Mem!MemoryStoreAssumption, Holding, Mem!With
  <2>4. CallsAreMade'
    BY <1>8, <2>1 DEF CallsAreMade, MemTypes, Mem!Insert, Storing
  <2>5. LocksAreHeld'
    BY <1>8, <2>1 DEF LocksAreHeld, MemTypes, Mem!Insert, Holding
  <2>. QED BY <2>2, <2>3, <2>4, <2>5
<1>9. CASE Mem!Count(t)
  <2>1. at' = [at EXCEPT ![t] = "evict"] /\ at[t] = "count"
    BY <1>9 DEF Mem!Count, Mem!Go
  <2>2. IdsSuffice' /\ used' \in 0..MaxCalls
    <3>1. at'[t] = "evict" /\ \A u \in Threads : u # t => at'[u] = at[u]
      BY <2>1 DEF MemTypes
    <3>2. Cardinality(Inserting) \in Nat /\ Cardinality(Inserting') = Cardinality(Inserting)
      BY <2>1, <3>1, MemMoves
    <3>3. Inserting' \in SUBSET Threads
      BY DEF Inserting
    <3>4. Cardinality(Inserting') \in Nat
      BY <3>3, OneThread
    <3>. QED BY <1>9, <3>2, <3>4 DEF IdsSuffice, MemTypes, Mem!Count, Mem!tables,
         Mem!MemoryStoreAssumption
  <2>3. MemTypes'
    BY <1>9, <2>1, <2>2, MemFinite, MemCounts DEF MemTypes, Mem!Count, Mem!tables,
       Mem!Present, Mem!Row, Mem!RowIds,
       Mem!MemoryStoreAssumption, Holding, Mem!Over
  <2>4. CallsAreMade'
    BY <1>9, <2>1 DEF CallsAreMade, MemTypes, Mem!Count, Storing
  <2>5. LocksAreHeld'
    BY <1>9, <2>1 DEF LocksAreHeld, MemTypes, Mem!Count, Holding
  <2>. QED BY <2>2, <2>3, <2>4, <2>5
<1>10. CASE Mem!CountFits(t)
  <2>. QED BY <1>10, MemReturns DEF Mem!CountFits, Mem!tables, Mem!Present, MemTypes,
       Holding
<1>11. CASE Mem!Evict(t)
  <2>. QED BY <1>11, MemReturns DEF Mem!Evict, Mem!tables, Mem!Present, MemTypes, Holding,
       Mem!Restricted
<1>12. CASE Mem!Touch(t)
  <2>1. call[t].now \in 1..MaxCalls
    BY <1>12 DEF Mem!Touch, CallsAreMade
  <2>2. Mem!Present' = Mem!Present /\ \A i \in Mem!Present' : rows'[i] \in Mem!Row
    BY <1>12, <2>1 DEF Mem!Touch, MemTypes, Mem!Present, Mem!Row
  <2>. QED BY <1>12, <2>2, MemReturns DEF Mem!Touch, Mem!tables, Mem!Present, MemTypes,
       Holding
<1>13. CASE Mem!Bump(t)
  <2>1. call[t].now \in 1..MaxCalls /\ call[t].imp \in Importances
    BY <1>13 DEF Mem!Bump, CallsAreMade, Storing
  <2>2. Mem!Present' = Mem!Present /\ \A i \in Mem!Present' : rows'[i] \in Mem!Row
    BY <1>13, <2>1, ZenonT(40) DEF Mem!Bump, MemTypes, Mem!Present, Mem!Row
  <2>. QED BY <1>13, <2>2, MemReturns DEF Mem!Bump, Mem!tables, Mem!Present, MemTypes,
       Holding
<1>14. CASE Mem!Locked(t)
  <2>. QED BY <1>14, MemReturns DEF Mem!Locked, Mem!tables, Mem!Present, MemTypes, Holding
<1>15. CASE Mem!Search(t)
  <2>1. PICK S \in SUBSET Mem!Present :
          IF S = {} THEN Mem!Return(t)
          ELSE /\ found' = [found EXCEPT ![t] = S] /\ Mem!Go(t, "touch")
               /\ UNCHANGED <<holder, call, excess>>
    BY <1>15 DEF Mem!Search
  <2>2. CASE S = {}
    BY <1>15, <2>1, <2>2, MemReturns DEF Mem!Search, Mem!tables, Mem!Present, MemTypes,
       Holding
  <2>3. CASE S # {}
    <3>1. at' = [at EXCEPT ![t] = "touch"] /\ at[t] = "search"
      BY <1>15, <2>1, <2>3 DEF Mem!Search, Mem!Go
    <3>2. IdsSuffice' /\ used' \in 0..MaxCalls
      <4>1. at'[t] = "touch" /\ \A u \in Threads : u # t => at'[u] = at[u]
        BY <3>1 DEF MemTypes
      <4>2. Cardinality(Inserting) \in Nat /\ Cardinality(Inserting') = Cardinality(Inserting)
        BY <3>1, <4>1, MemMoves
      <4>3. Inserting' \in SUBSET Threads
        BY DEF Inserting
      <4>4. Cardinality(Inserting') \in Nat
        BY <4>3, OneThread
      <4>. QED BY <1>15, <2>1, <2>3, <4>2, <4>4 DEF IdsSuffice, MemTypes, Mem!Search,
           Mem!tables, Mem!MemoryStoreAssumption
    <3>3. MemTypes'
      BY <1>15, <2>1, <2>3, <3>1, <3>2 DEF MemTypes, Mem!Search, Mem!tables, Mem!Present,
         Mem!Row, Mem!RowIds,
         Mem!MemoryStoreAssumption, Holding
    <3>4. CallsAreMade'
      BY <1>15, <2>1, <2>3, <3>1 DEF CallsAreMade, MemTypes, Mem!Search, Storing
    <3>5. LocksAreHeld'
      BY <1>15, <2>1, <2>3, <3>1 DEF LocksAreHeld, MemTypes, Mem!Search, Holding
    <3>. QED BY <3>2, <3>3, <3>4, <3>5
  <2>. QED BY <2>2, <2>3
<1>16. CASE Mem!Commit(t)
  <2>1. /\ used' = used + 1 /\ at[t] = "embed" /\ Mem!Return(t)
        /\ UNCHANGED <<backend, clock>> /\ writer' = Mem!Nobody
    BY <1>16 DEF Mem!Commit
  <2>2. Mem!NewRow(t) \in Mem!Row
    BY <2>1 DEF Mem!NewRow, Mem!Row, Mem!Host, CallsAreMade, Storing, MemTypes,
       Mem!MemoryStoreAssumption
  <2>3. Mem!Present' \subseteq 1..used' /\ \A i \in Mem!Present' : rows'[i] \in Mem!Row
    BY <1>16, <2>1, <2>2 DEF Mem!Commit, Mem!With, Mem!Restricted, Mem!Present, MemTypes
  <2>. QED BY <2>1, <2>3, MemReturns DEF Holding
<1>. QED
  BY <1>1, <1>3, <1>5, <1>6, <1>7, <1>8, <1>9, <1>10, <1>11, <1>12, <1>13, <1>14, <1>15,
     <1>16 DEF Mem!Step
-----------------------------------------------------------------------------
\* What the tables hold of a process and what it is about to insert.
LEMMA MemRowStep ==
  ASSUME Mem!MemoryStoreAssumption, MemCallInv, MemCallInv', InsertsAreNew, Mem!OncePerProcess,
         Mem!Next
  PROVE  InsertsAreNew' /\ Mem!OncePerProcess'
<1>1. PICK t \in Threads : Mem!Store(t) \/ Mem!Recall(t) \/ Mem!Step(t)
  BY DEF Mem!Next
<1>. USE DEF MemCallInv
\* Rows go or are changed but in key and owner, and nobody comes to insert.
<1>2. ASSUME Mem!Present' \subseteq Mem!Present,
             \A i \in Mem!Present' : rows'[i].key = rows[i].key /\ rows'[i].by = rows[i].by,
             \A u \in Threads : at'[u] \in {"insert", "embed"} =>
               at[u] \in {"insert", "embed"} /\ call'[u].key = call[u].key
      PROVE  InsertsAreNew' /\ Mem!OncePerProcess'
  BY <1>2 DEF InsertsAreNew, Mem!OncePerProcess, Mem!Present
<1>3. CASE Mem!Store(t) \/ Mem!Recall(t) \/ Mem!LockStore(t) \/ Mem!LockRecall(t)
  BY <1>2, <1>3 DEF Mem!Store, Mem!Recall, Mem!LockStore, Mem!LockRecall, Mem!Begin,
     Mem!Lock, Mem!Go,
     Mem!tables, Mem!Present, MemTypes
<1>4. CASE Mem!Bump(t) \/ Mem!Touch(t)
  <2>1. /\ Mem!Present' = Mem!Present
        /\ \A i \in Mem!Present : rows'[i].key = rows[i].key /\ rows'[i].by = rows[i].by
    <3>1. CASE Mem!Bump(t)
      BY <3>1 DEF Mem!Bump, Mem!Present, MemTypes, Mem!Row
    <3>2. CASE Mem!Touch(t)
      BY <3>2 DEF Mem!Touch, Mem!Present, MemTypes, Mem!Row
    <3>. QED BY <1>4, <3>1, <3>2
  <2>2. at' = [at EXCEPT ![t] = "idle"] /\ \A u \in Threads : u # t => call'[u] = call[u]
    BY <1>4 DEF Mem!Bump, Mem!Touch, Mem!Return, Mem!Go, MemTypes
  <2>. QED BY <1>2, <2>1, <2>2 DEF MemTypes
<1>5. CASE Mem!OpenInsert(t) \/ Mem!Count(t) \/ Mem!CountFits(t) \/ Mem!Locked(t)
  BY <1>2, <1>5 DEF Mem!OpenInsert, Mem!Count, Mem!CountFits, Mem!Locked, Mem!Return,
     Mem!Go, Mem!tables,
     Mem!Present, MemTypes
<1>6. CASE Mem!Search(t)
  BY <1>2, <1>6 DEF Mem!Search, Mem!Return, Mem!Go, Mem!tables, Mem!Present, MemTypes
<1>7. CASE Mem!Evict(t)
  BY <1>2, <1>7 DEF Mem!Evict, Mem!Restricted, Mem!Return, Mem!Go, Mem!Present, MemTypes
<1>8. CASE Mem!Lookup(t)
  <2>1. /\ at' = [at EXCEPT ![t] = IF Mem!Same(t) = {} THEN "insert" ELSE "bump"]
        /\ rows' = rows
        /\ \A u \in Threads : call'[u].key = call[u].key
    BY <1>8 DEF Mem!Lookup, Mem!Go, Mem!tables, MemTypes
  <2>2. \A u \in Threads : u # t => at'[u] = at[u]
    BY <2>1 DEF MemTypes
  <2>3. at'[t] = "insert" => \A i \in Mem!Present : rows[i].key # call[t].key
    BY <2>1 DEF MemTypes, Mem!Same
  <2>4. at'[t] \in {"insert", "bump"}
    BY <2>1 DEF MemTypes
  <2>. QED BY <2>1, <2>2, <2>3, <2>4 DEF InsertsAreNew, Mem!OncePerProcess, Mem!Present
\* A row of the calling thread is added, and some go.
<1>9. ASSUME at[t] \in {"insert", "embed"},
             Mem!Present' \subseteq Mem!Present \cup {used + 1},
             \A i \in Mem!Present' : rows'[i] = IF i = used + 1 THEN Mem!NewRow(t) ELSE rows[i],
             at'[t] \notin {"insert", "embed"},
             \A u \in Threads : u # t => at'[u] = at[u] /\ call'[u] = call[u]
      PROVE  InsertsAreNew' /\ Mem!OncePerProcess'
  <2>1. used + 1 \notin Mem!Present
    BY DEF MemTypes
  <2>2. Mem!NewRow(t).key = call[t].key /\ Mem!NewRow(t).by = HostOf[t]
    BY DEF Mem!NewRow, Mem!Host
  <2>3. \A i \in Mem!Present : rows[i].key = call[t].key => rows[i].by # HostOf[t]
    BY <1>9 DEF InsertsAreNew
  <2>4. Mem!OncePerProcess'
    BY <1>9, <2>1, <2>2, <2>3 DEF Mem!OncePerProcess, Mem!Present
  <2>5. \A u \in Threads : u # t /\ at[u] \in {"insert", "embed"} => HostOf[u] # HostOf[t]
    BY <1>9 DEF LocksAreHeld, Holding
  <2>6. InsertsAreNew'
    BY <1>9, <2>1, <2>2, <2>5 DEF InsertsAreNew, Mem!Present
  <2>. QED BY <2>4, <2>6
<1>10. CASE Mem!Insert(t)
  BY <1>9, <1>10 DEF Mem!Insert, Mem!With, Mem!Go, Mem!Present, MemTypes
<1>11. CASE Mem!Commit(t)
  <2>1. /\ at[t] = "embed" /\ used' = used + 1
        /\ at'[t] = "idle"
        /\ \A u \in Threads : u # t => at'[u] = at[u] /\ call'[u] = call[u]
    BY <1>11 DEF Mem!Commit, Mem!Return, Mem!Go, MemTypes
  <2>2. /\ Mem!Present' \subseteq Mem!Present \cup {used + 1}
        /\ \A i \in Mem!Present' : rows'[i] = IF i = used + 1 THEN Mem!NewRow(t) ELSE rows[i]
    BY <1>11, <2>1 DEF Mem!Commit, Mem!With, Mem!Restricted, Mem!Present
  <2>. QED BY <1>9, <2>1, <2>2
<1>. QED
  BY <1>1, <1>3, <1>4, <1>5, <1>6, <1>7, <1>8, <1>10, <1>11 DEF Mem!Step

\* The rows above the limit.
LEMMA MemRoomStep ==
  ASSUME Mem!MemoryStoreAssumption, MemCallInv, MemCallInv', EvictionsAreOwed, Mem!CapacityHolds,
         Mem!Next
  PROVE  EvictionsAreOwed' /\ Mem!CapacityHolds'
<1>1. PICK t \in Threads : Mem!Store(t) \/ Mem!Recall(t) \/ Mem!Step(t)
  BY DEF Mem!Next
<1>. USE DEF MemCallInv
<1>. DEFINE n == Cardinality(Mem!Present)
            c == Cardinality(Counting)
<1>2. n \in Nat /\ n' \in Nat /\ c \in Nat /\ c' \in Nat /\ MaxEntries \in Nat
  <2>1. Counting \in SUBSET Threads /\ Counting' \in SUBSET Threads
    BY DEF Counting
  <2>2. IsFiniteSet(Mem!Present')
    <3>1. IsFiniteSet(1..used') /\ Mem!Present' \subseteq 1..used'
      BY FS_Interval DEF MemTypes
    <3>. QED BY <3>1, FS_Subset
  <2>. QED BY <2>1, <2>2, OneThread, MemFinite, FS_CardinalityType DEF
       Mem!MemoryStoreAssumption
<1>3. /\ backend = "sqlite" => n <= MaxEntries
      /\ backend # "sqlite" => n <= MaxEntries + c
  BY <1>2, MemCapacity
<1>c. ASSUME \A u \in Threads : u # t => at'[u] = at[u]
      PROVE  c' = c + (IF at'[t] \in {"count", "evict"} THEN 1 ELSE 0)
                    - (IF at[t] \in {"count", "evict"} THEN 1 ELSE 0)
  BY <1>c, MemMoves
<1>d. Mem!CapacityHolds' <=> n' <= MaxEntries + (IF backend' = "sqlite" THEN 0 ELSE c')
  <2>1. Counting' = {t_1 \in Threads : at'[t_1] \in {"count", "evict"}}
    BY DEF Counting
  <2>. QED BY <2>1, MemCounts DEF Mem!CapacityHolds
<1>. HIDE DEF n, c
\* Who leaves the count finds room or makes it.
<1>4. ASSUME backend' = backend,
             \A u \in Threads : u # t => at'[u] = at[u] /\ excess'[u] = excess[u],
             at'[t] \in {"count", "evict"} => backend = "postgres",
             at'[t] = "embed" => backend = "sqlite",
             at'[t] = "evict" => excess'[t] > 0,
             n' <= n + (IF at'[t] = "count" THEN 1 ELSE 0) \/ (n' <= MaxEntries /\ backend = "sqlite"),
             at'[t] = "count" => at[t] \notin {"count", "evict"},
             at'[t] = "evict" => at[t] = "count",
             at[t] \in {"count", "evict"} => at'[t] = "evict" \/ n' < n \/ n' <= MaxEntries
      PROVE  EvictionsAreOwed' /\ Mem!CapacityHolds'
  <2>2. EvictionsAreOwed'
    BY <1>4 DEF EvictionsAreOwed
  <2>3. c' = c + (IF at'[t] \in {"count", "evict"} THEN 1 ELSE 0)
               - (IF at[t] \in {"count", "evict"} THEN 1 ELSE 0)
    BY <1>c, <1>4
  <2>4. at[t] \in {"count", "evict"} => backend = "postgres"
    BY DEF EvictionsAreOwed
  <2>5. CASE backend = "sqlite"
    <3>1. n' <= MaxEntries
      BY <1>2, <1>3, <1>4, <2>5
    <3>. QED BY <1>2, <1>4, <2>2, <2>5, <3>1, <1>d
  <2>6. CASE backend # "sqlite"
    <3>1. n' <= MaxEntries + c'
      <4>1. CASE at'[t] \in {"count", "evict"}
        BY <1>2, <1>3, <1>4, <2>3, <2>6, <4>1
      <4>2. CASE at'[t] \notin {"count", "evict"}
        BY <1>2, <1>3, <1>4, <2>3, <2>6, <4>2
      <4>. QED BY <4>1, <4>2
    <3>. QED BY <1>4, <2>2, <2>6, <3>1, <1>d
  <2>. QED BY <2>2, <2>5, <2>6
<1>5. CASE Mem!Store(t) \/ Mem!Recall(t) \/ Mem!LockStore(t) \/ Mem!LockRecall(t)
  <2>1. /\ UNCHANGED <<backend, rows, excess>>
        /\ at[t] \in {"idle", "store", "recall"}
    BY <1>5 DEF Mem!Store, Mem!Recall, Mem!LockStore, Mem!LockRecall, Mem!Begin, Mem!Lock,
       Mem!tables
  <2>3. PICK l \in {"store", "recall", "lookup", "search"} : at' = [at EXCEPT ![t] = l]
    BY <1>5 DEF Mem!Store, Mem!Recall, Mem!LockStore, Mem!LockRecall, Mem!Begin, Mem!Lock,
       Mem!Go, Mem!tables
  <2>2. n' = n
    BY <2>1 DEF n, Mem!Present
  <2>4. at'[t] = l /\ \A u \in Threads : u # t => at'[u] = at[u] /\ excess'[u] = excess[u]
    BY <2>1, <2>3 DEF MemTypes
  <2>. QED BY <1>2, <1>4, <2>1, <2>2, <2>3, <2>4
<1>6. CASE Mem!Lookup(t) \/ Mem!OpenInsert(t)
  <2>1. /\ UNCHANGED <<backend, rows, excess>>
        /\ at[t] \in {"lookup", "insert"}
    BY <1>6 DEF Mem!Lookup, Mem!OpenInsert, Mem!tables
  <2>3. PICK l \in {"insert", "bump", "embed"} :
          at' = [at EXCEPT ![t] = l] /\ (l = "embed" => backend = "sqlite")
    BY <1>6 DEF Mem!Lookup, Mem!OpenInsert, Mem!Go, Mem!tables
  <2>2. n' = n
    BY <2>1 DEF n, Mem!Present
  <2>4. at'[t] = l /\ \A u \in Threads : u # t => at'[u] = at[u] /\ excess'[u] = excess[u]
    BY <2>1, <2>3 DEF MemTypes
  <2>. QED BY <1>2, <1>4, <2>1, <2>2, <2>3, <2>4
<1>7. ASSUME Mem!Return(t), backend' = backend, n' <= n \/ (n' <= MaxEntries /\ backend = "sqlite"),
             at[t] \in {"count", "evict"} => n' < n \/ n' <= MaxEntries
      PROVE  EvictionsAreOwed' /\ Mem!CapacityHolds'
  <2>1. at' = [at EXCEPT ![t] = "idle"] /\ \A u \in Threads : u # t => excess'[u] = excess[u]
    BY <1>7 DEF Mem!Return, Mem!Go, MemTypes
  <2>2. at'[t] = "idle" /\ \A u \in Threads : u # t => at'[u] = at[u]
    BY <2>1 DEF MemTypes
  <2>. QED BY <1>2, <1>4, <1>7, <2>1, <2>2
<1>8. CASE Mem!Bump(t) \/ Mem!Touch(t) \/ Mem!Locked(t)
  <2>1. Mem!Return(t) /\ backend' = backend /\ at[t] \notin {"count", "evict"}
    BY <1>8 DEF Mem!Bump, Mem!Touch, Mem!Locked
  <2>2. n' = n
    BY <1>8 DEF Mem!Bump, Mem!Touch, Mem!Locked, Mem!tables, Mem!Present, n
  <2>. QED BY <1>2, <1>7, <2>1, <2>2
<1>9. CASE Mem!Search(t)
  <2>1. backend' = backend /\ at[t] = "search" /\ rows' = rows
    BY <1>9 DEF Mem!Search, Mem!tables
  <2>2. n' = n
    BY <2>1 DEF n, Mem!Present
  <2>3. \/ Mem!Return(t)
        \/ /\ at'[t] = "touch" /\ excess' = excess
           /\ \A u \in Threads : u # t => at'[u] = at[u]
    BY <1>9 DEF Mem!Search, Mem!Go, MemTypes
  <2>. QED BY <1>2, <1>4, <1>7, <2>1, <2>2, <2>3
<1>10. CASE Mem!Count(t)
  <2>1. /\ at' = [at EXCEPT ![t] = "evict"] /\ at[t] = "count"
        /\ UNCHANGED <<backend, rows>>
        /\ excess' = [excess EXCEPT ![t] = n - MaxEntries] /\ n > MaxEntries
    <3>1. Mem!Over = n - MaxEntries
      BY MemCounts DEF Mem!Over, n
    <3>. QED BY <1>10, <1>2, <3>1 DEF Mem!Count, Mem!Go, Mem!tables
  <2>2. n' = n
    BY <2>1 DEF n, Mem!Present
  <2>3. /\ excess'[t] > 0 /\ at'[t] = "evict"
        /\ \A u \in Threads : u # t => at'[u] = at[u] /\ excess'[u] = excess[u]
    BY <1>2, <2>1 DEF MemTypes
  <2>4. backend = "postgres"
    BY <2>1 DEF EvictionsAreOwed
  <2>. QED BY <1>2, <1>4, <2>1, <2>2, <2>3, <2>4
<1>11. CASE Mem!CountFits(t)
  <2>1. Mem!Return(t) /\ UNCHANGED <<backend, rows>> /\ n <= MaxEntries
    BY <1>11, <1>2, MemCounts DEF Mem!CountFits, Mem!tables, Mem!Over, n
  <2>2. n' = n
    BY <2>1 DEF n, Mem!Present
  <2>. QED BY <1>2, <1>7, <2>1, <2>2
<1>12. CASE Mem!Evict(t)
  <2>1. /\ Mem!Return(t) /\ backend' = backend /\ at[t] = "evict"
    BY <1>12 DEF Mem!Evict
  <2>2. PICK gone \in SUBSET Mem!Present :
          /\ Mem!Present' = Mem!Present \ gone
          /\ Cardinality(gone) = excess[t] \/ gone = Mem!Present
    BY <1>12, MemCounts DEF Mem!Evict, Mem!Stalest, Mem!Restricted, Mem!Present
  <2>3. excess[t] > 0 /\ excess[t] \in Nat
    BY <2>1 DEF EvictionsAreOwed, MemTypes
  <2>4. n' = n - Cardinality(gone) /\ Cardinality(gone) \in Nat
    <3>1. IsFiniteSet(Mem!Present) /\ IsFiniteSet(gone) /\ Mem!Present \cap gone = gone
      BY MemFinite, FS_Subset
    <3>2. Cardinality(Mem!Present \ gone) = Cardinality(Mem!Present) - Cardinality(gone)
      BY <3>1, FS_Difference
    <3>. QED BY <2>2, <3>1, <3>2, FS_CardinalityType DEF n
  <2>5. gone = Mem!Present => n' = 0
    BY <2>4, <1>2 DEF n
  <2>. QED BY <1>2, <1>7, <2>1, <2>2, <2>3, <2>4, <2>5
<1>13. CASE Mem!Insert(t)
  <2>1. /\ at' = [at EXCEPT ![t] = "count"] /\ at[t] = "insert"
        /\ UNCHANGED <<backend, excess>>
        /\ backend = "postgres" /\ Mem!Present' = Mem!Present \cup {used'}
    BY <1>13 DEF Mem!Insert, Mem!Go, Mem!With, Mem!Present
  <2>2. n' <= n + 1
    BY <2>1, <1>2, MemFinite, FS_AddElement DEF n
  <2>3. at'[t] = "count" /\ \A u \in Threads : u # t => at'[u] = at[u]
    BY <2>1 DEF MemTypes
  <2>. QED BY <1>2, <1>4, <2>1, <2>2, <2>3
<1>14. CASE Mem!Commit(t)
  <2>1. Mem!Return(t) /\ backend' = backend /\ at[t] = "embed"
    BY <1>14 DEF Mem!Commit
  <2>2. backend = "sqlite"
    BY <2>1 DEF EvictionsAreOwed
  <2>3. n' <= MaxEntries
    <3>. DEFINE full == Mem!Present \cup {used'}
    <3>1. PICK gone \in SUBSET full :
            /\ Mem!Present' = full \ gone
            /\ Cardinality(gone) = IF Cardinality(full) - MaxEntries > 0
                                   THEN Cardinality(full) - MaxEntries ELSE 0
      BY <1>14, MemCounts DEF Mem!Commit, Mem!With, Mem!Restricted, Mem!Present
    <3>2. IsFiniteSet(full) /\ IsFiniteSet(gone) /\ full \cap gone = gone
      BY MemFinite, FS_AddElement, FS_Subset
    <3>3. Cardinality(full \ gone) = Cardinality(full) - Cardinality(gone)
      BY <3>2, FS_Difference
    <3>4. n' = Cardinality(full \ gone) /\ Cardinality(full) \in Nat
      BY <3>1, <3>2, FS_CardinalityType DEF n
    <3>. HIDE DEF full
    <3>. QED BY <1>2, <3>1, <3>3, <3>4
  <2>. QED BY <1>2, <1>7, <2>1, <2>2, <2>3
<1>. QED
  BY <1>1, <1>5, <1>6, <1>8, <1>9, <1>10, <1>11, <1>12, <1>13, <1>14 DEF Mem!Step

LEMMA MemStep ==
  ASSUME Mem!MemoryStoreAssumption, MemIInv, [Mem!Next]_Mem!vars PROVE MemIInv'
<1>1. CASE Mem!Next
  <2>1. MemCallInv'
    BY <1>1, MemCallStep DEF MemIInv, MemCallInv
  <2>2. InsertsAreNew' /\ Mem!OncePerProcess'
    BY <1>1, <2>1, MemRowStep DEF MemIInv, MemCallInv
  <2>3. EvictionsAreOwed' /\ Mem!CapacityHolds'
    BY <1>1, <2>1, MemRoomStep DEF MemIInv, MemCallInv
  <2>. QED BY <2>1, <2>2, <2>3 DEF MemIInv, MemCallInv
<1>2. CASE UNCHANGED Mem!vars
  BY <1>2 DEF MemIInv, MemTypes, CallsAreMade, IdsSuffice, LocksAreHeld, InsertsAreNew,
     EvictionsAreOwed,
     Inserting, Mem!OncePerProcess, Mem!CapacityHolds, Mem!Present, Mem!vars, Mem!tables
<1>. QED BY <1>1, <1>2

\* No process has a memory twice, and the table keeps to its limit, for any
\* threads, processes, keys and limit.
THEOREM MemorySafety == ASSUME Mem!MemoryStoreAssumption PROVE MCSpec => []MemoryInv
<1>. DEFINE I == OnMemory => MemIInv
<1>1. MCInit => I
  BY MemInitially DEF MCInit
<1>2. I /\ [MCNext]_all => I'
  BY MemStep DEF MCNext, all, mems, OnMemory, OnWorkflow, OnResults, Mem!vars, Mem!tables
<1>3. I => MemoryInv
  <2>1. MemTypes => Mem!TypeOK
    BY DEF MemTypes, Mem!TypeOK, Mem!RowIds, Mem!MemoryStoreAssumption
  <2>. QED BY <2>1 DEF MemIInv, MemoryInv, Mem!MemoryInv
<1>. QED BY <1>1, <1>2, <1>3, PTL DEF MCSpec

-----------------------------------------------------------------------------
(* The result cache                                                        *)

Stages == {"idle", "delete", "touch", "work", "check", "insert", "count", "evict",
           "cleanup", "count_all", "evict_all"}

\* A process that is to insert has a result.
CacheTypes ==
  /\ Results!TypeOK
  /\ step \in [Heartbeats -> Stages] /\ since \in [Heartbeats -> SUBSET CacheKeys]
  /\ troubles \in Nat /\ seen \in [Heartbeats -> 0..troubles]
  /\ \A p \in Heartbeats : step[p] \in {"check", "insert"} => mine[p] # Results!Absent

\* A process that found nothing to evict does not answer for a row any more.
Owing == {p \in Heartbeats : step[p] = "count" \/ (step[p] = "evict" /\ surplus[p] > 0)}
RowsAreOwed ==
  Cardinality(Results!Stored) <= MaxRows + Cardinality(Owing) + Cardinality(unpaid)

\* What an eviction is about to delete, and what the others owe and what failed
\* since it counted, is all that is too much.
FailedSince(n) == {f \in unpaid : f > n}
Allowed(p) ==
  surplus[p] + MaxRows + Cardinality(Owing \ {p}) + Cardinality(FailedSince(seen[p]))
EvictionsSuffice ==
  \A p \in Heartbeats : step[p] = "evict" => Cardinality(Results!Stored) <= Allowed(p)

CacheIInv == CacheTypes /\ Results!OnlyNewsRejects /\ RowsAreOwed /\ EvictionsSuffice

LEMMA CacheCounts ==
  \A S : Results!Cardinality(S) = Cardinality(S) /\ (Results!IsFiniteSet(S) <=> IsFiniteSet(S))
BY DEF Results!IsFiniteSet, IsFiniteSet, Results!Cardinality, Cardinality

LEMMA CacheInitially ==
  ASSUME Results!ArtifactCacheAssumption
  PROVE Results!Init => CacheIInv
<1> SUFFICES ASSUME Results!Init PROVE CacheIInv
  OBVIOUS
<1> USE CacheCounts DEF Results!Init
<1>1. Results!Stored = {} /\ Owing = {} /\ unpaid = {} /\ Cardinality({}) = 0 /\ MaxRows \in Nat
  BY FS_EmptySet DEF Results!Stored, Owing, Results!ArtifactCacheAssumption
<1>2. Results!AnyKey \in CacheKeys /\ Cardinality(CacheKeys) \in Nat
  BY FS_CardinalityType DEF Results!AnyKey, Results!ArtifactCacheAssumption
<1>3. CacheTypes
  BY <1>1, <1>2 DEF CacheTypes, Results!TypeOK, Results!Absent, Stages
<1>4. Results!OnlyNewsRejects
  BY DEF Results!OnlyNewsRejects
<1>5. EvictionsSuffice
  BY DEF EvictionsSuffice
<1>. QED BY <1>1, <1>3, <1>4, <1>5 DEF CacheIInv, RowsAreOwed

\* Keys and processes are finitely many.
LEMMA CacheFinite ==
  ASSUME Results!ArtifactCacheAssumption
  PROVE  /\ \A S \in SUBSET CacheKeys :
              IsFiniteSet(S) /\ Cardinality(S) \in 0..Cardinality(CacheKeys)
         /\ \A S \in SUBSET Heartbeats : IsFiniteSet(S) /\ Cardinality(S) \in Nat
         /\ Cardinality(CacheKeys) \in Nat /\ MaxRows \in Nat /\ MaintenanceRows \in Nat
         /\ Results!AnyKey \in CacheKeys
BY CacheCounts, FS_Subset, FS_CardinalityType
DEF Results!ArtifactCacheAssumption, Results!AnyKey

\* Rows that leave leave the rest as it was.
LEMMA Dropped ==
  ASSUME CacheTypes, NEW gone \in SUBSET CacheKeys, Results!Drop(gone)
  PROVE  /\ score' \in [CacheKeys -> CacheScores \cup {Results!Absent}]
         /\ Results!Stored' = Results!Stored \ gone
         /\ lapsed' \subseteq Results!Stored'
         /\ older' \subseteq Results!Stored' \X Results!Stored'
         /\ \A j, k \in Results!Stored' : <<j, k>> \in older' <=> j # k /\ <<k, j>> \notin older'
         /\ \A k \in CacheKeys : score'[k] \in {score[k], Results!Absent}
<1>1. /\ score' \in [CacheKeys -> CacheScores \cup {Results!Absent}]
      /\ \A k \in CacheKeys : score'[k] = IF k \in gone THEN Results!Absent ELSE score[k]
  BY DEF CacheTypes, Results!TypeOK, Results!Drop
<1>2. Results!Stored' = Results!Stored \ gone
  BY <1>1 DEF Results!Stored
<1>3. \A j, k : <<j, k>> \in older' <=> <<j, k>> \in older /\ j \notin gone /\ k \notin gone
  BY DEF Results!Drop
<1>4. older' \subseteq older
  BY DEF Results!Drop
<1>5. older' \subseteq Results!Stored' \X Results!Stored'
  BY <1>2, <1>3, <1>4 DEF CacheTypes, Results!TypeOK
<1>. QED BY <1>1, <1>2, <1>3, <1>5 DEF CacheTypes, Results!TypeOK, Results!Drop

\* The row used last comes after all others.
LEMMA Used ==
  ASSUME CacheTypes, NEW k \in CacheKeys, Results!Use(k), Results!Stored' = Results!Stored \cup {k}
  PROVE  /\ older' \subseteq Results!Stored' \X Results!Stored'
         /\ \A i, j \in Results!Stored' : <<i, j>> \in older' <=> i # j /\ <<j, i>> \notin older'
<1>1. older' = {r \in older : r[1] # k} \cup ((Results!Stored \ {k}) \X {k})
  BY DEF Results!Use
<1>2. older \subseteq Results!Stored \X Results!Stored
  <2>1. Results!TypeOK
    BY DEF CacheTypes
  <2>. QED BY <2>1 DEF Results!TypeOK
<1>3. older' \subseteq Results!Stored' \X Results!Stored'
  BY <1>1, <1>2
<1>4. ASSUME NEW i, NEW j
      PROVE  /\ i = k => <<i, j>> \notin older'
             /\ i # k /\ j = k =>
                  (<<i, j>> \in older' <=> <<i, j>> \in older \/ i \in Results!Stored)
             /\ i # k /\ j # k => (<<i, j>> \in older' <=> <<i, j>> \in older)
  <2>1. <<i, j>> \in (Results!Stored \ {k}) \X {k} <=> i \in Results!Stored /\ i # k /\ j = k
    OBVIOUS
  <2>2. <<i, j>> \in {r \in older : r[1] # k} <=> <<i, j>> \in older /\ i # k
    OBVIOUS
  <2>3. <<i, j>> \in older' <=> \/ <<i, j>> \in {r \in older : r[1] # k}
                               \/ <<i, j>> \in (Results!Stored \ {k}) \X {k}
    BY <1>1
  <2>. QED BY <2>1, <2>2, <2>3
<1>5. \A i, j \in Results!Stored : <<i, j>> \in older <=> i # j /\ <<j, i>> \notin older
  <2>1. Results!TypeOK
    BY DEF CacheTypes
  <2>. QED BY <2>1, Zenon DEF Results!TypeOK
<1>6. \A i, j : <<i, j>> \in older => i \in Results!Stored /\ j \in Results!Stored
  BY <1>2
<1>7. ASSUME NEW i \in Results!Stored', NEW j \in Results!Stored'
      PROVE  <<i, j>> \in older' <=> i # j /\ <<j, i>> \notin older'
  <2>1. CASE i = k
    BY <2>1, <1>4, <1>6
  <2>2. CASE i # k /\ j = k
    BY <2>2, <1>4, <1>6
  <2>3. CASE i # k /\ j # k
    <3>1. i \in Results!Stored /\ j \in Results!Stored
      BY <2>3
    <3>2. /\ <<i, j>> \in older' <=> <<i, j>> \in older
          /\ <<j, i>> \in older' <=> <<j, i>> \in older
      BY <2>3, <1>4, Zenon
    <3>. QED BY <3>1, <3>2, <1>5
  <2>. QED BY <2>1, <2>2, <2>3
<1>. QED BY <1>3, <1>7
\* The sets that the bounds count.
LEMMA DebtsFinite ==
  ASSUME Results!ArtifactCacheAssumption, CacheTypes
  PROVE  /\ Results!Stored \in SUBSET CacheKeys /\ Owing \in SUBSET Heartbeats
         /\ IsFiniteSet(Results!Stored) /\ Cardinality(Results!Stored) \in Nat
         /\ \A S \in SUBSET Heartbeats : IsFiniteSet(S) /\ Cardinality(S) \in Nat
         /\ \A S \in SUBSET unpaid : IsFiniteSet(S) /\ Cardinality(S) \in Nat
         /\ MaxRows \in Nat
         /\ \A p \in Heartbeats : surplus[p] \in Nat
<1>1. Results!Stored \in SUBSET CacheKeys /\ Owing \in SUBSET Heartbeats
  BY DEF Results!Stored, Owing
<1>2. IsFiniteSet(1..troubles) /\ unpaid \subseteq 1..troubles
  BY FS_Interval DEF CacheTypes, Results!TypeOK
<1>3. \A S \in SUBSET unpaid : IsFiniteSet(S) /\ Cardinality(S) \in Nat
  BY <1>2, FS_Subset, FS_CardinalityType
<1>4. \A p \in Heartbeats : surplus[p] \in Nat
  BY CacheCounts, CacheFinite DEF CacheTypes, Results!TypeOK
<1>. QED BY <1>1, <1>3, <1>4, CacheFinite

\* A process that is to evict evicts what it was about to.
Evicting(p) ==
  step'[p] = "evict" => step[p] = "evict" /\ surplus'[p] = surplus[p] /\ seen'[p] = seen[p]

\* One process less is at most one debt less.
LEMMA OneLess ==
  ASSUME Results!ArtifactCacheAssumption, CacheTypes, NEW S \in SUBSET Heartbeats, NEW p
  PROVE  Cardinality(S) <= Cardinality(S \ {p}) + 1
<1>1. IsFiniteSet(S) /\ Cardinality(S) \in Nat
  BY DebtsFinite
<1>2. CASE p \in S
  <2>1. Cardinality(S \ {p}) = Cardinality(S) - 1
    BY <1>1, <1>2, FS_RemoveElement
  <2>. QED BY <1>1, <2>1
<1>3. CASE p \notin S
  <2>1. S \ {p} = S
    BY <1>3
  <2>. QED BY <1>1, <2>1
<1>. QED BY <1>2, <1>3

\* Rows go while nobody's debts change.
LEMMA RowsGo ==
  ASSUME Results!ArtifactCacheAssumption, CacheTypes, CacheTypes', RowsAreOwed, EvictionsSuffice,
         Results!Stored' \subseteq Results!Stored, Owing' = Owing, unpaid' = unpaid,
         \A q \in Heartbeats : Evicting(q)
  PROVE  RowsAreOwed' /\ EvictionsSuffice'
<1>1. Cardinality(Results!Stored') <= Cardinality(Results!Stored)
  BY DebtsFinite, FS_Subset
<1>2. Cardinality(Results!Stored') \in Nat /\ Cardinality(Results!Stored) \in Nat
  BY DebtsFinite, FS_Subset, FS_CardinalityType
<1>3. RowsAreOwed'
  <2>1. Cardinality(Owing) \in Nat /\ Cardinality(unpaid) \in Nat /\ MaxRows \in Nat
    BY DebtsFinite
  <2>. QED BY <1>1, <1>2, <2>1 DEF RowsAreOwed
<1>4. ASSUME NEW q \in Heartbeats, step'[q] = "evict"
      PROVE  Cardinality(Results!Stored') <= Allowed(q)'
  <2>1. Cardinality(Results!Stored) <= Allowed(q)
    BY <1>4 DEF EvictionsSuffice, Evicting
  <2>2. Allowed(q)' = Allowed(q)
    BY <1>4 DEF Allowed, Evicting, FailedSince
  <2>3. Allowed(q) \in Nat
    <3>1. /\ Cardinality(Owing \ {q}) \in Nat /\ Cardinality(FailedSince(seen[q])) \in Nat
          /\ surplus[q] \in Nat /\ MaxRows \in Nat
      BY DebtsFinite DEF FailedSince
    <3>. QED BY <3>1 DEF Allowed
  <2>. QED BY <1>1, <1>2, <2>1, <2>2, <2>3
<1>. QED BY <1>3, <1>4 DEF EvictionsSuffice

\* A row comes with the process that owes it.
LEMMA RowComes ==
  ASSUME Results!ArtifactCacheAssumption, CacheTypes, CacheTypes', RowsAreOwed, EvictionsSuffice,
         NEW p \in Heartbeats, NEW k \in CacheKeys, Results!Stored' = Results!Stored \cup {k},
         p \notin Owing, Owing' = Owing \cup {p}, unpaid' = unpaid,
         step'[p] # "evict", \A q \in Heartbeats : Evicting(q)
  PROVE  RowsAreOwed' /\ EvictionsSuffice'
<1>1. /\ Cardinality(Results!Stored') <= Cardinality(Results!Stored) + 1
      /\ Cardinality(Results!Stored') \in Nat /\ Cardinality(Results!Stored) \in Nat
  BY DebtsFinite, FS_AddElement, FS_CardinalityType
<1>2. RowsAreOwed'
  <2>1. Cardinality(Owing') = Cardinality(Owing) + 1
    BY DebtsFinite, FS_AddElement
  <2>2. Cardinality(Owing) \in Nat /\ Cardinality(unpaid) \in Nat /\ MaxRows \in Nat
    BY DebtsFinite
  <2>. QED BY <1>1, <2>1, <2>2 DEF RowsAreOwed
<1>3. ASSUME NEW q \in Heartbeats, step'[q] = "evict"
      PROVE  Cardinality(Results!Stored') <= Allowed(q)'
  <2>1. Cardinality(Results!Stored) <= Allowed(q)
    BY <1>3 DEF EvictionsSuffice, Evicting
  <2>2. Cardinality(Owing' \ {q}) = Cardinality(Owing \ {q}) + 1
    <3>1. Owing' \ {q} = (Owing \ {q}) \cup {p} /\ p \notin Owing \ {q}
      BY <1>3
    <3>2. Owing \ {q} \in SUBSET Heartbeats /\ IsFiniteSet(Owing \ {q})
      BY DebtsFinite
    <3>. QED BY <3>1, <3>2, FS_AddElement
  <2>3. /\ Cardinality(Owing \ {q}) \in Nat /\ Cardinality(FailedSince(seen[q])) \in Nat
        /\ surplus[q] \in Nat /\ MaxRows \in Nat
    BY DebtsFinite DEF FailedSince
  <2>4. FailedSince(seen[q])' = FailedSince(seen[q]) /\ surplus'[q] = surplus[q]
    BY <1>3 DEF FailedSince, Evicting
  <2>. QED BY <1>1, <2>1, <2>2, <2>3, <2>4 DEF Allowed
<1>. QED BY <1>2, <1>3 DEF EvictionsSuffice

\* A process leaves its row.
LEMMA RowStays ==
  ASSUME Results!ArtifactCacheAssumption, CacheTypes, CacheTypes', RowsAreOwed, EvictionsSuffice,
         NEW p \in Heartbeats, Results!Stored' = Results!Stored, Owing' = Owing \ {p},
         unpaid' = unpaid \cup {troubles + 1},
         step'[p] # "evict", \A q \in Heartbeats : Evicting(q)
  PROVE  RowsAreOwed' /\ EvictionsSuffice'
<1>. DEFINE f == troubles + 1
<1>1. f \notin unpaid /\ troubles \in Nat
  BY DEF CacheTypes, Results!TypeOK
<1>2. ASSUME NEW S \in SUBSET Heartbeats, NEW D \in SUBSET unpaid
      PROVE  Cardinality(S) + Cardinality(D) <= Cardinality(S \ {p}) + Cardinality(D \cup {f})
  <2>1. Cardinality(D \cup {f}) = Cardinality(D) + 1
    BY <1>1, DebtsFinite, FS_AddElement
  <2>2. Cardinality(S) <= Cardinality(S \ {p}) + 1
    BY OneLess
  <2>3. Cardinality(S) \in Nat /\ Cardinality(S \ {p}) \in Nat /\ Cardinality(D) \in Nat
    BY DebtsFinite
  <2>. QED BY <2>1, <2>2, <2>3
<1>3. /\ Cardinality(Results!Stored) \in Nat /\ Cardinality(Owing) \in Nat
      /\ Cardinality(Owing \ {p}) \in Nat /\ Cardinality(unpaid) \in Nat /\ MaxRows \in Nat
      /\ Owing \in SUBSET Heartbeats
  BY DebtsFinite
<1>4. Cardinality(unpaid') \in Nat
  <2>1. unpaid' = unpaid \cup {f} /\ unpaid \in SUBSET unpaid
    OBVIOUS
  <2>2. IsFiniteSet(unpaid)
    BY <2>1, DebtsFinite
  <2>3. Cardinality(unpaid \cup {f}) = Cardinality(unpaid) + 1
    BY <1>1, <2>2, FS_AddElement
  <2>. QED BY <1>3, <2>1, <2>3
<1>5. RowsAreOwed'
  <2>1. Cardinality(Owing) + Cardinality(unpaid) <= Cardinality(Owing') + Cardinality(unpaid')
    BY <1>2, <1>3
  <2>. QED BY <1>3, <1>4, <2>1 DEF RowsAreOwed
<1>6. ASSUME NEW q \in Heartbeats, step'[q] = "evict"
      PROVE  Cardinality(Results!Stored') <= Allowed(q)'
  <2>. DEFINE S == Owing \ {q}  D == FailedSince(seen[q])
  <2>1. Cardinality(Results!Stored) <= Allowed(q) /\ surplus'[q] = surplus[q] /\ seen'[q] = seen[q]
    BY <1>6 DEF EvictionsSuffice, Evicting
  <2>2. FailedSince(seen[q])' = D \cup {f}
    <3>1. seen[q] \in 0..troubles
      BY DEF CacheTypes
    <3>. QED BY <1>1, <2>1, <3>1 DEF FailedSince
  <2>3. Owing' \ {q} = S \ {p}
    OBVIOUS
  <2>4. S \in SUBSET Heartbeats /\ D \in SUBSET unpaid
    BY DebtsFinite DEF FailedSince
  <2>5. Cardinality(S) + Cardinality(D) <= Cardinality(S \ {p}) + Cardinality(D \cup {f})
    BY <1>2, <2>4
  <2>6. /\ Cardinality(S) \in Nat /\ Cardinality(S \ {p}) \in Nat /\ Cardinality(D) \in Nat
        /\ surplus[q] \in Nat
    BY <2>4, DebtsFinite
  <2>7. Cardinality(D \cup {f}) \in Nat
    <3>1. f \notin D /\ IsFiniteSet(D)
      BY <1>1, <2>4, DebtsFinite
    <3>2. Cardinality(D \cup {f}) = Cardinality(D) + 1
      BY <3>1, FS_AddElement
    <3>. QED BY <2>6, <3>2
  <2>8. Allowed(q) = surplus[q] + MaxRows + Cardinality(S) + Cardinality(D)
    BY DEF Allowed
  <2>9. Allowed(q)' = surplus[q] + MaxRows + Cardinality(S \ {p}) + Cardinality(D \cup {f})
    BY <2>1, <2>2, <2>3 DEF Allowed
  <2>. HIDE DEF S, D
  <2>. QED BY <1>3, <2>1, <2>5, <2>6, <2>7, <2>8, <2>9
<1>. QED BY <1>5, <1>6 DEF EvictionsSuffice

\* The rows are counted: what is too many is p's to evict.
LEMMA RowsCounted ==
  ASSUME Results!ArtifactCacheAssumption, CacheTypes, CacheTypes', RowsAreOwed, EvictionsSuffice,
         NEW p \in Heartbeats, Results!Stored' = Results!Stored, unpaid' = unpaid,
         Cardinality(Results!Stored) <= surplus'[p] + MaxRows, seen'[p] = troubles,
         \A q \in Heartbeats \ {p} : Evicting(q),
         Owing' = Owing \/ Cardinality(Results!Stored) <= MaxRows
  PROVE  RowsAreOwed' /\ EvictionsSuffice'
<1>1. /\ Cardinality(Results!Stored) \in Nat /\ MaxRows \in Nat /\ surplus'[p] \in Nat
      /\ \A q \in Heartbeats : surplus[q] \in Nat
      /\ Owing \in SUBSET Heartbeats /\ Owing' \in SUBSET Heartbeats
      /\ \A S \in SUBSET Heartbeats : Cardinality(S) \in Nat
      /\ \A S \in SUBSET unpaid : Cardinality(S) \in Nat
  <2>1. surplus'[p] \in Nat
    BY CacheCounts, CacheFinite DEF CacheTypes, Results!TypeOK
  <2>2. Owing' \in SUBSET Heartbeats
    BY DEF Owing
  <2>. QED BY <2>1, <2>2, DebtsFinite
<1>2. RowsAreOwed'
  BY <1>1 DEF RowsAreOwed
<1>3. ASSUME NEW q \in Heartbeats, step'[q] = "evict"
      PROVE  Cardinality(Results!Stored') <= Allowed(q)'
  <2>1. /\ Cardinality(Owing' \ {q}) \in Nat /\ Cardinality(FailedSince(seen[q])') \in Nat
        /\ surplus'[q] \in Nat
    <3>1. Owing' \ {q} \in SUBSET Heartbeats /\ FailedSince(seen[q])' \in SUBSET unpaid
      BY <1>1 DEF FailedSince
    <3>2. surplus'[q] \in Nat
      BY CacheCounts, CacheFinite DEF CacheTypes, Results!TypeOK
    <3>. QED BY <1>1, <3>1, <3>2
  <2>2. CASE q = p
    BY <1>1, <2>1, <2>2 DEF Allowed
  <2>3. CASE q # p /\ Owing' = Owing
    <3>1. Cardinality(Results!Stored) <= Allowed(q) /\ Evicting(q)
      BY <1>3, <2>3 DEF EvictionsSuffice, Evicting
    <3>2. Allowed(q)' = Allowed(q)
      BY <1>3, <2>3, <3>1 DEF Allowed, Evicting, FailedSince
    <3>. QED BY <3>1, <3>2
  <2>4. CASE Cardinality(Results!Stored) <= MaxRows
    BY <1>1, <2>1, <2>4 DEF Allowed
  <2>. QED BY <2>2, <2>3, <2>4
<1>. QED BY <1>2, <1>3 DEF EvictionsSuffice

\* The arithmetic of an eviction: a debt is no more than what is evicted for it,
\* for the process that counted first and for the one that counted later.
LEMMA OneOrNone ==
  \A a, b, s \in Nat : a <= b + 1 /\ (s = 0 => a = b) => a <= b + s
OBVIOUS

LEMMA CountedFirst ==
  \A rest, m, owed, o, d, s \in Nat :
    rest <= m + owed + d /\ owed <= o + s => rest <= s + m + o + d
OBVIOUS

LEMMA CountedLater ==
  \A rest, total, m, owed, o, d, s, gone \in Nat :
    (rest = total - gone \/ rest = 0) /\ total <= s + m + owed + d /\ owed <= o + gone =>
      rest <= s + m + o + d
OBVIOUS

\* p evicts what it counted, and with it what had been left by then.
LEMMA RowsEvicted ==
  ASSUME Results!ArtifactCacheAssumption, CacheTypes, CacheTypes', RowsAreOwed, EvictionsSuffice,
         NEW p \in Heartbeats, step[p] = "evict", step'[p] # "evict",
         NEW gone \in SUBSET Results!Stored, Results!Stored' = Results!Stored \ gone,
         Cardinality(gone) = surplus[p] \/ gone = Results!Stored,
         unpaid' = FailedSince(seen[p]), Owing' = Owing \ {p},
         \A q \in Heartbeats : Evicting(q)
  PROVE  RowsAreOwed' /\ EvictionsSuffice'
<1>. DEFINE before == Cardinality(Results!Stored)
            rest == Cardinality(Results!Stored')
            D == FailedSince(seen[p])
<1>1. /\ before \in Nat /\ MaxRows \in Nat /\ surplus[p] \in Nat
      /\ Cardinality(Owing') \in Nat /\ Cardinality(D) \in Nat
  BY DebtsFinite DEF FailedSince
<1>2. rest \in Nat /\ (rest = before - surplus[p] \/ rest = 0)
  <2>1. IsFiniteSet(Results!Stored) /\ IsFiniteSet(gone) /\ Results!Stored \cap gone = gone
    BY DebtsFinite, FS_Subset
  <2>2. rest = before - Cardinality(gone) /\ Cardinality(gone) \in Nat
    BY <2>1, FS_Difference, FS_CardinalityType
  <2>3. Results!Stored' \subseteq Results!Stored /\ rest \in Nat
    BY <2>1, FS_Subset, FS_CardinalityType
  <2>. QED BY <1>1, <2>2, <2>3
<1>3. before <= surplus[p] + MaxRows + Cardinality(Owing') + Cardinality(D)
  BY DEF EvictionsSuffice, Allowed
<1>4. rest <= MaxRows + Cardinality(Owing') + Cardinality(D)
  <2>. HIDE DEF before, rest, D
  <2>. QED BY <1>1, <1>2, <1>3
<1>5. RowsAreOwed'
  BY <1>4 DEF RowsAreOwed
<1>6. ASSUME NEW q \in Heartbeats, step'[q] = "evict"
      PROVE  rest <= Allowed(q)'
  <2>. DEFINE E == FailedSince(seen[q])
              others == Owing' \ {q}
  <2>1. /\ step[q] = "evict" /\ surplus'[q] = surplus[q] /\ seen'[q] = seen[q] /\ q # p
        /\ surplus[q] \in Nat
    BY <1>6, DebtsFinite DEF Evicting
  <2>2. before <= surplus[q] + MaxRows + Cardinality(Owing \ {q}) + Cardinality(E)
    BY <2>1 DEF EvictionsSuffice, Allowed
  <2>3. FailedSince(seen[q])' = D \cap E
    BY <2>1 DEF FailedSince
  <2>4. Allowed(q)' = surplus[q] + MaxRows + Cardinality(others) + Cardinality(D \cap E)
    BY <2>1, <2>3 DEF Allowed
  <2>5. /\ Cardinality(Owing \ {q}) \in Nat /\ Cardinality(others) \in Nat
        /\ Cardinality(E) \in Nat
    <3>1. /\ Owing \ {q} \in SUBSET Heartbeats /\ Owing' \ {q} \in SUBSET Heartbeats
          /\ E \in SUBSET unpaid
      BY DebtsFinite DEF FailedSince
    <3>. QED BY <3>1, DebtsFinite
  <2>6. unpaid \subseteq Int /\ seen[p] \in Int /\ seen[q] \in Int
    <3>1. Results!TypeOK /\ seen[p] \in 0..troubles /\ seen[q] \in 0..troubles
      BY DEF CacheTypes
    <3>. QED BY <3>1 DEF Results!TypeOK
  <2>7. surplus[q] = 0 => q \notin Owing
    BY <2>1 DEF Owing
  <2>8. surplus[p] = 0 => p \notin Owing
    BY DEF Owing
  <2>9. CASE seen[q] < seen[p]
    \* p counted after q: what p leaves behind is all there is.
    <3>1. D \cap E = D
      <4>1. ASSUME NEW f \in D PROVE f \in E
        BY <2>6, <2>9 DEF FailedSince
      <4>. HIDE DEF D, E
      <4>. QED BY <4>1
    <3>2. Cardinality(Owing') <= Cardinality(others) + 1
      BY DebtsFinite, OneLess
    <3>3. surplus[q] = 0 => Cardinality(Owing') = Cardinality(others)
      <4>1. q \notin Owing => others = Owing'
        OBVIOUS
      <4>. QED BY <2>7, <4>1, Zenon
    <3>4. Cardinality(Owing') <= Cardinality(others) + surplus[q]
      <4>. HIDE DEF others
      <4>. QED BY <1>1, <2>1, <2>5, <3>2, <3>3, OneOrNone
    <3>5. Allowed(q)' = surplus[q] + MaxRows + Cardinality(others) + Cardinality(D)
      BY <2>4, <3>1
    <3>. HIDE DEF rest, before, D, others
    <3>. QED BY <1>1, <1>2, <1>4, <2>1, <2>5, <3>4, <3>5, CountedFirst
  <2>10. CASE ~(seen[q] < seen[p])
    \* q counted after p: it answers for what p leaves.
    <3>1. D \cap E = E
      <4>1. ASSUME NEW f \in E PROVE f \in D
        BY <2>6, <2>10 DEF FailedSince
      <4>. HIDE DEF D, E
      <4>. QED BY <4>1
    <3>2. Cardinality(Owing \ {q}) <= Cardinality(others) + 1
      <4>1. others = (Owing \ {q}) \ {p}
        OBVIOUS
      <4>2. Owing \ {q} \in SUBSET Heartbeats
        BY DebtsFinite
      <4>3. Cardinality(Owing \ {q}) <= Cardinality((Owing \ {q}) \ {p}) + 1
        BY <4>2, OneLess
      <4>. QED BY <4>1, <4>3, Zenon
    <3>3. surplus[p] = 0 => Cardinality(Owing \ {q}) = Cardinality(others)
      <4>1. p \notin Owing => others = Owing \ {q}
        OBVIOUS
      <4>. QED BY <2>8, <4>1, Zenon
    <3>4. Cardinality(Owing \ {q}) <= Cardinality(others) + surplus[p]
      <4>. HIDE DEF others
      <4>. QED BY <1>1, <2>5, <3>2, <3>3, OneOrNone
    <3>5. Allowed(q)' = surplus[q] + MaxRows + Cardinality(others) + Cardinality(E)
      BY <2>4, <3>1
    <3>. HIDE DEF rest, before, E, others
    <3>. QED BY <1>1, <1>2, <2>1, <2>2, <2>5, <3>4, <3>5, CountedLater
  <2>. QED BY <2>9, <2>10
<1>. QED BY <1>5, <1>6 DEF EvictionsSuffice

\* What a process that has done with its key leaves.
LEMMA Forgotten ==
  ASSUME Results!ArtifactCacheAssumption, CacheTypes, NEW p \in Heartbeats, Results!Forget(p)
  PROVE  /\ key' \in [Heartbeats -> CacheKeys] /\ mine' \in [Heartbeats -> CacheScores \cup {Results!Absent}]
         /\ surplus' \in [Heartbeats -> 0..Results!Cardinality(CacheKeys)]
         /\ since' \in [Heartbeats -> SUBSET CacheKeys] /\ seen' \in [Heartbeats -> 0..troubles]
         /\ \A q \in Heartbeats \ {p} :
              /\ key'[q] = key[q] /\ mine'[q] = mine[q] /\ surplus'[q] = surplus[q]
              /\ since'[q] = since[q] /\ seen'[q] = seen[q] /\ (q \in blind' <=> q \in blind)
<1>1. 0 \in 0..Results!Cardinality(CacheKeys) /\ Results!AnyKey \in CacheKeys /\ 0 \in 0..troubles
  BY CacheFinite, CacheCounts DEF CacheTypes
<1>. QED BY <1>1 DEF Results!Forget, CacheTypes, Results!TypeOK

\* The steps that leave the table and what is owed alone.
LEMMA CacheIdleStep ==
  ASSUME Results!ArtifactCacheAssumption, CacheIInv, NEW p \in Heartbeats,
         \/ Results!Lookup(p) \/ Results!LookupFails(p) \/ Results!Work(p)
         \/ Results!Rejected(p) \/ Results!Accepted(p)
         \/ Results!CountAll(p) \/ Results!MaintenanceFails(p)
  PROVE  CacheIInv'
<1>. USE DEF CacheIInv, Results!table, Results!own, Results!Go, Results!Fault
<1>1. /\ UNCHANGED <<score, lapsed, older, unpaid>> /\ Results!Stored' = Results!Stored
      /\ Results!Stored' \subseteq Results!Stored
  BY DEF Results!Lookup, Results!LookupFails, Results!Work, Results!Rejected, Results!Accepted,
     Results!CountAll, Results!MaintenanceFails, Results!Stored
<1>2. /\ Results!Over(MaintenanceRows) \in 0..Results!Cardinality(CacheKeys)
      /\ troubles \in Nat /\ unpaid \subseteq 1..troubles
  <2>. DEFINE n == Cardinality(Results!Stored)
  <2>1. n \in 0..Cardinality(CacheKeys) /\ Cardinality(CacheKeys) \in Nat /\ MaintenanceRows \in Nat
    BY CacheFinite DEF Results!Stored
  <2>2. Results!Over(MaintenanceRows) = IF n <= MaintenanceRows THEN 0 ELSE n - MaintenanceRows
    BY CacheCounts DEF Results!Over
  <2>. HIDE DEF n
  <2>3. Results!Over(MaintenanceRows) \in 0..Cardinality(CacheKeys)
    BY <2>1, <2>2
  <2>. QED BY <2>3, CacheCounts DEF CacheTypes, Results!TypeOK
<1>3. CASE Results!Lookup(p)
  <2>1. CacheTypes'
    BY <1>1, <1>3 DEF CacheTypes, Results!TypeOK, Results!Lookup, Stages
  <2>2. Results!OnlyNewsRejects'
    BY <1>3 DEF Results!OnlyNewsRejects, Results!Lookup, CacheTypes, Results!TypeOK,
       Results!Stored
  <2>3. Owing' = Owing /\ \A q \in Heartbeats : Evicting(q)
    BY <1>3 DEF Owing, Evicting, Results!Lookup, CacheTypes
  <2>. QED BY <1>1, <2>1, <2>2, <2>3, RowsGo
<1>4. CASE Results!LookupFails(p)
  <2>1. /\ troubles' = troubles + 1 /\ UNCHANGED <<mine, surplus, since, seen>>
        /\ key' \in [Heartbeats -> CacheKeys] /\ step' = [step EXCEPT ![p] = "work"]
        /\ blind' = blind \cup {p}
        /\ \A q \in Heartbeats \ {p} : key'[q] = key[q]
    BY <1>4 DEF Results!LookupFails, CacheTypes, Results!TypeOK
  <2>2. CacheTypes'
    BY <1>1, <1>2, <2>1 DEF CacheTypes, Results!TypeOK, Stages
  <2>3. Results!OnlyNewsRejects'
    BY <1>1, <2>1 DEF Results!OnlyNewsRejects, CacheTypes
  <2>4. step[p] \notin {"count", "evict"}
    BY <1>4 DEF Results!LookupFails
  <2>5. Owing' = Owing /\ \A q \in Heartbeats : Evicting(q)
    BY <2>1, <2>4 DEF Owing, Evicting, CacheTypes
  <2>. QED BY <1>1, <2>2, <2>3, <2>5, RowsGo
<1>5. CASE Results!Work(p)
  <2>1. CASE /\ step[p] = "work" /\ mine' \in {[mine EXCEPT ![p] = s] : s \in CacheScores}
             /\ step' = [step EXCEPT ![p] = "check"]
             /\ UNCHANGED <<key, surplus, since, blind, seen, troubles>>
    <3>1. PICK s \in CacheScores : mine' = [mine EXCEPT ![p] = s]
      BY <2>1
    <3>2. s # Results!Absent /\ s \in CacheScores
      BY DEF Results!ArtifactCacheAssumption, Results!Absent
    <3>3. CacheTypes'
      BY <1>1, <2>1, <3>1, <3>2 DEF CacheTypes, Results!TypeOK, Stages
    <3>4. Results!OnlyNewsRejects'
      BY <1>1, <2>1 DEF Results!OnlyNewsRejects, CacheTypes
    <3>5. Owing' = Owing /\ \A q \in Heartbeats : Evicting(q)
      BY <2>1 DEF Owing, Evicting, CacheTypes
    <3>. QED BY <1>1, <3>3, <3>4, <3>5, RowsGo
  <2>2. CASE step[p] = "work" /\ step' = [step EXCEPT ![p] = "cleanup"] /\ Results!Forget(p)
             /\ troubles' = troubles
    <3>1. CacheTypes'
      BY <1>1, <2>2, Forgotten DEF CacheTypes, Results!TypeOK, Stages
    <3>2. Results!OnlyNewsRejects'
      BY <1>1, <2>2, Forgotten DEF Results!OnlyNewsRejects, CacheTypes
    <3>3. Owing' = Owing /\ \A q \in Heartbeats : Evicting(q)
      BY <2>2, Forgotten DEF Owing, Evicting, CacheTypes
    <3>. QED BY <1>1, <3>1, <3>2, <3>3, RowsGo
  <2>. QED BY <1>5, <2>1, <2>2 DEF Results!Work
<1>6. CASE Results!Rejected(p)
  <2>0. step[p] = "check" /\ step' = [step EXCEPT ![p] = "cleanup"] /\ Results!Forget(p)
        /\ troubles' = troubles
    BY <1>6 DEF Results!Rejected
  <2>1. CacheTypes'
    BY <1>1, <2>0, Forgotten DEF CacheTypes, Results!TypeOK, Stages
  <2>2. Results!OnlyNewsRejects'
    BY <1>1, <2>0, Forgotten DEF Results!OnlyNewsRejects, CacheTypes
  <2>3. Owing' = Owing /\ \A q \in Heartbeats : Evicting(q)
    BY <2>0, Forgotten DEF Owing, Evicting, CacheTypes
  <2>. QED BY <1>1, <2>1, <2>2, <2>3, RowsGo
<1>7. CASE Results!Accepted(p)
  <2>1. CacheTypes'
    BY <1>1, <1>7 DEF CacheTypes, Results!TypeOK, Results!Accepted, Stages
  <2>2. Results!OnlyNewsRejects'
    BY <1>7 DEF Results!OnlyNewsRejects, Results!Accepted, CacheTypes
  <2>3. Owing' = Owing /\ \A q \in Heartbeats : Evicting(q)
    BY <1>7 DEF Owing, Evicting, Results!Accepted, CacheTypes
  <2>. QED BY <1>1, <2>1, <2>2, <2>3, RowsGo
<1>8. CASE Results!CountAll(p)
  <2>1. CacheTypes'
    BY <1>1, <1>2, <1>8 DEF CacheTypes, Results!TypeOK, Results!CountAll, Stages
  <2>2. Results!OnlyNewsRejects'
    BY <1>8 DEF Results!OnlyNewsRejects, Results!CountAll, CacheTypes
  <2>3. Owing' = Owing /\ \A q \in Heartbeats : Evicting(q)
    BY <1>8 DEF Owing, Evicting, Results!CountAll, CacheTypes, Results!TypeOK
  <2>. QED BY <1>1, <2>1, <2>2, <2>3, RowsGo
<1>9. CASE Results!MaintenanceFails(p)
  <2>0. /\ step[p] \notin {"count", "evict"} /\ Results!Forget(p) /\ troubles' = troubles + 1
        /\ \E s \in {"count_all", "idle"} : step' = [step EXCEPT ![p] = s]
    BY <1>9 DEF Results!MaintenanceFails
  <2>1. CacheTypes'
    BY <1>1, <1>2, <2>0, Forgotten DEF CacheTypes, Results!TypeOK, Stages
  <2>2. Results!OnlyNewsRejects'
    BY <1>1, <2>0, Forgotten DEF Results!OnlyNewsRejects, CacheTypes
  <2>3. Owing' = Owing /\ \A q \in Heartbeats : Evicting(q)
    BY <2>0, Forgotten DEF Owing, Evicting, CacheTypes
  <2>. QED BY <1>1, <2>1, <2>2, <2>3, RowsGo
<1>. QED BY <1>3, <1>4, <1>5, <1>6, <1>7, <1>8, <1>9

\* A store that fails, a heartbeat that is killed, and the count.
LEMMA CacheDebtStep ==
  ASSUME Results!ArtifactCacheAssumption, CacheIInv, NEW p \in Heartbeats,
         Results!StoreFails(p) \/ Results!Die(p) \/ Results!Count(p)
  PROVE  CacheIInv'
<1>. USE DEF CacheIInv, Results!table, Results!Go, Results!Fault
<1>1. UNCHANGED <<score, lapsed, older>> /\ Results!Stored' = Results!Stored
  BY DEF Results!StoreFails, Results!Die, Results!Count, Results!Stored
<1>2. troubles \in Nat /\ unpaid \subseteq 1..troubles
  BY DEF CacheTypes, Results!TypeOK
<1>3. CASE Results!StoreFails(p) \/ Results!Die(p)
  <2>1. /\ Results!Forget(p) /\ Results!Leave(p) /\ troubles' = troubles + 1
        /\ \E s \in {"cleanup", "idle"} : step' = [step EXCEPT ![p] = s]
    BY <1>3 DEF Results!StoreFails, Results!Die
  <2>2. unpaid' = IF step[p] \in {"count", "evict"} THEN unpaid \cup {troubles + 1} ELSE unpaid
    BY <2>1 DEF Results!Leave
  <2>3. CacheTypes'
    BY <1>1, <1>2, <2>1, <2>2, Forgotten DEF CacheTypes, Results!TypeOK, Stages
  <2>4. Results!OnlyNewsRejects'
    BY <1>1, <2>1, Forgotten DEF Results!OnlyNewsRejects, CacheTypes
  <2>5. /\ \A q \in Heartbeats : Evicting(q) /\ Owing' = Owing \ {p}
        /\ step'[p] # "evict"
    BY <2>1, Forgotten DEF Owing, Evicting, CacheTypes
  <2>6. CASE step[p] \in {"count", "evict"}
    BY <1>1, <2>2, <2>3, <2>4, <2>5, <2>6, RowStays
  <2>7. CASE step[p] \notin {"count", "evict"}
    <3>1. Owing' = Owing
      BY <2>5, <2>7 DEF Owing
    <3>. QED BY <1>1, <2>2, <2>3, <2>4, <2>5, <2>7, <3>1, RowsGo
  <2>. QED BY <2>6, <2>7
<1>4. CASE Results!Count(p)
  <2>. DEFINE n == Cardinality(Results!Stored)
  <2>1. n \in 0..Cardinality(CacheKeys) /\ Cardinality(CacheKeys) \in Nat /\ MaxRows \in Nat
    BY CacheFinite DEF Results!Stored
  <2>2. Results!Over(MaxRows) = IF n <= MaxRows THEN 0 ELSE n - MaxRows
    BY CacheCounts DEF Results!Over
  <2>3. Results!Over(MaxRows) \in 0..Results!Cardinality(CacheKeys)
    <3>. HIDE DEF n
    <3>1. Results!Over(MaxRows) \in 0..Cardinality(CacheKeys)
      BY <2>1, <2>2
    <3>. QED BY <3>1, CacheCounts
  <2>4. CacheTypes'
    BY <1>1, <1>2, <1>4, <2>3 DEF CacheTypes, Results!TypeOK, Results!Count, Stages
  <2>5. Results!OnlyNewsRejects'
    BY <1>4 DEF Results!OnlyNewsRejects, Results!Count, CacheTypes
  <2>6. /\ surplus'[p] = Results!Over(MaxRows) /\ seen'[p] = troubles /\ unpaid' = unpaid
        /\ step[p] = "count" /\ step' = [step EXCEPT ![p] = "evict"]
        /\ \A q \in Heartbeats \ {p} : Evicting(q) /\ surplus'[q] = surplus[q]
    BY <1>4 DEF Results!Count, Evicting, CacheTypes, Results!TypeOK
  <2>7. n <= surplus'[p] + MaxRows /\ (n > MaxRows => surplus'[p] > 0)
    <3>. HIDE DEF n
    <3>. QED BY <2>1, <2>2, <2>6
  <2>8. Owing' = Owing \/ n <= MaxRows
    <3>1. CASE n > MaxRows
      BY <2>6, <2>7, <3>1 DEF Owing, CacheTypes
    <3>. QED BY <2>1, <3>1
  <2>. QED BY <1>1, <2>4, <2>5, <2>6, <2>7, <2>8, RowsCounted
<1>. QED BY <1>3, <1>4

\* The steps that change it.
LEMMA CacheTableStep ==
  ASSUME Results!ArtifactCacheAssumption, CacheIInv, NEW p \in Heartbeats,
         \/ \E k \in CacheKeys : Results!Lapse(k)
         \/ Results!Cleanup(p) \/ Results!Evict(p) \/ Results!EvictAll(p)
         \/ Results!DeleteLapsed(p) \/ Results!Hit(p) \/ Results!Insert(p)
  PROVE  CacheIInv'
<1>. USE DEF CacheIInv, Results!Go, Results!own
<1>s. Results!Stored \in SUBSET CacheKeys
  BY DEF Results!Stored
<1>1. ASSUME NEW k \in CacheKeys, Results!Lapse(k) PROVE CacheIInv'
  <2>1. /\ Results!Stored' = Results!Stored /\ Owing' = Owing /\ unpaid' = unpaid
        /\ \A q \in Heartbeats : Evicting(q)
    BY <1>1 DEF Results!Lapse, Results!Stored, Owing, Evicting
  <2>2. CacheTypes'
    BY <1>1, <2>1 DEF CacheTypes, Results!TypeOK, Results!Lapse
  <2>3. Results!OnlyNewsRejects'
    BY <1>1 DEF Results!OnlyNewsRejects, Results!Lapse
  <2>. QED BY <2>1, <2>2, <2>3, RowsGo
<1>2. CASE Results!Cleanup(p)
  <2>1. lapsed \in SUBSET CacheKeys /\ Results!Drop(lapsed)
    BY <1>2, <1>s DEF Results!Cleanup, CacheTypes, Results!TypeOK
  <2>2. CacheTypes'
    BY <1>2, <2>1, Dropped DEF CacheTypes, Results!TypeOK, Results!Cleanup, Stages
  <2>3. Results!OnlyNewsRejects'
    BY <1>2, <2>1, Dropped DEF Results!OnlyNewsRejects, Results!Cleanup, CacheTypes,
       Results!TypeOK
  <2>4. Owing' = Owing /\ unpaid' = unpaid /\ \A q \in Heartbeats : Evicting(q)
    BY <1>2 DEF Owing, Evicting, Results!Cleanup, CacheTypes
  <2>5. Results!Stored' \subseteq Results!Stored
    BY <2>1, Dropped
  <2>. QED BY <2>2, <2>3, <2>4, <2>5, RowsGo
<1>3. CASE Results!DeleteLapsed(p)
  <2>1. {key[p]} \in SUBSET CacheKeys /\ Results!Drop({key[p]})
    BY <1>3 DEF Results!DeleteLapsed, CacheTypes, Results!TypeOK
  <2>2. CacheTypes'
    BY <1>3, <2>1, Dropped DEF CacheTypes, Results!TypeOK, Results!DeleteLapsed, Stages
  <2>3. score'[key[p]] = Results!Absent
    BY <2>1 DEF Results!Drop
  <2>4. Results!OnlyNewsRejects'
    BY <1>3, <2>1, <2>3, Dropped DEF Results!OnlyNewsRejects, Results!DeleteLapsed,
       CacheTypes, Results!TypeOK
  <2>5. Owing' = Owing /\ unpaid' = unpaid /\ \A q \in Heartbeats : Evicting(q)
    BY <1>3 DEF Owing, Evicting, Results!DeleteLapsed, CacheTypes
  <2>6. Results!Stored' \subseteq Results!Stored
    BY <2>1, Dropped
  <2>. QED BY <2>2, <2>4, <2>5, <2>6, RowsGo
<1>4. CASE Results!Hit(p)
  <2>1. Results!Stored' = Results!Stored /\ UNCHANGED <<score, lapsed>>
    BY <1>4 DEF Results!Hit, Results!Stored
  <2>2. /\ older' \subseteq Results!Stored' \X Results!Stored'
        /\ \A i, j \in Results!Stored' : <<i, j>> \in older' <=> i # j /\ <<j, i>> \notin older'
    <3>1. CASE score[key[p]] = Results!Absent
      BY <1>4, <2>1, <3>1 DEF Results!Hit, Results!Touch, CacheTypes, Results!TypeOK
    <3>2. CASE score[key[p]] # Results!Absent
      <4>1. key[p] \in CacheKeys /\ Results!Use(key[p]) /\ key[p] \in Results!Stored
        BY <1>4, <3>2 DEF Results!Hit, Results!Touch, CacheTypes, Results!TypeOK,
           Results!Stored
      <4>2. Results!Stored' = Results!Stored \cup {key[p]}
        BY <2>1, <4>1
      <4>. QED BY <4>1, <4>2, Used
    <3>. QED BY <3>1, <3>2
  <2>3. CacheTypes'
    BY <1>4, <2>1, <2>2, Forgotten DEF CacheTypes, Results!TypeOK, Results!Hit, Stages
  <2>4. Results!OnlyNewsRejects'
    BY <1>4, Forgotten DEF Results!OnlyNewsRejects, Results!Hit, CacheTypes
  <2>5. Owing' = Owing /\ unpaid' = unpaid /\ \A q \in Heartbeats : Evicting(q)
    BY <1>4, Forgotten DEF Owing, Evicting, Results!Hit, CacheTypes
  <2>. QED BY <2>1, <2>3, <2>4, <2>5, RowsGo
<1>5. CASE Results!Insert(p)
  <2>1. /\ key[p] \in CacheKeys /\ mine[p] \in CacheScores \cup {Results!Absent}
        /\ mine[p] # Results!Absent
        /\ Results!Use(key[p])
    BY <1>5 DEF Results!Insert, CacheTypes, Results!TypeOK
  <2>2. /\ score' = [score EXCEPT ![key[p]] = mine[p]]
        /\ score' \in [CacheKeys -> CacheScores \cup {Results!Absent}]
    BY <1>5, <2>1 DEF Results!Insert, CacheTypes, Results!TypeOK
  <2>3. Results!Stored' = Results!Stored \cup {key[p]}
    BY <2>1, <2>2 DEF Results!Stored, CacheTypes, Results!TypeOK
  <2>4. /\ older' \subseteq Results!Stored' \X Results!Stored'
        /\ \A i, j \in Results!Stored' : <<i, j>> \in older' <=> i # j /\ <<j, i>> \notin older'
    BY <2>1, <2>3, Used
  <2>5. CacheTypes'
    <3>1. lapsed' \subseteq Results!Stored'
      BY <1>5, <2>3 DEF Results!Insert, CacheTypes, Results!TypeOK
    <3>2. step' \in [Heartbeats -> Stages] /\ since' \in [Heartbeats -> SUBSET CacheKeys]
      BY <1>5, <2>1 DEF Results!Insert, CacheTypes, Stages
    <3>3. UNCHANGED <<key, mine, surplus, seen, troubles, unpaid>>
      BY <1>5 DEF Results!Insert
    <3>4. \A q \in Heartbeats : step'[q] \in {"check", "insert"} => step[q] \in {"check", "insert"}
      BY <1>5 DEF Results!Insert, CacheTypes
    <3>. QED BY <2>2, <2>4, <3>1, <3>2, <3>3, <3>4 DEF CacheTypes, Results!TypeOK
  <2>6. Results!OnlyNewsRejects'
    <3>1. \A q \in Heartbeats :
            /\ step'[q] \in {"work", "check"} => step[q] = step'[q] /\ since'[q] = since[q] \cup {key[p]}
            /\ key'[q] = key[q] /\ blind' = blind
      BY <1>5 DEF Results!Insert, CacheTypes
    <3>2. \A k \in CacheKeys : k # key[p] => score'[k] = score[k]
      BY <2>2 DEF CacheTypes, Results!TypeOK
    <3>. QED BY <3>1, <3>2 DEF Results!OnlyNewsRejects, CacheTypes, Results!TypeOK
  <2>7. /\ p \notin Owing /\ Owing' = Owing \cup {p} /\ unpaid' = unpaid /\ step'[p] # "evict"
        /\ \A q \in Heartbeats : Evicting(q)
    BY <1>5 DEF Owing, Evicting, Results!Insert, CacheTypes
  <2>. QED BY <2>1, <2>3, <2>5, <2>6, <2>7, RowComes
<1>6. CASE Results!Evict(p) \/ Results!EvictAll(p)
  <2>1. PICK gone \in Results!Oldest(surplus[p]) : Results!Drop(gone)
    BY <1>6 DEF Results!Evict, Results!EvictAll
  <2>2. /\ gone \in SUBSET Results!Stored /\ gone \in SUBSET CacheKeys
        /\ Cardinality(gone) = surplus[p] \/ gone = Results!Stored
    BY <1>s, <2>1, CacheCounts DEF Results!Oldest
  <2>3. /\ Results!Forget(p) /\ troubles' = troubles /\ unpaid' \subseteq unpaid
        /\ \E s \in {"cleanup", "idle"} : step' = [step EXCEPT ![p] = s]
    BY <1>6 DEF Results!Evict, Results!EvictAll
  <2>4. CacheTypes'
    <3>1. /\ score' \in [CacheKeys -> CacheScores \cup {Results!Absent}]
          /\ lapsed' \subseteq Results!Stored'
          /\ older' \subseteq Results!Stored' \X Results!Stored'
          /\ \A j, k \in Results!Stored' : <<j, k>> \in older' <=> j # k /\ <<k, j>> \notin older'
      BY <2>1, <2>2, Dropped
    <3>2. step' \in [Heartbeats -> Stages] /\ unpaid' \subseteq 1..troubles'
      BY <2>3 DEF CacheTypes, Results!TypeOK, Stages
    <3>3. \A q \in Heartbeats : step'[q] \in {"check", "insert"} => step'[q] = step[q] /\ q # p
      BY <2>3 DEF CacheTypes
    <3>. QED BY <2>3, <3>1, <3>2, <3>3, Forgotten DEF CacheTypes, Results!TypeOK
  <2>5. Results!OnlyNewsRejects'
    <3>1. \A q \in Heartbeats : step'[q] \in {"work", "check"} => step'[q] = step[q] /\ q # p
      BY <2>3 DEF CacheTypes
    <3>2. \A k \in CacheKeys : score'[k] \in {score[k], Results!Absent}
      BY <2>1, <2>2, Dropped
    <3>. QED BY <2>3, <3>1, <3>2, Forgotten DEF Results!OnlyNewsRejects, CacheTypes, Results!TypeOK
  <2>6. Results!Stored' = Results!Stored \ gone
    BY <2>1, <2>2, Dropped
  <2>7. Owing' = Owing \ {p} /\ step'[p] # "evict" /\ \A q \in Heartbeats : Evicting(q)
    BY <2>3, Forgotten DEF Owing, Evicting, CacheTypes
  <2>8. CASE Results!Evict(p)
    <3>1. step[p] = "evict" /\ unpaid' = FailedSince(seen[p])
      BY <2>8 DEF Results!Evict, FailedSince
    <3>. QED BY <2>2, <2>4, <2>5, <2>6, <2>7, <3>1, RowsEvicted
  <2>9. CASE Results!EvictAll(p)
    <3>1. step[p] = "evict_all" /\ unpaid' = unpaid
      BY <2>9 DEF Results!EvictAll
    <3>2. Owing' = Owing /\ Results!Stored' \subseteq Results!Stored
      BY <2>6, <2>7, <3>1 DEF Owing
    <3>. QED BY <2>4, <2>5, <2>7, <3>1, <3>2, RowsGo
  <2>. QED BY <1>6, <2>8, <2>9
<1>. QED BY <1>1, <1>2, <1>3, <1>4, <1>5, <1>6

LEMMA CacheStep ==
  ASSUME Results!ArtifactCacheAssumption, CacheIInv, [Results!Next]_Results!vars
  PROVE  CacheIInv'
<1>1. CASE UNCHANGED Results!vars
  BY <1>1 DEF CacheIInv, CacheTypes, Results!TypeOK, Results!OnlyNewsRejects, RowsAreOwed,
     Owing, EvictionsSuffice, Allowed, FailedSince, Results!Stored,
     Results!vars, Results!table, Results!own
<1>2. ASSUME NEW k \in CacheKeys, Results!Lapse(k) PROVE CacheIInv'
  <2>1. CASE Heartbeats = {}
    <3>1. /\ UNCHANGED <<score, older, step, key, mine, surplus, since, blind, seen, unpaid, troubles>>
          /\ lapsed' = lapsed \cup {k}
          /\ k \in Results!Stored
      BY <1>2 DEF Results!Lapse, Results!own
    <3>. QED BY <3>1 DEF CacheIInv, CacheTypes, Results!TypeOK, Results!OnlyNewsRejects,
         RowsAreOwed, Owing, EvictionsSuffice, Allowed, FailedSince, Results!Stored
  <2>2. CASE Heartbeats # {}
    BY <1>2, <2>2, CacheTableStep
  <2>. QED BY <2>1, <2>2
<1>. QED BY <1>1, <1>2, CacheIdleStep, CacheDebtStep, CacheTableStep DEF Results!Next

\* The table keeps to its limit but for what is still to be evicted and what failed
\* to be, and only news keep a result out of it unless its lookup had failed, for
\* any heartbeats, keys, scores, limits and faults.
THEOREM ResultsSafety ==
  ASSUME Results!ArtifactCacheAssumption
  PROVE MCSpec => []ArtifactInv
<1>. DEFINE I == OnResults => CacheIInv
<1>1. MCInit => I
  BY CacheInitially DEF MCInit
<1>2. I /\ [MCNext]_all => I'
  BY CacheStep DEF MCNext, all, results, OnMemory, OnWorkflow, OnResults, Results!vars,
     Results!table, Results!own
<1>3. I => ArtifactInv
  <2>1. ASSUME CacheIInv PROVE Results!CapacityHolds
    <3>. DEFINE late == {p \in Heartbeats : step[p] \in {"count", "evict"}}
    <3>1. Owing \subseteq late /\ late \in SUBSET Heartbeats /\ Results!Stored \in SUBSET CacheKeys
      BY DEF Owing, Results!Stored
    <3>2. IsFiniteSet(late) /\ Cardinality(late) \in Nat /\ Cardinality(Results!Stored) \in Nat
          /\ MaxRows \in Nat /\ Cardinality(Owing) \in Nat /\ Cardinality(unpaid) \in Nat
      BY <2>1, <3>1, DebtsFinite DEF CacheIInv
    <3>3. Cardinality(Owing) <= Cardinality(late)
      BY <3>1, <3>2, FS_Subset
    <3>4. Cardinality(Results!Stored) <= MaxRows + Cardinality(late) + Cardinality(unpaid)
      BY <2>1, <3>2, <3>3 DEF CacheIInv, RowsAreOwed
    <3>. QED BY <3>4, CacheCounts DEF Results!CapacityHolds
  <2>. QED BY <2>1 DEF CacheIInv, CacheTypes, ArtifactInv, Results!ArtifactInv
<1>. QED BY <1>1, <1>2, <1>3, PTL DEF MCSpec
=============================================================================
