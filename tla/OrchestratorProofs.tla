-------------------------- MODULE OrchestratorProofs --------------------------
(***************************************************************************)
(* Proofs about Orchestrator for any set of subtasks, any retry limit and  *)
(* any number of faults, crashes and interventions.                        *)
(***************************************************************************)
EXTENDS Orchestrator, TLAPS

\* One while the retry marker of a reset child is still to be written.
Pending(c) == IF pc = "mark" /\ c \in retrying THEN 1 ELSE 0

\* A heartbeat retries one child at a time, and one with retries left.
OneRetry ==
  /\ pc \in {"reset", "mark"} => \E c \in Subtasks : retrying = {c}
  /\ pc \notin {"reset", "mark"} => retrying = {}
  /\ \A c \in retrying : marker[c] < MaxRetries

\* Every reset of a child has its marker, has lost it, or is about to get it;
\* and there are no more markers than retries.
EveryResetCounted ==
  \A c \in Subtasks :
    /\ resets[c] = marker[c] + unmarked[c] + Pending(c)
    /\ marker[c] <= MaxRetries

\* While the parent is open, or a heartbeat that found it open still runs, it
\* carries no result since it was last opened.
OpenMeansUnposted ==
  (parent # "done" \/ pc # "idle") => posts <= reopens

IInv ==
  /\ TypeOK /\ OneRetry /\ EveryResetCounted
  /\ GivesUpOnlyAfterRetries
  /\ OpenMeansUnposted /\ OneResultPerOpening

-----------------------------------------------------------------------------
\* The initial states satisfy the inductive invariant.
LEMMA InitIInv == Init => IInv
<1>. SUFFICES ASSUME Init PROVE IInv
  OBVIOUS
<1>. USE OrchestratorAssumption DEF Init
<1>1. TypeIssues
  BY DEF TypeIssues, Statuses, Results, NoResult
<1>2. TypeLocal
  BY DEF TypeLocal, Pcs, Statuses
<1>3. TypeHistory
  BY DEF TypeHistory
<1>4. OneRetry /\ EveryResetCounted
  BY DEF OneRetry, EveryResetCounted, Pending
<1>5. GivesUpOnlyAfterRetries
  BY DEF GivesUpOnlyAfterRetries, NoResult
<1>6. OpenMeansUnposted /\ OneResultPerOpening
  BY DEF OpenMeansUnposted, OneResultPerOpening
<1>. QED BY <1>1, <1>2, <1>3, <1>4, <1>5, <1>6 DEF IInv, TypeOK

\* A write to the parent leaves it one of the statuses.
LEMMA WriteParentType ==
  ASSUME TypeOK, NEW s \in Statuses \ {"absent"}, WriteParent(s)
  PROVE  parent' \in Statuses \ {"absent"} /\ faults' \in Nat
BY DEF WriteParent, Call, TypeOK, TypeIssues, TypeHistory

\* A heartbeat that ends, or goes on with the children just fetched, has locals
\* of the right types.
LEMMA EndRunType == ASSUME EndRun PROVE TypeLocal'
BY DEF EndRun, TypeLocal, Pcs, Statuses

\* The dispatch on the fetched children gives the locals their types.
LEMMA DispatchType == ASSUME TypeOK, Dispatch PROVE TypeLocal'
BY EndRunType
   DEF Dispatch, Phase, Made, Goto, TypeOK, TypeLocal, TypeIssues, Pcs

-----------------------------------------------------------------------------
\* Every step keeps the types of the issues.
LEMMA IssuesStep == TypeOK /\ [Next]_vars => TypeIssues'
<1>. SUFFICES ASSUME TypeOK, [Next]_vars PROVE TypeIssues'
  OBVIOUS
<1>. USE DEF TypeOK, TypeIssues, TypeLocal
<1>1. CASE UNCHANGED board
  BY <1>1 DEF board, issues
<1>2. ASSUME MarkInProgress \/ FinishDecompose \/ DecideBlock \/ PostNothing \/ FinishDirect
      PROVE  TypeIssues'
  <2>1. parent' \in Statuses \ {"absent"}
    BY <1>2, WriteParentType
       DEF MarkInProgress, FinishDecompose, DecideBlock, PostNothing, FinishDirect, Statuses
  <2>2. UNCHANGED <<child, marker, produced, result, working>>
    BY <1>2 DEF MarkInProgress, FinishDecompose, DecideBlock, PostNothing, FinishDirect
  <2>. QED BY <2>1, <2>2
<1>3. ASSUME Post PROVE TypeIssues'
  <2>1. result' \in Results /\ parent' \in Statuses \ {"absent"}
    BY <1>3 DEF Post, Results, Statuses
  <2>. QED BY <1>3, <2>1 DEF Post
<1>4. ASSUME NEW c \in Subtasks, CreateChild(c) \/ ResetChild(c) PROVE TypeIssues'
  <2>1. child' \in [Subtasks -> Statuses]
    BY <1>4 DEF CreateChild, ResetChild, Statuses
  <2>. QED BY <1>4, <2>1 DEF CreateChild, ResetChild
<1>5. ASSUME NEW c \in Subtasks, MarkRetry(c) PROVE TypeIssues'
  BY <1>5 DEF MarkRetry
<1>6. ASSUME NEW c \in Subtasks, Worker(c) \/ WorkerDies(c) PROVE TypeIssues'
  BY <1>6 DEF Worker, WorkerClaim, WorkerFinish, WorkerDies, Statuses, issues
<1>7. ASSUME Human PROVE TypeIssues'
  BY <1>7 DEF Human, PickWoken, HumanResumes, HumanSets, HumanSetsParent, Statuses,
              board, issues
<1>. QED
  BY <1>1, <1>2, <1>3, <1>4, <1>5, <1>6, <1>7
     DEF Next, Heartbeat, Pick, FetchIssue, FetchChildren, Delegate,
         AgentDiscoveryFails, GoDirect, DecidePartial, DecideIdle, DecideWait, Wake,
         WaitTimeout, SkipChild, JudgeBlocked, RetryStep, CollectChild, Crash, vars

\* Every step keeps the types of the locals of the heartbeat.
LEMMA LocalStep == TypeOK /\ [Next]_vars => TypeLocal'
<1>. SUFFICES ASSUME TypeOK, [Next]_vars PROVE TypeLocal'
  OBVIOUS
<1>. USE DEF TypeOK, TypeLocal
<1>1. CASE EndRun
  BY <1>1, EndRunType
<1>2. CASE UNCHANGED local
  BY <1>2 DEF local
<1>3. ASSUME Pick \/ PickWoken \/ MarkInProgress \/ Delegate \/ GoDirect \/ DecideWait
      PROVE  TypeLocal'
  BY <1>3 DEF Pick, PickWoken, MarkInProgress, Delegate, GoDirect, DecideWait, Goto, Pcs
<1>4. ASSUME FetchIssue PROVE TypeLocal'
  BY <1>4, EndRunType DEF FetchIssue, Goto, Pcs, TypeIssues
<1>5. ASSUME FetchChildren \/ Wake PROVE TypeLocal'
  BY <1>5, EndRunType, DispatchType, <1>2 DEF FetchChildren, Wake
<1>6. ASSUME DecidePartial PROVE TypeLocal'
  BY <1>6 DEF DecidePartial, DoneIn, Goto, Pcs
<1>7. ASSUME NEW c \in Subtasks, CreateChild(c) \/ SkipChild(c) \/ CollectChild(c)
      PROVE  TypeLocal'
  BY <1>7 DEF CreateChild, SkipChild, CollectChild
<1>8. ASSUME NEW c \in Subtasks, JudgeBlocked(c) PROVE TypeLocal'
  BY <1>8 DEF JudgeBlocked, Goto, Pcs
<1>9. ASSUME NEW c \in Subtasks, RetryStep(c) PROVE TypeLocal'
  BY <1>9 DEF RetryStep, ResetChild, MarkRetry, Goto, Pcs
<1>. QED
  BY <1>1, <1>2, <1>3, <1>4, <1>5, <1>6, <1>7, <1>8, <1>9
     DEF Next, Heartbeat, AgentDiscoveryFails, FinishDirect, FinishDecompose,
         DecideBlock, DecideIdle, WaitTimeout, Post, PostNothing, Crash, Worker,
         WorkerClaim, WorkerFinish, WorkerDies, Human, HumanResumes, HumanSets,
         HumanSetsParent, vars

\* Every step keeps the types of the history and the bounds.
LEMMA HistoryStep == TypeOK /\ [Next]_vars => TypeHistory'
<1>. SUFFICES ASSUME TypeOK, [Next]_vars PROVE TypeHistory'
  OBVIOUS
<1>. USE DEF TypeOK, TypeHistory
<1>1. CASE UNCHANGED <<history, bounds>>
  BY <1>1 DEF history, retryLog, bounds
<1>2. ASSUME MarkInProgress \/ FetchIssue \/ FetchChildren \/ AgentDiscoveryFails
               \/ FinishDirect \/ FinishDecompose \/ DecideBlock \/ Wake \/ PostNothing
      PROVE  TypeHistory'
  <2>1. faults' \in Nat
    BY <1>2, WriteParentType
       DEF MarkInProgress, FetchIssue, FetchChildren, AgentDiscoveryFails, FinishDirect,
           FinishDecompose, DecideBlock, Wake, PostNothing, Call, Statuses
  <2>2. UNCHANGED <<history, crashes, humans>>
    BY <1>2 DEF MarkInProgress, FetchIssue, FetchChildren, AgentDiscoveryFails,
         FinishDirect, FinishDecompose, DecideBlock, Wake, PostNothing
  <2>. QED BY <2>1, <2>2 DEF history, retryLog
<1>3. ASSUME Post PROVE TypeHistory'
  BY <1>3 DEF Post, Call, retryLog
<1>4. ASSUME NEW c \in Subtasks,
             CreateChild(c) \/ JudgeBlocked(c) \/ CollectChild(c)
      PROVE  TypeHistory'
  BY <1>4 DEF CreateChild, JudgeBlocked, CollectChild, Call, history, retryLog
<1>5. ASSUME NEW c \in Subtasks, ResetChild(c) PROVE TypeHistory'
  <2>1. resets' \in [Subtasks -> Nat] /\ unmarked' \in [Subtasks -> Nat]
    BY <1>5 DEF ResetChild
  <2>2. refused' \in SUBSET Subtasks
    BY <1>5 DEF ResetChild
  <2>3. faults' \in Nat
    BY <1>5 DEF ResetChild, Call
  <2>. QED BY <1>5, <2>1, <2>2, <2>3 DEF ResetChild
<1>6. ASSUME NEW c \in Subtasks, MarkRetry(c) PROVE TypeHistory'
  <2>1. unmarked' \in [Subtasks -> Nat]
    BY <1>6 DEF MarkRetry
  <2>2. faults' \in Nat
    BY <1>6 DEF MarkRetry, Call
  <2>. QED BY <1>6, <2>1, <2>2 DEF MarkRetry
<1>7. ASSUME Crash PROVE TypeHistory'
  BY <1>7 DEF Crash
<1>8. ASSUME NEW c \in Subtasks, WorkerDies(c) PROVE TypeHistory'
  BY <1>8 DEF WorkerDies, history, retryLog
<1>9. ASSUME Human PROVE TypeHistory'
  BY <1>9 DEF Human, PickWoken, HumanResumes, HumanSets, HumanSetsParent,
              history, retryLog
<1>. QED
  BY <1>1, <1>2, <1>3, <1>4, <1>5, <1>6, <1>7, <1>8, <1>9
     DEF Next, Heartbeat, RetryStep, Pick, Delegate, GoDirect, SkipChild,
         DecidePartial, DecideIdle, DecideWait, WaitTimeout, Worker, WorkerClaim,
         WorkerFinish, vars

\* Every step keeps the type invariant.
LEMMA TypeStep == TypeOK /\ [Next]_vars => TypeOK'
BY IssuesStep, LocalStep, HistoryStep DEF TypeOK

-----------------------------------------------------------------------------
\* Every step keeps OneRetry: a child enters "reset" with retries left, and the
\* two calls that follow are made before any other child is looked at.
LEMMA OneRetryStep == TypeOK /\ OneRetry /\ [Next]_vars => OneRetry'
<1>. SUFFICES ASSUME TypeOK, OneRetry, [Next]_vars PROVE OneRetry'
  OBVIOUS
<1>. USE DEF OneRetry
<1>1. CASE EndRun /\ UNCHANGED marker
  BY <1>1 DEF EndRun
<1>2. CASE UNCHANGED <<pc, retrying, marker>>
  BY <1>2
<1>3. CASE /\ pc \notin {"reset", "mark"} /\ pc' \notin {"reset", "mark"}
           /\ UNCHANGED <<retrying, marker>>
  BY <1>3
<1>4. ASSUME NEW c \in Subtasks, JudgeBlocked(c) PROVE OneRetry'
  <2>1. CASE UNCHANGED <<pc, retrying>>
    BY <1>4, <1>2, <2>1 DEF JudgeBlocked, board, issues
  <2>2. CASE pc' = "reset" /\ retrying' = {c} /\ ~RetriesExhausted(c)
    <3>1. marker[c] < MaxRetries /\ UNCHANGED marker
      BY <1>4, <2>2, OrchestratorAssumption
         DEF JudgeBlocked, RetriesExhausted, TypeOK, TypeIssues, board, issues
    <3>. QED BY <2>2, <3>1
  <2>. QED BY <1>4, <2>1, <2>2 DEF JudgeBlocked, Goto
<1>5. ASSUME NEW c \in Subtasks, ResetChild(c) PROVE OneRetry'
  BY <1>5 DEF ResetChild, Goto
<1>6. ASSUME NEW c \in Subtasks, MarkRetry(c) PROVE OneRetry'
  BY <1>6 DEF MarkRetry, Goto
<1>7. ASSUME NEW c \in Subtasks, CreateChild(c) \/ SkipChild(c) \/ CollectChild(c)
      PROVE  OneRetry'
  BY <1>7, <1>2 DEF CreateChild, SkipChild, CollectChild, board, issues
<1>8. ASSUME FetchChildren \/ Wake PROVE OneRetry'
  BY <1>8, <1>1, <1>2, <1>3
     DEF FetchChildren, Wake, Dispatch, Phase, Goto, board, issues, local
<1>9. ASSUME \/ Pick \/ PickWoken \/ MarkInProgress \/ FetchIssue
             \/ Delegate \/ GoDirect \/ DecidePartial \/ DecideWait
      PROVE  OneRetry'
  BY <1>9, <1>1, <1>3
     DEF Pick, PickWoken, MarkInProgress, FetchIssue, Delegate, GoDirect,
         DecidePartial, DecideWait, Goto, board, issues
<1>10. ASSUME \/ AgentDiscoveryFails \/ FinishDirect \/ FinishDecompose
              \/ DecideBlock \/ DecideIdle \/ WaitTimeout \/ Post
              \/ PostNothing \/ Crash
       PROVE  OneRetry'
  BY <1>10, <1>1
     DEF AgentDiscoveryFails, FinishDirect, FinishDecompose, DecideBlock, DecideIdle,
         WaitTimeout, Post, PostNothing, Crash, board, issues
<1>11. ASSUME NEW c \in Subtasks, Worker(c) \/ WorkerDies(c) PROVE OneRetry'
  BY <1>11, <1>2 DEF Worker, WorkerClaim, WorkerFinish, WorkerDies, issues, local
<1>12. ASSUME HumanSetsParent \/ \E c \in Subtasks : HumanResumes(c) \/ HumanSets(c)
       PROVE  OneRetry'
  BY <1>12, <1>2 DEF HumanSetsParent, HumanResumes, HumanSets, local
<1>13. CASE UNCHANGED vars
  BY <1>13, <1>2 DEF vars, board, issues, local
<1>. QED
  BY <1>4, <1>5, <1>6, <1>7, <1>8, <1>9, <1>10, <1>11, <1>12, <1>13
     DEF Next, Heartbeat, RetryStep, Human

\* Every step keeps EveryResetCounted.
LEMMA CountedStep ==
  TypeOK /\ OneRetry /\ EveryResetCounted /\ [Next]_vars => EveryResetCounted'
<1>. SUFFICES ASSUME TypeOK, OneRetry, EveryResetCounted, [Next]_vars,
                     NEW q \in Subtasks
              PROVE  /\ resets'[q] = marker'[q] + unmarked'[q] + Pending(q)'
                     /\ marker'[q] <= MaxRetries
  BY DEF EveryResetCounted
<1>t. /\ marker \in [Subtasks -> Nat]
      /\ resets \in [Subtasks -> Nat]
      /\ unmarked \in [Subtasks -> Nat]
      /\ resets[q] = marker[q] + unmarked[q] + Pending(q)
      /\ marker[q] <= MaxRetries
      /\ MaxRetries \in Nat
  BY OrchestratorAssumption DEF TypeOK, TypeIssues, TypeHistory, EveryResetCounted
<1>1. CASE UNCHANGED <<resets, marker, unmarked>> /\ Pending(q)' = Pending(q)
  BY <1>1, <1>t
<1>2. CASE /\ UNCHANGED <<resets, marker, unmarked>>
           /\ pc # "mark" /\ pc' # "mark"
  BY <1>2, <1>1 DEF Pending
<1>3. CASE UNCHANGED <<resets, marker, unmarked, pc, retrying>>
  BY <1>3, <1>1 DEF Pending
<1>4. ASSUME NEW c \in Subtasks, ResetChild(c)
      PROVE  /\ resets'[q] = marker'[q] + unmarked'[q] + Pending(q)'
             /\ marker'[q] <= MaxRetries
  <2>1. retrying = {c} /\ Pending(q) = 0
    BY <1>4 DEF ResetChild, OneRetry, Pending
  <2>2. CASE q = c
    <3>1. PICK out \in Writes :
            /\ resets' = IF Applied(out) THEN [resets EXCEPT ![c] = @ + 1] ELSE resets
            /\ unmarked' = IF out = "lost" THEN [unmarked EXCEPT ![c] = @ + 1]
                           ELSE unmarked
            /\ IF out = "ok" THEN pc' = "mark" /\ retrying' = retrying
               ELSE pc' = "eval"
      BY <1>4 DEF ResetChild, Goto
    <3>. QED BY <1>4, <1>t, <2>1, <2>2, <3>1 DEF ResetChild, Pending, Applied, Writes
  <2>3. CASE q # c
    <3>1. resets'[q] = resets[q] /\ unmarked'[q] = unmarked[q] /\ marker' = marker
      BY <1>4, <1>t, <2>3 DEF ResetChild
    <3>2. Pending(q)' = 0
      BY <1>4, <2>1, <2>3 DEF ResetChild, Pending, Goto
    <3>. QED BY <1>t, <2>1, <3>1, <3>2
  <2>. QED BY <2>2, <2>3
<1>5. ASSUME NEW c \in Subtasks, MarkRetry(c)
      PROVE  /\ resets'[q] = marker'[q] + unmarked'[q] + Pending(q)'
             /\ marker'[q] <= MaxRetries
  <2>1. retrying = {c} /\ marker[c] < MaxRetries /\ pc = "mark"
    BY <1>5 DEF MarkRetry, OneRetry
  <2>2. Pending(q)' = 0 /\ resets' = resets
    BY <1>5 DEF MarkRetry, Pending, Goto
  <2>3. CASE q = c
    <3>1. PICK out \in Writes :
            /\ marker' = IF Applied(out) THEN [marker EXCEPT ![c] = @ + 1] ELSE marker
            /\ unmarked' = IF Applied(out) THEN unmarked
                           ELSE [unmarked EXCEPT ![c] = @ + 1]
      BY <1>5 DEF MarkRetry
    <3>2. Pending(q) = 1
      BY <2>1, <2>3 DEF Pending
    <3>. QED BY <1>t, <2>1, <2>2, <2>3, <3>1, <3>2
  <2>4. CASE q # c
    <3>1. marker'[q] = marker[q] /\ unmarked'[q] = unmarked[q]
      BY <1>5, <1>t, <2>4 DEF MarkRetry
    <3>2. Pending(q) = 0
      BY <2>1, <2>4 DEF Pending
    <3>. QED BY <1>t, <2>2, <3>1, <3>2
  <2>. QED BY <2>3, <2>4
<1>6. ASSUME Crash
      PROVE  /\ resets'[q] = marker'[q] + unmarked'[q] + Pending(q)'
             /\ marker'[q] <= MaxRetries
  <2>1. /\ unmarked'[q] = unmarked[q] + Pending(q)
        /\ Pending(q) \in Nat
        /\ marker' = marker /\ resets' = resets
    BY <1>6, <1>t DEF Crash, Pending, board, issues
  <2>2. Pending(q)' = 0
    BY <1>6 DEF Crash, EndRun, Pending
  <2>. QED BY <1>t, <2>1, <2>2
<1>7. ASSUME NEW c \in Subtasks,
             CreateChild(c) \/ SkipChild(c) \/ JudgeBlocked(c) \/ CollectChild(c)
      PROVE  UNCHANGED <<resets, marker, unmarked>> /\ pc # "mark" /\ pc' # "mark"
  BY <1>7 DEF CreateChild, SkipChild, JudgeBlocked, CollectChild, Goto,
              board, issues, history, retryLog
<1>8. ASSUME \/ FetchChildren \/ Pick \/ PickWoken \/ MarkInProgress
             \/ FetchIssue \/ Delegate \/ GoDirect \/ DecidePartial \/ DecideWait
             \/ Wake \/ AgentDiscoveryFails \/ FinishDirect \/ FinishDecompose
             \/ DecideBlock \/ DecideIdle \/ WaitTimeout \/ Post \/ PostNothing
      PROVE  UNCHANGED <<resets, marker, unmarked>> /\ pc # "mark" /\ pc' # "mark"
  BY <1>8
     DEF FetchChildren, Pick, PickWoken, MarkInProgress, FetchIssue, Delegate,
         GoDirect, DecidePartial, DecideWait, Wake, AgentDiscoveryFails, FinishDirect,
         FinishDecompose, DecideBlock, DecideIdle, WaitTimeout, Post, PostNothing,
         Dispatch, Phase, EndRun, Goto, board, issues, local, history, retryLog
<1>9. ASSUME NEW c \in Subtasks, Worker(c) \/ WorkerDies(c)
      PROVE  UNCHANGED <<resets, marker, unmarked, pc, retrying>>
  BY <1>9 DEF Worker, WorkerClaim, WorkerFinish, WorkerDies, issues, local, history,
              retryLog
<1>10. ASSUME HumanSetsParent \/ \E c \in Subtasks : HumanResumes(c) \/ HumanSets(c)
       PROVE  UNCHANGED <<resets, marker, unmarked, pc, retrying>>
  BY <1>10 DEF HumanSetsParent, HumanResumes, HumanSets, local, retryLog
<1>11. CASE UNCHANGED vars
  BY <1>11, <1>3 DEF vars, board, issues, local, history, retryLog
<1>. QED
  BY <1>2, <1>3, <1>4, <1>5, <1>6, <1>7, <1>8, <1>9, <1>10, <1>11
     DEF Next, Heartbeat, RetryStep, Human

-----------------------------------------------------------------------------
\* Every step keeps GivesUpOnlyAfterRetries: JudgeBlocked and ResetChild are the
\* only steps that add to the failures, and Post the only one that publishes them.
LEMMA GivesUpStep ==
  /\ TypeOK /\ OneRetry /\ EveryResetCounted /\ GivesUpOnlyAfterRetries
  /\ [Next]_vars
  => GivesUpOnlyAfterRetries'
<1>. SUFFICES ASSUME TypeOK, OneRetry, EveryResetCounted, GivesUpOnlyAfterRetries,
                     [Next]_vars, RetryEnabled
              PROVE  \A q \in (failed \cup result.failed)' :
                       resets'[q] >= MaxRetries \/ q \in refused'
  BY DEF GivesUpOnlyAfterRetries
<1>. DEFINE Kept == (failed \cup result.failed)' \subseteq failed \cup result.failed
            Good == \A q \in (failed \cup result.failed)' :
                       resets'[q] >= MaxRetries \/ q \in refused'
<1>t. /\ \A q \in failed \cup result.failed : resets[q] >= MaxRetries \/ q \in refused
      /\ failed \cup result.failed \subseteq Subtasks
      /\ resets \in [Subtasks -> Nat] /\ MaxRetries \in Nat
  BY OrchestratorAssumption
     DEF GivesUpOnlyAfterRetries, TypeOK, TypeLocal, TypeIssues, TypeHistory, Results
<1>1. CASE Kept /\ UNCHANGED <<resets, refused>>
  BY <1>1, <1>t
<1>2. CASE failed' = {} /\ UNCHANGED <<result, resets, refused>>
  BY <1>2, <1>1
<1>3. CASE UNCHANGED <<failed, result, resets, refused>>
  BY <1>3, <1>1
<1>4. ASSUME NEW c \in Subtasks, JudgeBlocked(c) PROVE Good
  <2>1. UNCHANGED <<result, resets, refused>>
    BY <1>4 DEF JudgeBlocked, board, issues, history, retryLog
  <2>2. CASE failed' = failed
    BY <1>3, <2>1, <2>2
  <2>3. CASE failed' = failed \cup {c} /\ RetriesExhausted(c)
    <3>1. resets[c] >= marker[c] /\ marker[c] >= MaxRetries /\ marker[c] \in Nat
      BY <2>3 DEF RetriesExhausted, EveryResetCounted, Pending, TypeOK, TypeIssues,
                  TypeHistory
    <3>2. resets[c] >= MaxRetries
      BY <3>1, <1>t
    <3>. QED BY <1>t, <2>1, <2>3, <3>2
  <2>. QED BY <1>4, <2>2, <2>3 DEF JudgeBlocked
<1>5. ASSUME NEW c \in Subtasks, ResetChild(c) PROVE Good
  <2>1. result' = result /\ failed' \subseteq failed \cup {c}
    BY <1>5 DEF ResetChild
  <2>2. \A q \in Subtasks : resets'[q] >= resets[q]
    BY <1>5, <1>t DEF ResetChild
  <2>3. refused \subseteq refused' /\ (failed' = failed \/ c \in refused')
    BY <1>5 DEF ResetChild
  <2>4. resets' \in [Subtasks -> Nat]
    BY <1>5, <1>t DEF ResetChild
  <2>5. ASSUME NEW q \in failed \cup result.failed
        PROVE  resets'[q] >= MaxRetries \/ q \in refused'
    BY <1>t, <2>2, <2>3, <2>4
  <2>. QED BY <2>1, <2>3, <2>5
<1>6. ASSUME Post PROVE Good
  <2>1. UNCHANGED <<resets, refused>> /\ failed' = {}
    BY <1>6 DEF Post, EndRun, retryLog
  <2>2. result'.failed \in {result.failed, failed}
    BY <1>6 DEF Post
  <2>. QED BY <1>1, <2>1, <2>2
<1>7. ASSUME NEW c \in Subtasks,
             CreateChild(c) \/ SkipChild(c) \/ MarkRetry(c) \/ CollectChild(c)
      PROVE  UNCHANGED <<failed, result, resets, refused>>
  BY <1>7 DEF CreateChild, SkipChild, MarkRetry, CollectChild, board, issues, history,
              retryLog
<1>8. ASSUME \/ FetchChildren \/ Pick \/ PickWoken \/ MarkInProgress
             \/ FetchIssue \/ Delegate \/ GoDirect \/ DecidePartial \/ DecideWait
             \/ Wake \/ AgentDiscoveryFails \/ FinishDirect \/ FinishDecompose
             \/ DecideBlock \/ DecideIdle \/ WaitTimeout \/ PostNothing \/ Crash
      PROVE  UNCHANGED <<result, resets, refused>> /\ failed' \in {failed, {}}
  BY <1>8
     DEF FetchChildren, Pick, PickWoken, MarkInProgress, FetchIssue, Delegate,
         GoDirect, DecidePartial, DecideWait, Wake, AgentDiscoveryFails, FinishDirect,
         FinishDecompose, DecideBlock, DecideIdle, WaitTimeout, PostNothing, Crash,
         Dispatch, EndRun, board, issues, local, history, retryLog
<1>9. ASSUME NEW c \in Subtasks, Worker(c) \/ WorkerDies(c)
      PROVE  UNCHANGED <<failed, result, resets, refused>>
  BY <1>9 DEF Worker, WorkerClaim, WorkerFinish, WorkerDies, issues, local, history,
              retryLog
<1>10. ASSUME HumanSetsParent \/ \E c \in Subtasks : HumanResumes(c) \/ HumanSets(c)
       PROVE  UNCHANGED <<failed, result, resets, refused>>
  BY <1>10 DEF HumanSetsParent, HumanResumes, HumanSets, local, retryLog
<1>11. CASE UNCHANGED vars
  BY <1>11, <1>3 DEF vars, board, issues, local, history, retryLog
<1>. QED
  BY <1>2, <1>3, <1>4, <1>5, <1>6, <1>7, <1>8, <1>9, <1>10, <1>11
     DEF Next, Heartbeat, RetryStep, Human

-----------------------------------------------------------------------------
\* Every step keeps OpenMeansUnposted and OneResultPerOpening: a result closes
\* the parent and ends the heartbeat, only an open parent is picked up, and only
\* a person opens it again.
LEMMA PostingStep ==
  /\ TypeOK /\ OpenMeansUnposted /\ OneResultPerOpening
  /\ [Next]_vars
  => OpenMeansUnposted' /\ OneResultPerOpening'
<1>. SUFFICES ASSUME TypeOK, OpenMeansUnposted, OneResultPerOpening, [Next]_vars
              PROVE  OpenMeansUnposted' /\ OneResultPerOpening'
  OBVIOUS
<1>. USE DEF OpenMeansUnposted, OneResultPerOpening
<1>t. posts \in Nat /\ reopens \in Nat
  BY DEF TypeOK, TypeHistory
<1>1. CASE pc # "idle" /\ UNCHANGED <<posts, reopens>>
  BY <1>1, <1>t
<1>2. CASE parent # "done" /\ UNCHANGED <<posts, reopens>>
  BY <1>2, <1>t
<1>3. CASE UNCHANGED <<parent, pc, posts, reopens>>
  BY <1>3
<1>4. ASSUME NEW c \in Subtasks,
             CreateChild(c) \/ SkipChild(c) \/ JudgeBlocked(c)
               \/ RetryStep(c) \/ CollectChild(c)
      PROVE  pc # "idle" /\ UNCHANGED <<posts, reopens>>
  BY <1>4 DEF CreateChild, SkipChild, JudgeBlocked, RetryStep, ResetChild, MarkRetry,
              CollectChild, history
<1>5. ASSUME \/ FetchChildren \/ MarkInProgress
             \/ FetchIssue \/ Delegate \/ GoDirect \/ DecidePartial \/ DecideWait
             \/ Wake \/ AgentDiscoveryFails \/ FinishDirect \/ FinishDecompose
             \/ DecideBlock \/ DecideIdle \/ WaitTimeout \/ PostNothing \/ Crash
      PROVE  pc # "idle" /\ UNCHANGED <<posts, reopens>>
  BY <1>5
     DEF FetchChildren, MarkInProgress, FetchIssue, Delegate,
         GoDirect, DecidePartial, DecideWait, Wake, AgentDiscoveryFails, FinishDirect,
         FinishDecompose, DecideBlock, DecideIdle, WaitTimeout, PostNothing, Crash,
         history
<1>6. ASSUME Pick \/ PickWoken PROVE parent # "done" /\ UNCHANGED <<posts, reopens>>
  BY <1>6 DEF Pick, PickWoken, Assignable, history
<1>7. ASSUME Post PROVE OpenMeansUnposted' /\ OneResultPerOpening'
  <2>1. pc # "idle" /\ pc' = "idle" /\ reopens' = reopens
    BY <1>7 DEF Post, EndRun
  <2>2. (parent' = "done" /\ posts' = posts + 1) \/ UNCHANGED <<parent, posts>>
    BY <1>7 DEF Post
  <2>. QED BY <1>t, <2>1, <2>2
<1>8. ASSUME HumanSetsParent PROVE OpenMeansUnposted' /\ OneResultPerOpening'
  <2>1. posts' = posts
    BY <1>8 DEF HumanSetsParent
  <2>2. \/ parent # "done" /\ reopens' = reopens
        \/ reopens' = reopens + 1
    BY <1>8 DEF HumanSetsParent
  <2>. QED BY <1>t, <2>1, <2>2
<1>9. ASSUME NEW c \in Subtasks,
             Worker(c) \/ WorkerDies(c) \/ HumanResumes(c) \/ HumanSets(c)
      PROVE  UNCHANGED <<parent, pc, posts, reopens>>
  BY <1>9 DEF Worker, WorkerClaim, WorkerFinish, WorkerDies, HumanResumes, HumanSets,
              issues, local, history
<1>10. CASE UNCHANGED vars
  BY <1>10, <1>3 DEF vars, board, issues, local, history
<1>. QED
  BY <1>1, <1>2, <1>3, <1>4, <1>5, <1>6, <1>7, <1>8, <1>9, <1>10
     DEF Next, Heartbeat, Human

-----------------------------------------------------------------------------
(* What a combined result stands for, and that finished work is not redone *)

\* A child with a history exists; it is worked on as in_progress and done by its
\* worker, until a person touches it.
WorkIsTraced ==
  /\ produced \cup working \cup touched \subseteq Made(child)
  /\ \A c \in working \ touched : child[c] = "in_progress"
  /\ DoneIn(child) \subseteq produced \cup touched

\* A heartbeat plans while there is no child, and so before any full result.
CreatesWhatIsAbsent ==
  /\ pc = "triage" => Made(child) = {}
  /\ pc = "create" => left \cap Made(child) = {}
  /\ pc \in {"triage", "create"} => result.kind # "full"

\* The children a heartbeat will look at, or is resetting, on its snapshot.
Awaiting ==
  (IF pc \in {"eval", "reset", "mark"} THEN left ELSE {})
    \cup (IF pc = "reset" THEN retrying ELSE {})

\* Only a person moves a child that is blocked before the heartbeat resets it:
\* the snapshot is as good as the board.
BlockedStaysBlocked ==
  /\ left \cap retrying = {}
  /\ pc = "reset" => \A c \in retrying : snap[c] = "blocked"
  /\ \A c \in Awaiting \ touched : snap[c] = "blocked" => child[c] = "blocked"

\* An aggregation that follows no failure has gathered, or will, the output of
\* every child, unless it cannot be read or a person closed the child.
CollectsWhatIsMade ==
  /\ pc \notin {"create", "collect"} => gathered = {}
  /\ pc = "collect" => gathered \subseteq produced
  /\ pc = "collect" /\ failed = {} =>
       /\ left \subseteq produced \cup touched
       /\ Made(child) \subseteq left \cup gathered \cup unread \cup touched

FullMeansSome == result.kind = "full" => result.included # {}

Tracing ==
  /\ WorkIsTraced /\ CreatesWhatIsAbsent /\ BlockedStaysBlocked
  /\ CollectsWhatIsMade /\ FullMeansSome /\ CombinedResultIsComplete

\* The initial states satisfy it.
LEMMA InitTracing == Init => Tracing
BY DEF Init, Tracing, WorkIsTraced, CreatesWhatIsAbsent, BlockedStaysBlocked, Awaiting,
       CollectsWhatIsMade, FullMeansSome, CombinedResultIsComplete, Made, DoneIn, NoResult

\* The steps of a heartbeat that change nothing on the children but through
\* CreateChild and ResetChild.
LEMMA HeartbeatKeepsChildren ==
  ASSUME \/ Pick \/ PickWoken \/ MarkInProgress \/ FetchIssue \/ FetchChildren
         \/ Delegate \/ AgentDiscoveryFails \/ GoDirect \/ FinishDirect
         \/ FinishDecompose \/ DecidePartial \/ DecideBlock \/ DecideIdle
         \/ DecideWait \/ Wake \/ WaitTimeout \/ Post \/ PostNothing \/ Crash
         \/ HumanSetsParent
         \/ \E c \in Subtasks :
              SkipChild(c) \/ JudgeBlocked(c) \/ MarkRetry(c) \/ CollectChild(c)
         \/ UNCHANGED vars
  PROVE  UNCHANGED <<child, produced, working, touched>>
BY DEF Pick, PickWoken, MarkInProgress, FetchIssue, FetchChildren, Delegate,
       AgentDiscoveryFails, GoDirect, FinishDirect, FinishDecompose, DecidePartial,
       DecideBlock, DecideIdle, DecideWait, Wake, WaitTimeout, Post, PostNothing, Crash,
       HumanSetsParent, SkipChild, JudgeBlocked, MarkRetry, CollectChild, vars, board,
       issues, history

\* Every step keeps WorkIsTraced.
LEMMA WorkStep ==
  TypeOK /\ Tracing /\ [Next]_vars => WorkIsTraced'
<1>. SUFFICES ASSUME TypeOK, Tracing, [Next]_vars PROVE WorkIsTraced'
  OBVIOUS
<1>. USE DEF WorkIsTraced, Made, DoneIn
<1>t. /\ WorkIsTraced /\ BlockedStaysBlocked /\ CreatesWhatIsAbsent
      /\ child \in [Subtasks -> Statuses]
      /\ produced \subseteq Subtasks /\ working \subseteq Subtasks
  BY DEF Tracing, TypeOK, TypeIssues
<1>1. CASE UNCHANGED <<child, produced, working, touched>>
  BY <1>t, <1>1
<1>2. ASSUME NEW c \in Subtasks, CreateChild(c) PROVE WorkIsTraced'
  <2>1. child[c] = "absent"
    BY <1>2, <1>t DEF CreateChild, CreatesWhatIsAbsent
  <2>2. child' \in {child, [child EXCEPT ![c] = "todo"]}
    BY <1>2 DEF CreateChild
  <2>3. UNCHANGED <<produced, working, touched>>
    BY <1>2 DEF CreateChild
  <2>. QED BY <1>t, <2>1, <2>2, <2>3
<1>3. ASSUME NEW c \in Subtasks, ResetChild(c) PROVE WorkIsTraced'
  <2>1. c \in touched \/ child[c] = "blocked"
    BY <1>3, <1>t DEF ResetChild, BlockedStaysBlocked, Awaiting
  <2>2. child' \in {child, [child EXCEPT ![c] = "todo"]}
    BY <1>3 DEF ResetChild
  <2>3. UNCHANGED <<produced, working, touched>>
    BY <1>3 DEF ResetChild
  <2>. QED BY <1>t, <2>1, <2>2, <2>3
<1>4. ASSUME NEW c \in Subtasks, Worker(c) \/ WorkerDies(c) PROVE WorkIsTraced'
  <2>1. touched' = touched
    BY <1>4 DEF Worker, WorkerClaim, WorkerFinish, WorkerDies, history
  <2>2. CASE WorkerClaim(c)
    BY <1>t, <2>1, <2>2 DEF WorkerClaim
  <2>3. CASE WorkerFinish(c)
    BY <1>t, <2>1, <2>3 DEF WorkerFinish
  <2>4. CASE WorkerDies(c)
    BY <1>t, <2>1, <2>4 DEF WorkerDies, issues
  <2>. QED BY <1>4, <2>2, <2>3, <2>4 DEF Worker
<1>5. ASSUME NEW c \in Subtasks, HumanResumes(c) \/ HumanSets(c) PROVE WorkIsTraced'
  BY <1>5, <1>t DEF HumanResumes, HumanSets
<1>. QED
  BY <1>1, <1>2, <1>3, <1>4, <1>5, HeartbeatKeepsChildren
     DEF Next, Heartbeat, RetryStep, Human

\* Every step keeps CreatesWhatIsAbsent.
LEMMA CreatesStep ==
  TypeOK /\ Tracing /\ [Next]_vars => CreatesWhatIsAbsent'
<1>. SUFFICES ASSUME TypeOK, Tracing, [Next]_vars PROVE CreatesWhatIsAbsent'
  OBVIOUS
<1>. USE DEF CreatesWhatIsAbsent, Made
<1>t. /\ WorkIsTraced /\ CreatesWhatIsAbsent /\ FullMeansSome
      /\ result.included \subseteq produced
      /\ child \in [Subtasks -> Statuses] /\ left \subseteq Subtasks
  BY DEF Tracing, TypeOK, TypeIssues, TypeLocal, CombinedResultIsComplete
<1>1. CASE EndRun
  BY <1>1 DEF EndRun
<1>2. CASE pc' \notin {"triage", "create"}
  BY <1>2
<1>3. CASE UNCHANGED <<pc, left, child, result>>
  BY <1>3, <1>t
<1>4. ASSUME FetchChildren \/ Wake PROVE CreatesWhatIsAbsent'
  <2>1. CASE UNCHANGED local
    BY <1>4, <2>1, <1>3 DEF local, FetchChildren, Wake, board, issues
  <2>2. CASE Dispatch /\ ~EndRun
    <3>1. pc' = Phase(child) /\ UNCHANGED <<child, result>>
      BY <1>4, <2>2 DEF Dispatch, Goto, FetchChildren, Wake, board, issues
    <3>2. CASE Made(child) = {}
      <4>1. result.kind # "full"
        BY <1>t, <3>2 DEF FullMeansSome, WorkIsTraced
      <4>. QED BY <3>1, <3>2, <4>1 DEF Phase
    <3>3. CASE Made(child) # {}
      BY <3>1, <3>3 DEF Phase
    <3>. QED BY <3>2, <3>3
  <2>. QED BY <1>4, <1>1, <2>1, <2>2 DEF FetchChildren, Wake
<1>5. ASSUME Delegate PROVE CreatesWhatIsAbsent'
  BY <1>5, <1>t DEF Delegate, Goto, board, issues
<1>6. ASSUME NEW c \in Subtasks, CreateChild(c) PROVE CreatesWhatIsAbsent'
  BY <1>6, <1>t DEF CreateChild
<1>7. ASSUME NEW c \in Subtasks,
             SkipChild(c) \/ JudgeBlocked(c) \/ RetryStep(c) \/ CollectChild(c)
      PROVE  pc' \notin {"triage", "create"}
  BY <1>7 DEF SkipChild, JudgeBlocked, RetryStep, ResetChild, MarkRetry, CollectChild, Goto
<1>8. ASSUME \/ Pick \/ PickWoken \/ MarkInProgress \/ GoDirect \/ DecidePartial \/ DecideWait
      PROVE  pc' \notin {"triage", "create"}
  BY <1>8 DEF Pick, PickWoken, MarkInProgress, GoDirect, DecidePartial, DecideWait, Goto
<1>9. ASSUME FetchIssue PROVE CreatesWhatIsAbsent'
  BY <1>9, <1>1, <1>2 DEF FetchIssue, Goto
<1>10. ASSUME NEW c \in Subtasks,
              Worker(c) \/ WorkerDies(c) \/ HumanResumes(c) \/ HumanSets(c)
       PROVE  CreatesWhatIsAbsent'
  <2>1. \A q \in Subtasks : child'[q] = "absent" <=> child[q] = "absent"
    BY <1>10, <1>t DEF Worker, WorkerClaim, WorkerFinish, WorkerDies, HumanResumes,
                       HumanSets, WorkIsTraced, issues
  <2>2. UNCHANGED <<pc, left, result>>
    BY <1>10 DEF Worker, WorkerClaim, WorkerFinish, WorkerDies, HumanResumes, HumanSets,
                 local, issues
  <2>. QED BY <1>t, <2>1, <2>2
<1>11. CASE HumanSetsParent \/ UNCHANGED vars
  BY <1>11, <1>3 DEF HumanSetsParent, vars, board, issues, local
<1>. QED
  BY <1>1, <1>2, <1>4, <1>5, <1>6, <1>7, <1>8, <1>9, <1>10, <1>11
     DEF Next, Heartbeat, Human, AgentDiscoveryFails, FinishDirect, FinishDecompose,
         DecideBlock, DecideIdle, WaitTimeout, Post, PostNothing, Crash

\* Every step keeps BlockedStaysBlocked.
LEMMA BlockedStep ==
  TypeOK /\ OneRetry /\ Tracing /\ [Next]_vars => BlockedStaysBlocked'
<1>. SUFFICES ASSUME TypeOK, OneRetry, Tracing, [Next]_vars
              PROVE  BlockedStaysBlocked'
  OBVIOUS
<1>. USE DEF BlockedStaysBlocked, Awaiting
<1>t. /\ WorkIsTraced /\ BlockedStaysBlocked
      /\ child \in [Subtasks -> Statuses] /\ left \subseteq Subtasks
      /\ pc \notin {"reset", "mark"} => retrying = {}
      /\ pc \in {"reset", "mark"} => \E c \in Subtasks : retrying = {c}
  BY DEF Tracing, TypeOK, TypeIssues, TypeLocal, OneRetry
<1>1. CASE EndRun
  BY <1>1 DEF EndRun
<1>2. CASE pc' \notin {"eval", "reset", "mark"} /\ retrying' = {}
  BY <1>2
<1>3. CASE /\ UNCHANGED <<pc, snap, retrying, child, touched>>
           /\ left' \subseteq left
  BY <1>3, <1>t
<1>4. ASSUME FetchChildren \/ Wake PROVE BlockedStaysBlocked'
  <2>1. UNCHANGED child /\ retrying = {}
    BY <1>4, <1>t DEF FetchChildren, Wake, board, issues
  <2>2. CASE UNCHANGED local
    BY <1>4, <2>2, <1>3 DEF local, FetchChildren, Wake, board, issues, history
  <2>3. CASE Dispatch /\ ~EndRun
    <3>1. snap' = child /\ retrying' = {}
      BY <2>1, <2>3 DEF Dispatch
    <3>. QED BY <2>1, <3>1
  <2>. QED BY <1>4, <1>1, <2>2, <2>3 DEF FetchChildren, Wake
<1>5. ASSUME NEW c \in Subtasks, JudgeBlocked(c) PROVE BlockedStaysBlocked'
  <2>1. /\ pc = "eval" /\ retrying = {} /\ c \in left /\ snap[c] = "blocked"
        /\ left' = left \ {c}
        /\ UNCHANGED <<snap, child, touched>>
    BY <1>5, <1>t DEF JudgeBlocked, IsBlocked, board, issues, history
  <2>2. \/ UNCHANGED <<pc, retrying>>
        \/ pc' = "reset" /\ retrying' = {c}
    BY <1>5 DEF JudgeBlocked, Goto
  <2>. QED BY <1>t, <2>1, <2>2
<1>6. ASSUME NEW c \in Subtasks, ResetChild(c) PROVE BlockedStaysBlocked'
  <2>1. /\ pc = "reset" /\ retrying = {c} /\ c \notin left
        /\ pc' \in {"mark", "eval"} /\ retrying' \in {retrying, {}}
        /\ UNCHANGED <<left, snap, touched>>
    BY <1>6, <1>t DEF ResetChild, Goto
  <2>2. \A q \in left : child'[q] = child[q]
    BY <1>6, <1>t, <2>1 DEF ResetChild
  <2>. QED BY <1>t, <2>1, <2>2
<1>7. ASSUME NEW c \in Subtasks, MarkRetry(c) PROVE BlockedStaysBlocked'
  BY <1>7, <1>t DEF MarkRetry, Goto
<1>8. ASSUME NEW c \in Subtasks, CreateChild(c) \/ CollectChild(c)
      PROVE  pc' \notin {"eval", "reset", "mark"} /\ retrying' = {}
  BY <1>8, <1>t DEF CreateChild, CollectChild
<1>9. ASSUME NEW c \in Subtasks, SkipChild(c) PROVE BlockedStaysBlocked'
  BY <1>9, <1>3 DEF SkipChild, board, issues, history
<1>10. ASSUME \/ Pick \/ PickWoken \/ MarkInProgress \/ Delegate \/ GoDirect
              \/ DecidePartial \/ DecideWait
       PROVE  pc' \notin {"eval", "reset", "mark"} /\ retrying' = {}
  BY <1>10, <1>t
     DEF Pick, PickWoken, MarkInProgress, Delegate, GoDirect, DecidePartial, DecideWait,
         Goto
<1>11. ASSUME FetchIssue PROVE BlockedStaysBlocked'
  BY <1>11, <1>t, <1>1, <1>2 DEF FetchIssue, Goto
<1>12. ASSUME NEW c \in Subtasks, Worker(c) \/ WorkerDies(c)
       PROVE  BlockedStaysBlocked'
  <2>1. UNCHANGED <<pc, snap, left, retrying, touched>>
    BY <1>12 DEF Worker, WorkerClaim, WorkerFinish, WorkerDies, local, history
  <2>2. \A q \in Subtasks \ touched : child[q] = "blocked" => child'[q] = "blocked"
    <3>1. \A q \in Subtasks \ {c} : child'[q] = child[q]
      BY <1>12, <1>t DEF Worker, WorkerClaim, WorkerFinish, WorkerDies, issues
    <3>2. c \notin touched /\ child[c] = "blocked" => child'[c] = child[c]
      BY <1>12, <1>t
         DEF Worker, WorkerClaim, WorkerFinish, WorkerDies, issues, WorkIsTraced
    <3>. QED BY <3>1, <3>2
  <2>3. Awaiting \subseteq Subtasks /\ Awaiting' = Awaiting
    BY <1>t, <2>1
  <2>. QED BY <1>t, <2>1, <2>2, <2>3
<1>13. ASSUME NEW c \in Subtasks, HumanResumes(c) \/ HumanSets(c)
       PROVE  BlockedStaysBlocked'
  <2>1. /\ UNCHANGED <<pc, snap, left, retrying>>
        /\ touched' = touched \cup {c}
    BY <1>13 DEF HumanResumes, HumanSets, local
  <2>2. \A q \in Subtasks \ {c} : child'[q] = child[q]
    BY <1>13, <1>t DEF HumanResumes, HumanSets
  <2>3. Awaiting \subseteq Subtasks /\ Awaiting' = Awaiting
    BY <1>t, <2>1
  <2>. QED BY <1>t, <2>1, <2>2, <2>3
<1>14. CASE HumanSetsParent \/ UNCHANGED vars
  BY <1>14, <1>3 DEF HumanSetsParent, vars, board, issues, local, history
<1>. QED
  BY <1>1, <1>2, <1>4, <1>5, <1>6, <1>7, <1>8, <1>9, <1>10, <1>11, <1>12, <1>13, <1>14
     DEF Next, Heartbeat, RetryStep, Human, AgentDiscoveryFails, FinishDirect,
         FinishDecompose, DecideBlock, DecideIdle, WaitTimeout, Post, PostNothing, Crash

\* Every step keeps CollectsWhatIsMade: a full aggregation starts on a board where
\* every child is done, and a child that is done has its output or was touched.
LEMMA CollectsStep ==
  TypeOK /\ OneRetry /\ Tracing /\ [Next]_vars => CollectsWhatIsMade'
<1>. SUFFICES ASSUME TypeOK, OneRetry, Tracing, [Next]_vars
              PROVE  CollectsWhatIsMade'
  OBVIOUS
<1>. USE DEF CollectsWhatIsMade, Made, DoneIn
<1>t. /\ WorkIsTraced /\ CollectsWhatIsMade
      /\ child \in [Subtasks -> Statuses] /\ left \subseteq Subtasks
  BY DEF Tracing, TypeOK, TypeIssues, TypeLocal
<1>1. CASE EndRun
  BY <1>1 DEF EndRun
<1>2. CASE pc' # "collect" /\ gathered' = {}
  BY <1>2
<1>3. CASE UNCHANGED <<pc, child, produced, touched, gathered, left, unread, failed>>
  BY <1>3, <1>t
<1>4. ASSUME FetchChildren \/ Wake PROVE CollectsWhatIsMade'
  <2>1. UNCHANGED <<child, produced, touched>> /\ gathered = {}
    BY <1>4, <1>t DEF FetchChildren, Wake, board, issues, history
  <2>2. CASE UNCHANGED local
    BY <1>4, <2>1, <2>2, <1>3 DEF local
  <2>3. CASE Dispatch /\ ~EndRun
    <3>1. pc' = Phase(child) /\ left' = Made(child) /\ gathered' = {}
      BY <2>1, <2>3 DEF Dispatch, Goto
    <3>2. pc' = "collect" => left' \subseteq produced \cup touched
      BY <1>t, <3>1 DEF Phase, WorkIsTraced
    <3>. QED BY <2>1, <3>1, <3>2
  <2>. QED BY <1>4, <1>1, <2>2, <2>3 DEF FetchChildren, Wake
<1>5. ASSUME DecidePartial PROVE CollectsWhatIsMade'
  BY <1>5, <1>t DEF DecidePartial, Goto
<1>6. ASSUME NEW c \in Subtasks, CreateChild(c) PROVE CollectsWhatIsMade'
  BY <1>6 DEF CreateChild
<1>7. ASSUME NEW c \in Subtasks, CollectChild(c) PROVE CollectsWhatIsMade'
  <2>1. /\ pc = "collect" /\ left' = left \ {c}
        /\ UNCHANGED <<pc, failed, child, produced, touched>>
    BY <1>7 DEF CollectChild, board, issues, history
  <2>2. \/ /\ gathered' = IF c \in produced THEN gathered \cup {c} ELSE gathered
           /\ unread' = unread
        \/ unread' = unread \cup {c} /\ gathered' = gathered
    BY <1>7 DEF CollectChild
  <2>3. gathered' \subseteq produced'
    BY <1>t, <2>1, <2>2
  <2>4. ASSUME failed = {}
        PROVE  Made(child) \subseteq left' \cup gathered' \cup unread' \cup touched
    <3>1. c \notin left \/ c \in gathered' \cup unread' \cup touched
      BY <1>t, <2>1, <2>2, <2>4
    <3>. QED BY <1>t, <2>1, <2>2, <2>4, <3>1
  <2>. QED BY <1>t, <2>1, <2>3, <2>4
<1>8. ASSUME NEW c \in Subtasks, SkipChild(c) \/ JudgeBlocked(c) \/ RetryStep(c)
      PROVE  pc' # "collect" /\ gathered' = {}
  BY <1>8, <1>t DEF SkipChild, JudgeBlocked, RetryStep, ResetChild, MarkRetry, Goto
<1>9. ASSUME \/ Pick \/ PickWoken \/ MarkInProgress \/ Delegate \/ GoDirect \/ DecideWait
      PROVE  pc' # "collect" /\ gathered' = {}
  BY <1>9, <1>t DEF Pick, PickWoken, MarkInProgress, Delegate, GoDirect, DecideWait, Goto
<1>10. ASSUME FetchIssue PROVE CollectsWhatIsMade'
  BY <1>10, <1>t, <1>1, <1>2 DEF FetchIssue, Goto
<1>11. ASSUME NEW c \in Subtasks,
              Worker(c) \/ WorkerDies(c) \/ HumanResumes(c) \/ HumanSets(c)
       PROVE  CollectsWhatIsMade'
  <2>1. /\ UNCHANGED <<pc, left, gathered, unread, failed>>
        /\ produced \subseteq produced' /\ touched \subseteq touched'
    BY <1>11 DEF Worker, WorkerClaim, WorkerFinish, WorkerDies, HumanResumes, HumanSets,
                 local, issues, history
  <2>2. \A q \in Subtasks : child'[q] = "absent" <=> child[q] = "absent"
    BY <1>11, <1>t DEF Worker, WorkerClaim, WorkerFinish, WorkerDies, HumanResumes,
                       HumanSets, WorkIsTraced, issues
  <2>. QED BY <1>t, <2>1, <2>2
<1>12. CASE HumanSetsParent \/ UNCHANGED vars
  BY <1>12, <1>3 DEF HumanSetsParent, vars, board, issues, local, history
<1>. QED
  BY <1>1, <1>2, <1>4, <1>5, <1>6, <1>7, <1>8, <1>9, <1>10, <1>11, <1>12
     DEF Next, Heartbeat, Human, AgentDiscoveryFails, FinishDirect, FinishDecompose,
         DecideBlock, DecideIdle, WaitTimeout, Post, PostNothing, Crash

\* A step that posts no result and makes no child keeps what a posted one stands for.
LEMMA CompleteStep ==
  TypeOK /\ OneRetry /\ Tracing /\ [Next]_vars
    => FullMeansSome' /\ CombinedResultIsComplete'
<1>. SUFFICES ASSUME TypeOK, OneRetry, Tracing, [Next]_vars
              PROVE  FullMeansSome' /\ CombinedResultIsComplete'
  OBVIOUS
<1>. USE DEF FullMeansSome, CombinedResultIsComplete, Made
<1>t. /\ WorkIsTraced /\ CollectsWhatIsMade /\ CreatesWhatIsAbsent
      /\ FullMeansSome /\ CombinedResultIsComplete
      /\ child \in [Subtasks -> Statuses]
  BY DEF Tracing, TypeOK, TypeIssues
<1>1. CASE /\ result' = result
           /\ produced \subseteq produced' /\ touched \subseteq touched'
           /\ \A q \in Subtasks : child'[q] = "absent" <=> child[q] = "absent"
  BY <1>t, <1>1
<1>2. ASSUME Post PROVE FullMeansSome' /\ CombinedResultIsComplete'
  <2>1. /\ pc = "collect" /\ left = {} /\ gathered # {}
        /\ UNCHANGED <<child, produced, touched>>
    BY <1>2 DEF Post
  <2>2. CASE result' = result
    BY <1>1, <2>1, <2>2
  <2>3. CASE result' = [kind |-> IF failed = {} THEN "full" ELSE "partial",
                        included |-> gathered, unread |-> unread, failed |-> failed]
    <3>1. /\ result'.included = gathered /\ result'.unread = unread
          /\ result'.kind = "full" => failed = {}
      BY <2>3
    <3>2. gathered \subseteq produced
      BY <1>t, <2>1 DEF CollectsWhatIsMade
    <3>3. failed = {} => Made(child) \subseteq gathered \cup unread \cup touched
      BY <1>t, <2>1 DEF CollectsWhatIsMade
    <3>. QED BY <2>1, <3>1, <3>2, <3>3
  <2>. QED BY <1>2, <2>2, <2>3 DEF Post
<1>3. ASSUME NEW c \in Subtasks, CreateChild(c)
      PROVE  FullMeansSome' /\ CombinedResultIsComplete'
  <2>1. result.kind # "full" /\ UNCHANGED <<result, produced>>
    BY <1>3, <1>t DEF CreateChild, CreatesWhatIsAbsent
  <2>. QED BY <1>t, <2>1
<1>4. ASSUME NEW c \in Subtasks, ResetChild(c)
      PROVE  FullMeansSome' /\ CombinedResultIsComplete'
  <2>1. child[c] # "absent"
    BY <1>4, <1>t DEF ResetChild, Tracing, BlockedStaysBlocked, Awaiting, WorkIsTraced, Made, DoneIn
  <2>2. \A q \in Subtasks : child'[q] = "absent" <=> child[q] = "absent"
    BY <1>4, <1>t, <2>1 DEF ResetChild
  <2>. QED BY <1>4, <1>1, <2>2 DEF ResetChild
<1>5. ASSUME NEW c \in Subtasks,
             Worker(c) \/ WorkerDies(c) \/ HumanResumes(c) \/ HumanSets(c)
      PROVE  FullMeansSome' /\ CombinedResultIsComplete'
  <2>1. /\ result' = result
        /\ produced \subseteq produced' /\ touched \subseteq touched'
    BY <1>5 DEF Worker, WorkerClaim, WorkerFinish, WorkerDies, HumanResumes, HumanSets,
                issues, history
  <2>2. \A q \in Subtasks : child'[q] = "absent" <=> child[q] = "absent"
    BY <1>5, <1>t DEF Worker, WorkerClaim, WorkerFinish, WorkerDies, HumanResumes,
                      HumanSets, WorkIsTraced, issues
  <2>. QED BY <1>1, <2>1, <2>2
<1>6. ASSUME /\ [Next]_vars /\ ~Post
             /\ \A c \in Subtasks :
                  ~(CreateChild(c) \/ ResetChild(c) \/ Worker(c) \/ WorkerDies(c)
                     \/ HumanResumes(c) \/ HumanSets(c))
      PROVE  UNCHANGED <<result, child, produced, touched>>
  <2>1. UNCHANGED <<child, produced, touched>>
    BY <1>6, HeartbeatKeepsChildren DEF Next, Heartbeat, RetryStep, Human
  <2>2. result' = result
    BY <1>6 DEF Next, Heartbeat, RetryStep, Human, Pick, PickWoken, MarkInProgress,
         FetchIssue, FetchChildren, Delegate, AgentDiscoveryFails, GoDirect, FinishDirect,
         FinishDecompose, DecidePartial, DecideBlock, DecideIdle, DecideWait, Wake,
         WaitTimeout, PostNothing, Crash, HumanSetsParent, SkipChild, JudgeBlocked,
         MarkRetry, CollectChild, vars, board, issues
  <2>. QED BY <2>1, <2>2
<1>. QED BY <1>1, <1>2, <1>3, <1>4, <1>5, <1>6

-----------------------------------------------------------------------------
\* The inductive invariant holds in every behaviour, whatever its fairness.
THEOREM Invariance == Spec => []IInv
<1>1. IInv /\ [Next]_vars => IInv'
  BY TypeStep, OneRetryStep, CountedStep, GivesUpStep, PostingStep DEF IInv
<1>. QED BY InitIInv, <1>1, PTL DEF Spec

\* The issues, the locals and the history keep their types.
THEOREM TypeCorrect == Spec => []TypeOK
<1>1. IInv => TypeOK
  BY DEF IInv
<1>. QED BY Invariance, <1>1, PTL

\* However calls fail, answers are lost and containers die, a child is put back
\* to "todo" at most MaxRetries times, plus once per lost retry marker.
THEOREM RetryBudgetHolds == Spec => []RetryBudget
<1>1. IInv => RetryBudget
  <2>. SUFFICES ASSUME IInv, NEW c \in Subtasks
                PROVE  resets[c] <= MaxRetries + unmarked[c]
    BY DEF RetryBudget
  <2>1. resets[c] = marker[c] + unmarked[c] + Pending(c) /\ marker[c] <= MaxRetries
    BY DEF IInv, EveryResetCounted
  <2>2. /\ marker[c] \in Nat /\ unmarked[c] \in Nat /\ resets[c] \in Nat
        /\ MaxRetries \in Nat
    BY OrchestratorAssumption DEF IInv, TypeOK, TypeIssues, TypeHistory
  <2>3. CASE pc = "mark" /\ c \in retrying
    <3>1. marker[c] < MaxRetries /\ Pending(c) = 1
      BY <2>3 DEF IInv, OneRetry, Pending
    <3>. QED BY <2>1, <2>2, <3>1
  <2>4. CASE ~(pc = "mark" /\ c \in retrying)
    <3>1. Pending(c) = 0
      BY <2>4 DEF Pending
    <3>. QED BY <2>1, <2>2, <3>1
  <2>. QED BY <2>3, <2>4
<1>. QED BY Invariance, <1>1, PTL

\* With retries on, a child is given up, and a posted result lists it as failed,
\* only after MaxRetries resets or a reset whose call failed.
THEOREM NoEarlySurrender == Spec => []GivesUpOnlyAfterRetries
<1>1. IInv => GivesUpOnlyAfterRetries
  BY DEF IInv
<1>. QED BY Invariance, <1>1, PTL

\* The parent carries at most one result per time it was opened.
THEOREM PostedOnce == Spec => []OneResultPerOpening
<1>1. IInv => OneResultPerOpening
  BY DEF IInv
<1>. QED BY Invariance, <1>1, PTL

\* What traces the work holds in every behaviour.
THEOREM TracingInvariance == Spec => []Tracing
<1>1. IInv => TypeOK /\ OneRetry
  BY DEF IInv
<1>2. TypeOK /\ OneRetry /\ Tracing /\ [Next]_vars => Tracing'
  BY WorkStep, CreatesStep, BlockedStep, CollectsStep, CompleteStep DEF Tracing
<1>. QED BY InitTracing, Invariance, <1>1, <1>2, PTL DEF Spec

\* A result that is not partial stands for every child there is: none is left out
\* but those whose comments could not be read or that a person closed, however
\* workers, people, lost answers and restarts interleave with the heartbeats.
THEOREM ResultIsComplete == Spec => []CombinedResultIsComplete
<1>1. Tracing => CombinedResultIsComplete
  BY DEF Tracing
<1>. QED BY TracingInvariance, <1>1, PTL

\* Finished work is not sent back: the heartbeat resets what its snapshot says is
\* blocked, and without a person a blocked child is still blocked then.
THEOREM NotRedone == Spec => DoneWorkIsNotRedone
<1>1. ASSUME TypeOK, Tracing, [Next]_vars, NEW c \in Subtasks,
             child[c] = "done", child'[c] = "todo", c \notin touched
      PROVE  FALSE
  <2>1. /\ child \in [Subtasks -> Statuses]
        /\ WorkIsTraced /\ CreatesWhatIsAbsent /\ BlockedStaysBlocked
    BY <1>1 DEF TypeOK, TypeIssues, Tracing
  <2>2. \E q \in Subtasks : \/ CreateChild(q) \/ ResetChild(q) \/ Worker(q)
                            \/ WorkerDies(q) \/ HumanResumes(q) \/ HumanSets(q)
    <3>1. child' # child
      BY <1>1
    <3>. QED BY <1>1, <3>1, HeartbeatKeepsChildren DEF Next, Heartbeat, RetryStep, Human
  <2>3. PICK q \in Subtasks : \/ CreateChild(q) \/ ResetChild(q) \/ Worker(q)
                              \/ WorkerDies(q) \/ HumanResumes(q) \/ HumanSets(q)
    BY <2>2
  <2>4. CASE CreateChild(q)
    <3>1. child[q] = "absent"
      BY <2>1, <2>4 DEF CreateChild, CreatesWhatIsAbsent, Made
    <3>. QED BY <1>1, <2>1, <2>4, <3>1 DEF CreateChild
  <2>5. CASE ResetChild(q)
    <3>1. q \in touched \/ child[q] = "blocked"
      BY <2>1, <2>5 DEF ResetChild, BlockedStaysBlocked, Awaiting
    <3>. QED BY <1>1, <2>1, <2>5, <3>1 DEF ResetChild
  <2>6. CASE Worker(q) \/ WorkerDies(q) \/ HumanResumes(q) \/ HumanSets(q)
    BY <1>1, <2>1, <2>6 DEF Worker, WorkerClaim, WorkerFinish, WorkerDies, HumanResumes,
                           HumanSets, issues
  <2>. QED BY <2>3, <2>4, <2>5, <2>6
<1>2. TypeOK /\ Tracing /\ [Next]_vars
        => [\A c \in Subtasks :
              child[c] = "done" /\ child'[c] = "todo" => c \in touched]_vars
  BY <1>1
<1>. QED BY TypeCorrect, TracingInvariance, <1>2, PTL DEF Spec, DoneWorkIsNotRedone

\* What every state of the orchestrator satisfies, in every behaviour and for any
\* sub-tasks, retry limit and number of faults, crashes and interventions.
THEOREM Safety == Spec => []OrchestratorInv
<1>. QED BY TypeCorrect, RetryBudgetHolds, NoEarlySurrender, PostedOnce, PTL DEF OrchestratorInv

=============================================================================
