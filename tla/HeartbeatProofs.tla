--------------------------- MODULE HeartbeatProofs ---------------------------
(***************************************************************************)
(* Proofs about Heartbeat for any sets of issues and of overlapping runs   *)
(* and any number of faults, kills and interventions; and about the        *)
(* spending breaker every heartbeat passes first, for any agents and       *)
(* heartbeats that share them.  At the end, the skill registry: the        *)
(* library the heartbeats save one after the other, and the two versions   *)
(* of a skill that are compared.                                           *)
(***************************************************************************)
EXTENDS MCGate, HeartbeatLifecycle, MCSkills, FiniteSetTheorems, SequenceTheorems, TLAPS

\* The strengthening of OneRunPerIssue: a run has an issue exactly between its
\* checkout and its release, and then it holds the checkout of it.
Holding ==
  \A r \in Runs :
    /\ pc[r] \in Owning => issue[r] \in Issues /\ holder[issue[r]] = r
    /\ pc[r] \notin Owning => issue[r] = None

IInv == TypeOK /\ Holding

-----------------------------------------------------------------------------
\* Ranking only gives ranks.
LEMMA RankType ==
  ASSUME TypeOK, NEW r \in Runs, NEW i \in Issues
  PROVE  Rank(r, i) \in Ranks
BY DEF TypeOK, Rank, Ranks, Statuses

\* The initial states satisfy the inductive invariant.
LEMMA InitIInv == Init => IInv
<1>. SUFFICES ASSUME Init PROVE IInv
  OBVIOUS
<1>. USE DEF Init
<1>1. cand \in [Runs -> [Issues -> Ranks]]
  BY DEF NoCandidates, Ranks
<1>2. asked \in SUBSET Issues /\ replied \in SUBSET Issues /\ locked \in BOOLEAN
  OBVIOUS
<1>3. stale \in SUBSET Issues /\ leaked \in SUBSET Issues
  OBVIOUS
<1>4. TypeOK
  BY <1>1, <1>2, <1>3 DEF TypeOK, Statuses, Pcs, Verdicts
<1>5. Holding
  BY DEF Holding, Owning
<1>. QED BY <1>4, <1>5 DEF IInv

\* What a process that ends leaves of its own state.
LEMMA ForgetType ==
  ASSUME TypeOK, NEW r \in Runs, Forget(r)
  PROVE  /\ pc' \in [Runs -> Pcs] /\ wake' \in [Runs -> Issues \cup {None}]
         /\ cand' \in [Runs -> [Issues -> Ranks]]
         /\ issue' \in [Runs -> Issues \cup {None}]
         /\ resume' \in [Runs -> BOOLEAN] /\ watching' \in [Runs -> BOOLEAN]
         /\ token' \in [Runs -> BOOLEAN] /\ verdict' \in [Runs -> Verdicts]
BY DEF TypeOK, Forget, Goto, Pcs, Ranks, NoCandidates, Verdicts

\* Every step keeps the types; the outcome of a run is posted for the issue it
\* holds, which is why the invariant is needed.
LEMMA TypeStep == IInv /\ [Next]_vars => TypeOK'
<1>. SUFFICES ASSUME IInv, [Next]_vars PROVE TypeOK'
  OBVIOUS
<1>. USE HeartbeatAssumption DEF IInv, TypeOK
<1>1. ASSUME NEW r \in Runs, Start(r) PROVE TypeOK'
  BY <1>1 DEF Start, Goto, Pcs, history, bounds
<1>2. ASSUME NEW r \in Runs, FetchAssignments(r) PROVE TypeOK'
  <2>. USE <1>2 DEF FetchAssignments
  <2>1. CASE /\ cand' = [cand EXCEPT ![r] = [i \in Issues |-> Rank(r, i)]]
             /\ Goto(r, "checkout")
             /\ UNCHANGED <<wake, issue, resume, watching, token, verdict, faults>>
    <3>1. [i \in Issues |-> Rank(r, i)] \in [Issues -> Ranks]
      BY RankType
    <3>2. cand' \in [Runs -> [Issues -> Ranks]] /\ pc' \in [Runs -> Pcs]
      BY <2>1, <3>1 DEF Goto, Pcs
    <3>. QED BY <2>1, <3>2 DEF server, history
  <2>2. CASE Call("fail") /\ Forget(r)
    BY <2>2, ForgetType DEF Call, server, history
  <2>. QED BY <2>1, <2>2
<1>3. ASSUME NEW r \in Runs, NothingToDo(r) PROVE TypeOK'
  BY <1>3, ForgetType DEF NothingToDo, server, history, bounds
<1>4. ASSUME NEW r \in Runs, MarkInProgress(r) PROVE TypeOK'
  BY <1>4 DEF MarkInProgress, Goto, Pcs, Statuses, Call, history, Holding, Owning
<1>5. ASSUME NEW r \in Runs, BuildContext(r) PROVE TypeOK'
  <2>. USE <1>5 DEF BuildContext
  <2>1. resume' \in [Runs -> BOOLEAN] /\ watching' \in [Runs -> BOOLEAN]
    BY DEF IsResume
  <2>2. issue[r] \in Issues
    BY DEF Holding, Owning
  <2>3. /\ pc' \in [Runs -> Pcs] /\ stale' \in SUBSET Issues /\ faults' \in Nat
        /\ UNCHANGED <<server, wake, cand, issue, token, verdict, leaked, kills, humans>>
    BY <2>2 DEF Goto, Pcs, Call
  <2>. QED BY <2>1, <2>3 DEF server
<1>6. ASSUME NEW r \in Runs, WorkflowEnds(r) PROVE TypeOK'
  <2>1. PICK v \in Verdicts : Conclude(r, v)
    BY <1>6 DEF WorkflowEnds, Verdicts
  <2>2. UNCHANGED <<server, wake, cand, issue, resume, token, history, bounds>>
    BY <1>6 DEF WorkflowEnds
  <2>. QED BY <2>1, <2>2 DEF Conclude, Goto, Pcs, server, history, bounds
<1>7. ASSUME NEW r \in Runs, PostOutcome(r) PROVE TypeOK'
  BY <1>7 DEF PostOutcome, Goto, Pcs, Statuses, FinalStatus, Call, Holding, Owning
<1>8. ASSUME NEW r \in Runs, PostCancelled(r) PROVE TypeOK'
  BY <1>8 DEF PostCancelled, Goto, Pcs, Call, server, history
<1>9. ASSUME NEW r \in Runs, Release(r) PROVE TypeOK'
  <2>. USE <1>9 DEF Release
  <2>1. issue[r] \in Issues
    BY DEF Holding, Owning
  <2>2. /\ holder' \in [Issues -> Runs \cup {None}] /\ leaked' \in SUBSET Issues
        /\ faults' \in Nat
    BY <2>1 DEF Freed, Call
  <2>. QED BY <2>2, ForgetType
<1>10. ASSUME NEW r \in Runs, NEW i \in Issues, Checkout(r, i) PROVE TypeOK'
  <2> DEFINE Granted == /\ cand' = [cand EXCEPT ![r] = NoCandidates]
                         /\ pc' = [pc EXCEPT ![r] = "picked"]
                         /\ issue' = [issue EXCEPT ![r] = i]
  <2>1. Granted \/ TryNext(r, i)
    BY <1>10 DEF Checkout, Goto
  <2>2. NoCandidates \in [Issues -> Ranks] /\ "no" \in Ranks
    BY DEF NoCandidates, Ranks
  <2>3. /\ holder' \in [Issues -> Runs \cup {None}] /\ leaked' \in SUBSET Issues
        /\ faults' \in Nat
    BY <1>10 DEF Checkout, Call
  <2>4. UNCHANGED <<status, asked, replied, locked, wake, resume, watching, token,
                    verdict, stale, kills, humans>>
    BY <1>10 DEF Checkout
  <2>5. CASE Granted
    BY <2>2, <2>5, <2>3, <2>4 DEF Pcs
  <2>6. CASE TryNext(r, i)
    BY <2>2, <2>6, <2>3, <2>4 DEF TryNext
  <2>. QED BY <2>1, <2>5, <2>6
<1>11. ASSUME NEW r \in Runs, SeeCancelled(r) PROVE TypeOK'
  BY <1>11 DEF SeeCancelled, server, history, bounds
<1>12. ASSUME NEW r \in Runs, PollerGivesUp(r) PROVE TypeOK'
  BY <1>12 DEF PollerGivesUp, Call, server, history
<1>13. ASSUME NEW r \in Runs, Sigterm(r) PROVE TypeOK'
  BY <1>13 DEF Sigterm, Conclude, Goto, Pcs, Verdicts, server, history
<1>14. ASSUME NEW r \in Runs, Kill(r) PROVE TypeOK'
  BY <1>14, ForgetType DEF Kill, server
<1>15. ASSUME NEW i \in Issues, Expire(i) PROVE TypeOK'
  BY <1>15 DEF Expire, run, bounds
<1>16. ASSUME NEW i \in Issues, Reply(i) \/ Cancel(i) \/ Reopen(i) PROVE TypeOK'
  BY <1>16 DEF Reply, Cancel, Reopen, ByHuman, Statuses, run, history
<1>17. CASE UNCHANGED vars
  BY <1>17 DEF vars, server, run, history, bounds
<1>. QED
  BY <1>1, <1>2, <1>3, <1>4, <1>5, <1>6, <1>7, <1>8, <1>9, <1>10, <1>11, <1>12,
     <1>13, <1>14, <1>15, <1>16, <1>17 DEF Next, Advance

\* Every step keeps each run holding the issue it works on: a checkout is only
\* granted when no run holds the issue, and only the run itself, or the server
\* when the run has moved on, gives it back.
LEMMA HoldingStep == IInv /\ [Next]_vars => Holding'
<1>. SUFFICES ASSUME IInv, [Next]_vars PROVE Holding'
  OBVIOUS
<1>. USE HeartbeatAssumption DEF IInv, TypeOK, Holding, Owning
<1>1. ASSUME NEW r \in Runs,
             Start(r) \/ FetchAssignments(r) \/ NothingToDo(r)
      PROVE  Holding'
  BY <1>1 DEF Start, FetchAssignments, NothingToDo, Forget, Goto, server
<1>2. ASSUME NEW r \in Runs,
             MarkInProgress(r) \/ BuildContext(r) \/ PostOutcome(r) \/ PostCancelled(r)
      PROVE  Holding'
  BY <1>2 DEF MarkInProgress, BuildContext, PostOutcome, PostCancelled, Goto, server
<1>3. ASSUME NEW r \in Runs, WorkflowEnds(r) \/ Sigterm(r)
      PROVE  Holding'
  <2>1. PICK v : Conclude(r, v)
    BY <1>3 DEF WorkflowEnds, Sigterm
  <2>2. pc[r] = "work" /\ UNCHANGED <<server, issue>>
    BY <1>3 DEF WorkflowEnds, Sigterm
  <2>. QED BY <2>1, <2>2 DEF Conclude, Goto, server
<1>4. ASSUME NEW r \in Runs, Release(r) PROVE Holding'
  <2>1. /\ pc[r] = "release" /\ Forget(r)
        /\ holder' = holder \/ holder' = [holder EXCEPT ![issue[r]] = None]
    BY <1>4 DEF Release, Freed
  <2>2. ASSUME NEW q \in Runs, q # r, pc[q] \in Owning
        PROVE  issue[q] # issue[r]
    BY <2>1, <2>2
  <2>. QED BY <2>1, <2>2 DEF Forget, Goto
<1>5. ASSUME NEW r \in Runs, NEW i \in Issues, Checkout(r, i) PROVE Holding'
  <2>1. CASE /\ MayGrant(i) /\ pc[r] = "checkout"
             /\ holder' = [holder EXCEPT ![i] = r]
             /\ issue' = [issue EXCEPT ![r] = i] /\ Goto(r, "picked")
    BY <2>1 DEF MayGrant, Goto
  <2>2. CASE /\ TryNext(r, i) /\ pc[r] = "checkout"
             /\ holder' = holder \/ (MayGrant(i) /\ holder' = [holder EXCEPT ![i] = r])
    BY <2>2 DEF TryNext, MayGrant
  <2>. QED BY <1>5, <2>1, <2>2 DEF Checkout
<1>6. ASSUME NEW r \in Runs, SeeCancelled(r) \/ PollerGivesUp(r) PROVE Holding'
  BY <1>6 DEF SeeCancelled, PollerGivesUp, server
<1>7. ASSUME NEW r \in Runs, Kill(r) PROVE Holding'
  BY <1>7 DEF Kill, Forget, Goto, server
<1>8. ASSUME NEW i \in Issues, Expire(i) PROVE Holding'
  <2>1. \A r \in Runs : pc[r] \in Owning => issue[r] # i
    BY <1>8 DEF Expire
  <2>. QED BY <1>8, <2>1 DEF Expire, run
<1>9. ASSUME NEW i \in Issues, Reply(i) \/ Cancel(i) \/ Reopen(i) PROVE Holding'
  BY <1>9 DEF Reply, Cancel, Reopen, run
<1>10. CASE UNCHANGED vars
  BY <1>10 DEF vars, server, run
<1>. QED
  BY <1>1, <1>2, <1>3, <1>4, <1>5, <1>6, <1>7, <1>8, <1>9, <1>10 DEF Next, Advance

\* The inductive invariant holds in every reachable state.
THEOREM Invariance == Spec => []IInv
<1>1. IInv /\ [Next]_vars => IInv'
  BY TypeStep, HoldingStep DEF IInv
<1>. QED BY InitIInv, <1>1, PTL DEF Spec

\* Type correctness of the heartbeat model.
THEOREM TypeCorrect == Spec => []TypeOK
<1>1. IInv => TypeOK
  BY DEF IInv
<1>. QED BY Invariance, <1>1, PTL

\* However many heartbeats of the agent overlap, and whatever is killed, lost or
\* changed by people, no two of them work on one issue (run_heartbeat's checkout
\* to release).
THEOREM ExclusiveWork == Spec => []OneRunPerIssue
<1>1. IInv => OneRunPerIssue
  BY DEF IInv, Holding, OneRunPerIssue
<1>. QED BY Invariance, <1>1, PTL

-----------------------------------------------------------------------------
\* A checkout is left behind only by a killed run or an unacknowledged call.
LEMMA ReturnedStep ==
  IInv /\ CheckoutsAreReturned /\ [Next]_vars => CheckoutsAreReturned'
<1>. SUFFICES ASSUME IInv, CheckoutsAreReturned, [Next]_vars
              PROVE  CheckoutsAreReturned'
  OBVIOUS
<1>. USE HeartbeatAssumption DEF IInv, TypeOK, CheckoutsAreReturned
<1>1. ASSUME NEW r \in Runs, NothingToDo(r) \/ FetchAssignments(r)
      PROVE  CheckoutsAreReturned'
  <2>1. issue[r] = None
    BY <1>1 DEF NothingToDo, FetchAssignments, Holding, Owning
  <2>2. issue' = issue /\ holder' = holder /\ leaked' = leaked
    BY <1>1, <2>1 DEF NothingToDo, FetchAssignments, Forget, server, history
  <2>. QED BY <2>2
<1>2. ASSUME NEW r \in Runs, Release(r) PROVE CheckoutsAreReturned'
  <2>1. issue[r] \in Issues /\ holder[issue[r]] = r /\ Forget(r)
    BY <1>2 DEF Release, Holding, Owning
  <2>2. \/ /\ holder' = [holder EXCEPT ![issue[r]] = None]
           /\ leaked' = leaked \ {issue[r]}
        \/ holder' = holder /\ leaked' = leaked \cup {issue[r]}
    BY <1>2 DEF Release, Freed
  <2>. QED BY <2>1, <2>2 DEF Forget
<1>3. ASSUME NEW r \in Runs, NEW i \in Issues, Checkout(r, i)
      PROVE  CheckoutsAreReturned'
  <2>1. issue[r] = None
    BY <1>3 DEF Checkout, Holding, Owning
  <2>2. \/ /\ holder' = [holder EXCEPT ![i] = r] /\ leaked' = leaked
           /\ issue' = [issue EXCEPT ![r] = i]
        \/ holder' = holder /\ leaked' = leaked /\ issue' = issue
        \/ /\ holder' = [holder EXCEPT ![i] = r] /\ leaked' = leaked \cup {i}
           /\ issue' = issue
    BY <1>3 DEF Checkout, TryNext
  <2>. QED BY <2>1, <2>2
<1>4. ASSUME NEW r \in Runs, Kill(r) PROVE CheckoutsAreReturned'
  BY <1>4 DEF Kill, Forget, server
<1>5. ASSUME NEW i \in Issues, Expire(i) PROVE CheckoutsAreReturned'
  BY <1>5 DEF Expire, run
<1>6. CASE UNCHANGED <<holder, issue, leaked>>
  BY <1>6
<1>7. \/ UNCHANGED <<holder, issue, leaked>>
      \/ \E r \in Runs : \/ NothingToDo(r) \/ FetchAssignments(r) \/ Release(r)
                         \/ Kill(r) \/ \E i \in Issues : Checkout(r, i)
      \/ \E i \in Issues : Expire(i)
  BY DEF Next, Advance, Start, MarkInProgress, BuildContext, WorkflowEnds,
         PostOutcome, PostCancelled, SeeCancelled, PollerGivesUp, Sigterm,
         Reply, Cancel, Reopen, vars, server, run, history
<1>. QED BY <1>1, <1>2, <1>3, <1>4, <1>5, <1>6, <1>7

\* A checkout nobody works under was left by a killed run or a failed call.
THEOREM NoStrayCheckout == Spec => []CheckoutsAreReturned
<1>1. Init => CheckoutsAreReturned
  BY DEF Init, CheckoutsAreReturned
<1>. QED BY <1>1, ReturnedStep, Invariance, PTL DEF Spec

-----------------------------------------------------------------------------
\* What makes NoIssueLeftInProgress inductive: a token fires during the
\* workflow, on an issue that has left "in_progress" and, held by its run, does
\* not return to it; and only a fired token cancels.
Firing ==
  \A r \in Runs :
    /\ watching[r] => pc[r] = "work"
    /\ token[r] => /\ pc[r] \in {"work", "post", "release"}
                   /\ status[issue[r]] # "in_progress"
    /\ pc[r] = "post" /\ verdict[r] = "cancelled" => token[r]

\* The issues a run answers for.
AtWork(i) == \E r \in Runs : issue[r] = i /\ pc[r] \in {"marked", "work", "post"}

\* How a step can write the status of an issue.
LEMMA StatusWrites ==
  ASSUME IInv, [Next]_vars
  PROVE  \/ UNCHANGED status
         \/ \E r \in Runs : MarkInProgress(r) \/ PostOutcome(r)
         \/ \E i \in Issues : Cancel(i) \/ Reopen(i)
BY DEF Next, Advance, Start, FetchAssignments, NothingToDo, BuildContext,
       WorkflowEnds, PostCancelled, Release, Checkout, SeeCancelled,
       PollerGivesUp, Sigterm, Kill, Expire, Reply, vars, server

\* A step never puts the issue of a fired token back to "in_progress".
LEMMA FiredStays ==
  ASSUME IInv, [Next]_vars, Firing, NEW r \in Runs, token[r]
  PROVE  status'[issue[r]] # "in_progress"
<1>. USE DEF IInv, TypeOK
<1>1. issue[r] \in Issues /\ holder[issue[r]] = r /\ status[issue[r]] # "in_progress"
  BY DEF Firing, Holding, Owning
<1>2. ASSUME NEW q \in Runs, MarkInProgress(q) PROVE status'[issue[r]] # "in_progress"
  <2>1. pc[q] = "picked" /\ issue[q] \in Issues /\ holder[issue[q]] = q
    BY <1>2 DEF MarkInProgress, Holding, Owning
  <2>2. q # r
    BY <2>1 DEF Firing
  <2>3. issue[q] # issue[r]
    BY <2>1, <2>2, <1>1
  <2>. QED BY <1>1, <1>2, <2>3 DEF MarkInProgress
<1>3. ASSUME NEW q \in Runs, PostOutcome(q) PROVE status'[issue[r]] # "in_progress"
  BY <1>1, <1>3 DEF PostOutcome, FinalStatus
<1>4. ASSUME NEW i \in Issues, Cancel(i) \/ Reopen(i)
      PROVE  status'[issue[r]] # "in_progress"
  BY <1>1, <1>4 DEF Cancel, Reopen
<1>. QED BY <1>1, <1>2, <1>3, <1>4, StatusWrites

\* Every step keeps Firing.
LEMMA FiringStep == IInv /\ Firing /\ [Next]_vars => Firing'
<1>. SUFFICES ASSUME IInv, Firing, [Next]_vars PROVE Firing'
  OBVIOUS
<1>. USE DEF IInv, TypeOK
<1>1. ASSUME NEW r \in Runs, NothingToDo(r) \/ FetchAssignments(r) \/ Release(r) \/ Kill(r)
      PROVE  Firing'
  <2>1. ASSUME NEW q \in Runs, q # r
        PROVE  /\ watching'[q] = watching[q] /\ token'[q] = token[q] /\ pc'[q] = pc[q]
               /\ verdict'[q] = verdict[q] /\ issue'[q] = issue[q]
    BY <1>1, <2>1 DEF NothingToDo, FetchAssignments, Release, Kill, Forget, Goto
  <2>2. ~watching'[r] /\ ~token'[r] /\ pc'[r] # "post"
    BY <1>1 DEF NothingToDo, FetchAssignments, Release, Kill, Forget, Goto, Firing
  <2>. QED BY <2>1, <2>2, FiredStays DEF Firing
<1>2. ASSUME NEW r \in Runs,
             Start(r) \/ MarkInProgress(r) \/ PostOutcome(r) \/ PostCancelled(r)
      PROVE  Firing'
  <2>1. UNCHANGED <<watching, token, verdict, issue>>
    BY <1>2 DEF Start, MarkInProgress, PostOutcome, PostCancelled
  <2>2. /\ \A q \in Runs : q # r => pc'[q] = pc[q]
        /\ pc[r] # "work" /\ pc'[r] \notin {"work", "post"}
        /\ token[r] => pc'[r] = "release"
    BY <1>2 DEF Start, MarkInProgress, PostOutcome, PostCancelled, Goto, Firing
  <2>. QED BY <2>1, <2>2, FiredStays DEF Firing
<1>3. ASSUME NEW r \in Runs, BuildContext(r) PROVE Firing'
  <2>1. UNCHANGED <<token, verdict, issue, status>> /\ ~token[r] /\ ~watching[r]
    BY <1>3 DEF BuildContext, server, Firing
  <2>2. /\ \A q \in Runs : q # r => pc'[q] = pc[q] /\ watching'[q] = watching[q]
        /\ pc'[r] # "post" /\ (watching'[r] => pc'[r] = "work")
    BY <1>3, <2>1 DEF BuildContext, Goto
  <2>. QED BY <2>1, <2>2 DEF Firing
<1>4. ASSUME NEW r \in Runs, WorkflowEnds(r) \/ Sigterm(r) PROVE Firing'
  <2>1. PICK v : Conclude(r, v) /\ (v = "cancelled" => token[r])
    BY <1>4 DEF WorkflowEnds, Sigterm
  <2>2. UNCHANGED <<status, issue, token>>
    BY <1>4 DEF WorkflowEnds, Sigterm, server
  <2>. QED BY <2>1, <2>2 DEF Firing, Conclude, Goto
<1>5. ASSUME NEW r \in Runs, NEW i \in Issues, Checkout(r, i) PROVE Firing'
  <2>1. UNCHANGED <<status, token, watching, verdict>> /\ ~token[r] /\ ~watching[r]
    BY <1>5 DEF Checkout, Firing
  <2>2. /\ \A q \in Runs : q # r => pc'[q] = pc[q] /\ issue'[q] = issue[q]
        /\ pc'[r] # "post"
    BY <1>5 DEF Checkout, TryNext, Goto
  <2>. QED BY <2>1, <2>2 DEF Firing
<1>6. ASSUME NEW r \in Runs, SeeCancelled(r) PROVE Firing'
  BY <1>6 DEF SeeCancelled, server, Firing
<1>7. ASSUME NEW r \in Runs, PollerGivesUp(r) PROVE Firing'
  BY <1>7 DEF PollerGivesUp, server, Firing
<1>8. CASE UNCHANGED run
  BY <1>8, FiredStays DEF run, Firing
<1>9. \/ UNCHANGED run
      \/ \E r \in Runs : \/ Advance(r) \/ SeeCancelled(r) \/ PollerGivesUp(r)
                         \/ Sigterm(r) \/ Kill(r)
  BY DEF Next, Expire, Reply, Cancel, Reopen, vars
<1>. QED BY <1>1, <1>2, <1>3, <1>4, <1>5, <1>6, <1>7, <1>8, <1>9 DEF Advance

\* Who is at work on an issue stays so in a step that moves no run past the post.
LEMMA LeftStep ==
  IInv /\ Firing /\ NoIssueLeftInProgress /\ [Next]_vars => NoIssueLeftInProgress'
<1>. SUFFICES ASSUME IInv, Firing, NoIssueLeftInProgress, [Next]_vars,
                     NEW i \in Issues, status'[i] = "in_progress", i \notin stale'
              PROVE  AtWork(i)'
  BY DEF NoIssueLeftInProgress, AtWork
<1>. USE HeartbeatAssumption DEF IInv, TypeOK
<1>1. ASSUME NEW q \in Runs, MarkInProgress(q) PROVE AtWork(i)'
  <2>1. CASE issue[q] = i
    BY <1>1, <2>1 DEF MarkInProgress, Goto, AtWork
  <2>2. CASE issue[q] # i
    <3>1. status[i] = "in_progress" /\ i \notin stale /\ pc[q] = "picked"
      BY <1>1, <2>2 DEF MarkInProgress, history
    <3>2. PICK r \in Runs : issue[r] = i /\ pc[r] \in {"marked", "work", "post"}
      BY <3>1 DEF NoIssueLeftInProgress
    <3>. QED BY <1>1, <3>1, <3>2 DEF MarkInProgress, Goto, AtWork
  <2>. QED BY <2>1, <2>2
<1>2. ASSUME NEW q \in Runs, PostOutcome(q) PROVE AtWork(i)'
  <2>1. issue[q] \in Issues /\ holder[issue[q]] = q /\ pc[q] = "post"
    BY <1>2 DEF PostOutcome, Holding, Owning
  <2>2. issue[q] # i /\ status[i] = "in_progress" /\ i \notin stale
    BY <1>2, <2>1 DEF PostOutcome, FinalStatus
  <2>3. PICK r \in Runs : issue[r] = i /\ pc[r] \in {"marked", "work", "post"}
    BY <2>2 DEF NoIssueLeftInProgress
  <2>. QED BY <1>2, <2>2, <2>3 DEF PostOutcome, Goto, AtWork
<1>3. CASE ~\E q \in Runs : MarkInProgress(q) \/ PostOutcome(q)
  <2>1. status[i] = "in_progress"
    BY <1>3, StatusWrites DEF Cancel, Reopen
  <2>2. i \notin stale
    BY <1>3 DEF Next, Advance, Start, FetchAssignments, NothingToDo, BuildContext,
           WorkflowEnds, PostCancelled, Release, Checkout, SeeCancelled,
           PollerGivesUp, Sigterm, Kill, Expire, Reply, Cancel, Reopen, vars, history
  <2>3. PICK r \in Runs : issue[r] = i /\ pc[r] \in {"marked", "work", "post"}
    BY <2>1, <2>2 DEF NoIssueLeftInProgress
  <2>4. ASSUME NEW q \in Runs, Advance(q) \/ SeeCancelled(q) \/ PollerGivesUp(q)
                              \/ Sigterm(q) \/ Kill(q), q # r
        PROVE  pc'[r] = pc[r] /\ issue'[r] = issue[r]
    BY <1>3, <2>4 DEF Advance, Start, FetchAssignments, NothingToDo, BuildContext,
           WorkflowEnds, PostCancelled, Release, Checkout, TryNext, SeeCancelled,
           PollerGivesUp, Sigterm, Kill, Forget, Goto, Conclude
  <2>5. CASE BuildContext(r)
    BY <2>2, <2>3, <2>5 DEF BuildContext, Goto, AtWork
  <2>6. CASE WorkflowEnds(r) \/ Sigterm(r)
    BY <2>3, <2>6 DEF WorkflowEnds, Sigterm, Conclude, Goto, AtWork
  <2>7. CASE SeeCancelled(r) \/ PollerGivesUp(r)
    BY <2>3, <2>7 DEF SeeCancelled, PollerGivesUp, AtWork
  <2>8. ~PostCancelled(r)
    BY <2>1, <2>3 DEF PostCancelled, Firing
  <2>9. ~Kill(r)
    BY <2>3 DEF Kill
  <2>10. CASE UNCHANGED run
    BY <2>3, <2>10 DEF run, AtWork
  <2>11. ASSUME NEW q \in Runs,
                Advance(q) \/ SeeCancelled(q) \/ PollerGivesUp(q) \/ Sigterm(q) \/ Kill(q)
         PROVE  AtWork(i)'
    <3>1. CASE q # r
      <4>1. pc'[r] = pc[r] /\ issue'[r] = issue[r]
        BY <2>4, <2>11, <3>1
      <4>. QED BY <2>3, <4>1 DEF AtWork
    <3>2. CASE q = r
      <4>1. \/ BuildContext(r) \/ WorkflowEnds(r) \/ Sigterm(r) \/ SeeCancelled(r)
            \/ PollerGivesUp(r)
        BY <1>3, <2>3, <2>8, <2>9, <2>11, <3>2 DEF Advance, Start, FetchAssignments,
           NothingToDo, Release, Checkout
      <4>. QED BY <2>5, <2>6, <2>7, <4>1
    <3>. QED BY <3>1, <3>2
  <2>. QED BY <1>3, <2>10, <2>11 DEF Next, Expire, Reply, Cancel, Reopen, vars
<1>. QED BY <1>1, <1>2, <1>3

\* An issue that is "in_progress" and that no heartbeat works on was left by a
\* killed run or a failed call.
THEOREM NothingLeftInProgress == Spec => []NoIssueLeftInProgress
<1>1. Init => Firing /\ NoIssueLeftInProgress
  BY DEF Init, Firing, NoIssueLeftInProgress
<1>. QED BY <1>1, FiringStep, LeftStep, Invariance, PTL DEF Spec

\* What every state of the heartbeats satisfies, in every behaviour and for any
\* issues and runs, however calls fail, runs are killed and people step in.
THEOREM Safety == Spec => []HeartbeatInv
<1>. QED
  BY TypeCorrect, ExclusiveWork, NoStrayCheckout, NothingLeftInProgress, PTL DEF
     HeartbeatInv

-----------------------------------------------------------------------------
\* The scheduler starts one heartbeat of an agent at a time.
OneAtATime == \A q, r \in Runs : q = r

\* A run tries an issue that is blocked, by now as when it was ranked, for the
\* reply it was woken for.
RankedAsSeen ==
  \A r \in Runs, i \in Issues :
    cand[r][i] # "no" =>
      /\ pc[r] = "checkout"
      /\ status[i] = "blocked" => wake[r] = i

\* While the only run looks for work nobody blocks an issue, so its ranking does
\* not grow stale.
LEMMA RankedStep ==
  ASSUME OneAtATime, IInv, RankedAsSeen, [Next]_vars
  PROVE  RankedAsSeen'
<1>. SUFFICES ASSUME NEW r \in Runs, NEW i \in Issues, cand'[r][i] # "no"
              PROVE  pc'[r] = "checkout" /\ (status'[i] = "blocked" => wake'[r] = i)
  BY DEF RankedAsSeen
<1>. USE DEF IInv, TypeOK
<1>1. ASSUME NEW q \in Runs, Forget(q) PROVE FALSE
  <2>1. q = r
    BY DEF OneAtATime
  <2>. QED BY <1>1, <2>1 DEF Forget, NoCandidates
<1>2. CASE FetchAssignments(r)
  <2>1. /\ cand'[r][i] = Rank(r, i) /\ pc'[r] = "checkout"
        /\ UNCHANGED <<status, wake>>
    BY <1>1, <1>2 DEF FetchAssignments, Goto, server
  <2>2. Rank(r, i) # "no" /\ status[i] = "blocked" => wake[r] = i
    BY DEF Rank
  <2>. QED BY <2>1, <2>2
<1>3. CASE /\ cand'[r][i] # "no" => cand[r][i] # "no"
           /\ pc'[r] = "checkout" \/ pc[r] # "checkout"
           /\ UNCHANGED wake /\ (status'[i] = "blocked" => status[i] = "blocked")
  BY <1>3 DEF RankedAsSeen
<1>4. ASSUME NEW j \in Issues, Checkout(r, j)
      PROVE  /\ cand'[r][i] # "no" => cand[r][i] # "no"
             /\ pc'[r] = "checkout" \/ pc[r] # "checkout"
             /\ UNCHANGED wake /\ (status'[i] = "blocked" => status[i] = "blocked")
  <2>1. cand' # [cand EXCEPT ![r] = NoCandidates]
    BY DEF NoCandidates
  <2>2. TryNext(r, j)
    BY <1>4, <2>1 DEF Checkout
  <2>. QED BY <1>4, <2>2 DEF Checkout, TryNext
<1>5. pc[r] # "checkout" => cand[r][i] = "no"
  BY DEF RankedAsSeen
<1>6. ASSUME \/ MarkInProgress(r) \/ BuildContext(r) \/ WorkflowEnds(r) \/ PostOutcome(r)
             \/ PostCancelled(r) \/ Sigterm(r) \/ Start(r)
      PROVE  FALSE
  BY <1>5, <1>6 DEF MarkInProgress, BuildContext, WorkflowEnds, PostOutcome, PostCancelled,
     Sigterm, Start
<1>7. ASSUME SeeCancelled(r) \/ PollerGivesUp(r)
      PROVE  UNCHANGED <<cand, pc, wake, status>>
  BY <1>7 DEF SeeCancelled, PollerGivesUp, server
<1>8. ASSUME NEW j \in Issues, Expire(j) \/ Reply(j) \/ Cancel(j) \/ Reopen(j)
      PROVE  /\ UNCHANGED <<cand, pc, wake>>
             /\ status'[i] = "blocked" => status[i] = "blocked"
  BY <1>8 DEF Expire, Reply, Cancel, Reopen, run
<1>9. CASE UNCHANGED vars
  BY <1>9, <1>3 DEF vars, server, run, RankedAsSeen
<1>10. CASE Checkout(r, i) \/ \E j \in Issues : Checkout(r, j)
  BY <1>3, <1>4, <1>10
<1>11. ASSUME UNCHANGED <<cand, pc, wake>>, status'[i] = "blocked" => status[i] = "blocked"
       PROVE  pc'[r] = "checkout" /\ (status'[i] = "blocked" => wake'[r] = i)
  BY <1>11 DEF RankedAsSeen
<1>12. ~NothingToDo(r) /\ ~Release(r) /\ ~Kill(r)
  BY <1>1 DEF NothingToDo, Release, Kill
<1>13. \A q \in Runs : q = r
  BY DEF OneAtATime
<1>. QED
  BY <1>2, <1>6, <1>7, <1>8, <1>9, <1>10, <1>11, <1>12, <1>13 DEF Next, Advance

\* With one heartbeat at a time an issue that is blocked, for instance on a
\* question, is not worked on before a person has replied to it or moved it on,
\* however many issues there are and whatever fails, is lost or is killed.
THEOREM QuestionsWait ==
  ASSUME OneAtATime PROVE Spec => QuestionsAreAwaited
<1>1. Init => RankedAsSeen
  BY DEF Init, RankedAsSeen, NoCandidates
<1>2. IInv /\ RankedAsSeen /\ [Next]_vars => RankedAsSeen'
  BY RankedStep
<1>3. ASSUME IInv, RankedAsSeen, [Next]_vars,
             NEW r \in Runs, NEW i \in Issues, issue[r] # i, issue'[r] = i, status[i] = "blocked"
      PROVE  wake[r] = i
  <2>1. \A q \in Runs : q = r
    BY DEF OneAtATime
  <2>2. PICK j \in Issues : Checkout(r, j)
    <3>1. issue' # issue /\ ~Forget(r)
      BY <1>3, HeartbeatAssumption DEF Forget, IInv, TypeOK
    <3>2. ~UNCHANGED vars /\ \A k \in Issues : ~Expire(k) /\ ~Reply(k) /\ ~Cancel(k) /\ ~Reopen(k)
      BY <3>1 DEF vars, run, Expire, Reply, Cancel, Reopen
    <3>3. ~SeeCancelled(r) /\ ~PollerGivesUp(r) /\ ~Sigterm(r) /\ ~Kill(r)
      BY <3>1 DEF SeeCancelled, PollerGivesUp, Sigterm, Kill
    <3>4. /\ ~Start(r) /\ ~FetchAssignments(r) /\ ~NothingToDo(r) /\ ~MarkInProgress(r)
          /\ ~BuildContext(r) /\ ~WorkflowEnds(r) /\ ~PostOutcome(r) /\ ~PostCancelled(r)
          /\ ~Release(r)
      BY <3>1 DEF Start, FetchAssignments, NothingToDo, MarkInProgress, BuildContext,
         WorkflowEnds, PostOutcome, PostCancelled, Release
    <3>. QED BY <1>3, <2>1, <3>2, <3>3, <3>4 DEF Next, Advance
  <2>3. j = i /\ cand[r][i] # "no"
    BY <1>3, <2>2 DEF Checkout, TryNext, Best, IInv, TypeOK
  <2>. QED BY <1>3, <2>3 DEF RankedAsSeen
<1>4. IInv /\ RankedAsSeen /\ [Next]_vars
        => [\A r \in Runs, i \in Issues :
              issue[r] # i /\ issue'[r] = i /\ status[i] = "blocked" => wake[r] = i]_vars
  BY <1>3
<1>. QED BY Invariance, <1>1, <1>2, <1>4, PTL DEF Spec, QuestionsAreAwaited

-----------------------------------------------------------------------------
\* Under the invariant the worker of an issue is the run that has it as its issue.
Worked ==
  \A i \in Issues :
    /\ WorkerOf(i) \in Runs \cup {None}
    /\ \A r \in Runs : WorkerOf(i) = r <=> issue[r] = i

LEMMA Working == IInv => Worked
<1>. SUFFICES ASSUME IInv, NEW i \in Issues
              PROVE  /\ WorkerOf(i) \in Runs \cup {None}
                     /\ \A r \in Runs : WorkerOf(i) = r <=> issue[r] = i
  BY DEF Worked
<1>. USE HeartbeatAssumption DEF IInv, TypeOK, WorkerOf
<1>1. WorkerOf(i) \in Runs \cup {None}
  OBVIOUS
<1>2. ASSUME NEW r \in Runs PROVE WorkerOf(i) = r <=> issue[r] = i
  <2>1. issue[r] = i => holder[i] = r
    BY DEF Holding
  <2>. QED BY <2>1
<1>. QED BY <1>1, <1>2

LEMMA WorkingNext == IInv' => Worked'
BY Working, PTL

\* A step that moves no issue to or from a run, and no worker to another stage,
\* moves nothing of the life cycle but perhaps a status.
LEMMA SameWork ==
  ASSUME IInv, IInv', UNCHANGED issue,
         \A r \in Runs : issue[r] # None => StageAt(pc'[r]) = StageAt(pc[r])
  PROVE  UNCHANGED <<workerBar, stageBar>>
<1>1. ASSUME NEW i \in Issues
      PROVE  WorkerOf(i)' = WorkerOf(i) /\ StageOf(i)' = StageOf(i)
  <2>1. /\ WorkerOf(i) \in Runs \cup {None}
        /\ \A r \in Runs : WorkerOf(i) = r <=> issue[r] = i
    BY Working DEF Worked
  <2>2. /\ WorkerOf(i)' \in Runs \cup {None}
        /\ \A r \in Runs : WorkerOf(i)' = r <=> issue'[r] = i
    BY WorkingNext DEF Worked
  <2>3. WorkerOf(i)' = WorkerOf(i)
    BY <2>1, <2>2
  <2>4. CASE WorkerOf(i) = None
    BY <2>3, <2>4 DEF StageOf
  <2>5. CASE WorkerOf(i) \in Runs
    BY <2>1, <2>3, <2>5, HeartbeatAssumption DEF StageOf
  <2>. QED BY <2>1, <2>3, <2>4, <2>5
<1>. QED BY <1>1 DEF workerBar, stageBar

\* A step that only gives run r an issue, only takes it from it, or only moves
\* it to another stage, does so in the life cycle.
LEMMA OtherWork ==
  ASSUME IInv, IInv', NEW r \in Runs, NEW i \in Issues,
         i \in {issue[r], issue'[r]},
         \A j \in Issues : j # i => issue[r] # j /\ issue'[r] # j,
         \A q \in Runs : q # r => issue'[q] = issue[q] /\ pc'[q] = pc[q]
  PROVE  /\ workerBar' = [workerBar EXCEPT ![i] = WorkerOf(i)']
         /\ stageBar' = [stageBar EXCEPT ![i] = StageOf(i)']
<1>1. ASSUME NEW j \in Issues, j # i
      PROVE  WorkerOf(j)' = WorkerOf(j) /\ StageOf(j)' = StageOf(j)
  <2>1. /\ WorkerOf(j) \in Runs \cup {None}
        /\ \A q \in Runs : WorkerOf(j) = q <=> issue[q] = j
    BY Working DEF Worked
  <2>2. /\ WorkerOf(j)' \in Runs \cup {None}
        /\ \A q \in Runs : WorkerOf(j)' = q <=> issue'[q] = j
    BY WorkingNext DEF Worked
  <2>3. WorkerOf(j)' = WorkerOf(j) /\ WorkerOf(j) # r
    BY <1>1, <2>1, <2>2, HeartbeatAssumption
  <2>4. CASE WorkerOf(j) = None
    BY <2>3, <2>4 DEF StageOf
  <2>5. CASE WorkerOf(j) \in Runs
    BY <2>3, <2>5 DEF StageOf
  <2>. QED BY <2>1, <2>3, <2>4, <2>5
<1>. QED BY <1>1 DEF workerBar, stageBar

\* What the worker of an issue is, and its stage, when run r has the issue.
LEMMA Mine ==
  ASSUME IInv, NEW r \in Runs, issue[r] # None
  PROVE  /\ issue[r] \in Issues /\ pc[r] \in Owning
         /\ WorkerOf(issue[r]) = r /\ StageOf(issue[r]) = StageAt(pc[r])
BY Working, HeartbeatAssumption DEF Worked, IInv, Holding, StageOf, TypeOK

\* A step of a run within a stage, or of a run without an issue, is none of the
\* life cycle.
LEMMA QuietStep ==
  ASSUME IInv, IInv', NEW r \in Runs, UNCHANGED <<status, issue>>,
         \A q \in Runs : q # r => pc'[q] = pc[q],
         issue[r] # None => StageAt(pc'[r]) = StageAt(pc[r])
  PROVE  UNCHANGED Lifecycle!vars
BY SameWork DEF Lifecycle!vars

\* What a step of one run with an issue, keeping it, does to the life cycle.
LEMMA OwnStep ==
  ASSUME IInv, IInv', NEW r \in Runs, issue[r] # None, UNCHANGED issue,
         \A q \in Runs : q # r => pc'[q] = pc[q],
         pc[r] \in Owning, pc'[r] \in Owning
  PROVE  /\ UNCHANGED workerBar
         /\ stageBar[issue[r]] = StageAt(pc[r])
         /\ stageBar' = [stageBar EXCEPT ![issue[r]] = StageAt(pc'[r])]
<1>1. issue[r] \in Issues /\ StageOf(issue[r]) = StageAt(pc[r]) /\ WorkerOf(issue[r]) = r
  BY Mine
<1>2. WorkerOf(issue[r])' = r /\ StageOf(issue[r])' = StageAt(pc'[r])
  BY <1>1, WorkingNext, HeartbeatAssumption DEF Worked, StageOf
<1>3. \A j \in Issues : j # issue[r] => issue[r] # j /\ issue'[r] # j
  OBVIOUS
<1>4. /\ workerBar' = [workerBar EXCEPT ![issue[r]] = WorkerOf(issue[r])']
      /\ stageBar' = [stageBar EXCEPT ![issue[r]] = StageOf(issue[r])']
  BY <1>1, <1>3, OtherWork
<1>. QED BY <1>1, <1>2, <1>4 DEF workerBar, stageBar

\* Marking the issue is marking it in the life cycle.
LEMMA MarkStep ==
  ASSUME IInv, IInv', NEW r \in Runs, MarkInProgress(r)
  PROVE  Lifecycle!Mark(issue[r])
<1>1. /\ issue[r] # None /\ issue[r] \in Issues /\ UNCHANGED issue
      /\ \A q \in Runs : q # r => pc'[q] = pc[q]
      /\ pc[r] = "picked" /\ pc'[r] = "marked"
  BY HeartbeatAssumption DEF MarkInProgress, Goto, IInv, TypeOK, Holding, Owning
<1>2. /\ UNCHANGED workerBar /\ stageBar[issue[r]] = "taken"
      /\ stageBar' = [stageBar EXCEPT ![issue[r]] = "marked"]
  BY <1>1, OwnStep DEF StageAt, Owning
<1>3. Lifecycle!Write(issue[r], {"in_progress"})
  <2>1. status \in [Issues -> Statuses]
    BY DEF IInv, TypeOK
  <2>2. \/ status' = [status EXCEPT ![issue[r]] = "in_progress"]
        \/ status' = status
    BY DEF MarkInProgress
  <2>3. status = [status EXCEPT ![issue[r]] = status[issue[r]]]
    BY <1>1, <2>1
  <2>. QED BY <2>2, <2>3 DEF Lifecycle!Write
<1>. QED BY <1>2, <1>3 DEF Lifecycle!Mark

\* Posting the outcome, or giving up for want of context, concludes the issue.
LEMMA ConcludeStep ==
  ASSUME IInv, IInv', NEW r \in Runs,
         PostOutcome(r) \/ PostCancelled(r) \/ (BuildContext(r) /\ pc'[r] = "release")
  PROVE  Lifecycle!Conclude(issue[r])
<1>1. /\ issue[r] # None /\ issue[r] \in Issues /\ UNCHANGED issue
      /\ \A q \in Runs : q # r => pc'[q] = pc[q]
      /\ pc[r] \in {"marked", "post"} /\ pc'[r] = "release"
  BY HeartbeatAssumption DEF PostOutcome, PostCancelled, BuildContext, Goto, IInv,
     TypeOK, Holding, Owning
<1>2. /\ UNCHANGED workerBar /\ stageBar[issue[r]] = "marked"
      /\ stageBar' = [stageBar EXCEPT ![issue[r]] = "concluded"]
  BY <1>1, OwnStep DEF StageAt, Owning
<1>3. Lifecycle!Write(issue[r], {"done", "blocked"})
  BY <1>1 DEF PostOutcome, PostCancelled, BuildContext, FinalStatus, server,
     Lifecycle!Write, IInv, TypeOK
<1>. QED BY <1>2, <1>3 DEF Lifecycle!Conclude

\* A run that ends leaves its issue.
LEMMA LeaveStep ==
  ASSUME IInv, IInv', NEW r \in Runs, Forget(r), UNCHANGED status
  PROVE  Lifecycle!Next \/ UNCHANGED Lifecycle!vars
<1>1. /\ \A q \in Runs : q # r => pc'[q] = pc[q] /\ issue'[q] = issue[q]
      /\ issue'[r] = None /\ issue \in [Runs -> Issues \cup {None}]
      /\ issue' \in [Runs -> Issues \cup {None}]
  BY DEF Forget, Goto, IInv, TypeOK
<1>2. CASE issue[r] = None
  <2>1. issue' = issue
    BY <1>1, <1>2
  <2>. QED BY <1>1, <1>2, <2>1, QuietStep
<1>3. CASE issue[r] # None
  <2>1. PICK i \in Issues : i = issue[r] /\ WorkerOf(i) = r
    BY <1>3, Mine
  <2>2. WorkerOf(i)' = None
    <3>1. \A q \in Runs : issue'[q] # i
      BY <1>1, <2>1, Working, HeartbeatAssumption DEF Worked
    <3>. QED BY <3>1, WorkingNext DEF Worked
  <2>3. StageOf(i)' = "free"
    BY <2>2 DEF StageOf
  <2>4. \A j \in Issues : j # i => issue[r] # j /\ issue'[r] # j
    BY <1>1, <2>1, HeartbeatAssumption
  <2>5. /\ workerBar' = [workerBar EXCEPT ![i] = None]
        /\ stageBar' = [stageBar EXCEPT ![i] = "free"]
    BY <1>1, <2>1, <2>2, <2>3, <2>4, OtherWork
  <2>6. ~Lifecycle!Free(i)
    BY <2>1, HeartbeatAssumption DEF Lifecycle!Free, workerBar, Lifecycle!None, None
  <2>7. Lifecycle!Leave(i)
    BY <2>5, <2>6 DEF Lifecycle!Leave, Lifecycle!None, None
  <2>. QED BY <2>7 DEF Lifecycle!Next
<1>. QED BY <1>2, <1>3

\* A granted checkout takes the issue; one the run does not know of takes none.
LEMMA TakeStep ==
  ASSUME IInv, IInv', NEW r \in Runs, NEW i \in Issues, Checkout(r, i)
  PROVE  Lifecycle!Next \/ UNCHANGED Lifecycle!vars
<1>1. issue[r] = None /\ UNCHANGED status
  BY DEF Checkout, IInv, Holding, Owning
<1>2. CASE TryNext(r, i)
  BY <1>1, <1>2, QuietStep DEF TryNext
<1>3. CASE MayGrant(i) /\ issue' = [issue EXCEPT ![r] = i] /\ Goto(r, "picked")
  <2>1. /\ \A q \in Runs : q # r => pc'[q] = pc[q] /\ issue'[q] = issue[q]
        /\ issue'[r] = i /\ pc'[r] = "picked"
    BY <1>3 DEF Goto, IInv, TypeOK
  <2>2. WorkerOf(i) = None /\ holder[i] = None /\ status[i] \notin {"done", "cancelled"}
    BY <1>3 DEF MayGrant, WorkerOf
  <2>3. WorkerOf(i)' = r /\ StageOf(i)' = "taken"
    BY <2>1, WorkingNext, HeartbeatAssumption DEF Worked, StageOf, StageAt
  <2>4. \A j \in Issues : j # i => issue[r] # j /\ issue'[r] # j
    BY <1>1, <2>1, HeartbeatAssumption
  <2>5. /\ workerBar' = [workerBar EXCEPT ![i] = r]
        /\ stageBar' = [stageBar EXCEPT ![i] = "taken"]
    BY <2>1, <2>3, <2>4, OtherWork
  <2>6. Lifecycle!Take(i)
    BY <1>1, <2>2, <2>5 DEF Lifecycle!Take, Lifecycle!Free, workerBar,
       Lifecycle!None, None
  <2>. QED BY <2>6 DEF Lifecycle!Next
<1>. QED BY <1>2, <1>3 DEF Checkout

\* The heartbeats implement the life cycle of an issue: from the first state on,
\* each of their steps is a step of it or changes nothing it speaks of.
THEOREM Implementation == Spec => ImplementsLifecycle
<1>1. Init => Lifecycle!Init
  <2>. SUFFICES ASSUME Init PROVE Lifecycle!Init
    OBVIOUS
  <2>1. \A i \in Issues : WorkerOf(i) = None /\ StageOf(i) = "free"
    BY DEF Init, WorkerOf, StageOf
  <2>. QED BY <2>1 DEF Init, Lifecycle!Init, workerBar, stageBar, Lifecycle!None, None
<1>2. IInv /\ [Next]_vars => IInv'
  BY TypeStep, HoldingStep DEF IInv
<1>3. ASSUME IInv, IInv', [Next]_vars
      PROVE  [Lifecycle!Next]_(Lifecycle!vars)
  <2>. USE <1>3
  <2>1. ASSUME NEW r \in Runs, FetchAssignments(r) PROVE [Lifecycle!Next]_(Lifecycle!vars)
    <3>1. issue[r] = None /\ UNCHANGED status
      BY <2>1 DEF FetchAssignments, IInv, Holding, Owning, server
    <3>2. CASE Forget(r)
      BY <3>1, <3>2, LeaveStep
    <3>3. CASE Goto(r, "checkout") /\ UNCHANGED issue
      BY <3>1, <3>3, QuietStep DEF Goto
    <3>. QED BY <2>1, <3>2, <3>3 DEF FetchAssignments
  <2>2. ASSUME NEW r \in Runs, NothingToDo(r) \/ Release(r) \/ Kill(r)
        PROVE  [Lifecycle!Next]_(Lifecycle!vars)
    BY <2>2, LeaveStep DEF NothingToDo, Release, Kill, server
  <2>3. ASSUME NEW r \in Runs, MarkInProgress(r) PROVE [Lifecycle!Next]_(Lifecycle!vars)
    <3>1. issue[r] \in Issues
      BY <2>3 DEF MarkInProgress, IInv, Holding, Owning
    <3>. QED BY <2>3, <3>1, MarkStep DEF Lifecycle!Next
  <2>4. ASSUME NEW r \in Runs,
               PostOutcome(r) \/ PostCancelled(r) \/ (BuildContext(r) /\ pc'[r] = "release")
        PROVE  [Lifecycle!Next]_(Lifecycle!vars)
    <3>1. issue[r] \in Issues
      BY <2>4 DEF PostOutcome, PostCancelled, BuildContext, IInv, Holding, Owning
    <3>. QED BY <2>4, <3>1, ConcludeStep DEF Lifecycle!Next
  <2>5. ASSUME NEW r \in Runs,
               \/ Start(r) \/ WorkflowEnds(r) \/ Sigterm(r) \/ SeeCancelled(r)
               \/ PollerGivesUp(r) \/ (BuildContext(r) /\ pc'[r] # "release")
        PROVE  [Lifecycle!Next]_(Lifecycle!vars)
    <3>1. /\ UNCHANGED <<status, issue>>
          /\ \A q \in Runs : q # r => pc'[q] = pc[q]
          /\ \/ pc'[r] = pc[r] \/ pc[r] = "idle"
             \/ pc[r] \in {"marked", "work"} /\ pc'[r] \in {"work", "post"}
      BY <2>5 DEF Start, WorkflowEnds, Sigterm, Conclude, SeeCancelled, PollerGivesUp,
         BuildContext, Goto, server, IInv, TypeOK
    <3>2. issue[r] # None => StageAt(pc'[r]) = StageAt(pc[r])
      BY <3>1 DEF StageAt, IInv, Holding, Owning
    <3>. QED BY <3>1, <3>2, QuietStep
  <2>6. ASSUME NEW i \in Issues, Expire(i) \/ Reply(i)
        PROVE  [Lifecycle!Next]_(Lifecycle!vars)
    BY <2>6, SameWork DEF Expire, Reply, run, Lifecycle!vars
  <2>7. ASSUME NEW i \in Issues, Cancel(i) \/ Reopen(i)
        PROVE  [Lifecycle!Next]_(Lifecycle!vars)
    <3>1. UNCHANGED <<workerBar, stageBar>>
      BY <2>7, SameWork DEF Cancel, Reopen, run
    <3>2. Lifecycle!Intervene(i)
      BY <2>7, <3>1 DEF Cancel, Reopen, Lifecycle!Intervene
    <3>. QED BY <3>2 DEF Lifecycle!Next
  <2>8. CASE UNCHANGED vars
    BY <2>8, SameWork DEF vars, server, run, Lifecycle!vars
  <2>. QED
    BY <2>1, <2>2, <2>3, <2>4, <2>5, <2>6, <2>7, <2>8, TakeStep DEF Next, Advance
<1>. QED BY Invariance, <1>1, <1>2, <1>3, PTL DEF Spec, ImplementsLifecycle, Lifecycle!Spec

-----------------------------------------------------------------------------
(* The spending breaker                                                    *)

\* A heartbeat that is about to half-open the breaker has read it open, and
\* nothing closes one.
Probing == \A p \in Procs : beat[p] = "probe" => row[agentOf[p]].state # "closed"

\* Only a heartbeat that read the row before it was locked may still write it, and
\* the one that locks it is the only one of a lone agent.
LoneLock ==
  \A a \in Agents : Cardinality(B!Of(a)) = 1 /\ B!Locked(a) =>
    \A p \in B!Of(a) : beat[p] \notin {"probe", "upsert"}

BreakerIInv == B!SpendingInv /\ Probing /\ LoneLock /\ killed \in Nat

-----------------------------------------------------------------------------
\* FiniteSets counts within the breaker as it does elsewhere.
LEMMA BreakerCounts ==
  \A S : (B!IsFiniteSet(S) <=> IsFiniteSet(S)) /\ B!Cardinality(S) = Cardinality(S)
BY DEF B!IsFiniteSet, IsFiniteSet, B!Cardinality, Cardinality

\* Before the first heartbeat no breaker is tripped and nothing was recorded.
LEMMA BreakerInitially == ASSUME B!SpendingAssumption PROVE B!Init => BreakerIInv
<1>. SUFFICES ASSUME B!Init PROVE BreakerIInv
  OBVIOUS
<1>0. Keep \in Nat /\ MaxStreak \in Nat \ {0}
  BY DEF B!SpendingAssumption
<1>e. ledger = <<>> /\ Len(ledger) = 0
  BY EmptySeq DEF B!Init
<1>1. B!TypeOK
  BY <1>0, <1>e, EmptySeq DEF B!Init, B!TypeOK, B!Row, B!Closed
<1>2. B!RunawayTrips
  <2>. SUFFICES ASSUME B!Streak PROVE FALSE
    BY DEF B!RunawayTrips
  <2>. QED BY <1>0, <1>e DEF B!Streak
<1>. QED BY <1>1, <1>2 DEF BreakerIInv, B!SpendingInv, B!Init, Probing, LoneLock, B!Locked,
     B!Closed

\* Recording an event keeps the newest Keep events, and the window within them.
LEMMA EventsKept ==
  ASSUME B!SpendingAssumption, B!TypeOK, NEW e \in B!Event, NEW l, l = Append(ledger, e)
  PROVE  LET new == IF Len(l) > Keep THEN Tail(l) ELSE l
         IN  /\ new \in Seq(B!Event) /\ Len(new) <= Keep
             /\ (IF window < Keep THEN window + 1 ELSE Keep) \in 0..Len(new)
<1>1. /\ ledger \in Seq(B!Event) /\ Len(ledger) \in Nat /\ Len(ledger) <= Keep
      /\ Keep \in Nat
      /\ window \in 0..Len(ledger)
  BY LenProperties DEF B!TypeOK, B!SpendingAssumption
<1>2. l \in Seq(B!Event) /\ Len(l) = Len(ledger) + 1
  BY <1>1, AppendProperties
<1>3. Tail(l) \in Seq(B!Event) /\ Len(Tail(l)) = Len(l) - 1
  BY <1>1, <1>2, HeadTailProperties, EmptySeq
<1>. QED BY <1>1, <1>2, <1>3

\* Every step of the heartbeats and of the time keeps the types, and a row has
\* an end of its cooldown exactly if it is not closed.
LEMMA BreakerTypes ==
  ASSUME B!SpendingAssumption PROVE BreakerIInv /\ [B!Next]_B!vars => B!TypeOK'
<1>. SUFFICES ASSUME BreakerIInv, [B!Next]_B!vars PROVE B!TypeOK'
  OBVIOUS
<1>. USE DEF BreakerIInv, B!SpendingInv, B!TypeOK, B!Go, B!Write
<1>1. ASSUME NEW p \in Procs, B!Check(p) PROVE B!TypeOK'
  BY <1>1 DEF B!Check
<1>2. ASSUME NEW p \in Procs, B!HalfOpen(p) PROVE B!TypeOK'
  <2>1. agentOf[p] \in Agents /\ row[agentOf[p]].state # "closed" /\ row[agentOf[p]] \in B!Row
    BY <1>2 DEF B!HalfOpen, Probing
  <2>2. /\ [row[agentOf[p]] EXCEPT !.state = "half_open"] \in B!Row
        /\ [row[agentOf[p]] EXCEPT !.state = "half_open"].state = "half_open"
        /\ [row[agentOf[p]] EXCEPT !.state = "half_open"].until # "none"
    BY <2>1 DEF B!Row
  <2>3. /\ row' \in [Agents -> B!Row]
        /\ \A a \in Agents : row'[a].state = "closed" <=> row'[a].until = "none"
    BY <1>2, <2>1, <2>2 DEF B!HalfOpen
  <2>. QED BY <1>2, <2>3 DEF B!HalfOpen
<1>3. ASSUME NEW p \in Procs, B!CheckFails(p) PROVE B!TypeOK'
  BY <1>3 DEF B!CheckFails
<1>4. ASSUME NEW p \in Procs, B!Record(p) PROVE B!TypeOK'
  <2>1. PICK e \in B!Event : ledger' = LET l == Append(ledger, e)
                                     IN  IF Len(l) > Keep THEN Tail(l) ELSE l
    BY <1>4 DEF B!Record
  <2>2. /\ ledger' \in Seq(B!Event) /\ Len(ledger') <= Keep
        /\ window' \in 0..Len(ledger')
    BY <1>4, <2>1, EventsKept DEF B!Record
  <2>. QED BY <1>4, <2>2 DEF B!Record
<1>5. ASSUME NEW p \in Procs, B!Raise(p) PROVE B!TypeOK'
  BY <1>5 DEF B!Raise
<1>6. ASSUME NEW p \in Procs, B!LockPermanently(p) PROVE B!TypeOK'
  BY <1>6 DEF B!LockPermanently, B!Row
<1>7. ASSUME NEW p \in Procs, B!Velocity(p) \/ B!Frequency(p) \/ B!Consecutive(p)
      PROVE  B!TypeOK'
  BY <1>7 DEF B!Velocity, B!Frequency, B!Consecutive, B!Evaluate
<1>8. ASSUME NEW p \in Procs, B!TripRead(p) PROVE B!TypeOK'
  <2>1. row[agentOf[p]].state \in {"closed", "open", "half_open"}
    BY DEF B!Row
  <2>. QED BY <1>8, <2>1 DEF B!TripRead
<1>9. ASSUME NEW p \in Procs, B!Trip(p) PROVE B!TypeOK'
  BY <1>9 DEF B!Trip, B!Row
<1>10. ASSUME NEW p \in Procs, B!Fail(p) PROVE B!TypeOK'
  BY <1>10 DEF B!Fail
<1>11. ASSUME NEW a \in Agents, B!CooldownEnds(a) PROVE B!TypeOK'
  BY <1>11 DEF B!CooldownEnds, B!Row
<1>12. CASE B!EventLeavesWindow
  BY <1>12 DEF B!EventLeavesWindow
<1>13. CASE UNCHANGED B!vars
  BY <1>13 DEF B!vars
<1>. QED
  BY <1>1, <1>2, <1>3, <1>4, <1>5, <1>6, <1>7, <1>8, <1>9, <1>10, <1>11, <1>12, <1>13
     DEF B!Next, B!Heartbeat

\* A heartbeat moves on only by a step of its own.
LEMMA BreakerOwnStep ==
  ASSUME B!TypeOK, [B!Next]_B!vars, NEW p \in Procs, beat'[p] # beat[p]
  PROVE  B!Heartbeat(p) \/ B!Fail(p)
<1>. USE DEF B!TypeOK, B!Go
<1>1. ASSUME NEW q \in Procs, q # p, B!Heartbeat(q) \/ B!Fail(q) PROVE beat'[p] = beat[p]
  BY <1>1 DEF B!Heartbeat, B!Check, B!HalfOpen, B!CheckFails, B!Record, B!Raise,
     B!LockPermanently, B!Velocity,
     B!Frequency, B!Consecutive, B!Evaluate, B!TripRead, B!Trip, B!Fail
<1>2. ASSUME NEW a \in Agents, B!CooldownEnds(a) PROVE beat' = beat
  BY <1>2 DEF B!CooldownEnds
<1>3. CASE B!EventLeavesWindow \/ UNCHANGED B!vars
  BY <1>3 DEF B!EventLeavesWindow, B!vars
<1>. QED BY <1>1, <1>2, <1>3 DEF B!Next

\* Nothing in the code closes a row again that was open or half-open.
LEMMA StaysTripped ==
  ASSUME B!TypeOK, [B!Next]_B!vars, NEW a \in Agents, row[a].state # "closed"
  PROVE  row'[a].state # "closed" /\ agentOf' = agentOf
<1>. USE DEF B!TypeOK, B!Go, B!Write
<1>1. ASSUME NEW p \in Procs, B!HalfOpen(p) \/ B!LockPermanently(p) \/ B!Trip(p)
      PROVE  row'[a].state # "closed" /\ agentOf' = agentOf
  <2>1. agentOf[p] \in Agents /\ row[agentOf[p]] \in B!Row
    OBVIOUS
  <2>2. \E r \in B!Row : r.state # "closed" /\ row' = [row EXCEPT ![agentOf[p]] = r]
    BY <1>1, <2>1 DEF B!HalfOpen, B!LockPermanently, B!Trip, B!Row
  <2>. QED BY <1>1, <2>1, <2>2 DEF B!HalfOpen, B!LockPermanently, B!Trip
<1>2. ASSUME NEW p \in Procs,
             \/ B!Check(p) \/ B!CheckFails(p) \/ B!Record(p) \/ B!Raise(p) \/ B!Velocity(p)
             \/ B!Frequency(p) \/ B!Consecutive(p) \/ B!TripRead(p) \/ B!Fail(p)
      PROVE  row' = row /\ agentOf' = agentOf
  BY <1>2 DEF B!Check, B!CheckFails, B!Record, B!Raise, B!Velocity, B!Frequency,
     B!Consecutive, B!Evaluate, B!TripRead, B!Fail
<1>3. ASSUME NEW b \in Agents, B!CooldownEnds(b)
      PROVE  row'[a].state # "closed" /\ agentOf' = agentOf
  BY <1>3 DEF B!CooldownEnds, B!Row
<1>4. CASE B!EventLeavesWindow \/ UNCHANGED B!vars
  BY <1>4 DEF B!EventLeavesWindow, B!vars
<1>. QED BY <1>1, <1>2, <1>3, <1>4 DEF B!Next, B!Heartbeat

\* A heartbeat about to half-open a breaker still finds it tripped.
LEMMA ProbingStep ==
  ASSUME BreakerIInv, [B!Next]_B!vars PROVE Probing'
<1>. SUFFICES ASSUME NEW p \in Procs, beat'[p] = "probe"
              PROVE  row'[agentOf'[p]].state # "closed"
  BY DEF Probing
<1>. USE DEF BreakerIInv, B!SpendingInv, B!TypeOK, B!Go
<1>1. agentOf[p] \in Agents
  OBVIOUS
<1>2. beat[p] = "probe" \/ B!Check(p)
  BY BreakerOwnStep DEF B!Heartbeat, B!HalfOpen, B!CheckFails, B!Record, B!Raise,
     B!LockPermanently, B!Velocity,
     B!Frequency, B!Consecutive, B!Evaluate, B!TripRead, B!Trip, B!Fail
<1>3. row[agentOf[p]].state # "closed"
  BY <1>2 DEF Probing, B!Check
<1>. QED BY <1>1, <1>3, StaysTripped

\* The permanent lock of an agent with one heartbeat stays, and its heartbeat does
\* not get past the check, but for an error of the check itself.
LEMMA LoneLockStep ==
  ASSUME B!SpendingAssumption, BreakerIInv, [B!Next]_B!vars
  PROVE  /\ LoneLock'
         /\ \A a \in Agents : Cardinality(B!Of(a)) = 1 /\ B!Locked(a) =>
              /\ B!Locked(a)'
              /\ killed' = killed =>
                   \A p \in B!Of(a) : beat[p] = "start" => beat'[p] = "start"
<1>. USE DEF BreakerIInv, B!SpendingInv, B!TypeOK, B!Go, B!Write
<1>1. agentOf' = agentOf
  BY DEF B!Next, B!Heartbeat, B!Check, B!HalfOpen, B!CheckFails, B!Record, B!Raise,
     B!LockPermanently, B!Velocity,
     B!Frequency, B!Consecutive, B!Evaluate, B!TripRead, B!Trip, B!Fail, B!CooldownEnds,
        B!EventLeavesWindow, B!vars
<1>. SUFFICES ASSUME NEW a \in Agents, Cardinality(B!Of(a)) = 1
              PROVE  /\ B!Locked(a)' => \A p \in B!Of(a) : beat'[p] \notin {"probe", "upsert"}
                     /\ B!Locked(a) =>
                          /\ B!Locked(a)'
                          /\ killed' = killed =>
                               \A p \in B!Of(a) : beat[p] = "start" => beat'[p] = "start"
  <2>1. \A b \in Agents : B!Of(b)' = B!Of(b)
    BY <1>1 DEF B!Of
  <2>. QED BY <2>1 DEF LoneLock
<1>2. PICK q \in Procs : B!Of(a) = {q} /\ agentOf[q] = a
  <2>1. B!Of(a) \subseteq Procs /\ IsFiniteSet(B!Of(a))
    BY BreakerCounts, FS_Subset DEF B!Of, B!SpendingAssumption
  <2>2. \E q : B!Of(a) = {q}
    BY <2>1, FS_Singleton
  <2>. QED BY <2>1, <2>2 DEF B!Of
<1>3. B!Locked(a) => beat[q] \notin {"probe", "upsert"}
  BY <1>2 DEF LoneLock
<1>. DEFINE Holds == /\ B!Locked(a)' => beat'[q] \notin {"probe", "upsert"}
                     /\ B!Locked(a) =>
                          /\ B!Locked(a)'
                          /\ killed' = killed => (beat[q] = "start" => beat'[q] = "start")
<1>4. ASSUME NEW p \in Procs, p # q, B!Heartbeat(p) \/ B!Fail(p) PROVE Holds
  <2>1. agentOf[p] # a /\ agentOf[p] \in Agents
    BY <1>2, <1>4 DEF B!Of
  <2>2. beat'[q] = beat[q] /\ row'[a] = row[a]
    BY <1>4, <2>1 DEF B!Heartbeat, B!Check, B!HalfOpen, B!CheckFails, B!Record, B!Raise,
       B!LockPermanently,
       B!Velocity, B!Frequency, B!Consecutive, B!Evaluate, B!TripRead, B!Trip, B!Fail
  <2>. QED BY <1>3, <2>2 DEF B!Locked
<1>f. killed + 1 # killed
  BY DEF BreakerIInv
<1>5. ASSUME B!Check(q) PROVE Holds
  BY <1>2, <1>3, <1>5 DEF B!Check, B!Locked
<1>6. ASSUME B!HalfOpen(q) \/ B!Trip(q) \/ B!LockPermanently(q) PROVE Holds
  <2>2. beat'[q] \notin {"probe", "upsert"} /\ beat[q] # "start"
    BY <1>6 DEF B!HalfOpen, B!Trip, B!LockPermanently
  <2>3. B!Locked(a) => B!Locked(a)'
    BY <1>2, <1>3, <1>6 DEF B!HalfOpen, B!Trip, B!LockPermanently, B!Locked
  <2>. QED BY <2>2, <2>3
<1>7. ASSUME B!CheckFails(q) \/ B!Fail(q) PROVE Holds
  <2>1. /\ row' = row /\ beat'[q] \notin {"probe", "upsert"}
        /\ beat[q] = "start" => killed' = killed + 1
    BY <1>7 DEF B!CheckFails, B!Fail
  <2>2. killed + 1 # killed
    BY <2>1, <1>f
  <2>. QED BY <2>1, <2>2 DEF B!Locked
<1>8. ASSUME B!Record(q) \/ B!Raise(q) \/ B!Velocity(q) \/ B!Frequency(q) \/ B!Consecutive(q)
      PROVE  Holds
  <2>1. row' = row /\ beat'[q] \notin {"probe", "upsert"} /\ beat[q] # "start"
    BY <1>8 DEF B!Record, B!Raise, B!Velocity, B!Frequency, B!Consecutive, B!Evaluate
  <2>. QED BY <2>1 DEF B!Locked
<1>9. ASSUME B!TripRead(q) PROVE Holds
  BY <1>2, <1>9 DEF B!TripRead, B!Locked
<1>10. ASSUME NEW b \in Agents, B!CooldownEnds(b) PROVE Holds
  BY <1>3, <1>10 DEF B!CooldownEnds, B!Locked, B!Row
<1>11. ASSUME B!EventLeavesWindow \/ UNCHANGED B!vars PROVE Holds
  BY <1>3, <1>11 DEF B!EventLeavesWindow, B!vars, B!Locked
<1>. QED
  BY <1>2, <1>4, <1>5, <1>6, <1>7, <1>8, <1>9, <1>10, <1>11 DEF B!Next, B!Heartbeat

\* The last of too many heartbeats in a row trips the breaker, is still recording,
\* or failed without being heard of.
LEMMA RunawayStep ==
  ASSUME B!SpendingAssumption, BreakerIInv, [B!Next]_B!vars PROVE B!RunawayTrips'
<1>. SUFFICES ASSUME B!Streak'
              PROVE  \/ row'[newest'].state # "closed"
                     \/ newest' \in unheard'
                     \/ \E p \in B!Of(newest') : B!Recording(p)'
  BY DEF B!RunawayTrips, B!Of, B!Next, B!Heartbeat, B!Check, B!HalfOpen, B!CheckFails,
     B!Record, B!Raise,
     B!LockPermanently, B!Velocity, B!Frequency, B!Consecutive, B!Evaluate, B!TripRead,
        B!Trip, B!Fail, B!CooldownEnds,
     B!EventLeavesWindow, B!vars
<1>. USE DEF BreakerIInv, B!SpendingInv, B!TypeOK, B!Go, B!Write
<1>1. ASSUME NEW p \in Procs, B!Record(p)
      PROVE  \E q \in B!Of(newest') : B!Recording(q)'
  BY <1>1 DEF B!Record, B!Of, B!Recording
<1>2. ASSUME \A p \in Procs : ~B!Record(p)
      PROVE  newest' = newest /\ B!Streak /\ unheard \subseteq unheard' /\ agentOf' = agentOf
  <2>1. ledger' = ledger /\ newest' = newest /\ unheard \subseteq unheard' /\ agentOf' = agentOf
    BY <1>2 DEF B!Next, B!Heartbeat, B!Check, B!HalfOpen, B!CheckFails, B!Raise,
       B!LockPermanently, B!Velocity, B!Frequency, B!Consecutive, B!Evaluate, B!TripRead,
          B!Trip, B!Fail,
       B!CooldownEnds, B!EventLeavesWindow, B!vars
  <2>. QED BY <2>1 DEF B!Streak
<1>3. ASSUME \A p \in Procs : ~B!Record(p), row[newest].state # "closed"
      PROVE  row'[newest'].state # "closed"
  BY <1>2, <1>3, StaysTripped
<1>4. ASSUME \A p \in Procs : ~B!Record(p), newest \in unheard
      PROVE  newest' \in unheard'
  BY <1>2, <1>4
<1>5. ASSUME \A p \in Procs : ~B!Record(p), row[newest].state = "closed", newest \notin unheard
      PROVE  \/ row'[newest'].state # "closed"
             \/ newest' \in unheard'
             \/ \E p \in B!Of(newest') : B!Recording(p)'
  <2>1. PICK p \in Procs : B!Recording(p) /\ agentOf[p] = newest
    BY <1>2, <1>5 DEF B!RunawayTrips, B!Of
  <2>2. newest' = newest /\ B!Streak /\ agentOf' = agentOf
    BY <1>2, <1>5
  <2>3. CASE B!Recording(p)'
    BY <2>1, <2>2, <2>3 DEF B!Of
  <2>4. CASE ~B!Recording(p)'
    <3>1. B!Heartbeat(p) \/ B!Fail(p)
      BY <2>1, <2>4, BreakerOwnStep DEF B!Recording
    <3>2. CASE B!Fail(p)
      BY <2>1, <2>2, <3>2 DEF B!Fail
    <3>3. CASE B!Trip(p)
      BY <2>1, <2>2, <3>3 DEF B!Trip
    <3>. QED BY <1>5, <2>1, <2>2, <2>4, <3>1, <3>2, <3>3
         DEF B!Recording, B!Heartbeat, B!Check, B!HalfOpen, B!CheckFails, B!Record, B!Raise,
         B!LockPermanently, B!Velocity, B!Frequency, B!Consecutive, B!Evaluate, B!TripRead
  <2>. QED BY <2>3, <2>4
<1>. QED BY <1>1, <1>3, <1>4, <1>5

\* The invariant of the breaker is inductive.
LEMMA BreakerStep ==
  ASSUME B!SpendingAssumption
  PROVE BreakerIInv /\ [B!Next]_B!vars => BreakerIInv'
<1>. SUFFICES ASSUME BreakerIInv, [B!Next]_B!vars PROVE BreakerIInv'
  OBVIOUS
<1>1. B!TypeOK' /\ Probing' /\ LoneLock' /\ B!RunawayTrips'
  BY BreakerTypes, ProbingStep, LoneLockStep, RunawayStep
<1>2. killed' \in Nat
  <2>1. killed' = killed \/ killed' = killed + 1
    BY DEF B!Next, B!Heartbeat, B!Check, B!HalfOpen, B!CheckFails, B!Record, B!Raise,
       B!LockPermanently,
       B!Velocity, B!Frequency, B!Consecutive, B!Evaluate, B!TripRead, B!Trip, B!Fail,
          B!CooldownEnds,
       B!EventLeavesWindow, B!vars
  <2>. QED BY <2>1 DEF BreakerIInv
<1>. QED BY <1>1, <1>2 DEF BreakerIInv, B!SpendingInv

\* A step beside the breaker leaves it alone.
LEMMA BreakerFrame == [MCNext]_all => [B!Next]_B!vars
BY DEF MCNext, all, breaker, B!vars

\* The invariant holds in every behaviour.
LEMMA BreakerInvariance == ASSUME B!SpendingAssumption PROVE MCSpec => []BreakerIInv
<1>1. MCInit => B!Init
  BY DEF MCInit
<1>. QED BY <1>1, BreakerFrame, BreakerInitially, BreakerStep, PTL DEF MCSpec

\* An agent that had too many heartbeats in a row has a tripped breaker once they
\* are all recorded, whatever the number of agents, of heartbeats that share one,
\* and of errors, and however their statements interleave.
THEOREM RunawaysAreStopped == ASSUME B!SpendingAssumption PROVE MCSpec => []SpendingInv
<1>1. BreakerIInv => SpendingInv
  BY DEF BreakerIInv, SpendingInv
<1>. QED BY <1>1, BreakerInvariance, PTL

\* A permanent lock is lifted only by a heartbeat that read the row before it was
\* locked, and never for an agent with one heartbeat, which it stops for good.
THEOREM LocksLast == ASSUME B!SpendingAssumption PROVE MCSpec => LocksHold
<1>1. BreakerIInv /\ [B!Next]_B!vars =>
        [\A a \in Agents : B!Locked(a) /\ ~B!Locked(a)' =>
           \E p \in B!Of(a) :
             \/ beat[p] = "probe"
             \/ beat[p] = "upsert" /\ seen[p] # "open"]_B!vars
  <2>. SUFFICES ASSUME BreakerIInv, [B!Next]_B!vars, NEW a \in Agents, B!Locked(a), ~B!Locked(a)'
                PROVE  \E p \in B!Of(a) :
                         beat[p] = "probe" \/ (beat[p] = "upsert" /\ seen[p] # "open")
    OBVIOUS
  <2>. USE DEF BreakerIInv, B!SpendingInv, B!TypeOK, B!Go, B!Write
  <2>1. row'[a] # row[a]
    BY DEF B!Locked
  <2>2. PICK p \in Procs : (B!HalfOpen(p) \/ B!Trip(p) \/ B!LockPermanently(p)) /\ agentOf[p] = a
    BY <2>1 DEF B!Next, B!Heartbeat, B!Check, B!HalfOpen, B!CheckFails, B!Record, B!Raise,
       B!LockPermanently, B!Velocity, B!Frequency, B!Consecutive, B!Evaluate, B!TripRead,
          B!Trip, B!Fail,
       B!CooldownEnds, B!EventLeavesWindow, B!vars, B!Locked
  <2>3. ~B!LockPermanently(p)
    BY <2>2 DEF B!LockPermanently, B!Locked
  <2>. QED BY <2>2, <2>3 DEF B!HalfOpen, B!Trip, B!Of
<1>2. BreakerIInv /\ [B!Next]_B!vars =>
        [\A a \in Agents : B!Cardinality(B!Of(a)) = 1 /\ B!Locked(a) =>
           /\ B!Locked(a)'
           /\ killed' = killed =>
                \A p \in B!Of(a) : beat[p] = "start" => beat'[p] = "start"]_B!vars
  BY LoneLockStep, BreakerCounts
<1>. QED
  BY <1>1, <1>2, BreakerInvariance, BreakerFrame, PTL DEF MCSpec, LocksHold, B!LocksHold,
     B!PermanentLockHolds, B!LockStopsLoneAgent

-----------------------------------------------------------------------------
(* The versions of a skill                                                 *)

StagesOfVersions == {"idle", "loaded", "promote", "archive", "unregister", "rename", "forget",
                     "register_winner", "sweep", "register_draft"}

\* No candidate's candidate gets into the index, so that the two versions that
\* are compared are always the first two.
VersionTypes ==
  /\ Ver!TypeOK /\ stage \in StagesOfVersions /\ entries \subseteq {0, 1}
  /\ name \in {0, 1} /\ tier \in {"local", "temp"}

\* The winner is on disk from the decision on, under its own name or the base's.
WinnerSurvives ==
  /\ stage \in {"archive", "unregister", "rename", "forget", "register_winner"} =>
       {winner, loser} = {0, 1}
  /\ stage = "archive" => Ver!Exists(0) /\ Ver!Exists(1)
  /\ stage = "unregister" => Ver!Exists(winner)
  /\ stage = "rename" => winner = 1 /\ Ver!Exists(1)
  /\ stage \in {"forget", "register_winner"} => winner = 1 /\ Ver!Exists(0)

\* Without a kill the index names what is on disk, but for what the step at hand
\* has still to add or to remove.
EntriesFollow ==
  deaths = 0 =>
    /\ stage \in {"idle", "loaded", "promote", "archive", "sweep"} =>
         0 \in entries /\ entries = {n \in {0, 1} : Ver!Exists(n)}
    /\ stage = "unregister" => entries = {0, 1} /\ ~Ver!Exists(loser)
    /\ stage = "rename" => entries = {1} /\ ~Ver!Exists(0)
    /\ stage = "forget" => entries = {1} /\ ~Ver!Exists(1)
    /\ stage = "register_winner" => entries = {} /\ ~Ver!Exists(1)
    /\ stage = "register_draft" =>
         /\ 0 \in entries /\ winner \in {1, 2} /\ Ver!Exists(winner)
         /\ entries = {n \in {0, 1} : Ver!Exists(n)} \ {winner}

VersionsIInv ==
  VersionTypes /\ WinnerSurvives /\ EntriesFollow /\ Ver!AVersionSurvives

LEMMA VersionsInitially ==
  ASSUME Ver!SkillVersionsAssumption PROVE Ver!Init => VersionsIInv
<1> SUFFICES ASSUME Ver!Init PROVE VersionsIInv
  OBVIOUS
<1> USE DEF Ver!Init, Ver!SkillVersionsAssumption, Ver!Names, Ver!NoDraft,
            Ver!Drafts, Ver!Exists
<1>1. Ver!Cardinality({}) = 0
  BY FS_EmptySet DEF Ver!Cardinality, Cardinality
<1>2. VersionTypes
  <2>1. \A n \in 0..2 : /\ outcomes[n] = {}
                        /\ outcomes[n] \cap Positive = {} /\ outcomes[n] \cap Negative = {}
    OBVIOUS
  <2>. QED BY <1>1, <2>1 DEF VersionTypes, Ver!TypeOK, StagesOfVersions
<1>3. {n \in {0, 1} : Ver!Exists(n)} = {0}
  BY <1>2
<1>. QED BY <1>2, <1>3 DEF VersionsIInv, WinnerSurvives, EntriesFollow, Ver!AVersionSurvives

\* At most one score is the highest, and at most one the lowest.
LEMMA OneScore ==
  ASSUME NEW S \in SUBSET Nat,
         NEW T \in {Ver!Highest(S), Ver!Lowest(S)}
  PROVE  T \subseteq S /\ Ver!Cardinality(T) <= 1
<1>1. \A x, y \in T : x = y
  BY DEF Ver!Highest, Ver!Lowest
<1>2. T = {} \/ \E x : T = {x}
  BY <1>1
<1>3. Cardinality(T) = 0 \/ Cardinality(T) = 1
  BY <1>2, FS_EmptySet, FS_Singleton, Zenon
<1>4. Ver!Cardinality(T) = Cardinality(T)
  BY DEF Ver!Cardinality, Cardinality
<1>. QED BY <1>3, <1>4 DEF Ver!Highest, Ver!Lowest

\* What is kept of a skill's scores.
LEMMA Kept ==
  ASSUME Ver!SkillVersionsAssumption,
         NEW scores \in SUBSET (Positive \cup Negative), NEW s \in Positive \cup Negative
  PROVE  /\ Ver!Keep(scores, s) \subseteq Positive \cup Negative
         /\ Ver!Cardinality(Ver!Keep(scores, s) \cap Positive) <= 1
         /\ Ver!Cardinality(Ver!Keep(scores, s) \cap Negative) <= 1
<1>. DEFINE each == scores \cup {s}
            high == Ver!Highest(each \cap Positive)
            low == Ver!Lowest(each \cap Negative)
<1>1. each \cap Positive \in SUBSET Nat /\ each \cap Negative \in SUBSET Nat
  BY DEF Ver!SkillVersionsAssumption
<1>2. /\ high \subseteq each \cap Positive /\ Ver!Cardinality(high) <= 1
      /\ low \subseteq each \cap Negative /\ Ver!Cardinality(low) <= 1
  BY <1>1, OneScore
<1>3. Ver!Keep(scores, s) = high \cup low
  BY DEF Ver!Keep
<1>. HIDE DEF high, low
<1>4. (high \cup low) \cap Positive = high /\ (high \cup low) \cap Negative = low
  BY <1>2 DEF Ver!SkillVersionsAssumption
<1>. QED BY <1>2, <1>3, <1>4

\* Two versions are compared only when the first two names exist.
LEMMA TwoVersions ==
  ASSUME VersionTypes, Ver!Decided
  PROVE  Ver!Exists(0) /\ Ver!Exists(1) /\ Ver!Base(name) = 0
<1>1. Ver!Base(name) = 0
  BY DEF VersionTypes, Ver!Base
<1>2. Ver!Versions(0) = {n \in {0, 1} : Ver!Exists(n)}
  BY DEF Ver!Versions, Ver!Names
<1>3. Ver!Cardinality(Ver!Versions(0)) = 2
  BY <1>1 DEF Ver!Decided
<1>4. \A S : Ver!Cardinality(S) = Cardinality(S)
  BY DEF Ver!Cardinality, Cardinality
<1>5. Cardinality({n \in {0, 1} : Ver!Exists(n)}) = 2
  BY <1>2, <1>3, <1>4
<1>6. ASSUME ~(Ver!Exists(0) /\ Ver!Exists(1)) PROVE FALSE
  <2>. DEFINE both == {n \in {0, 1} : Ver!Exists(n)}
  <2>1. both = {} \/ both = {0} \/ both = {1}
    BY <1>6
  <2>2. Cardinality(both) = 2
    BY <1>5
  <2>. HIDE DEF both
  <2>3. Cardinality(both) = 0 \/ Cardinality(both) = 1
    BY <2>1, FS_EmptySet, FS_Singleton, Zenon
  <2>. QED BY <2>2, <2>3
<1>. QED BY <1>1, <1>6

LEMMA VersionsStep ==
  ASSUME Ver!SkillVersionsAssumption, VersionsIInv, [Ver!Next]_Ver!vars
  PROVE  VersionsIInv'
<1>. DEFINE none == MaxDrafts + 1
<1>. USE DEF VersionsIInv, Ver!local
<1>t. /\ dir \in [0..2 -> 0..none] /\ none \in Nat /\ MaxDrafts \in Nat
      /\ \A n \in 0..2 : Ver!Exists(n) <=> dir[n] # none
      /\ Ver!Names = 0..2 /\ Ver!NoDraft = none
      /\ Ver!Drafts \cup {Ver!NoDraft} = 0..none
      /\ {name, chosen, winner, loser} \subseteq 0..2 /\ name \in {0, 1}
      /\ drafts \in 0..MaxDrafts /\ deaths \in 0..MaxDeaths /\ MaxDeaths \in Nat
      /\ outcomes \in [0..2 -> SUBSET (Positive \cup Negative)]
      /\ stage \in StagesOfVersions /\ entries \subseteq {0, 1} /\ tier \in {"local", "temp"}
  BY DEF VersionTypes, Ver!TypeOK, Ver!Names, Ver!Drafts, Ver!NoDraft,
     Ver!Exists, Ver!SkillVersionsAssumption
<1>e. \A n \in 0..2 : Ver!Exists(n)' <=> dir'[n] # none
  BY DEF Ver!Exists, Ver!NoDraft
\* What the types need of a step.
<1>f. ASSUME dir' \in [0..2 -> 0..none], outcomes' = outcomes, entries' \subseteq {0, 1},
             {name', chosen', winner', loser'} \subseteq 0..2, name' \in {0, 1}, tier' = tier,
             drafts' \in 0..MaxDrafts, deaths' \in 0..MaxDeaths, stage' \in StagesOfVersions
      PROVE  VersionTypes'
  BY <1>f, <1>t DEF VersionTypes, Ver!TypeOK
<1>. HIDE DEF none
<1>1. CASE UNCHANGED Ver!vars
  BY <1>1 DEF Ver!vars, VersionTypes, Ver!TypeOK, WinnerSurvives, EntriesFollow,
     Ver!AVersionSurvives, Ver!Exists
<1>2. CASE Ver!Find
  <2>1. /\ UNCHANGED <<dir, entries, outcomes, winner, loser, tier, drafts, deaths>>
        /\ stage = "idle" /\ stage' = "loaded" /\ name' \in entries
    BY <1>2 DEF Ver!Find
  <2>2. chosen' \in 0..2
    BY <1>2, <1>t, <2>1 DEF Ver!Find, Ver!Versions
  <2>3. VersionTypes'
    BY <1>f, <1>t, <2>1, <2>2 DEF StagesOfVersions
  <2>. QED BY <1>t, <1>e, <2>1, <2>3 DEF WinnerSurvives, EntriesFollow, Ver!AVersionSurvives,
         Ver!Exists
<1>3. CASE Ver!Record
  <2>1. /\ UNCHANGED <<dir, entries, tier, name, chosen, winner, loser, drafts, deaths>>
        /\ stage = "loaded" /\ stage' = "promote"
    BY <1>3 DEF Ver!Record
  <2>2. VersionTypes'
    <3>1. PICK s \in Positive \cup Negative :
            outcomes' = [outcomes EXCEPT ![name] = Ver!Keep(outcomes[name], s)]
      BY <1>3 DEF Ver!Record
    <3>2. outcomes[name] \in SUBSET (Positive \cup Negative)
      BY <1>t
    <3>. DEFINE kept == Ver!Keep(outcomes[name], s)
    <3>3. /\ kept \subseteq Positive \cup Negative
          /\ Ver!Cardinality(kept \cap Positive) <= 1
          /\ Ver!Cardinality(kept \cap Negative) <= 1
      BY <3>2, Kept
    <3>. HIDE DEF kept
    <3>4. \A n \in 0..2 : outcomes'[n] = IF n = name THEN kept ELSE outcomes[n]
      BY <1>t, <3>1 DEF kept
    <3>5. outcomes' \in [0..2 -> SUBSET (Positive \cup Negative)]
      BY <1>t, <3>1, <3>3 DEF kept
    <3>6. \A n \in 0..2 : /\ Ver!Cardinality(outcomes'[n] \cap Positive) <= 1
                          /\ Ver!Cardinality(outcomes'[n] \cap Negative) <= 1
      <4>1. \A n \in 0..2 : /\ Ver!Cardinality(outcomes[n] \cap Positive) <= 1
                            /\ Ver!Cardinality(outcomes[n] \cap Negative) <= 1
        BY <1>t DEF VersionTypes, Ver!TypeOK
      <4>. QED BY <3>3, <3>4, <4>1
    <3>. QED BY <1>t, <2>1, <3>5, <3>6 DEF VersionTypes, Ver!TypeOK, StagesOfVersions
  <2>. QED BY <2>1, <2>2 DEF WinnerSurvives, EntriesFollow, Ver!AVersionSurvives,
         Ver!Exists
<1>4. CASE Ver!RecordNothing
  <2>1. /\ UNCHANGED <<dir, entries, outcomes, tier, name, chosen, winner, loser, drafts, deaths>>
        /\ stage = "loaded" /\ stage' = "promote"
    BY <1>4 DEF Ver!RecordNothing
  <2>2. VersionTypes'
    BY <1>f, <1>t, <2>1 DEF StagesOfVersions
  <2>. QED BY <2>1, <2>2 DEF WinnerSurvives, EntriesFollow, Ver!AVersionSurvives,
         Ver!Exists
<1>5. CASE Ver!Decide
  <2>1. /\ UNCHANGED <<tier, dir, entries, outcomes, name, chosen, drafts, deaths>>
        /\ stage = "promote" /\ stage' = "archive"
    BY <1>5 DEF Ver!Decide
  <2>2. Ver!Exists(0) /\ Ver!Exists(1) /\ Ver!Base(name) = 0
    BY <1>5, TwoVersions DEF Ver!Decide
  <2>3. {winner', loser'} = {0, 1} /\ winner' \in {0, 1} /\ loser' \in {0, 1}
    <3>1. /\ winner' \in {0, 1} /\ loser' = IF winner' = 0 THEN 1 ELSE 0
      BY <1>5, <2>2 DEF Ver!Decide
    <3>. QED BY <3>1
  <2>4. VersionTypes'
    BY <1>f, <1>t, <2>1, <2>3 DEF StagesOfVersions
  <2>. QED BY <2>1, <2>2, <2>3, <2>4 DEF WinnerSurvives, EntriesFollow, Ver!AVersionSurvives,
         Ver!Exists
<1>6. CASE Ver!DecideNothing
  <2>1. /\ UNCHANGED <<dir, entries, outcomes, tier, name, chosen, winner, loser, drafts, deaths>>
        /\ stage = "promote" /\ stage' = "sweep"
    BY <1>6 DEF Ver!DecideNothing
  <2>2. VersionTypes'
    BY <1>f, <1>t, <2>1 DEF StagesOfVersions
  <2>. QED BY <2>1, <2>2 DEF WinnerSurvives, EntriesFollow, Ver!AVersionSurvives,
         Ver!Exists
<1>7. CASE Ver!Archive
  <2>1. /\ UNCHANGED <<entries, outcomes, tier, name, chosen, winner, loser, drafts, deaths>>
        /\ stage = "archive" /\ stage' = "unregister"
        /\ dir' = [dir EXCEPT ![loser] = none]
    BY <1>7, <1>t DEF Ver!Archive
  <2>2. /\ {winner, loser} = {0, 1} /\ winner # loser
        /\ Ver!Exists(0) /\ Ver!Exists(1)
    BY <2>1 DEF WinnerSurvives
  <2>3. /\ dir' \in [0..2 -> 0..none] /\ dir'[loser] = none
        /\ \A n \in 0..2 : n # loser => dir'[n] = dir[n]
    BY <1>t, <2>1
  <2>4. VersionTypes'
    BY <1>f, <1>t, <2>1, <2>3 DEF StagesOfVersions
  <2>5. Ver!Exists(winner)' /\ ~Ver!Exists(loser)' /\ (Ver!Exists(0)' \/ Ver!Exists(1)')
    BY <1>t, <1>e, <2>1, <2>2, <2>3
  <2>6. deaths = 0 => entries = {0, 1}
    BY <2>1, <2>2 DEF EntriesFollow
  <2>. QED BY <2>1, <2>2, <2>4, <2>5, <2>6 DEF WinnerSurvives, EntriesFollow, Ver!AVersionSurvives
<1>8. CASE Ver!Unregister
  <2>1. /\ UNCHANGED <<dir, outcomes, tier, name, chosen, winner, loser, drafts, deaths>>
        /\ stage = "unregister" /\ entries' = entries \ {loser}
        /\ stage' = IF winner = 0 \/ winner \notin entries THEN "sweep" ELSE "rename"
    BY <1>8, <1>t DEF Ver!Unregister, Ver!Base
  <2>2. /\ {winner, loser} = {0, 1} /\ winner # loser /\ Ver!Exists(winner)
        /\ deaths = 0 => entries = {0, 1} /\ ~Ver!Exists(loser)
    BY <2>1 DEF WinnerSurvives, EntriesFollow
  <2>3. VersionTypes'
    BY <1>f, <1>t, <2>1 DEF StagesOfVersions
  <2>4. \A n \in 0..2 : Ver!Exists(n)' <=> Ver!Exists(n)
    BY <1>t, <1>e, <2>1
  <2>5. (winner = 0 /\ loser = 1) \/ (winner = 1 /\ loser = 0)
    BY <2>2
  <2>6. CASE winner = 0
    <3>1. deaths = 0 => entries' = {0} /\ {n \in {0, 1} : Ver!Exists(n)'} = {0}
      BY <2>1, <2>2, <2>4, <2>5, <2>6
    <3>2. EntriesFollow'
      BY <2>1, <2>6, <3>1 DEF EntriesFollow
    <3>. QED BY <2>1, <2>2, <2>3, <2>4, <2>6, <3>2 DEF WinnerSurvives, Ver!AVersionSurvives
  <2>7. CASE winner = 1
    <3>1. deaths = 0 => entries' = {1} /\ ~Ver!Exists(0)' /\ stage' = "rename"
      BY <2>1, <2>2, <2>4, <2>5, <2>7
    <3>2. EntriesFollow'
      BY <2>1, <3>1 DEF EntriesFollow
    <3>. QED BY <2>1, <2>2, <2>3, <2>4, <2>7, <3>2 DEF WinnerSurvives, Ver!AVersionSurvives
  <2>. QED BY <2>5, <2>6, <2>7
<1>9. CASE Ver!Rename
  <2>1. /\ UNCHANGED <<entries, outcomes, tier, name, chosen, winner, loser, drafts, deaths>>
        /\ stage = "rename" /\ stage' = "forget" /\ winner = 1 /\ Ver!Exists(1)
        /\ {winner, loser} = {0, 1}
    BY <1>9 DEF Ver!Rename, WinnerSurvives
  <2>2. dir' = [dir EXCEPT ![0] = dir[1], ![1] = none]
    BY <1>9, <1>t, <2>1 DEF Ver!Rename, Ver!Base
  <2>3. /\ dir' \in [0..2 -> 0..none] /\ dir'[0] = dir[1] /\ dir'[1] = none
    BY <1>t, <2>2
  <2>4. VersionTypes'
    BY <1>f, <1>t, <2>1, <2>3 DEF StagesOfVersions
  <2>5. Ver!Exists(0)' /\ ~Ver!Exists(1)'
    BY <1>t, <1>e, <2>1, <2>3
  <2>. QED BY <2>1, <2>4, <2>5 DEF WinnerSurvives, EntriesFollow, Ver!AVersionSurvives
<1>10. CASE Ver!Forget
  <2>1. /\ UNCHANGED <<dir, outcomes, tier, name, chosen, winner, loser, drafts, deaths>>
        /\ stage = "forget" /\ stage' = "register_winner" /\ winner = 1 /\ Ver!Exists(0)
        /\ {winner, loser} = {0, 1} /\ entries' = entries \ {winner}
    BY <1>10 DEF Ver!Forget, WinnerSurvives
  <2>2. VersionTypes'
    BY <1>f, <1>t, <2>1 DEF StagesOfVersions
  <2>. QED BY <2>1, <2>2 DEF WinnerSurvives, EntriesFollow, Ver!AVersionSurvives,
         Ver!Exists
<1>11. CASE Ver!RegisterWinner
  <2>1. /\ UNCHANGED <<dir, outcomes, tier, name, chosen, winner, loser, drafts, deaths>>
        /\ stage = "register_winner" /\ stage' = "sweep" /\ winner = 1 /\ Ver!Exists(0)
        /\ entries' = entries \cup {0}
    BY <1>11, <1>t DEF Ver!RegisterWinner, WinnerSurvives, Ver!Base
  <2>2. VersionTypes'
    BY <1>f, <1>t, <2>1 DEF StagesOfVersions
  <2>3. \A n \in 0..2 : Ver!Exists(n)' <=> Ver!Exists(n)
    BY <1>t, <1>e, <2>1
  <2>4. deaths = 0 => entries' = {0} /\ {n \in {0, 1} : Ver!Exists(n)'} = {0}
    BY <2>1, <2>3 DEF EntriesFollow
  <2>. QED BY <2>1, <2>2, <2>3, <2>4 DEF WinnerSurvives, EntriesFollow, Ver!AVersionSurvives
<1>12. CASE Ver!Sweep
  <2>1. /\ UNCHANGED <<entries, outcomes, tier, name, chosen, winner, loser, drafts, deaths>>
        /\ stage = "sweep" /\ stage' = "idle"
        /\ dir' = [n \in 0..2 |-> IF tier = "temp" /\ n \notin entries THEN none ELSE dir[n]]
    BY <1>12, <1>t DEF Ver!Sweep
  <2>2. dir' \in [0..2 -> 0..none]
    BY <1>t, <2>1
  <2>3. VersionTypes'
    BY <1>f, <1>t, <2>1, <2>2 DEF StagesOfVersions
  <2>4. \A n \in 0..2 :
          Ver!Exists(n)' <=> Ver!Exists(n) /\ ~(tier = "temp" /\ n \notin entries)
    BY <1>t, <1>e, <2>1
  <2>5. deaths = 0 => /\ 0 \in entries /\ entries = {n \in {0, 1} : Ver!Exists(n)}
                      /\ \A n \in {0, 1} : Ver!Exists(n)' <=> Ver!Exists(n)
    BY <2>1, <2>4 DEF EntriesFollow
  <2>6. Ver!AVersionSurvives'
    BY <1>t, <2>1, <2>4, <2>5 DEF Ver!AVersionSurvives
  <2>. QED BY <2>1, <2>3, <2>5, <2>6 DEF WinnerSurvives, EntriesFollow
<1>13. CASE Ver!Draft
  <2>1. /\ UNCHANGED <<tier, entries, outcomes, name, chosen, loser, deaths>>
        /\ stage = "idle" /\ stage' = "register_draft" /\ drafts < MaxDrafts
        /\ drafts' = drafts + 1
    BY <1>13 DEF Ver!Draft
  <2>2. PICK n \in entries :
          /\ Ver!Exists(n) /\ n + 1 \in 0..2 /\ ~Ver!Exists(n + 1)
          /\ dir' = [dir EXCEPT ![n + 1] = drafts + 1] /\ winner' = n + 1
    BY <1>13, <1>t DEF Ver!Draft
  <2>3. n \in {0, 1} /\ drafts + 1 \in 0..MaxDrafts /\ drafts + 1 \in 0..none /\ drafts + 1 # none
    BY <1>t, <2>1 DEF none
  <2>4. /\ dir' \in [0..2 -> 0..none] /\ dir'[n + 1] = drafts + 1
        /\ \A k \in 0..2 : k # n + 1 => dir'[k] = dir[k]
    BY <1>t, <2>2, <2>3
  <2>5. VersionTypes'
    BY <1>f, <1>t, <2>1, <2>2, <2>3, <2>4 DEF StagesOfVersions
  <2>6. \A k \in 0..2 : Ver!Exists(k)' <=> Ver!Exists(k) \/ k = n + 1
    BY <1>t, <1>e, <2>3, <2>4
  <2>7. deaths = 0 => {k \in {0, 1} : Ver!Exists(k)'} \ {winner'} = entries /\ 0 \in entries
    BY <1>t, <2>1, <2>2, <2>3, <2>6 DEF EntriesFollow
  <2>. QED BY <1>t, <2>1, <2>2, <2>3, <2>5, <2>6, <2>7 DEF WinnerSurvives, EntriesFollow,
         Ver!AVersionSurvives
<1>14. CASE Ver!RegisterDraft
  <2>1. /\ UNCHANGED <<dir, outcomes, tier, name, chosen, winner, loser, drafts, deaths>>
        /\ stage = "register_draft" /\ stage' = "idle"
        /\ entries' = IF winner = 1 THEN entries \cup {1} ELSE entries
    BY <1>14 DEF Ver!RegisterDraft
  <2>2. VersionTypes'
    BY <1>f, <1>t, <2>1 DEF StagesOfVersions
  <2>3. \A n \in 0..2 : Ver!Exists(n)' <=> Ver!Exists(n)
    BY <1>t, <1>e, <2>1
  <2>4. deaths = 0 => 0 \in entries' /\ entries' = {n \in {0, 1} : Ver!Exists(n)'}
    BY <1>t, <2>1, <2>3 DEF EntriesFollow
  <2>. QED BY <2>1, <2>2, <2>3, <2>4 DEF WinnerSurvives, EntriesFollow, Ver!AVersionSurvives
<1>15. CASE Ver!Crash
  <2>1. /\ UNCHANGED <<dir, entries, outcomes, tier, name, chosen, winner, loser, drafts>>
        /\ stage' = "idle" /\ deaths < MaxDeaths /\ deaths' = deaths + 1
    BY <1>15 DEF Ver!Crash
  <2>2. VersionTypes' /\ deaths' # 0
    BY <1>f, <1>t, <2>1 DEF StagesOfVersions
  <2>. QED BY <2>1, <2>2 DEF WinnerSurvives, EntriesFollow, Ver!AVersionSurvives,
         Ver!Exists
<1>. QED BY <1>1, <1>2, <1>3, <1>4, <1>5, <1>6, <1>7, <1>8, <1>9, <1>10, <1>11, <1>12, <1>13,
       <1>14, <1>15 DEF Ver!Next

-----------------------------------------------------------------------------
(* The library                                                             *)

Turns == {"off", "find", "generate", "register", "download", "cache", "load", "track",
          "promote", "promoted", "sweep", "sweep_and_save", "save"}

LibraryTypes ==
  /\ Lib!TypeOK /\ turn \in [Beats -> Turns]
  /\ \A p \in Beats :
       /\ turn[p] \in {"generate", "register"} => doing[p] \in Generated
       /\ turn[p] \in {"download", "cache"} => doing[p] \in Remote
       /\ turn[p] \in {"promote", "promoted"} =>
            doing[p] \in Generated /\ Lib!Has(copy[p], "temp", doing[p])

\* What is generated is in temp/ or local/, what is downloaded in official/.
InTheirTiers(idx) ==
  \A s \in Lib!Skills :
    /\ Lib!Has(idx, "official", s) => s \in Remote
    /\ Lib!Has(idx, "local", s) \/ Lib!Has(idx, "temp", s) => s \in Generated
TiersAreKept == InTheirTiers(index) /\ \A p \in Beats : InTheirTiers(copy[p])

\* What a heartbeat knows that is alone: every entry of the file, unless it has
\* evicted some, and what is in temp/ once it has swept it.
KnowsAll(p) ==
  /\ turn[p] \notin {"sweep_and_save", "save"} => copy[p].entry = index.entry
  /\ \A s \in Lib!Skills : Lib!Has(index, "local", s) => Lib!Has(copy[p], "local", s)
  /\ turn[p] = "save" =>
       \A s \in Lib!Skills : disk["temp"][s] # Lib!Absent => Lib!Has(copy[p], "temp", s)
AloneKnowsAll == \A p \in Lib!Running : alone[p] => Lib!Running = {p} /\ KnowsAll(p)

\* What LibraryIsConsistent says of one skill.
Intact(idx, s) ==
  /\ \A t \in Lib!Tiers : Lib!Has(idx, t, s) =>
       disk[t][s] # Lib!Absent /\ idx.hash[s] = disk[t][s]
  /\ \A t, u \in Lib!Tiers : Lib!Has(idx, t, s) /\ Lib!Has(idx, u, s) => t = u
  /\ \A t \in {"official", "local"} : disk[t][s] # Lib!Absent => Lib!Has(idx, t, s)

\* In the hands of a heartbeat all skills are intact but the one it is at.
Handled(p, s) == turn[p] \in {"generate", "register", "cache", "promoted"} /\ s = doing[p]
Handling(p, s) ==
  /\ turn[p] \in {"generate", "register"} =>
       \A t \in {"official", "local"} : ~Lib!Has(copy[p], t, s) /\ disk[t][s] = Lib!Absent
  /\ turn[p] = "register" => text[p] # Lib!Absent /\ disk["temp"][s] = text[p]
  /\ turn[p] = "download" => disk["official"][s] = Lib!Absent
  /\ turn[p] = "cache" =>
       /\ \A t \in Lib!Tiers : ~Lib!Has(copy[p], t, s)
       /\ disk["official"][s] # Lib!Absent /\ disk["local"][s] = Lib!Absent
       /\ copy[p].hash[s] = disk["official"][s]
  /\ turn[p] = "promoted" =>
       /\ \A t \in Lib!Tiers : Lib!Has(copy[p], t, s) => t = "temp"
       /\ disk["official"][s] = Lib!Absent /\ disk["local"][s] # Lib!Absent
       /\ copy[p].hash[s] = disk["local"][s]

\* Its copy is the file but for the hashes of skills that have no entry.
Orderly(p) ==
  /\ \A s \in Lib!Skills : ~Handled(p, s) => Intact(copy[p], s)
  /\ Handling(p, doing[p])
  /\ turn[p] \notin {"sweep_and_save", "save"} =>
       \A s \in Lib!Known(index) : index.hash[s] = copy[p].hash[s]

OneByOne ==
  ~spoiled =>
    /\ \A p \in Lib!Running : alone[p] /\ Orderly(p)
    /\ Lib!Running = {} => \A s \in Lib!Skills : Intact(index, s)

LibraryIInv == LibraryTypes /\ TiersAreKept /\ AloneKnowsAll /\ OneByOne

-----------------------------------------------------------------------------

\* An entry is not the missing one.
LEMMA Entries ==
  ASSUME Lib!SkillLibraryAssumption
  PROVE  /\ Lib!NoEntry \notin Lib!Entry /\ Lib!Fresh \in Lib!Entry
         /\ Lib!Empty \in Lib!Index
         /\ \A t, s : t \in Lib!Tiers /\ s \in Lib!Skills => ~Lib!Has(Lib!Empty, t, s)
<1>. USE DEF Lib!SkillLibraryAssumption, Lib!NoEntry, Lib!Entry, Lib!Fresh
<1>1. Lib!NoEntry \notin Lib!Entry /\ Lib!Fresh \in Lib!Entry
  <2>1. MinUses + 1 \notin 0..MinUses /\ 0 \in 0..MinUses
    OBVIOUS
  <2>. QED BY <2>1
<1>2. Lib!Empty \in Lib!Index
  BY DEF Lib!Empty, Lib!Index, Lib!Content
<1>3. \A t, s : t \in Lib!Tiers /\ s \in Lib!Skills => ~Lib!Has(Lib!Empty, t, s)
  BY DEF Lib!Empty, Lib!Has
<1>. QED BY <1>1, <1>2, <1>3

\* What becomes of an index.
LEMMA EntryReplaced ==
  ASSUME NEW idx \in Lib!Index, NEW t \in Lib!Tiers, NEW s \in Lib!Skills,
         NEW e \in Lib!Entry \cup {Lib!NoEntry}, NEW new, new = Lib!WithEntry(idx, t, s, e)
  PROVE  /\ new \in Lib!Index /\ new.hash = idx.hash
         /\ \A u \in Lib!Tiers, r \in Lib!Skills :
              new.entry[u][r] = IF u = t /\ r = s THEN e ELSE idx.entry[u][r]
<1>1. /\ idx.entry \in [Lib!Tiers -> [Lib!Skills -> Lib!Entry \cup {Lib!NoEntry}]]
      /\ idx.hash \in [Lib!Skills -> Lib!Content]
      /\ idx = [entry |-> idx.entry, hash |-> idx.hash]
  BY DEF Lib!Index
<1>2. new = [entry |-> [idx.entry EXCEPT ![t] = [idx.entry[t] EXCEPT ![s] = e]], hash |-> idx.hash]
  BY <1>1 DEF Lib!WithEntry
<1>3. idx.entry[t] \in [Lib!Skills -> Lib!Entry \cup {Lib!NoEntry}]
  BY <1>1
<1>4. [idx.entry[t] EXCEPT ![s] = e] \in [Lib!Skills -> Lib!Entry \cup {Lib!NoEntry}]
  BY <1>3
<1>5. new \in Lib!Index
  BY <1>1, <1>2, <1>4 DEF Lib!Index
<1>. QED BY <1>1, <1>2, <1>3, <1>5

LEMMA HashReplaced ==
  ASSUME NEW idx \in Lib!Index, NEW s \in Lib!Skills, NEW c \in Lib!Content
  PROVE  /\ Lib!WithHash(idx, s, c) \in Lib!Index
         /\ Lib!WithHash(idx, s, c).entry = idx.entry
         /\ \A r \in Lib!Skills :
              Lib!WithHash(idx, s, c).hash[r] = IF r = s THEN c ELSE idx.hash[r]
<1>1. /\ idx.entry \in [Lib!Tiers -> [Lib!Skills -> Lib!Entry \cup {Lib!NoEntry}]]
      /\ idx.hash \in [Lib!Skills -> Lib!Content]
      /\ idx = [entry |-> idx.entry, hash |-> idx.hash]
  BY DEF Lib!Index
<1>2. Lib!WithHash(idx, s, c) = [entry |-> idx.entry, hash |-> [idx.hash EXCEPT ![s] = c]]
  BY <1>1 DEF Lib!WithHash
<1>. QED BY <1>1, <1>2 DEF Lib!Index

LEMMA LibraryInitially ==
  ASSUME Lib!SkillLibraryAssumption PROVE Lib!Init => LibraryIInv
<1> SUFFICES ASSUME Lib!Init PROVE LibraryIInv
  OBVIOUS
<1>. USE Entries DEF Lib!Init
<1>1. LibraryTypes
  <2>1. /\ disk \in [Lib!Tiers -> [Lib!Skills -> Lib!Content]]
        /\ text \in [Beats -> Lib!Content] /\ doing \in [Beats -> Lib!Skills \cup {Lib!Nothing}]
    BY DEF Lib!Content
  <2>2. 0 \in 0..MaxSessions /\ 0 \in 0..MaxEnds
    BY DEF Lib!SkillLibraryAssumption
  <2>3. turn \in [Beats -> Turns] /\ \A p \in Beats : turn[p] = "off"
    BY DEF Turns
  <2>. QED BY <2>1, <2>2, <2>3 DEF LibraryTypes, Lib!TypeOK
<1>2. TiersAreKept
  BY DEF TiersAreKept, InTheirTiers, Lib!Tiers
<1>3. Lib!Running = {}
  BY DEF Lib!Running
<1>4. OneByOne
  BY <1>3 DEF OneByOne, Intact, Lib!Tiers
<1>. QED BY <1>1, <1>2, <1>3, <1>4 DEF LibraryIInv, AloneKnowsAll

\* The step of a heartbeat that runs: it is the only one, or neither alone nor
\* in good order.
LEMMA OnlyOne ==
  ASSUME LibraryIInv, NEW p \in Lib!Running,
         \A q \in Beats : q # p => turn'[q] = turn[q],
         alone' = alone, spoiled' \in {spoiled, TRUE},
         alone[p] /\ turn'[p] # "off" => KnowsAll(p)',
         ~spoiled' /\ turn'[p] # "off" => Orderly(p)',
         ~spoiled' /\ turn'[p] = "off" => \A s \in Lib!Skills : Intact(index, s)'
  PROVE  AloneKnowsAll' /\ OneByOne'
<1>1. /\ Lib!Running' \subseteq Lib!Running
      /\ p \in Lib!Running' <=> turn'[p] # "off"
  BY DEF Lib!Running
<1>2. \A q \in Lib!Running : alone[q] => q = p
  BY DEF LibraryIInv, AloneKnowsAll
<1>3. AloneKnowsAll'
  <2>. SUFFICES ASSUME NEW q \in Lib!Running', alone'[q]
                PROVE  (Lib!Running = {q} /\ KnowsAll(q))'
    BY DEF AloneKnowsAll
  <2>1. q = p /\ Lib!Running = {p}
    BY <1>1, <1>2 DEF LibraryIInv, AloneKnowsAll
  <2>. QED BY <1>1, <2>1
<1>4. OneByOne'
  <2>. SUFFICES ASSUME ~spoiled'
                PROVE  (/\ \A q \in Lib!Running : alone[q] /\ Orderly(q)
                        /\ Lib!Running = {} => \A s \in Lib!Skills : Intact(index, s))'
    BY DEF OneByOne
  <2>1. \A q \in Lib!Running : alone[q]
    BY DEF LibraryIInv, OneByOne
  <2>2. Lib!Running = {p}
    BY <1>2, <2>1
  <2>. QED BY <1>1, <2>1, <2>2
<1>. QED BY <1>3, <1>4

\* The types of a step, of which one heartbeat is the actor.
LEMMA StepTypes ==
  ASSUME LibraryIInv, NEW p \in Beats,
         \A q \in Beats : q # p =>
           turn'[q] = turn[q] /\ copy'[q] = copy[q] /\ doing'[q] = doing[q],
         disk' \in [Lib!Tiers -> [Lib!Skills -> Lib!Content]],
         index' \in Lib!Index, copy' \in [Beats -> Lib!Index], turn' \in [Beats -> Turns],
         using' \in [Beats -> SUBSET Lib!Skills], touched' \in [Beats -> SUBSET Lib!Skills],
         doing' \in [Beats -> Lib!Skills \cup {Lib!Nothing}], text' \in [Beats -> Lib!Content],
         alone' \in [Beats -> BOOLEAN], spoiled' \in BOOLEAN,
         sessions' \in 0..MaxSessions, ends' \in 0..MaxEnds,
         turn'[p] \in {"generate", "register"} => doing'[p] \in Generated,
         turn'[p] \in {"download", "cache"} => doing'[p] \in Remote,
         turn'[p] \in {"promote", "promoted"} =>
           doing'[p] \in Generated /\ Lib!Has(copy'[p], "temp", doing'[p]),
         InTheirTiers(index'), InTheirTiers(copy'[p])
  PROVE  LibraryTypes' /\ TiersAreKept'
<1>1. LibraryTypes'
  <2>1. \A q \in Beats : q # p =>
          /\ turn'[q] \in {"generate", "register"} => doing'[q] \in Generated
          /\ turn'[q] \in {"download", "cache"} => doing'[q] \in Remote
          /\ turn'[q] \in {"promote", "promoted"} =>
               doing'[q] \in Generated /\ Lib!Has(copy'[q], "temp", doing'[q])
    BY DEF LibraryIInv, LibraryTypes
  <2>2. Lib!TypeOK'
    BY DEF Lib!TypeOK
  <2>3. \A q \in Beats : Lib!Has(copy, "temp", doing[q])' <=> Lib!Has(copy', "temp", doing'[q])
    BY DEF Lib!Has
  <2>. QED BY <2>1, <2>2 DEF LibraryTypes, Lib!Has
<1>2. TiersAreKept'
  <2>1. \A q \in Beats : InTheirTiers(copy'[q])
    BY DEF LibraryIInv, TiersAreKept
  <2>. QED BY <2>1 DEF TiersAreKept, InTheirTiers, Lib!Has
<1>. QED BY <1>1, <1>2

\* What a step finds.
LEMMA Found ==
  ASSUME Lib!SkillLibraryAssumption, LibraryIInv, NEW p \in Beats
  PROVE  /\ disk \in [Lib!Tiers -> [Lib!Skills -> Lib!Content]]
         /\ index \in Lib!Index /\ copy \in [Beats -> Lib!Index] /\ copy[p] \in Lib!Index
         /\ turn \in [Beats -> Turns]
         /\ using \in [Beats -> SUBSET Lib!Skills] /\ touched \in [Beats -> SUBSET Lib!Skills]
         /\ doing \in [Beats -> Lib!Skills \cup {Lib!Nothing}] /\ text \in [Beats -> Lib!Content]
         /\ alone \in [Beats -> BOOLEAN] /\ spoiled \in BOOLEAN
         /\ sessions \in 0..MaxSessions /\ ends \in 0..MaxEnds
         /\ InTheirTiers(index) /\ InTheirTiers(copy[p])
         /\ Lib!Tiers = {"official", "local", "temp"}
         /\ Generated \subseteq Lib!Skills /\ Remote \subseteq Lib!Skills
         /\ Generated \cap Remote = {} /\ Lib!Absent \notin Contents
         /\ Lib!Content = Contents \cup {Lib!Absent}
         /\ turn[p] # "off" => p \in Lib!Running
         /\ turn[p] # "off" /\ alone[p] => KnowsAll(p)
         /\ turn[p] # "off" /\ ~spoiled => alone[p] /\ KnowsAll(p) /\ Orderly(p)
         /\ copy[p].entry \in [Lib!Tiers -> [Lib!Skills -> Lib!Entry \cup {Lib!NoEntry}]]
         /\ copy[p].hash \in [Lib!Skills -> Lib!Content]
         /\ index.entry \in [Lib!Tiers -> [Lib!Skills -> Lib!Entry \cup {Lib!NoEntry}]]
<1>1. turn[p] # "off" => p \in Lib!Running
  BY DEF Lib!Running
<1>2. LibraryTypes /\ TiersAreKept /\ AloneKnowsAll /\ OneByOne
  BY DEF LibraryIInv
<1>3. index \in Lib!Index /\ copy[p] \in Lib!Index
  BY <1>2 DEF LibraryTypes, Lib!TypeOK
<1>. QED BY <1>1, <1>2, <1>3 DEF LibraryTypes, Lib!TypeOK, TiersAreKept, AloneKnowsAll, OneByOne,
       Lib!Skills, Lib!Tiers, Lib!Content, Lib!Index, Lib!SkillLibraryAssumption

LEMMA FindStep ==
  ASSUME Lib!SkillLibraryAssumption, LibraryIInv, NEW p \in Beats, Lib!Find(p)
  PROVE  LibraryIInv'
<1>. USE Found
<1>a. PICK matches \in SUBSET Lib!Known(copy[p]) :
        /\ turn[p] = "find" /\ using' = [using EXCEPT ![p] = matches]
        /\ UNCHANGED <<disk, index, torn, copy, text, touched, alone, spoiled, sessions, ends>>
        /\ \/ turn' = [turn EXCEPT ![p] = "load"] /\ doing' = doing
           \/ /\ turn' = [turn EXCEPT ![p] = "generate"]
              /\ \E s \in Generated \ Lib!Known(copy[p]) : doing' = [doing EXCEPT ![p] = s]
           \/ /\ turn' = [turn EXCEPT ![p] = "download"]
              /\ \E s \in Remote : /\ disk["official"][s] = Lib!Absent
                                   /\ doing' = [doing EXCEPT ![p] = s]
  <2>1. PICK m \in SUBSET Lib!Known(copy[p]) :
          /\ using' = [using EXCEPT ![p] = m]
          /\ \/ m # {} /\ Lib!Go(p, "load") /\ UNCHANGED doing
             \/ /\ m = {}
                /\ \E s \in Generated \ Lib!Known(copy[p]) : doing' = [doing EXCEPT ![p] = s]
                /\ Lib!Go(p, "generate")
             \/ /\ \E s \in Remote : /\ disk["official"][s] = Lib!Absent
                                     /\ doing' = [doing EXCEPT ![p] = s]
                /\ Lib!Go(p, "download")
    BY Zenon DEF Lib!Find
  <2>. QED BY <2>1 DEF Lib!Find, Lib!Go, Lib!history, Lib!files
<1>b. /\ using' \in [Beats -> SUBSET Lib!Skills]
      /\ turn' \in [Beats -> Turns]
      /\ \A q \in Beats : q # p => turn'[q] = turn[q]
  BY <1>a DEF Turns, Lib!Known
<1>c. /\ doing' \in [Beats -> Lib!Skills \cup {Lib!Nothing}]
      /\ \A q \in Beats : q # p => doing'[q] = doing[q]
      /\ \/ turn'[p] = "load" /\ doing' = doing
         \/ turn'[p] = "generate" /\ doing'[p] \in Generated \ Lib!Known(copy[p])
         \/ /\ turn'[p] = "download" /\ doing'[p] \in Remote
            /\ disk["official"][doing'[p]] = Lib!Absent
  <2>1. CASE turn' = [turn EXCEPT ![p] = "load"] /\ doing' = doing
    BY <2>1
  <2>2. CASE /\ turn' = [turn EXCEPT ![p] = "generate"]
             /\ \E s \in Generated \ Lib!Known(copy[p]) : doing' = [doing EXCEPT ![p] = s]
    <3>. PICK s \in Generated \ Lib!Known(copy[p]) : doing' = [doing EXCEPT ![p] = s]
      BY <2>2
    <3>. QED BY <2>2
  <2>3. CASE /\ turn' = [turn EXCEPT ![p] = "download"]
             /\ \E s \in Remote : /\ disk["official"][s] = Lib!Absent
                                  /\ doing' = [doing EXCEPT ![p] = s]
    <3>. PICK s \in Remote : disk["official"][s] = Lib!Absent /\ doing' = [doing EXCEPT ![p] = s]
      BY <2>3
    <3>. QED BY <2>3
  <2>. QED BY <1>a, <2>1, <2>2, <2>3
<1>1. /\ turn[p] = "find"
      /\ UNCHANGED <<disk, index, copy, text, touched, alone, spoiled, sessions, ends>>
      /\ using' \in [Beats -> SUBSET Lib!Skills]
      /\ \A q \in Beats : q # p => turn'[q] = turn[q] /\ doing'[q] = doing[q]
      /\ turn' \in [Beats -> Turns] /\ doing' \in [Beats -> Lib!Skills \cup {Lib!Nothing}]
      /\ \/ turn'[p] = "load" /\ doing' = doing
         \/ turn'[p] = "generate" /\ doing'[p] \in Generated \ Lib!Known(copy[p])
         \/ /\ turn'[p] = "download" /\ doing'[p] \in Remote
            /\ disk["official"][doing'[p]] = Lib!Absent
  BY <1>a, <1>b, <1>c
<1>2. LibraryTypes' /\ TiersAreKept'
  BY <1>1, StepTypes
<1>3. ASSUME alone[p] PROVE KnowsAll(p)'
  BY <1>1, <1>3 DEF KnowsAll, Lib!Has
<1>4. ASSUME ~spoiled PROVE Orderly(p)'
  <2>1. Orderly(p) /\ \A s \in Lib!Skills : Intact(copy[p], s)
    BY <1>1, <1>4 DEF Orderly, Handled
  <2>2. \A s \in Lib!Skills : Intact(copy[p], s)'
    BY <1>1, <2>1 DEF Intact, Lib!Has
  <2>3. Handling(p, doing[p])'
    <3>1. CASE turn'[p] = "load"
      BY <3>1 DEF Handling
    <3>2. CASE turn'[p] = "generate" /\ doing'[p] \in Generated \ Lib!Known(copy[p])
      <4>1. \A t \in {"official", "local"} : ~Lib!Has(copy[p], t, doing'[p])
        BY <3>2 DEF Lib!Known
      <4>2. \A t \in {"official", "local"} : disk[t][doing'[p]] = Lib!Absent
        BY <2>1, <3>2, <4>1 DEF Intact
      <4>. QED BY <1>1, <3>2, <4>1, <4>2 DEF Handling, Lib!Has
    <3>3. CASE turn'[p] = "download" /\ disk["official"][doing'[p]] = Lib!Absent
      BY <1>1, <3>3 DEF Handling
    <3>. QED BY <1>1, <3>1, <3>2, <3>3
  <2>. QED BY <1>1, <2>1, <2>2, <2>3 DEF Orderly, Lib!Known, Lib!Has
<1>5. AloneKnowsAll' /\ OneByOne'
  BY <1>1, <1>3, <1>4, OnlyOne DEF Turns
<1>. QED BY <1>2, <1>5 DEF LibraryIInv

LEMMA GenerateStep ==
  ASSUME Lib!SkillLibraryAssumption, LibraryIInv, NEW p \in Beats, Lib!Generate(p)
  PROVE  LibraryIInv'
<1>. USE Found
<1>1. /\ turn[p] = "generate" /\ doing[p] \in Generated
      /\ UNCHANGED <<index, copy, using, doing, touched, alone, spoiled, sessions, ends>>
      /\ turn' = [turn EXCEPT ![p] = "register"]
  BY DEF Lib!Generate, Lib!Go, Lib!history, LibraryIInv, LibraryTypes
<1>2. PICK c \in Contents : /\ disk' = [disk EXCEPT !["temp"][doing[p]] = c]
                            /\ text' = [text EXCEPT ![p] = c]
  BY DEF Lib!Generate, Lib!Write
<1>3. /\ disk' \in [Lib!Tiers -> [Lib!Skills -> Lib!Content]]
      /\ \A t \in Lib!Tiers, s \in Lib!Skills :
           disk'[t][s] = IF t = "temp" /\ s = doing[p] THEN c ELSE disk[t][s]
  BY <1>1, <1>2
<1>4. LibraryTypes' /\ TiersAreKept'
  BY <1>1, <1>2, <1>3, StepTypes DEF Turns
<1>5. ASSUME alone[p] PROVE KnowsAll(p)'
  BY <1>1, <1>5 DEF KnowsAll, Lib!Has
<1>6. ASSUME ~spoiled PROVE Orderly(p)'
  <2>1. Orderly(p) /\ \A s \in Lib!Skills : s # doing[p] => Intact(copy[p], s)
    BY <1>1, <1>6 DEF Orderly, Handled
  <2>2. \A s \in Lib!Skills : s # doing[p] => Intact(copy[p], s)'
    BY <1>1, <1>3, <2>1 DEF Intact, Lib!Has
  <2>3. Handling(p, doing[p])'
    BY <1>1, <1>2, <1>3, <2>1 DEF Handling, Orderly, Lib!Has
  <2>. QED BY <1>1, <2>1, <2>2, <2>3 DEF Orderly, Lib!Known, Lib!Has, Handled
<1>7. AloneKnowsAll' /\ OneByOne'
  BY <1>1, <1>5, <1>6, OnlyOne
<1>. QED BY <1>4, <1>7 DEF LibraryIInv

\* A heartbeat that ends forgets everything.
LEMMA Ended ==
  ASSUME Lib!SkillLibraryAssumption, LibraryIInv, NEW p \in Beats, Lib!End(p)
  PROVE  /\ turn'[p] = "off" /\ copy'[p] = Lib!Empty
         /\ \A q \in Beats : q # p =>
              turn'[q] = turn[q] /\ copy'[q] = copy[q] /\ doing'[q] = doing[q]
         /\ copy' \in [Beats -> Lib!Index] /\ turn' \in [Beats -> Turns]
         /\ using' \in [Beats -> SUBSET Lib!Skills] /\ touched' \in [Beats -> SUBSET Lib!Skills]
         /\ doing' \in [Beats -> Lib!Skills \cup {Lib!Nothing}]
         /\ text' \in [Beats -> Lib!Content]
         /\ InTheirTiers(copy'[p])
<1>. USE Found, Entries DEF Lib!End
<1>1. turn' = [turn EXCEPT ![p] = "off"] /\ copy' = [copy EXCEPT ![p] = Lib!Empty]
  BY DEF Lib!Go, Lib!Remember
<1>2. /\ turn'[p] = "off" /\ copy'[p] = Lib!Empty
      /\ copy' \in [Beats -> Lib!Index] /\ turn' \in [Beats -> Turns]
      /\ \A q \in Beats : q # p => turn'[q] = turn[q] /\ copy'[q] = copy[q]
  BY <1>1 DEF Turns
<1>3. /\ using' \in [Beats -> SUBSET Lib!Skills] /\ touched' \in [Beats -> SUBSET Lib!Skills]
      /\ doing' \in [Beats -> Lib!Skills \cup {Lib!Nothing}]
      /\ text' \in [Beats -> Lib!Content]
      /\ \A q \in Beats : q # p => doing'[q] = doing[q]
  OBVIOUS
<1>4. InTheirTiers(copy'[p])
  BY <1>2 DEF InTheirTiers
<1>. QED BY <1>2, <1>3, <1>4

\* As long as it has evicted nothing, what it knows to be intact is so in the file.
LEMMA IntactInFile ==
  ASSUME LibraryIInv, NEW p \in Lib!Running, ~spoiled,
         turn[p] \notin {"sweep_and_save", "save"}, NEW s \in Lib!Skills, ~Handled(p, s)
  PROVE  Intact(index, s)
<1>1. KnowsAll(p) /\ Orderly(p)
  BY DEF LibraryIInv, AloneKnowsAll, OneByOne
<1>2. Intact(copy[p], s) /\ \A t : Lib!Has(index, t, s) <=> Lib!Has(copy[p], t, s)
  BY <1>1 DEF Orderly, KnowsAll, Lib!Has
<1>3. (\E t \in Lib!Tiers : Lib!Has(index, t, s)) => index.hash[s] = copy[p].hash[s]
  BY <1>1 DEF Orderly, Lib!Known
<1>. QED BY <1>2, <1>3 DEF Intact

\* The index in which a generated skill is registered: the hash of one that is
\* known is replaced, a new one is given an entry.
LEMMA Registered ==
  ASSUME Lib!SkillLibraryAssumption, NEW idx \in Lib!Index, NEW s \in Lib!Skills,
         NEW written \in Lib!Content, NEW there \in Lib!Content, NEW new,
         new = IF Lib!Has(idx, "temp", s) THEN Lib!WithHash(idx, s, written)
               ELSE Lib!WithHash(Lib!WithEntry(idx, "temp", s, Lib!Fresh), s, there)
  PROVE  /\ new \in Lib!Index
         /\ \A t \in Lib!Tiers, r \in Lib!Skills :
              Lib!Has(new, t, r) <=> Lib!Has(idx, t, r) \/ (t = "temp" /\ r = s)
         /\ \A r \in Lib!Skills : r # s => new.hash[r] = idx.hash[r]
         /\ new.hash[s] = IF Lib!Has(idx, "temp", s) THEN written ELSE there
<1>1. CASE Lib!Has(idx, "temp", s)
  <2>1. new = Lib!WithHash(idx, s, written)
    BY <1>1
  <2>. QED BY <1>1, <2>1, HashReplaced DEF Lib!Has
<1>2. CASE ~Lib!Has(idx, "temp", s)
  <2>. DEFINE middle == Lib!WithEntry(idx, "temp", s, Lib!Fresh)
  <2>1. "temp" \in Lib!Tiers /\ Lib!Fresh \in Lib!Entry /\ Lib!Fresh # Lib!NoEntry
    BY Entries DEF Lib!Tiers
  <2>2. /\ middle \in Lib!Index /\ middle.hash = idx.hash
        /\ \A t \in Lib!Tiers, r \in Lib!Skills :
             middle.entry[t][r] = IF t = "temp" /\ r = s THEN Lib!Fresh ELSE idx.entry[t][r]
    BY <2>1, EntryReplaced
  <2>3. new = Lib!WithHash(middle, s, there)
    BY <1>2
  <2>. HIDE DEF middle
  <2>4. /\ new \in Lib!Index /\ new.entry = middle.entry
        /\ \A r \in Lib!Skills : new.hash[r] = IF r = s THEN there ELSE middle.hash[r]
    BY <2>2, <2>3, HashReplaced
  <2>. QED BY <1>2, <2>1, <2>2, <2>4 DEF Lib!Has
<1>. QED BY <1>1, <1>2

LEMMA RegisterStep ==
  ASSUME Lib!SkillLibraryAssumption, LibraryIInv, NEW p \in Beats, Lib!Register(p)
  PROVE  LibraryIInv'
<1>. USE Found
<1>. DEFINE s == doing[p]
            known == Lib!Has(copy[p], "temp", s)
            there == disk["temp"][s]
            new == IF known THEN Lib!WithHash(copy[p], s, text[p])
                   ELSE Lib!WithHash(Lib!WithEntry(copy[p], "temp", s, Lib!Fresh), s, there)
<1>1. /\ turn[p] = "register" /\ s \in Generated /\ (known \/ there # Lib!Absent)
      /\ copy' = [copy EXCEPT ![p] = new] /\ index' = new
      /\ using' = [using EXCEPT ![p] = @ \cup {s}]
      /\ touched' = [touched EXCEPT ![p] = @ \cup {s}]
      /\ \/ turn' = [turn EXCEPT ![p] = "load"] \/ turn' = [turn EXCEPT ![p] = "generate"]
      /\ UNCHANGED <<disk, doing, text, alone, spoiled, sessions, ends>>
  BY DEF Lib!Register, Lib!Go, Lib!Save, Lib!Remember, Lib!history, LibraryIInv, LibraryTypes
<1>2. /\ new \in Lib!Index
      /\ \A t \in Lib!Tiers, r \in Lib!Skills :
           Lib!Has(new, t, r) <=> Lib!Has(copy[p], t, r) \/ (t = "temp" /\ r = s)
      /\ \A r \in Lib!Skills : r # s => new.hash[r] = copy[p].hash[r]
      /\ new.hash[s] = IF known THEN text[p] ELSE there
  BY <1>1, Registered
<1>. HIDE DEF new
<1>3. /\ copy' \in [Beats -> Lib!Index] /\ copy'[p] = new
      /\ turn' \in [Beats -> Turns] /\ turn'[p] \in {"load", "generate"}
      /\ \A q \in Beats : q # p => turn'[q] = turn[q] /\ copy'[q] = copy[q]
  BY <1>1, <1>2, ZenonT(40) DEF Turns
<1>4. InTheirTiers(new)
  BY <1>1, <1>2 DEF InTheirTiers
<1>5. LibraryTypes' /\ TiersAreKept'
  BY <1>1, <1>2, <1>3, <1>4, StepTypes
<1>6. KnowsAll(p)'
  BY <1>1, <1>3 DEF KnowsAll, Lib!Has
<1>7. ASSUME ~spoiled PROVE Orderly(p)'
  <2>1. /\ \A t \in {"official", "local"} : ~Lib!Has(copy[p], t, s) /\ disk[t][s] = Lib!Absent
        /\ text[p] # Lib!Absent /\ there = text[p]
    BY <1>1, <1>7 DEF Orderly, Handling
  <2>2. \A r \in Lib!Skills : r # s => Intact(copy[p], r)
    BY <1>1, <1>7 DEF Orderly, Handled
  <2>3. \A r \in Lib!Skills : r # s => Intact(copy[p], r)'
    BY <1>1, <1>2, <1>3, <2>2 DEF Intact, Lib!Has
  <2>4. /\ \A t \in Lib!Tiers : Lib!Has(new, t, s) => t = "temp"
        /\ new.hash[s] = disk["temp"][s] /\ disk["temp"][s] # Lib!Absent
    <3>1. \A t \in Lib!Tiers : Lib!Has(new, t, s) => t = "temp"
      <4>1. \A t \in Lib!Tiers : t = "temp" \/ ~Lib!Has(copy[p], t, s)
        BY <2>1
      <4>2. s \in Lib!Skills
        BY <1>1
      <4>. QED BY <1>2, <4>1, <4>2
    <3>. QED BY <1>2, <3>1, <2>1
  <2>5. Intact(copy[p], s)'
    BY <1>1, <1>3, <2>1, <2>4 DEF Intact, Lib!Has
  <2>6. Handling(p, doing[p])'
    BY <1>1, <1>3, <2>1, <2>4 DEF Handling, Lib!Has
  <2>. QED BY <1>1, <1>3, <2>3, <2>5, <2>6 DEF Orderly
<1>8. AloneKnowsAll' /\ OneByOne'
  BY <1>1, <1>3, <1>6, <1>7, OnlyOne
<1>. QED BY <1>5, <1>8 DEF LibraryIInv

LEMMA RejectStep ==
  ASSUME Lib!SkillLibraryAssumption, LibraryIInv, NEW p \in Beats, Lib!Reject(p)
  PROVE  LibraryIInv'
<1>. USE Found
<1>1. /\ turn[p] = "register" /\ ~Lib!Has(copy[p], "temp", doing[p])
      /\ disk["temp"][doing[p]] = Lib!Absent \/ ends < MaxEnds
      /\ ends' = IF disk["temp"][doing[p]] = Lib!Absent THEN ends ELSE ends + 1
      /\ Lib!End(p) /\ UNCHANGED <<disk, index, alone, spoiled, sessions>>
  BY DEF Lib!Reject, Lib!files
<1>2. ends' \in 0..MaxEnds
  BY <1>1 DEF Lib!SkillLibraryAssumption
<1>3. LibraryTypes' /\ TiersAreKept'
  BY <1>1, <1>2, Ended, StepTypes
<1>4. ASSUME ~spoiled PROVE \A s \in Lib!Skills : Intact(index, s)'
  <2>1. \A s \in Lib!Skills : s # doing[p] => Intact(index, s)
    BY <1>1, <1>4, IntactInFile DEF Handled
  <2>2. /\ \A t \in {"official", "local"} :
             ~Lib!Has(copy[p], t, doing[p]) /\ disk[t][doing[p]] = Lib!Absent
        /\ copy[p].entry = index.entry
    BY <1>1, <1>4 DEF Orderly, Handling, KnowsAll
  <2>3. \A t \in Lib!Tiers : ~Lib!Has(index, t, doing[p])
    BY <1>1, <2>2 DEF Lib!Has
  <2>4. Intact(index, doing[p])
    BY <2>2, <2>3 DEF Intact
  <2>. QED BY <1>1, <2>1, <2>4, SMTT(30) DEF Intact, Lib!Has
<1>5. AloneKnowsAll' /\ OneByOne'
  BY <1>1, <1>4, Ended, OnlyOne
<1>. QED BY <1>3, <1>5 DEF LibraryIInv

LEMMA DownloadStep ==
  ASSUME Lib!SkillLibraryAssumption, LibraryIInv, NEW p \in Beats, Lib!Download(p)
  PROVE  LibraryIInv'
<1>. USE Found
<1>. DEFINE s == doing[p]
<1>1. /\ turn[p] = "download" /\ s \in Remote
      /\ UNCHANGED <<index, using, doing, text, touched, alone, spoiled, sessions, ends>>
      /\ turn' = [turn EXCEPT ![p] = "cache"]
  BY DEF Lib!Download, Lib!Go, Lib!history, LibraryIInv, LibraryTypes
<1>2. PICK c \in Contents : /\ disk' = [disk EXCEPT !["official"][s] = c]
                            /\ copy' = [copy EXCEPT ![p] = Lib!WithHash(copy[p], s, c)]
  BY DEF Lib!Download, Lib!Write, Lib!Remember
<1>. DEFINE new == Lib!WithHash(copy[p], s, c)
<1>3. /\ new \in Lib!Index /\ new.entry = copy[p].entry
      /\ \A r \in Lib!Skills : new.hash[r] = IF r = s THEN c ELSE copy[p].hash[r]
  BY <1>1, HashReplaced
<1>4. /\ disk' \in [Lib!Tiers -> [Lib!Skills -> Lib!Content]]
      /\ \A t \in Lib!Tiers, r \in Lib!Skills :
           disk'[t][r] = IF t = "official" /\ r = s THEN c ELSE disk[t][r]
  BY <1>1, <1>2
<1>5. /\ copy' \in [Beats -> Lib!Index] /\ copy'[p] = new
      /\ turn' \in [Beats -> Turns] /\ turn'[p] = "cache"
      /\ \A q \in Beats : q # p => turn'[q] = turn[q] /\ copy'[q] = copy[q]
  <2>. HIDE DEF new
  <2>1. copy' = [copy EXCEPT ![p] = new]
    BY <1>2 DEF new
  <2>. QED BY <1>1, <2>1, <1>3 DEF Turns
<1>. HIDE DEF new
<1>6. \A t, r : Lib!Has(new, t, r) <=> Lib!Has(copy[p], t, r)
  BY <1>3 DEF Lib!Has
<1>7. LibraryTypes' /\ TiersAreKept'
  <2>1. InTheirTiers(new)
    BY <1>6 DEF InTheirTiers
  <2>. QED BY <1>1, <1>4, <1>5, <2>1, StepTypes
<1>8. ASSUME alone[p] PROVE KnowsAll(p)'
  BY <1>1, <1>3, <1>5, <1>8 DEF KnowsAll, Lib!Has
<1>9. ASSUME ~spoiled PROVE Orderly(p)'
  <2>1. Orderly(p) /\ KnowsAll(p) /\ Intact(copy[p], s) /\ disk["official"][s] = Lib!Absent
    BY <1>1, <1>9 DEF Orderly, Handled, Handling
  <2>2. \A t \in Lib!Tiers : ~Lib!Has(copy[p], t, s)
    <3>1. s \notin Generated
      BY <1>1
    <3>2. ~Lib!Has(copy[p], "local", s) /\ ~Lib!Has(copy[p], "temp", s)
      BY <1>1, <3>1 DEF InTheirTiers
    <3>3. ~Lib!Has(copy[p], "official", s)
      BY <2>1 DEF Intact
    <3>. QED BY <3>2, <3>3
  <2>3. disk["local"][s] = Lib!Absent
    BY <1>1, <2>1, <2>2 DEF Intact
  <2>4. Handling(p, s)'
    BY <1>1, <1>3, <1>4, <1>5, <1>6, <2>2, <2>3 DEF Handling, Lib!Has
  <2>5. \A r \in Lib!Skills : r # s => Intact(copy[p], r)
    BY <1>1, <2>1 DEF Orderly, Handled
  <2>6. \A r \in Lib!Skills : r # s => Intact(copy[p], r)'
    BY <1>3, <1>4, <1>5, <2>5 DEF Intact, Lib!Has
  <2>7. \A r \in Lib!Known(index) : r # s /\ index.hash[r] = new.hash[r]
    BY <1>1, <1>3, <2>1, <2>2 DEF Orderly, KnowsAll, Lib!Known, Lib!Has
  <2>. QED BY <1>1, <1>5, <2>4, <2>6, <2>7 DEF Orderly, Handled, Lib!Known, Lib!Has
<1>10. AloneKnowsAll' /\ OneByOne'
  BY <1>1, <1>5, <1>8, <1>9, OnlyOne
<1>. QED BY <1>7, <1>10 DEF LibraryIInv

LEMMA CacheStep ==
  ASSUME Lib!SkillLibraryAssumption, LibraryIInv, NEW p \in Beats, Lib!Cache(p)
  PROVE  LibraryIInv'
<1>. USE Found
<1>. DEFINE s == doing[p]
            new == Lib!WithEntry(copy[p], "official", s, Lib!Fresh)
<1>1. /\ turn[p] = "cache" /\ s \in Remote
      /\ copy' = [copy EXCEPT ![p] = new] /\ index' = new
      /\ using' = [using EXCEPT ![p] = @ \cup {s}]
      /\ touched' = [touched EXCEPT ![p] = @ \cup {s}]
      /\ turn' = [turn EXCEPT ![p] = "load"]
      /\ UNCHANGED <<disk, doing, text, alone, spoiled, sessions, ends>>
  BY DEF Lib!Cache, Lib!Go, Lib!Save, Lib!Remember, Lib!history, LibraryIInv, LibraryTypes
<1>2. /\ new \in Lib!Index /\ new.hash = copy[p].hash
      /\ \A t \in Lib!Tiers, r \in Lib!Skills :
           Lib!Has(new, t, r) <=> Lib!Has(copy[p], t, r) \/ (t = "official" /\ r = s)
  <2>1. "official" \in Lib!Tiers /\ Lib!Fresh \in Lib!Entry /\ Lib!Fresh # Lib!NoEntry
    BY Entries
  <2>2. /\ new \in Lib!Index /\ new.hash = copy[p].hash
        /\ \A t \in Lib!Tiers, r \in Lib!Skills :
             new.entry[t][r] = IF t = "official" /\ r = s THEN Lib!Fresh ELSE copy[p].entry[t][r]
    BY <1>1, <2>1, EntryReplaced
  <2>. HIDE DEF new
  <2>. QED BY <2>1, <2>2 DEF Lib!Has
<1>. HIDE DEF new
<1>3. /\ copy' \in [Beats -> Lib!Index] /\ copy'[p] = new
      /\ turn' \in [Beats -> Turns] /\ turn'[p] = "load"
      /\ \A q \in Beats : q # p => turn'[q] = turn[q] /\ copy'[q] = copy[q]
  BY <1>1, <1>2 DEF Turns
<1>4. InTheirTiers(new)
  BY <1>1, <1>2 DEF InTheirTiers
<1>5. LibraryTypes' /\ TiersAreKept'
  BY <1>1, <1>2, <1>3, <1>4, StepTypes
<1>6. KnowsAll(p)'
  BY <1>1, <1>3 DEF KnowsAll, Lib!Has
<1>7. ASSUME ~spoiled PROVE Orderly(p)'
  <2>1. /\ \A t \in Lib!Tiers : ~Lib!Has(copy[p], t, s)
        /\ disk["official"][s] # Lib!Absent /\ disk["local"][s] = Lib!Absent
        /\ copy[p].hash[s] = disk["official"][s]
    BY <1>1, <1>7 DEF Orderly, Handling
  <2>2. \A r \in Lib!Skills : r # s => Intact(copy[p], r)
    BY <1>1, <1>7 DEF Orderly, Handled
  <2>3. \A r \in Lib!Skills : r # s => Intact(copy[p], r)'
    BY <1>1, <1>2, <1>3, <2>2 DEF Intact, Lib!Has
  <2>4. \A t \in Lib!Tiers : Lib!Has(new, t, s) <=> t = "official"
    BY <1>1, <1>2, <2>1
  <2>5. Intact(copy[p], s)'
    BY <1>1, <1>2, <1>3, <2>1, <2>4 DEF Intact, Lib!Has
  <2>. QED BY <1>1, <1>3, <2>3, <2>5 DEF Orderly, Handling
<1>8. AloneKnowsAll' /\ OneByOne'
  BY <1>1, <1>3, <1>6, <1>7, OnlyOne
<1>. QED BY <1>5, <1>8 DEF LibraryIInv

LEMMA DownloadFailsStep ==
  ASSUME Lib!SkillLibraryAssumption, LibraryIInv, NEW p \in Beats, Lib!DownloadFails(p)
  PROVE  LibraryIInv'
<1>. USE Found
<1>. DEFINE s == doing[p]
<1>1. /\ turn[p] = "cache" /\ s \in Remote
      /\ UNCHANGED <<index, using, doing, text, touched, alone, spoiled, sessions, ends>>
      /\ turn' = [turn EXCEPT ![p] = IF using[p] = {} THEN "find" ELSE "load"]
      /\ disk' = [disk EXCEPT !["official"][s] = Lib!Absent]
  BY DEF Lib!DownloadFails, Lib!Go, Lib!history, Lib!Write, LibraryIInv, LibraryTypes
<1>2. PICK h \in {copy[p].hash[s], Lib!Absent} :
        copy' = [copy EXCEPT ![p] = Lib!WithHash(copy[p], s, h)]
  BY DEF Lib!DownloadFails, Lib!Remember
<1>. DEFINE new == Lib!WithHash(copy[p], s, h)
<1>3. /\ new \in Lib!Index /\ new.entry = copy[p].entry
      /\ \A r \in Lib!Skills : r # s => new.hash[r] = copy[p].hash[r]
  <2>1. h \in Lib!Content /\ s \in Lib!Skills
    BY <1>1
  <2>. QED BY <2>1, HashReplaced
<1>4. /\ disk' \in [Lib!Tiers -> [Lib!Skills -> Lib!Content]]
      /\ \A t \in Lib!Tiers, r \in Lib!Skills :
           disk'[t][r] = IF t = "official" /\ r = s THEN Lib!Absent ELSE disk[t][r]
  BY <1>1
<1>5. /\ copy' \in [Beats -> Lib!Index] /\ copy'[p] = new
      /\ turn' \in [Beats -> Turns] /\ turn'[p] \in {"find", "load"}
      /\ \A q \in Beats : q # p => turn'[q] = turn[q] /\ copy'[q] = copy[q]
  <2>. HIDE DEF new
  <2>1. copy' = [copy EXCEPT ![p] = new]
    BY <1>2 DEF new
  <2>. QED BY <1>1, <2>1, <1>3 DEF Turns
<1>. HIDE DEF new
<1>6. \A t, r : Lib!Has(new, t, r) <=> Lib!Has(copy[p], t, r)
  BY <1>3 DEF Lib!Has
<1>7. LibraryTypes' /\ TiersAreKept'
  <2>1. InTheirTiers(new)
    BY <1>6 DEF InTheirTiers
  <2>. QED BY <1>1, <1>4, <1>5, <2>1, StepTypes
<1>8. ASSUME alone[p] PROVE KnowsAll(p)'
  BY <1>1, <1>3, <1>5, <1>8 DEF KnowsAll, Lib!Has
<1>9. ASSUME ~spoiled PROVE Orderly(p)'
  <2>1. /\ Orderly(p) /\ KnowsAll(p)
        /\ \A t \in Lib!Tiers : ~Lib!Has(copy[p], t, s)
        /\ disk["local"][s] = Lib!Absent
    BY <1>1, <1>9 DEF Orderly, Handling
  <2>2. \A r \in Lib!Skills : r # s => Intact(copy[p], r)
    BY <1>1, <2>1 DEF Orderly, Handled
  <2>3. \A r \in Lib!Skills : r # s => Intact(copy[p], r)'
    BY <1>3, <1>4, <1>5, <2>2 DEF Intact, Lib!Has
  <2>4. Intact(copy[p], s)'
    BY <1>1, <1>4, <1>5, <1>6, <2>1 DEF Intact, Lib!Has
  <2>5. \A r \in Lib!Known(index) : r # s /\ index.hash[r] = new.hash[r]
    BY <1>1, <1>3, <2>1 DEF Orderly, KnowsAll, Lib!Known, Lib!Has
  <2>. QED BY <1>1, <1>5, <2>3, <2>4, <2>5 DEF Orderly, Handling, Lib!Known, Lib!Has
<1>10. AloneKnowsAll' /\ OneByOne'
  BY <1>1, <1>5, <1>8, <1>9, OnlyOne
<1>. QED BY <1>7, <1>10 DEF LibraryIInv

\* The tier a skill is found in.
LEMMA TierFound ==
  ASSUME NEW idx, NEW s \in Lib!Skills
  PROVE  /\ Lib!TierOf(idx, s) \in Lib!Tiers
         /\ s \in Lib!Known(idx) => Lib!Has(idx, Lib!TierOf(idx, s), s)
BY DEF Lib!TierOf, Lib!Tiers, Lib!Known

LEMMA LoadStep ==
  ASSUME Lib!SkillLibraryAssumption, LibraryIInv, NEW p \in Beats, Lib!Load(p)
  PROVE  LibraryIInv'
<1>. USE Found
<1>. DEFINE hashes == [s \in Lib!Skills |->
                         IF s \in using[p] THEN Lib!Trusting(p, s) ELSE copy[p].hash[s]]
            new == [copy[p] EXCEPT !.hash = hashes]
<1>1. /\ turn[p] = "load"
      /\ copy' = [copy EXCEPT ![p] = new]
      /\ turn' = [turn EXCEPT ![p] = "track"]
      /\ UNCHANGED <<disk, index, using, doing, text, touched, alone, spoiled, sessions, ends>>
  BY DEF Lib!Load, Lib!Go, Lib!Remember, Lib!history, Lib!files
<1>2. hashes \in [Lib!Skills -> Lib!Content]
  <2>1. \A s \in Lib!Skills : Lib!Trusting(p, s) \in Lib!Content
    BY TierFound DEF Lib!Trusting
  <2>. QED BY <2>1
<1>3. new \in Lib!Index /\ new.entry = copy[p].entry /\ new.hash = hashes
  <2>1. /\ copy[p].entry \in [Lib!Tiers -> [Lib!Skills -> Lib!Entry \cup {Lib!NoEntry}]]
        /\ copy[p] = [entry |-> copy[p].entry, hash |-> copy[p].hash]
    BY DEF Lib!Index
  <2>. HIDE DEF hashes
  <2>2. new = [entry |-> copy[p].entry, hash |-> hashes]
    BY <2>1
  <2>. QED BY <1>2, <2>1, <2>2 DEF Lib!Index
<1>. HIDE DEF new
<1>4. /\ copy' \in [Beats -> Lib!Index] /\ copy'[p] = new
      /\ turn' \in [Beats -> Turns] /\ turn'[p] = "track"
      /\ \A q \in Beats : q # p => turn'[q] = turn[q] /\ copy'[q] = copy[q]
  BY <1>1, <1>3 DEF Turns
<1>5. \A t, r : Lib!Has(new, t, r) <=> Lib!Has(copy[p], t, r)
  BY <1>3 DEF Lib!Has
<1>6. LibraryTypes' /\ TiersAreKept'
  <2>1. InTheirTiers(new)
    BY <1>5 DEF InTheirTiers
  <2>. QED BY <1>1, <1>4, <2>1, StepTypes
<1>7. ASSUME alone[p] PROVE KnowsAll(p)'
  BY <1>1, <1>3, <1>4, <1>7 DEF KnowsAll, Lib!Has
<1>8. ASSUME ~spoiled PROVE Orderly(p)'
  <2>1. /\ Orderly(p) /\ KnowsAll(p) /\ \A s \in Lib!Skills : Intact(copy[p], s)
    BY <1>1, <1>8 DEF Orderly, Handled
  <2>2. ASSUME NEW s \in Lib!Known(copy[p]) PROVE new.hash[s] = copy[p].hash[s]
    <3>1. s \in Lib!Skills
      BY DEF Lib!Known
    <3>2. Lib!Trusting(p, s) = copy[p].hash[s]
      BY <2>1, <3>1, TierFound DEF Intact, Lib!Trusting
    <3>. QED BY <1>3, <3>1, <3>2
  <2>3. \A s \in Lib!Skills : Intact(copy[p], s)'
    BY <1>1, <1>4, <1>5, <2>1, <2>2 DEF Intact, Lib!Has, Lib!Known
  <2>4. \A s \in Lib!Known(index) : index.hash[s] = new.hash[s]
    BY <1>1, <2>1, <2>2, SMTT(30) DEF Orderly, KnowsAll, Lib!Known, Lib!Has
  <2>. QED BY <1>1, <1>4, <2>3, <2>4 DEF Orderly, Handling, Lib!Known, Lib!Has
<1>9. AloneKnowsAll' /\ OneByOne'
  BY <1>1, <1>4, <1>7, <1>8, OnlyOne
<1>. QED BY <1>6, <1>9 DEF LibraryIInv

\* The index in which the use of a skill is noted has the same entries.
LEMMA Noted ==
  ASSUME Lib!SkillLibraryAssumption, NEW idx \in Lib!Index,
         NEW s \in Lib!Skills, s \in Lib!Known(idx), NEW high \in BOOLEAN,
         NEW t, t = Lib!TierOf(idx, s), NEW e,
         e = [uses |-> IF idx.entry[t][s].uses < MinUses
                       THEN idx.entry[t][s].uses + 1 ELSE MinUses,
              high |-> high],
         NEW new, new = Lib!WithEntry(idx, t, s, e)
  PROVE  /\ t \in Lib!Tiers /\ Lib!Has(idx, t, s)
         /\ new \in Lib!Index /\ new.hash = idx.hash
         /\ \A u \in Lib!Tiers, r \in Lib!Skills : Lib!Has(new, u, r) <=> Lib!Has(idx, u, r)
<1>1. t \in Lib!Tiers /\ Lib!Has(idx, t, s)
  BY TierFound
<1>2. e \in Lib!Entry /\ e # Lib!NoEntry
  <2>1. idx.entry[t][s] \in Lib!Entry
    BY <1>1 DEF Lib!Has, Lib!Index
  <2>. DEFINE uses == idx.entry[t][s].uses
  <2>2. uses \in 0..MinUses
    BY <2>1 DEF Lib!Entry
  <2>. HIDE DEF uses
  <2>3. (IF uses < MinUses THEN uses + 1 ELSE MinUses) \in 0..MinUses
    BY <2>2 DEF Lib!SkillLibraryAssumption
  <2>4. e \in Lib!Entry
    BY <2>3 DEF Lib!Entry, uses
  <2>. QED BY <2>4, Entries
<1>3. /\ new \in Lib!Index /\ new.hash = idx.hash
      /\ \A u \in Lib!Tiers, r \in Lib!Skills :
           new.entry[u][r] = IF u = t /\ r = s THEN e ELSE idx.entry[u][r]
  BY <1>1, <1>2, EntryReplaced
<1>. QED BY <1>1, <1>2, <1>3 DEF Lib!Has

LEMMA TrackStep ==
  ASSUME Lib!SkillLibraryAssumption, LibraryIInv, NEW p \in Beats, Lib!Track(p)
  PROVE  LibraryIInv'
<1>. USE Found
<1>. DEFINE Tracked(s, high) ==
              LET t == Lib!TierOf(copy[p], s)
                  e == [uses |-> IF copy[p].entry[t][s].uses < MinUses
                                 THEN copy[p].entry[t][s].uses + 1 ELSE MinUses,
                        high |-> high]
              IN  /\ using' = [using EXCEPT ![p] = @ \ {s}]
                  /\ IF s \in Lib!Known(copy[p])
                     THEN /\ Lib!Save(p, Lib!WithEntry(copy[p], t, s, e))
                          /\ touched' = [touched EXCEPT ![p] = @ \cup {s}]
                          /\ IF t = "temp" /\ e.uses = MinUses /\ high
                             THEN Lib!Go(p, "promote") /\ doing' = [doing EXCEPT ![p] = s]
                             ELSE UNCHANGED <<turn, doing>>
                     ELSE UNCHANGED <<index, copy, touched, turn, doing>>
<1>1. PICK s \in using[p], high \in BOOLEAN : Tracked(s, high)
  BY DEF Lib!Track
<1>2. /\ turn[p] = "track" /\ s \in Lib!Skills /\ using' \in [Beats -> SUBSET Lib!Skills]
      /\ UNCHANGED <<disk, text, alone, spoiled, sessions, ends>>
  BY <1>1 DEF Lib!Track, Lib!history
<1>. DEFINE t == Lib!TierOf(copy[p], s)
            e == [uses |-> IF copy[p].entry[t][s].uses < MinUses
                           THEN copy[p].entry[t][s].uses + 1 ELSE MinUses,
                  high |-> high]
            new == Lib!WithEntry(copy[p], t, s, e)
<1>3. CASE s \notin Lib!Known(copy[p])
  <2>1. UNCHANGED <<index, copy, touched, turn, doing>>
    BY <1>1, <1>3
  <2>. HIDE <1>1
  <2>2. LibraryTypes' /\ TiersAreKept'
    BY <1>2, <2>1, StepTypes
  <2>3. alone[p] => KnowsAll(p)'
    BY <1>2, <2>1 DEF KnowsAll, Lib!Has
  <2>4. ~spoiled => Orderly(p)'
    BY <1>2, <2>1 DEF Orderly, Handled, Handling, Intact, Lib!Known, Lib!Has
  <2>5. AloneKnowsAll' /\ OneByOne'
    BY <1>2, <2>1, <2>3, <2>4, OnlyOne
  <2>. QED BY <2>2, <2>5 DEF LibraryIInv
<1>4. CASE s \in Lib!Known(copy[p])
  <2>1. /\ copy' = [copy EXCEPT ![p] = new] /\ index' = new
        /\ touched' = [touched EXCEPT ![p] = @ \cup {s}]
        /\ \/ UNCHANGED <<turn, doing>>
           \/ /\ t = "temp" /\ turn' = [turn EXCEPT ![p] = "promote"]
              /\ doing' = [doing EXCEPT ![p] = s]
    BY <1>1, <1>4 DEF Lib!Save, Lib!Remember, Lib!Go
  <2>. HIDE DEF Tracked
  <2>2. /\ t \in Lib!Tiers /\ Lib!Has(copy[p], t, s)
        /\ new \in Lib!Index /\ new.hash = copy[p].hash
        /\ \A u \in Lib!Tiers, r \in Lib!Skills : Lib!Has(new, u, r) <=> Lib!Has(copy[p], u, r)
    BY <1>2, <1>4, Noted
  <2>. HIDE DEF new, t
  <2>3. /\ copy' \in [Beats -> Lib!Index] /\ copy'[p] = new
        /\ touched' \in [Beats -> SUBSET Lib!Skills]
        /\ turn' \in [Beats -> Turns] /\ doing' \in [Beats -> Lib!Skills \cup {Lib!Nothing}]
        /\ \/ turn'[p] = "track"
           \/ turn'[p] = "promote" /\ doing'[p] = s /\ t = "temp"
        /\ \A q \in Beats : q # p =>
             turn'[q] = turn[q] /\ copy'[q] = copy[q] /\ doing'[q] = doing[q]
    <3>1. /\ copy' \in [Beats -> Lib!Index] /\ copy'[p] = new
          /\ touched' \in [Beats -> SUBSET Lib!Skills]
          /\ \A q \in Beats : q # p => copy'[q] = copy[q]
      BY <1>2, <2>1, <2>2
    <3>2. CASE UNCHANGED <<turn, doing>>
      BY <1>2, <3>1, <3>2
    <3>3. CASE /\ t = "temp" /\ turn' = [turn EXCEPT ![p] = "promote"]
               /\ doing' = [doing EXCEPT ![p] = s]
      <4>1. /\ turn' \in [Beats -> Turns] /\ turn'[p] = "promote"
            /\ \A q \in Beats : q # p => turn'[q] = turn[q]
        BY <3>3 DEF Turns
      <4>2. /\ doing' \in [Beats -> Lib!Skills \cup {Lib!Nothing}] /\ doing'[p] = s
            /\ \A q \in Beats : q # p => doing'[q] = doing[q]
        BY <1>2, <3>3
      <4>. QED BY <3>1, <3>3, <4>1, <4>2
    <3>. QED BY <2>1, <3>2, <3>3
  <2>4. LibraryTypes' /\ TiersAreKept'
    <3>1. InTheirTiers(new)
      BY <2>2 DEF InTheirTiers
    <3>2. turn'[p] = "promote" => doing'[p] \in Generated /\ Lib!Has(new, "temp", doing'[p])
      BY <1>2, <2>2, <2>3 DEF InTheirTiers
    <3>. QED BY <1>2, <2>1, <2>2, <2>3, <3>1, <3>2, StepTypes
  <2>5. KnowsAll(p)'
    BY <2>1, <2>3 DEF KnowsAll, Lib!Has
  <2>6. ASSUME ~spoiled PROVE Orderly(p)'
    <3>1. \A r \in Lib!Skills : Intact(copy[p], r)
      BY <1>2, <2>6 DEF Orderly, Handled
    <3>2. \A r \in Lib!Skills : Intact(copy[p], r)'
      BY <1>2, <2>2, <2>3, <3>1 DEF Intact, Lib!Has
    <3>. QED BY <2>1, <2>3, <3>2 DEF Orderly, Handling
  <2>7. AloneKnowsAll' /\ OneByOne'
    BY <1>2, <2>3, <2>5, <2>6, OnlyOne
  <2>. QED BY <2>4, <2>7 DEF LibraryIInv
<1>. QED BY <1>3, <1>4

LEMMA MoveToLocalStep ==
  ASSUME Lib!SkillLibraryAssumption, LibraryIInv, NEW p \in Beats, Lib!MoveToLocal(p)
  PROVE  LibraryIInv'
<1>. USE Found
<1>. DEFINE s == doing[p]
            there == disk["temp"][s]
            fits == copy[p].hash[s] \in {Lib!Absent, there} /\ disk["local"][s] = Lib!Absent
            new == IF copy[p].hash[s] = Lib!Absent THEN Lib!WithHash(copy[p], s, there)
                   ELSE copy[p]
<1>1. /\ turn[p] = "promote" /\ there # Lib!Absent
      /\ s \in Generated /\ Lib!Has(copy[p], "temp", s)
      /\ UNCHANGED <<index, using, doing, text, touched, alone, spoiled, sessions, ends>>
      /\ copy' = [copy EXCEPT ![p] = new]
      /\ \/ /\ fits /\ turn' = [turn EXCEPT ![p] = "promoted"]
            /\ disk' = [disk EXCEPT !["temp"][s] = Lib!Absent, !["local"][s] = there]
         \/ ~fits /\ turn' = [turn EXCEPT ![p] = "track"] /\ disk' = disk
  BY DEF Lib!MoveToLocal, Lib!Go, Lib!history, Lib!Remember, LibraryIInv, LibraryTypes
<1>2. /\ new \in Lib!Index /\ new.entry = copy[p].entry
      /\ copy[p].hash[s] # Lib!Absent => new = copy[p]
  <2>1. there \in Lib!Content /\ s \in Lib!Skills
    BY <1>1
  <2>. QED BY <2>1, HashReplaced
<1>. HIDE DEF new
<1>3. /\ disk' \in [Lib!Tiers -> [Lib!Skills -> Lib!Content]]
      /\ fits => \A t \in Lib!Tiers, r \in Lib!Skills :
           disk'[t][r] = IF r # s THEN disk[t][r] ELSE IF t = "temp" THEN Lib!Absent
                         ELSE IF t = "local" THEN there ELSE disk[t][r]
  <2>1. CASE ~fits
    BY <1>1, <2>1
  <2>2. CASE fits
    <3>. DEFINE taken == [disk EXCEPT !["temp"][s] = Lib!Absent]
    <3>1. /\ taken \in [Lib!Tiers -> [Lib!Skills -> Lib!Content]]
          /\ \A t \in Lib!Tiers, r \in Lib!Skills :
               taken[t][r] = IF t = "temp" /\ r = s THEN Lib!Absent ELSE disk[t][r]
      BY <1>1
    <3>2. disk' = [taken EXCEPT !["local"][s] = there]
      BY <1>1, <2>2
    <3>3. s \in Lib!Skills /\ there \in Lib!Content
      BY <1>1
    <3>. HIDE DEF taken, there
    <3>. QED BY <3>1, <3>2, <3>3
  <2>. QED BY <2>1, <2>2
<1>4. /\ copy' \in [Beats -> Lib!Index] /\ copy'[p] = new
      /\ turn' \in [Beats -> Turns] /\ turn'[p] \in {"track", "promoted"}
      /\ fits => turn'[p] = "promoted"
      /\ \A q \in Beats : q # p => turn'[q] = turn[q] /\ copy'[q] = copy[q]
  BY <1>1, <1>2 DEF Turns
<1>5. \A t, r : Lib!Has(new, t, r) <=> Lib!Has(copy[p], t, r)
  BY <1>2 DEF Lib!Has
<1>6. LibraryTypes' /\ TiersAreKept'
  <2>1. InTheirTiers(new)
    BY <1>5 DEF InTheirTiers
  <2>. QED BY <1>1, <1>3, <1>4, <1>5, <2>1, StepTypes
<1>7. ASSUME alone[p] PROVE KnowsAll(p)'
  BY <1>1, <1>2, <1>4, <1>7 DEF KnowsAll, Lib!Has
<1>8. ASSUME ~spoiled PROVE Orderly(p)'
  <2>1. Orderly(p) /\ Intact(copy[p], s)
    BY <1>1, <1>8 DEF Orderly, Handled
  <2>2. /\ copy[p].hash[s] = there
        /\ \A t \in Lib!Tiers : Lib!Has(copy[p], t, s) => t = "temp"
    BY <1>1, <2>1 DEF Intact
  <2>3. disk["official"][s] = Lib!Absent /\ disk["local"][s] = Lib!Absent
    BY <2>1, <2>2 DEF Intact
  <2>4. fits /\ new = copy[p]
    BY <1>1, <1>2, <2>2, <2>3
  <2>5. Handling(p, s)'
    <3>1. disk'["official"][s] = Lib!Absent /\ disk'["local"][s] = there
      BY <1>1, <1>3, <2>3, <2>4
    <3>. QED BY <1>1, <1>4, <2>2, <2>4, <3>1 DEF Handling, Lib!Has
  <2>6. \A r \in Lib!Skills : r # s => Intact(copy[p], r)
    BY <1>1, <2>1 DEF Orderly, Handled
  <2>7. \A r \in Lib!Skills : r # s => Intact(copy[p], r)'
    BY <1>3, <1>4, <2>4, <2>6 DEF Intact, Lib!Has
  <2>. QED BY <1>1, <1>4, <2>1, <2>4, <2>5, <2>7 DEF Orderly, Handled, Lib!Known, Lib!Has
<1>9. AloneKnowsAll' /\ OneByOne'
  BY <1>1, <1>4, <1>7, <1>8, OnlyOne
<1>. QED BY <1>6, <1>9 DEF LibraryIInv

LEMMA PromoteNothingStep ==
  ASSUME Lib!SkillLibraryAssumption, LibraryIInv, NEW p \in Beats, Lib!PromoteNothing(p)
  PROVE  LibraryIInv'
<1>. USE Found
<1>. DEFINE s == doing[p]
            new == Lib!WithEntry(copy[p], "temp", s, Lib!NoEntry)
<1>1. /\ turn[p] = "promote" /\ disk["temp"][s] = Lib!Absent
      /\ s \in Generated /\ Lib!Has(copy[p], "temp", s)
      /\ copy' = [copy EXCEPT ![p] = new] /\ index' = new
      /\ turn' = [turn EXCEPT ![p] = "track"]
      /\ UNCHANGED <<disk, using, doing, text, touched, alone, spoiled, sessions, ends>>
  BY DEF Lib!PromoteNothing, Lib!Go, Lib!Save, Lib!Remember, Lib!history,
         LibraryIInv, LibraryTypes
<1>2. /\ new \in Lib!Index
      /\ \A t \in Lib!Tiers, r \in Lib!Skills : Lib!Has(new, t, r) => Lib!Has(copy[p], t, r)
  <2>1. /\ new \in Lib!Index
        /\ \A t \in Lib!Tiers, r \in Lib!Skills :
             new.entry[t][r] = IF t = "temp" /\ r = s THEN Lib!NoEntry ELSE copy[p].entry[t][r]
    BY <1>1, EntryReplaced
  <2>. HIDE DEF new
  <2>. QED BY <2>1 DEF Lib!Has
<1>. HIDE DEF new
<1>3. /\ copy' \in [Beats -> Lib!Index] /\ copy'[p] = new
      /\ turn' \in [Beats -> Turns] /\ turn'[p] = "track"
      /\ \A q \in Beats : q # p => turn'[q] = turn[q] /\ copy'[q] = copy[q]
  BY <1>1, <1>2 DEF Turns
<1>4. LibraryTypes' /\ TiersAreKept'
  <2>1. InTheirTiers(new)
    BY <1>2 DEF InTheirTiers
  <2>. QED BY <1>1, <1>2, <1>3, <2>1, StepTypes
<1>5. KnowsAll(p)'
  BY <1>1, <1>3 DEF KnowsAll, Lib!Has
<1>6. spoiled
  <2>. SUFFICES ASSUME ~spoiled PROVE FALSE
    OBVIOUS
  <2>1. Intact(copy[p], s)
    BY <1>1 DEF Orderly, Handled
  <2>. QED BY <1>1, <2>1 DEF Intact
<1>7. AloneKnowsAll' /\ OneByOne'
  BY <1>1, <1>3, <1>5, <1>6, OnlyOne
<1>. QED BY <1>4, <1>7 DEF LibraryIInv

LEMMA PromotedStep ==
  ASSUME Lib!SkillLibraryAssumption, LibraryIInv, NEW p \in Beats, Lib!Promoted(p)
  PROVE  LibraryIInv'
<1>. USE Found
<1>. DEFINE s == doing[p]
            e == copy[p].entry["temp"][s]
            middle == Lib!WithEntry(copy[p], "local", s, e)
            new == Lib!WithEntry(middle, "temp", s, Lib!NoEntry)
<1>1. /\ turn[p] = "promoted" /\ s \in Generated /\ Lib!Has(copy[p], "temp", s)
      /\ copy' = [copy EXCEPT ![p] = new] /\ index' = new
      /\ turn' = [turn EXCEPT ![p] = "track"]
      /\ UNCHANGED <<disk, using, doing, text, touched, alone, spoiled, sessions, ends>>
  BY DEF Lib!Promoted, Lib!Go, Lib!Save, Lib!Remember, Lib!history, LibraryIInv, LibraryTypes
<1>2. /\ new \in Lib!Index /\ new.hash = copy[p].hash
      /\ \A t \in Lib!Tiers, r \in Lib!Skills :
           Lib!Has(new, t, r) <=> IF r = s /\ t # "official" THEN t = "local"
                                  ELSE Lib!Has(copy[p], t, r)
  <2>1. s \in Lib!Skills /\ e \in Lib!Entry \cup {Lib!NoEntry} /\ e # Lib!NoEntry
    BY <1>1 DEF Lib!Has
  <2>2. /\ middle \in Lib!Index /\ middle.hash = copy[p].hash
        /\ \A t \in Lib!Tiers, r \in Lib!Skills :
             middle.entry[t][r] = IF t = "local" /\ r = s THEN e ELSE copy[p].entry[t][r]
    <3>1. middle = Lib!WithEntry(copy[p], "local", s, e) /\ "local" \in Lib!Tiers
      OBVIOUS
    <3>. HIDE DEF middle, e
    <3>. QED BY <2>1, <3>1, EntryReplaced
  <2>. HIDE DEF middle
  <2>3. /\ new \in Lib!Index /\ new.hash = middle.hash
        /\ \A t \in Lib!Tiers, r \in Lib!Skills :
             new.entry[t][r] = IF t = "temp" /\ r = s THEN Lib!NoEntry ELSE middle.entry[t][r]
    BY <2>1, <2>2, EntryReplaced
  <2>. HIDE DEF new, e
  <2>. QED BY <2>1, <2>2, <2>3 DEF Lib!Has
<1>. HIDE DEF new
<1>3. /\ copy' \in [Beats -> Lib!Index] /\ copy'[p] = new
      /\ turn' \in [Beats -> Turns] /\ turn'[p] = "track"
      /\ \A q \in Beats : q # p => turn'[q] = turn[q] /\ copy'[q] = copy[q]
  BY <1>1, <1>2 DEF Turns
<1>4. LibraryTypes' /\ TiersAreKept'
  <2>1. InTheirTiers(new)
    BY <1>1, <1>2 DEF InTheirTiers
  <2>. QED BY <1>1, <1>2, <1>3, <2>1, StepTypes
<1>5. KnowsAll(p)'
  BY <1>1, <1>3 DEF KnowsAll, Lib!Has
<1>6. ASSUME ~spoiled PROVE Orderly(p)'
  <2>1. /\ \A t \in Lib!Tiers : Lib!Has(copy[p], t, s) => t = "temp"
        /\ disk["official"][s] = Lib!Absent /\ disk["local"][s] # Lib!Absent
        /\ copy[p].hash[s] = disk["local"][s]
    BY <1>1, <1>6 DEF Orderly, Handling
  <2>2. \A r \in Lib!Skills : r # s => Intact(copy[p], r)
    BY <1>1, <1>6 DEF Orderly, Handled
  <2>3. \A r \in Lib!Skills : r # s => Intact(copy[p], r)'
    BY <1>1, <1>2, <1>3, <2>2 DEF Intact, Lib!Has
  <2>4. \A t \in Lib!Tiers : Lib!Has(new, t, s) <=> t = "local"
    BY <1>1, <1>2, <2>1
  <2>5. Intact(copy[p], s)'
    BY <1>1, <1>2, <1>3, <2>1, <2>4 DEF Intact, Lib!Has
  <2>. QED BY <1>1, <1>3, <2>3, <2>5 DEF Orderly, Handling
<1>7. AloneKnowsAll' /\ OneByOne'
  BY <1>1, <1>3, <1>5, <1>6, OnlyOne
<1>. QED BY <1>4, <1>7 DEF LibraryIInv

LEMMA EvictStep ==
  ASSUME Lib!SkillLibraryAssumption, LibraryIInv, NEW p \in Beats, Lib!Evict(p)
  PROVE  LibraryIInv'
<1>. USE Found
<1>1. /\ turn[p] = "track"
      /\ UNCHANGED <<index, using, doing, text, touched, alone, spoiled, sessions, ends>>
  BY DEF Lib!Evict, Lib!history
<1>. DEFINE Left(aged) == [t \in Lib!Tiers |-> [s \in Lib!Skills |->
                              IF <<t, s>> \in aged THEN Lib!NoEntry ELSE copy[p].entry[t][s]]]
            Hashes(aged) == [s \in Lib!Skills |->
                                IF \E t \in Lib!Tiers : <<t, s>> \in aged
                                THEN Lib!Absent ELSE copy[p].hash[s]]
<1>2. PICK aged \in Lib!StaleSets(p) :
        /\ disk' = [t \in Lib!Tiers |-> [s \in Lib!Skills |->
                      IF <<t, s>> \in aged THEN Lib!Absent ELSE disk[t][s]]]
        /\ copy' = [copy EXCEPT ![p] = [entry |-> Left(aged), hash |-> Hashes(aged)]]
        /\ turn' = [turn EXCEPT ![p] = IF aged = {} THEN "sweep" ELSE "sweep_and_save"]
  BY DEF Lib!Evict, Lib!Go, Lib!Remember
<1>. DEFINE left == Left(aged)
            hashes == Hashes(aged)
            new == [entry |-> left, hash |-> hashes]
<1>3. \A t, s : <<t, s>> \in aged => t # "local" /\ Lib!Has(copy[p], t, s)
  BY DEF Lib!StaleSets
<1>4. /\ disk' \in [Lib!Tiers -> [Lib!Skills -> Lib!Content]]
      /\ \A t \in Lib!Tiers, s \in Lib!Skills :
           disk'[t][s] = IF <<t, s>> \in aged THEN Lib!Absent ELSE disk[t][s]
  BY <1>2
<1>5. /\ left \in [Lib!Tiers -> [Lib!Skills -> Lib!Entry \cup {Lib!NoEntry}]]
      /\ \A t \in Lib!Tiers, s \in Lib!Skills :
           left[t][s] = IF <<t, s>> \in aged THEN Lib!NoEntry ELSE copy[p].entry[t][s]
  OBVIOUS
<1>6. /\ hashes \in [Lib!Skills -> Lib!Content]
      /\ \A s \in Lib!Skills :
           (\A t \in Lib!Tiers : <<t, s>> \notin aged) => hashes[s] = copy[p].hash[s]
  OBVIOUS
<1>7. aged = {} => left = copy[p].entry /\ hashes = copy[p].hash
  OBVIOUS
<1>8. copy' = [copy EXCEPT ![p] = new]
  BY <1>2
<1>. HIDE DEF left, hashes, Left, Hashes
<1>9. new \in Lib!Index /\ new.entry = left /\ new.hash = hashes
  BY <1>5, <1>6 DEF Lib!Index
<1>. HIDE DEF new
<1>10. \A t \in Lib!Tiers, s \in Lib!Skills :
         Lib!Has(new, t, s) <=> Lib!Has(copy[p], t, s) /\ <<t, s>> \notin aged
  BY <1>5, <1>9 DEF Lib!Has
<1>11. /\ copy' \in [Beats -> Lib!Index] /\ copy'[p] = new
       /\ turn' \in [Beats -> Turns] /\ turn'[p] \in {"sweep", "sweep_and_save"}
       /\ turn'[p] = "sweep" => aged = {}
       /\ \A q \in Beats : q # p => turn'[q] = turn[q] /\ copy'[q] = copy[q]
  <2>1. /\ copy' \in [Beats -> Lib!Index] /\ copy'[p] = new
        /\ \A q \in Beats : q # p => copy'[q] = copy[q]
    BY <1>8, <1>9
  <2>2. /\ turn' \in [Beats -> Turns] /\ turn'[p] \in {"sweep", "sweep_and_save"}
        /\ turn'[p] = "sweep" => aged = {}
        /\ \A q \in Beats : q # p => turn'[q] = turn[q]
    BY <1>2 DEF Turns
  <2>. QED BY <2>1, <2>2
<1>12. LibraryTypes' /\ TiersAreKept'
  <2>1. InTheirTiers(new)
    BY <1>10 DEF InTheirTiers
  <2>. QED BY <1>1, <1>4, <1>11, <2>1, StepTypes
<1>13. ASSUME alone[p] PROVE KnowsAll(p)'
  <2>1. copy[p].entry = index.entry
    BY <1>1, <1>13 DEF KnowsAll
  <2>2. turn'[p] = "sweep" => new.entry = index.entry
    BY <1>7, <1>9, <1>11, <2>1
  <2>3. \A s \in Lib!Skills : Lib!Has(index, "local", s) => Lib!Has(new, "local", s)
    <3>1. \A s \in Lib!Skills : Lib!Has(index, "local", s) => Lib!Has(copy[p], "local", s)
      BY <2>1 DEF Lib!Has
    <3>2. \A s : <<"local", s>> \notin aged
      BY <1>3
    <3>. QED BY <1>10, <3>1, <3>2
  <2>. QED BY <1>1, <1>11, <2>2, <2>3 DEF KnowsAll, Lib!Has
<1>14. ASSUME ~spoiled PROVE Orderly(p)'
  <2>1. Orderly(p) /\ \A s \in Lib!Skills : Intact(copy[p], s)
    BY <1>1, <1>14 DEF Orderly, Handled
  <2>2. ASSUME NEW s \in Lib!Skills PROVE Intact(copy[p], s)'
    <3>1. Intact(copy[p], s)
      BY <2>1
    <3>2. CASE \A t \in Lib!Tiers : <<t, s>> \notin aged
      <4>1. new.hash[s] = copy[p].hash[s]
        BY <1>6, <1>9, <3>2
      <4>2. \A t \in Lib!Tiers : /\ disk'[t][s] = disk[t][s]
                                 /\ Lib!Has(new, t, s) <=> Lib!Has(copy[p], t, s)
        BY <1>4, <1>10, <3>2
      <4>3. \A t \in Lib!Tiers : Lib!Has(new, t, s) =>
              disk'[t][s] # Lib!Absent /\ new.hash[s] = disk'[t][s]
        BY <3>1, <4>1, <4>2 DEF Intact
      <4>4. \A t, u \in Lib!Tiers : Lib!Has(new, t, s) /\ Lib!Has(new, u, s) => t = u
        BY <3>1, <4>2 DEF Intact
      <4>5. \A t \in {"official", "local"} : disk'[t][s] # Lib!Absent => Lib!Has(new, t, s)
        BY <3>1, <4>2 DEF Intact
      <4>. QED BY <1>11, <4>3, <4>4, <4>5 DEF Intact, Lib!Has
    <3>3. CASE \E t \in Lib!Tiers : <<t, s>> \in aged
      <4>1. PICK t \in Lib!Tiers : <<t, s>> \in aged
        BY <3>3
      <4>2. \A u \in Lib!Tiers : Lib!Has(copy[p], u, s) => u = t
        BY <1>3, <3>1, <4>1 DEF Intact
      <4>3. \A u \in Lib!Tiers : ~Lib!Has(new, u, s)
        BY <1>10, <4>1, <4>2
      <4>4. \A u \in {"official", "local"} : u # t => disk[u][s] = Lib!Absent
        BY <3>1, <4>2 DEF Intact
      <4>5. \A u \in {"official", "local"} : disk'[u][s] = Lib!Absent
        BY <1>4, <4>1, <4>4
      <4>. QED BY <1>11, <4>3, <4>5 DEF Intact, Lib!Has
    <3>. QED BY <3>2, <3>3
  <2>3. turn'[p] = "sweep" => \A s \in Lib!Known(index) : index.hash[s] = new.hash[s]
    BY <1>1, <1>7, <1>9, <1>11, <2>1 DEF Orderly
  <2>. QED BY <1>1, <1>11, <2>2, <2>3 DEF Orderly, Handling, Lib!Known, Lib!Has
<1>15. AloneKnowsAll' /\ OneByOne'
  BY <1>1, <1>11, <1>13, <1>14, OnlyOne
<1>. QED BY <1>12, <1>15 DEF LibraryIInv

\* The sweep leaves in temp/ what the heartbeat knows, and nothing else.
LEMMA SweptDisk ==
  ASSUME Lib!SkillLibraryAssumption, LibraryIInv, NEW p \in Beats, disk' = Lib!Swept(p)
  PROVE  /\ disk' \in [Lib!Tiers -> [Lib!Skills -> Lib!Content]]
         /\ \A t \in Lib!Tiers, s \in Lib!Skills :
              disk'[t][s] = IF t # "temp" \/ Lib!Has(copy[p], "temp", s) THEN disk[t][s]
                            ELSE Lib!Absent
<1>. USE Found
<1>1. [s \in Lib!Skills |-> IF Lib!Has(copy[p], "temp", s) THEN disk["temp"][s] ELSE Lib!Absent]
        \in [Lib!Skills -> Lib!Content]
  OBVIOUS
<1>. QED BY <1>1 DEF Lib!Swept

LEMMA SweepStep ==
  ASSUME Lib!SkillLibraryAssumption, LibraryIInv, NEW p \in Beats, Lib!Sweep(p)
  PROVE  LibraryIInv'
<1>. USE Found
<1>1. /\ turn[p] = "sweep" /\ disk' = Lib!Swept(p)
      /\ Lib!End(p) /\ UNCHANGED <<index, alone, spoiled, sessions, ends>>
  BY DEF Lib!Sweep, Lib!history
<1>2. /\ disk' \in [Lib!Tiers -> [Lib!Skills -> Lib!Content]]
      /\ \A t \in Lib!Tiers, s \in Lib!Skills :
           disk'[t][s] = IF t # "temp" \/ Lib!Has(copy[p], "temp", s) THEN disk[t][s]
                         ELSE Lib!Absent
  BY <1>1, SweptDisk
<1>3. LibraryTypes' /\ TiersAreKept'
  BY <1>1, <1>2, Ended, StepTypes
<1>4. ASSUME ~spoiled PROVE \A s \in Lib!Skills : Intact(index, s)'
  <2>1. \A s \in Lib!Skills : Intact(index, s)
    BY <1>1, <1>4, IntactInFile DEF Handled
  <2>2. copy[p].entry = index.entry
    BY <1>1, <1>4 DEF KnowsAll
  <2>3. \A s \in Lib!Skills : Lib!Has(copy[p], "temp", s) <=> Lib!Has(index, "temp", s)
    BY <2>2 DEF Lib!Has
  <2>. QED BY <1>1, <1>2, <2>1, <2>3 DEF Intact, Lib!Has
<1>5. AloneKnowsAll' /\ OneByOne'
  BY <1>1, <1>4, Ended, OnlyOne
<1>. QED BY <1>3, <1>5 DEF LibraryIInv

LEMMA SweepAfterEvictionStep ==
  ASSUME Lib!SkillLibraryAssumption, LibraryIInv, NEW p \in Beats, Lib!SweepAfterEviction(p)
  PROVE  LibraryIInv'
<1>. USE Found
<1>1. /\ turn[p] = "sweep_and_save" /\ disk' = Lib!Swept(p)
      /\ turn' = [turn EXCEPT ![p] = "save"]
      /\ UNCHANGED <<index, copy, using, doing, text, touched, alone, spoiled, sessions, ends>>
  BY DEF Lib!SweepAfterEviction, Lib!Go, Lib!history
<1>2. /\ disk' \in [Lib!Tiers -> [Lib!Skills -> Lib!Content]]
      /\ \A t \in Lib!Tiers, s \in Lib!Skills :
           disk'[t][s] = IF t # "temp" \/ Lib!Has(copy[p], "temp", s) THEN disk[t][s]
                         ELSE Lib!Absent
  BY <1>1, SweptDisk
<1>3. /\ turn' \in [Beats -> Turns] /\ turn'[p] = "save"
      /\ \A q \in Beats : q # p => turn'[q] = turn[q]
  BY <1>1 DEF Turns
<1>4. LibraryTypes' /\ TiersAreKept'
  BY <1>1, <1>2, <1>3, StepTypes
<1>5. ASSUME alone[p] PROVE KnowsAll(p)'
  BY <1>1, <1>2, <1>3, <1>5 DEF KnowsAll, Lib!Has
<1>6. ASSUME ~spoiled PROVE Orderly(p)'
  <2>1. \A s \in Lib!Skills : Intact(copy[p], s)
    BY <1>1, <1>6 DEF Orderly, Handled
  <2>2. \A s \in Lib!Skills : Intact(copy[p], s)'
    BY <1>1, <1>2, <2>1 DEF Intact, Lib!Has
  <2>. QED BY <1>1, <1>3, <2>2 DEF Orderly, Handling
<1>7. AloneKnowsAll' /\ OneByOne'
  BY <1>1, <1>3, <1>5, <1>6, OnlyOne
<1>. QED BY <1>4, <1>7 DEF LibraryIInv

LEMMA SaveEvictedStep ==
  ASSUME Lib!SkillLibraryAssumption, LibraryIInv, NEW p \in Beats, Lib!SaveEvicted(p)
  PROVE  LibraryIInv'
<1>. USE Found
<1>1. /\ turn[p] = "save" /\ index' = copy[p]
      /\ Lib!End(p) /\ UNCHANGED <<disk, alone, spoiled, sessions, ends>>
  BY DEF Lib!SaveEvicted, Lib!history
<1>2. LibraryTypes' /\ TiersAreKept'
  BY <1>1, Ended, StepTypes
<1>3. ASSUME ~spoiled PROVE \A s \in Lib!Skills : Intact(index, s)'
  <2>1. \A s \in Lib!Skills : Intact(copy[p], s)
    BY <1>1, <1>3 DEF Orderly, Handled
  <2>. QED BY <1>1, <2>1 DEF Intact, Lib!Has
<1>4. AloneKnowsAll' /\ OneByOne'
  BY <1>1, <1>3, Ended, OnlyOne
<1>. QED BY <1>2, <1>4 DEF LibraryIInv

LEMMA CrashStep ==
  ASSUME Lib!SkillLibraryAssumption, LibraryIInv, NEW p \in Beats, Lib!Crash(p)
  PROVE  LibraryIInv'
<1>. USE Found
<1>1. /\ turn[p] # "off" /\ ends < MaxEnds /\ ends' = ends + 1 /\ spoiled' = TRUE
      /\ Lib!End(p) /\ UNCHANGED <<disk, index, alone, sessions>>
  BY DEF Lib!Crash
<1>2. ends' \in 0..MaxEnds
  BY <1>1 DEF Lib!SkillLibraryAssumption
<1>3. LibraryTypes' /\ TiersAreKept'
  BY <1>1, <1>2, Ended, StepTypes
<1>4. AloneKnowsAll' /\ OneByOne'
  BY <1>1, Ended, OnlyOne
<1>. QED BY <1>3, <1>4 DEF LibraryIInv

\* What the backfill leaves as it is: the entries, and the hashes there are.
LEMMA Backfill ==
  ASSUME Lib!SkillLibraryAssumption, LibraryIInv, NEW p \in Beats
  PROVE  /\ Lib!Backfilled(index) \in Lib!Index
         /\ Lib!Backfilled(index).entry = index.entry
         /\ \A s \in Lib!Skills : index.hash[s] # Lib!Absent =>
              Lib!Backfilled(index).hash[s] = index.hash[s]
<1>. USE Found
<1>. DEFINE there(s) == {t \in Lib!Tiers : Lib!Has(index, t, s) /\ disk[t][s] # Lib!Absent}
            hashes == [s \in Lib!Skills |->
                         IF index.hash[s] # Lib!Absent \/ there(s) = {}
                         THEN index.hash[s] ELSE disk[Lib!FirstOf(there(s))][s]]
<1>1. /\ index.hash \in [Lib!Skills -> Lib!Content]
      /\ index = [entry |-> index.entry, hash |-> index.hash]
  BY DEF Lib!Index
<1>2. \A tiers : Lib!FirstOf(tiers) \in Lib!Tiers
  BY DEF Lib!FirstOf
<1>3. hashes \in [Lib!Skills -> Lib!Content]
  <2>. HIDE DEF there
  <2>1. \A s \in Lib!Skills : disk[Lib!FirstOf(there(s))][s] \in Lib!Content
    BY <1>2
  <2>. QED BY <1>1, <2>1
<1>4. \A s \in Lib!Skills : index.hash[s] # Lib!Absent => hashes[s] = index.hash[s]
  <2>. HIDE DEF there
  <2>. QED OBVIOUS
<1>5. Lib!Backfilled(index) = [index EXCEPT !.hash = hashes]
  BY DEF Lib!Backfilled
<1>. HIDE DEF hashes
<1>6. Lib!Backfilled(index) = [entry |-> index.entry, hash |-> hashes]
  BY <1>1, <1>5
<1>. QED BY <1>3, <1>4, <1>6 DEF Lib!Index

LEMMA StartStep ==
  ASSUME Lib!SkillLibraryAssumption, LibraryIInv, NEW p \in Beats, Lib!Start(p)
  PROVE  LibraryIInv'
<1>. USE Found
<1>. DEFINE new == Lib!Backfilled(index)
<1>1. /\ turn[p] = "off" /\ sessions < MaxSessions /\ sessions' = sessions + 1
      /\ copy' = [copy EXCEPT ![p] = new] /\ index' = new
      /\ turn' = [turn EXCEPT ![p] = "find"]
      /\ alone' = [q \in Beats |-> IF q = p THEN Lib!Running = {}
                                   ELSE alone[q] /\ q \notin Lib!Running]
      /\ spoiled' = (spoiled \/ Lib!Running # {})
      /\ UNCHANGED <<disk, using, doing, text, touched, ends>>
  BY DEF Lib!Start, Lib!Save, Lib!Remember, Lib!Go
<1>2. /\ new \in Lib!Index /\ new.entry = index.entry
      /\ \A s \in Lib!Skills : index.hash[s] # Lib!Absent => new.hash[s] = index.hash[s]
  BY Backfill
<1>. HIDE DEF new
<1>3. /\ copy' \in [Beats -> Lib!Index] /\ copy'[p] = new
      /\ turn' \in [Beats -> Turns] /\ turn'[p] = "find"
      /\ \A q \in Beats : q # p => turn'[q] = turn[q] /\ copy'[q] = copy[q]
  BY <1>1, <1>2 DEF Turns
<1>4. /\ alone' \in [Beats -> BOOLEAN] /\ spoiled' \in BOOLEAN
      /\ alone'[p] <=> Lib!Running = {}
      /\ \A q \in Beats : q # p => (alone'[q] <=> alone[q] /\ q \notin Lib!Running)
      /\ sessions' \in 0..MaxSessions
  <2>1. sessions' \in 0..MaxSessions
    BY <1>1 DEF Lib!SkillLibraryAssumption
  <2>. QED BY <1>1, <2>1
<1>5. \A t, s : Lib!Has(new, t, s) <=> Lib!Has(index, t, s)
  BY <1>2 DEF Lib!Has
<1>6. LibraryTypes' /\ TiersAreKept'
  <2>1. InTheirTiers(new)
    BY <1>5 DEF InTheirTiers
  <2>. QED BY <1>1, <1>2, <1>3, <1>4, <2>1, StepTypes
<1>7. \A q \in Beats : q \in Lib!Running' <=> q = p \/ q \in Lib!Running
  BY <1>1, <1>3 DEF Lib!Running
<1>8. KnowsAll(p)'
  BY <1>1, <1>3 DEF KnowsAll, Lib!Has
<1>9. AloneKnowsAll'
  <2>. SUFFICES ASSUME NEW q \in Lib!Running', alone'[q]
                PROVE  (Lib!Running = {q} /\ KnowsAll(q))'
    BY DEF AloneKnowsAll
  <2>1. q \in Beats /\ Lib!Running' \subseteq Beats
    BY DEF Lib!Running
  <2>2. q = p /\ Lib!Running = {}
    BY <1>4, <1>7, <2>1
  <2>. QED BY <1>7, <1>8, <2>1, <2>2
<1>10. OneByOne'
  <2>. SUFFICES ASSUME ~spoiled'
                PROVE  (/\ \A q \in Lib!Running : alone[q] /\ Orderly(q)
                        /\ Lib!Running = {} => \A s \in Lib!Skills : Intact(index, s))'
    BY DEF OneByOne
  <2>1. ~spoiled /\ Lib!Running = {} /\ alone'[p]
    BY <1>1, <1>4
  <2>2. \A s \in Lib!Skills : Intact(index, s)
    BY <2>1 DEF LibraryIInv, OneByOne
  <2>3. \A s \in Lib!Known(index) : new.hash[s] = index.hash[s]
    BY <1>2, <2>2 DEF Intact, Lib!Known
  <2>4. \A s \in Lib!Skills : Intact(copy[p], s)'
    BY <1>1, <1>3, <1>5, <2>2, <2>3 DEF Intact, Lib!Known, Lib!Has
  <2>5. Orderly(p)'
    BY <1>1, <1>3, <2>4 DEF Orderly, Handling
  <2>6. \A q \in Lib!Running' : q = p
    BY <1>7, <2>1 DEF Lib!Running
  <2>7. p \in Lib!Running'
    BY <1>7
  <2>. QED BY <2>1, <2>5, <2>6, <2>7
<1>. QED BY <1>6, <1>9, <1>10 DEF LibraryIInv

LEMMA LibraryStep ==
  ASSUME Lib!SkillLibraryAssumption, LibraryIInv, [Lib!Next]_library
  PROVE  LibraryIInv'
<1>1. CASE UNCHANGED library
  BY <1>1 DEF library, LibraryIInv, LibraryTypes, Lib!TypeOK, TiersAreKept, InTheirTiers,
     AloneKnowsAll, KnowsAll, OneByOne, Orderly, Intact, Handled, Handling, Lib!Running,
     Lib!Known, Lib!Has
<1>2. CASE Lib!Next
  <2>1. PICK p \in Beats : Lib!Session(p) \/ Lib!Crash(p)
    BY <1>2 DEF Lib!Next
  <2>. QED BY <2>1, StartStep, FindStep, GenerateStep, RegisterStep, RejectStep, DownloadStep,
         CacheStep, DownloadFailsStep, LoadStep, TrackStep, MoveToLocalStep, PromoteNothingStep,
         PromotedStep, EvictStep, SweepStep, SweepAfterEvictionStep, SaveEvictedStep, CrashStep
         DEF Lib!Session
<1>. QED BY <1>1, <1>2

LEMMA LibraryHolds ==
  ASSUME LibraryIInv PROVE Lib!LibraryInv
<1>1. Lib!TypeOK
  BY DEF LibraryIInv, LibraryTypes
<1>2. ASSUME ~spoiled, Lib!Running = {}, NEW s \in Lib!Skills
      PROVE  /\ \A t \in Lib!Tiers : Lib!Has(index, t, s) =>
                  disk[t][s] # Lib!Absent /\ index.hash[s] = disk[t][s]
             /\ Lib!Cardinality({t \in Lib!Tiers : Lib!Has(index, t, s)}) <= 1
             /\ \A t \in {"official", "local"} : disk[t][s] # Lib!Absent => Lib!Has(index, t, s)
  <2>1. Intact(index, s)
    BY <1>2 DEF LibraryIInv, OneByOne
  <2>. DEFINE tiers == {t \in Lib!Tiers : Lib!Has(index, t, s)}
  <2>2. \A t, u \in tiers : t = u
    BY <2>1 DEF Intact
  <2>3. Lib!Cardinality(tiers) <= 1
    <3>. HIDE DEF tiers
    <3>1. tiers = {} \/ \E t : tiers = {t}
      BY <2>2
    <3>2. Cardinality(tiers) = 0 \/ Cardinality(tiers) = 1
      BY <3>1, FS_EmptySet, FS_Singleton, Zenon
    <3>3. Lib!Cardinality(tiers) = Cardinality(tiers)
      BY DEF Lib!Cardinality, Cardinality
    <3>. QED BY <3>2, <3>3
  <2>. QED BY <2>1, <2>3 DEF Intact
<1>. QED BY <1>1, <1>2 DEF Lib!LibraryInv, Lib!LibraryIsConsistent

\* What a heartbeat saves has the skills of local/ that its copy has.
LEMMA SavedLocals ==
  ASSUME Lib!SkillLibraryAssumption, LibraryIInv, NEW p \in Beats, Lib!Session(p),
         index' # index, turn[p] # "off"
  PROVE  /\ \A s \in Lib!Skills : Lib!Has(copy[p], "local", s) => Lib!Has(index', "local", s)
         /\ <<turn[p], using[p]>>' # <<turn[p], using[p]>>
<1>. USE Found
<1>. DEFINE Stays(new) == \A s \in Lib!Skills :
              Lib!Has(copy[p], "local", s) => Lib!Has(new, "local", s)
<1>1. CASE Lib!Register(p)
  <2>. DEFINE new == IF Lib!Has(copy[p], "temp", doing[p])
                     THEN Lib!WithHash(copy[p], doing[p], text[p])
                     ELSE Lib!WithHash(Lib!WithEntry(copy[p], "temp", doing[p], Lib!Fresh),
                                       doing[p], disk["temp"][doing[p]])
  <2>1. /\ turn[p] = "register" /\ turn'[p] \in {"load", "generate"}
        /\ doing[p] \in Lib!Skills /\ index' = new
    BY <1>1 DEF Lib!Register, Lib!Save, Lib!Go, LibraryIInv, LibraryTypes
  <2>2. \A t \in Lib!Tiers, r \in Lib!Skills : Lib!Has(copy[p], t, r) => Lib!Has(new, t, r)
    BY <2>1, Registered
  <2>. QED BY <2>1, <2>2
<1>2. CASE Lib!Cache(p)
  <2>. DEFINE new == Lib!WithEntry(copy[p], "official", doing[p], Lib!Fresh)
  <2>1. /\ turn[p] = "cache" /\ turn'[p] = "load" /\ doing[p] \in Lib!Skills /\ index' = new
    BY <1>2 DEF Lib!Cache, Lib!Save, Lib!Go, LibraryIInv, LibraryTypes
  <2>2. "official" \in Lib!Tiers /\ Lib!Fresh \in Lib!Entry
    BY Entries
  <2>3. \A r \in Lib!Skills : new.entry["local"][r] = copy[p].entry["local"][r]
    BY <2>1, <2>2, EntryReplaced
  <2>. HIDE DEF new
  <2>. QED BY <2>1, <2>3 DEF Lib!Has
<1>3. CASE Lib!Track(p)
  <2>. DEFINE E(s, high) ==
                LET t == Lib!TierOf(copy[p], s)
                IN  [uses |-> IF copy[p].entry[t][s].uses < MinUses
                              THEN copy[p].entry[t][s].uses + 1 ELSE MinUses,
                     high |-> high]
  <2>1. PICK s \in using[p], high \in BOOLEAN :
          /\ using' = [using EXCEPT ![p] = @ \ {s}] /\ s \in Lib!Known(copy[p])
          /\ index' = Lib!WithEntry(copy[p], Lib!TierOf(copy[p], s), s, E(s, high))
    BY <1>3 DEF Lib!Track, Lib!Save
  <2>. DEFINE new == Lib!WithEntry(copy[p], Lib!TierOf(copy[p], s), s, E(s, high))
  <2>2. s \in Lib!Skills /\ s \notin using'[p] /\ s \in using[p] /\ index' = new
    BY <2>1
  <2>3. \A u \in Lib!Tiers, r \in Lib!Skills : Lib!Has(new, u, r) <=> Lib!Has(copy[p], u, r)
    <3>. DEFINE t == Lib!TierOf(copy[p], s)
                e == E(s, high)
    <3>1. /\ e = [uses |-> IF copy[p].entry[t][s].uses < MinUses
                          THEN copy[p].entry[t][s].uses + 1 ELSE MinUses,
                  high |-> high]
          /\ new = Lib!WithEntry(copy[p], t, s, e) /\ t = Lib!TierOf(copy[p], s)
          /\ s \in Lib!Known(copy[p])
      BY <2>1
    <3>. HIDE DEF t, e, new, E
    <3>2. copy[p] \in Lib!Index
      BY DEF LibraryIInv, LibraryTypes
    <3>. QED BY <2>2, <3>1, <3>2, Noted
  <2>. HIDE DEF new
  <2>. QED BY <2>2, <2>3
<1>4. CASE Lib!PromoteNothing(p)
  <2>. DEFINE s == doing[p]
              new == Lib!WithEntry(copy[p], "temp", s, Lib!NoEntry)
  <2>1. turn[p] = "promote" /\ turn'[p] = "track" /\ s \in Lib!Skills /\ index' = new
    BY <1>4 DEF Lib!PromoteNothing, Lib!Save, Lib!Go, LibraryIInv, LibraryTypes
  <2>2. /\ new \in Lib!Index
        /\ \A t \in Lib!Tiers, r \in Lib!Skills :
             new.entry[t][r] = IF t = "temp" /\ r = s THEN Lib!NoEntry ELSE copy[p].entry[t][r]
    <3>1. new = Lib!WithEntry(copy[p], "temp", s, Lib!NoEntry) /\ "temp" \in Lib!Tiers
      OBVIOUS
    <3>. HIDE DEF new, s
    <3>. QED BY <2>1, <3>1, EntryReplaced
  <2>. HIDE DEF new
  <2>. QED BY <2>1, <2>2 DEF Lib!Has
<1>5. CASE Lib!Promoted(p)
  <2>. DEFINE s == doing[p]
              e == copy[p].entry["temp"][s]
              middle == Lib!WithEntry(copy[p], "local", s, e)
              new == Lib!WithEntry(middle, "temp", s, Lib!NoEntry)
  <2>1. /\ turn[p] = "promoted" /\ turn'[p] = "track" /\ s \in Lib!Skills
        /\ e \in Lib!Entry \cup {Lib!NoEntry} /\ e # Lib!NoEntry
        /\ index' = new
    BY <1>5 DEF Lib!Promoted, Lib!Save, Lib!Go, Lib!Has, LibraryIInv, LibraryTypes
  <2>2. /\ middle \in Lib!Index
        /\ \A r \in Lib!Skills :
             middle.entry["local"][r] = IF r = s THEN e ELSE copy[p].entry["local"][r]
    <3>1. middle = Lib!WithEntry(copy[p], "local", s, e) /\ "local" \in Lib!Tiers
      OBVIOUS
    <3>. HIDE DEF middle, e
    <3>. QED BY <2>1, <3>1, EntryReplaced
  <2>. HIDE DEF middle
  <2>3. \A t \in Lib!Tiers, r \in Lib!Skills :
          new.entry[t][r] = IF t = "temp" /\ r = s THEN Lib!NoEntry ELSE middle.entry[t][r]
    <3>1. new = Lib!WithEntry(middle, "temp", s, Lib!NoEntry) /\ "temp" \in Lib!Tiers
      OBVIOUS
    <3>. HIDE DEF new, s
    <3>. QED BY <2>1, <2>2, <3>1, EntryReplaced
  <2>. HIDE DEF new, e
  <2>. QED BY <2>1, <2>2, <2>3 DEF Lib!Has
<1>6. CASE Lib!SaveEvicted(p)
  BY <1>6, Ended DEF Lib!SaveEvicted
<1>7. Lib!Register(p) \/ Lib!Cache(p) \/ Lib!Track(p) \/ Lib!PromoteNothing(p) \/ Lib!Promoted(p)
      \/ Lib!SaveEvicted(p)
  BY DEF Lib!Session, Lib!Start, Lib!Find, Lib!Generate, Lib!Reject, Lib!Download,
     Lib!DownloadFails, Lib!Load, Lib!MoveToLocal, Lib!Evict, Lib!Sweep,
     Lib!SweepAfterEviction, Lib!files
<1>. QED BY <1>1, <1>2, <1>3, <1>4, <1>5, <1>6, <1>7

LEMMA LocalKept ==
  ASSUME Lib!SkillLibraryAssumption, LibraryIInv, Lib!Next, NEW s \in Lib!Skills,
         Lib!Has(index, "local", s), ~Lib!Has(index', "local", s)
  PROVE  \E p \in Lib!Running : ~alone[p] /\ <<turn[p], using[p]>>' # <<turn[p], using[p]>>
<1>1. PICK p \in Beats : Lib!Session(p) \/ Lib!Crash(p)
  BY DEF Lib!Next
<1>2. index' # index /\ Lib!Session(p)
  BY <1>1 DEF Lib!Crash
<1>3. turn[p] # "off"
  <2>. SUFFICES ASSUME turn[p] = "off" PROVE FALSE
    OBVIOUS
  <2>1. Lib!Start(p)
    BY <1>2 DEF Lib!Session, Lib!Find, Lib!Generate, Lib!Register, Lib!Reject, Lib!Download,
       Lib!Cache, Lib!DownloadFails, Lib!Load, Lib!Track, Lib!MoveToLocal, Lib!PromoteNothing,
       Lib!Promoted, Lib!Evict, Lib!Sweep, Lib!SweepAfterEviction, Lib!SaveEvicted
  <2>2. index'.entry = index.entry
    BY <2>1, Backfill DEF Lib!Start, Lib!Save
  <2>. QED BY <2>2 DEF Lib!Has
<1>4. ~Lib!Has(copy[p], "local", s) /\ <<turn[p], using[p]>>' # <<turn[p], using[p]>>
  BY <1>2, <1>3, SavedLocals
<1>5. p \in Lib!Running /\ ~alone[p]
  BY <1>3, <1>4, Found DEF KnowsAll
<1>. QED BY <1>4, <1>5

LEMMA NoOrphans ==
  ASSUME Lib!SkillLibraryAssumption, LibraryIInv, Lib!Next, NEW p \in Beats,
         turn[p] \in {"sweep", "save"}, turn'[p] = "off", alone[p], ends' = ends
  PROVE  \A s \in Lib!Skills : disk'["temp"][s] # Lib!Absent => Lib!Has(index', "temp", s)
<1>. USE Found
<1>1. KnowsAll(p)
  OBVIOUS
<1>2. PICK q \in Beats : Lib!Session(q) \/ Lib!Crash(q)
  BY DEF Lib!Next
<1>3. ~Lib!Crash(q)
  BY DEF Lib!Crash, Lib!SkillLibraryAssumption
<1>4. q = p
  <2>. DEFINE Goes == \E step \in Turns : turn' = [turn EXCEPT ![q] = step]
  <2>. USE DEF Lib!Go, Turns
  <2>1. Lib!Find(q) => Goes
    BY DEF Lib!Find
  <2>2. Lib!Track(q) => Goes \/ turn' = turn
    BY DEF Lib!Track
  <2>3. Lib!Register(q) \/ Lib!DownloadFails(q) \/ Lib!MoveToLocal(q) \/ Lib!Evict(q) => Goes
    BY DEF Lib!Register, Lib!DownloadFails, Lib!MoveToLocal, Lib!Evict
  <2>4. /\ Lib!Start(q) \/ Lib!Generate(q) \/ Lib!Download(q) \/ Lib!Cache(q) => Goes
        /\ Lib!Load(q) \/ Lib!PromoteNothing(q) \/ Lib!Promoted(q) => Goes
        /\ Lib!SweepAfterEviction(q) => Goes
    BY DEF Lib!Start, Lib!Generate, Lib!Download, Lib!Cache, Lib!Load, Lib!PromoteNothing,
       Lib!Promoted, Lib!SweepAfterEviction
  <2>5. Lib!Reject(q) \/ Lib!Sweep(q) \/ Lib!SaveEvicted(q) => Goes
    BY DEF Lib!Reject, Lib!Sweep, Lib!SaveEvicted, Lib!End
  <2>6. Goes \/ turn' = turn
    BY <1>2, <1>3, <2>1, <2>2, <2>3, <2>4, <2>5 DEF Lib!Session
  <2>. QED BY <2>6
<1>5. Lib!Sweep(p) \/ Lib!SaveEvicted(p)
  BY <1>2, <1>3, <1>4 DEF Lib!Session, Lib!Start, Lib!Find, Lib!Generate, Lib!Register,
     Lib!Reject, Lib!Download, Lib!Cache, Lib!DownloadFails, Lib!Load, Lib!Track,
     Lib!MoveToLocal, Lib!PromoteNothing, Lib!Promoted, Lib!Evict, Lib!SweepAfterEviction
<1>6. CASE Lib!Sweep(p)
  <2>1. turn[p] = "sweep" /\ disk' = Lib!Swept(p) /\ index' = index
    BY <1>6 DEF Lib!Sweep
  <2>2. \A s \in Lib!Skills : Lib!Has(copy[p], "temp", s) <=> Lib!Has(index, "temp", s)
    BY <1>1, <2>1 DEF KnowsAll, Lib!Has
  <2>. QED BY <2>1, <2>2, SweptDisk
<1>7. CASE Lib!SaveEvicted(p)
  BY <1>1, <1>7 DEF Lib!SaveEvicted, KnowsAll
<1>. QED BY <1>5, <1>6, <1>7

-----------------------------------------------------------------------------
(* The library and the versions together                                   *)

\* A step of one leaves the other alone.
LEMMA LibraryFrame == [SkillsNext]_skills => [Lib!Next]_library
BY DEF SkillsNext, skills, library
LEMMA VersionsFrame == [SkillsNext]_skills => [Ver!Next]_Ver!vars
BY DEF SkillsNext, skills, versions, Ver!vars

LEMMA LibraryInvariance == ASSUME Lib!SkillLibraryAssumption PROVE SkillsSpec => []LibraryIInv
<1>1. SkillsInit => Lib!Init
  BY DEF SkillsInit
<1>. QED BY <1>1, LibraryFrame, LibraryInitially, LibraryStep, PTL DEF SkillsSpec

\* While heartbeats come one after the other and none is killed, what the index
\* has loads and a name is in one tier; and of a skill's two versions one is
\* always there.  For any heartbeats, skills, contents and scores.
THEOREM LibrarySafety ==
  ASSUME Lib!SkillLibraryAssumption, Ver!SkillVersionsAssumption
  PROVE  SkillsSpec => []LibraryInv
<1>1. SkillsInit => Ver!Init
  BY DEF SkillsInit
<1>2. VersionsIInv => Ver!VersionsInv
  BY DEF VersionsIInv, VersionTypes, EntriesFollow, Ver!VersionsInv, Ver!VersionsAreIndexed
<1>3. LibraryIInv /\ VersionsIInv => LibraryInv
  BY <1>2, LibraryHolds DEF LibraryInv
<1>. QED BY <1>1, <1>3, VersionsFrame, VersionsInitially, VersionsStep, LibraryInvariance, PTL
         DEF SkillsSpec

\* A promoted skill stays in the index of heartbeats that nobody overlaps,
\* whatever crashed or overlapped before them.
THEOREM LocalStays == ASSUME Lib!SkillLibraryAssumption PROVE SkillsSpec => LocalIsPermanent
<1>1. LibraryIInv /\ [Lib!Next]_library =>
        [\A s \in Lib!Skills : Lib!Has(index, "local", s) /\ ~Lib!Has(index', "local", s) =>
           \E p \in Lib!Running :
             ~alone[p] /\ <<turn[p], using[p]>>' # <<turn[p], using[p]>>]_Lib!vars
  BY LocalKept DEF library, Lib!vars
<1>. QED BY <1>1, LibraryFrame, LibraryInvariance, PTL
         DEF SkillsSpec, LocalIsPermanent, Lib!LocalIsPermanent

\* A heartbeat that runs alone to its end leaves nothing in temp/ that the index
\* does not know, whatever crashed or overlapped before it.
THEOREM NothingIsOrphaned ==
  ASSUME Lib!SkillLibraryAssumption PROVE SkillsSpec => SweepLeavesNoOrphans
<1>1. LibraryIInv /\ [Lib!Next]_library =>
        [\A p \in Beats :
           /\ turn[p] \in {"sweep", "save"} /\ turn'[p] = "off"
           /\ alone[p] /\ ends' = ends
           => \A s \in Lib!Skills :
                disk'["temp"][s] # Lib!Absent => Lib!Has(index', "temp", s)]_Lib!vars
  BY NoOrphans DEF library, Lib!vars
<1>. QED BY <1>1, LibraryFrame, LibraryInvariance, PTL
         DEF SkillsSpec, SweepLeavesNoOrphans, Lib!SweepLeavesNoOrphans

=============================================================================
