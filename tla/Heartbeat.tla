------------------------------- MODULE Heartbeat -------------------------------
(***************************************************************************)
(* agents/heartbeat.py with agents/cancellation.py and                     *)
(* agents/heartbeat_signals.py: heartbeats of one agent pick an issue,     *)
(* check it out, run the workflow on it and write the outcome back.  Two   *)
(* heartbeats may overlap (the server wakes an agent for a comment while a *)
(* scheduled run is under way); between any two calls to the server people *)
(* change the issue, and a heartbeat can be killed.                        *)
(*                                                                         *)
(* The Paperclip server is external.  It grants a checkout on the statuses *)
(* the client names; whether it also hands out an issue that is already    *)
(* "in_progress" and held by no run is left open.                          *)
(***************************************************************************)
EXTENDS Naturals

CONSTANTS
  Issues,    \* issues assigned to the agent
  Runs,      \* heartbeats that may overlap
  MaxFaults, \* bound: API calls that end in a PaperclipAPIError
  MaxKills,  \* bound: heartbeats that are killed or sent SIGTERM
  MaxHuman   \* bound: interventions of people

None == "none"

ASSUME HeartbeatAssumption ==
  /\ None \notin Issues /\ None \notin Runs
  /\ MaxFaults \in Nat /\ MaxKills \in Nat /\ MaxHuman \in Nat

VARIABLES
  status,   \* status of each issue
  holder,   \* run that holds the checkout of each issue
  asked,    \* issues whose agent waits for a clarification
  replied,  \* issues with a reply its agent has not been woken for
  locked,   \* SpendingTracker.lock_permanently has been called
  pc,       \* where each run stands
  wake,     \* issue the run was woken for by a reply
  cand,     \* rank of each candidate still to be tried
  issue,    \* issue the run works on
  resume,   \* the run treats the reply as a clarification
  watching, \* the cancellation poller is alive
  token,    \* the CancellationToken has fired
  verdict,  \* outcome of the workflow
  stale,    \* history: issues a killed run or a failed call left behind
  leaked,   \* history: issues whose checkout a killed run or a failed call left
  faults, kills, humans

server == <<status, holder, asked, replied, locked>>
run == <<pc, wake, cand, issue, resume, watching, token, verdict>>
history == <<stale, leaked>>
bounds == <<faults, kills, humans>>
vars == <<server, run, history, bounds>>

Statuses == {"todo", "in_progress", "blocked", "done", "cancelled"}

\* Ranks of _rank_tasks; "no" is an issue not to be tried (any more).
Ranks == {"forced", "in_progress", "todo", "no"}
NoCandidates == [i \in Issues |-> "no"]

Init ==
  /\ status = [i \in Issues |-> "todo"]
  /\ holder = [i \in Issues |-> None]
  /\ asked = {} /\ replied = {}
  /\ locked = FALSE
  /\ pc = [r \in Runs |-> "idle"]
  /\ wake = [r \in Runs |-> None]
  /\ cand = [r \in Runs |-> NoCandidates]
  /\ issue = [r \in Runs |-> None]
  /\ resume = [r \in Runs |-> FALSE]
  /\ watching = [r \in Runs |-> FALSE]
  /\ token = [r \in Runs |-> FALSE]
  /\ verdict = [r \in Runs |-> None]
  /\ stale = {} /\ leaked = {}
  /\ faults = 0 /\ kills = 0 /\ humans = 0

-----------------------------------------------------------------------------
(* Calls to the server, as in Orchestrator: "lost" was done by the server  *)
(* although the client sees an error.                                      *)

Writes == {"ok", "fail", "lost"}

Call(out) ==
  IF out = "ok" THEN UNCHANGED faults
  ELSE faults < MaxFaults /\ faults' = faults + 1

Applied(out) == out # "fail"

Goto(r, p) == pc' = [pc EXCEPT ![r] = p]

\* The process ends; the next heartbeat starts from nothing.
Forget(r) ==
  /\ Goto(r, "idle")
  /\ wake' = [wake EXCEPT ![r] = None]
  /\ cand' = [cand EXCEPT ![r] = NoCandidates]
  /\ issue' = [issue EXCEPT ![r] = None]
  /\ resume' = [resume EXCEPT ![r] = FALSE]
  /\ watching' = [watching EXCEPT ![r] = FALSE]
  /\ token' = [token EXCEPT ![r] = FALSE]
  /\ verdict' = [verdict EXCEPT ![r] = None]

-----------------------------------------------------------------------------
(* Steps 0 to 4: gate, assignments, ranking, checkout                      *)

\* A heartbeat passes the circuit-breaker gate.  It was started by a timer, or
\* for an issue a person has replied on.
Start(r) ==
  /\ pc[r] = "idle"
  /\ ~locked
  /\ Goto(r, "assignments")
  /\ \/ UNCHANGED <<wake, replied>>
     \/ \E i \in replied : /\ wake' = [wake EXCEPT ![r] = i]
                           /\ replied' = replied \ {i}
  /\ UNCHANGED <<status, holder, asked, locked, cand, issue, resume, watching,
                 token, verdict, history, bounds>>

\* Mutant: blocked issues are tried like any other.
RankBlockedToo(r, i) ==
  IF status[i] \notin {"todo", "in_progress", "blocked"} THEN "no"
  ELSE IF wake[r] = i THEN "forced"
  ELSE IF status[i] = "in_progress" THEN "in_progress"
  ELSE "todo"
\* Mutant: a heartbeat does nothing but resume.
RankStartedOnly(r, i) ==
  IF status[i] \notin {"in_progress", "blocked"} THEN "no"
  ELSE IF wake[r] = i THEN "forced"
  ELSE IF status[i] = "blocked" THEN "no"
  ELSE status[i]

\* _rank_tasks on the assignments just fetched.
Rank(r, i) ==
  IF status[i] \notin {"todo", "in_progress", "blocked"} THEN "no"
  ELSE IF wake[r] = i THEN "forced"
  ELSE IF status[i] = "blocked" THEN "no"
  ELSE status[i]

FetchAssignments(r) ==
  /\ pc[r] = "assignments"
  /\ \/ /\ cand' = [cand EXCEPT ![r] = [i \in Issues |-> Rank(r, i)]]
        /\ Goto(r, "checkout")
        /\ UNCHANGED <<wake, issue, resume, watching, token, verdict, faults>>
     \/ Call("fail") /\ Forget(r)
  /\ UNCHANGED <<server, history, kills, humans>>

\* The order of the ranked list: forced, then in_progress, then todo.
Best(r, i) ==
  /\ cand[r][i] # "no"
  /\ cand[r][i] # "forced" => \A j \in Issues : cand[r][j] # "forced"
  /\ cand[r][i] = "todo" => \A j \in Issues : cand[r][j] # "in_progress"

\* The server's answer to a checkout: external.
MayGrant(i) == holder[i] = None /\ status[i] \notin {"done", "cancelled"}
MayRefuse(i) == holder[i] # None \/ status[i] \notin {"todo", "blocked"}

\* Mutant: a checkout that was refused is taken for granted.
TakeAnyway(r, i) ==
  /\ issue' = [issue EXCEPT ![r] = i]
  /\ cand' = [cand EXCEPT ![r] = NoCandidates]
  /\ Goto(r, "picked")

\* A refused or failed candidate: on to the next.
TryNext(r, i) ==
  /\ cand' = [cand EXCEPT ![r][i] = "no"]
  /\ UNCHANGED <<pc, issue>>

Checkout(r, i) ==
  /\ pc[r] = "checkout"
  /\ Best(r, i)
  /\ \/ /\ MayGrant(i)
        /\ holder' = [holder EXCEPT ![i] = r]
        /\ issue' = [issue EXCEPT ![r] = i]
        /\ cand' = [cand EXCEPT ![r] = NoCandidates]
        /\ Goto(r, "picked")
        /\ UNCHANGED <<leaked, faults>>
     \/ /\ MayRefuse(i)
        /\ TryNext(r, i)
        /\ UNCHANGED <<holder, leaked, faults>>
     \/ /\ Call("fail")
        /\ TryNext(r, i)
        /\ UNCHANGED <<holder, leaked>>
     \/ /\ MayGrant(i)
        /\ Call("lost")
        /\ TryNext(r, i)
        /\ holder' = [holder EXCEPT ![i] = r]
        /\ leaked' = leaked \cup {i}
  /\ UNCHANGED <<status, asked, replied, locked, wake, resume, watching, token,
                 verdict, stale, kills, humans>>

NothingToDo(r) ==
  /\ pc[r] = "checkout"
  /\ \A i \in Issues : cand[r][i] = "no"
  /\ Forget(r)
  /\ UNCHANGED <<server, history, bounds>>

-----------------------------------------------------------------------------
(* Steps 5b to 7: mark, context, workflow                                  *)

\* Step 5b; a failure is not fatal.
MarkInProgress(r) ==
  /\ pc[r] = "picked"
  /\ \E out \in Writes :
       /\ Call(out)
       /\ status' = IF Applied(out)
                    THEN [status EXCEPT ![issue[r]] = "in_progress"] ELSE status
  /\ Goto(r, "marked")
  /\ UNCHANGED <<holder, asked, replied, locked, wake, cand, issue, resume,
                 watching, token, verdict, history, kills, humans>>

\* _detect_clarification_resume: the issue must be seen blocked.
IsResume(r) == wake[r] = issue[r] /\ status[issue[r]] = "blocked"

\* Step 6: get_issue and get_comments; then the cancellation poller and the
\* SIGTERM handler are installed.  Without context the run goes to release,
\* and the issue stays as step 5b left it.
BuildContext(r) ==
  /\ pc[r] = "marked"
  /\ \/ /\ resume' = [resume EXCEPT ![r] = IsResume(r)]
        /\ watching' = [watching EXCEPT ![r] = TRUE]
        /\ Goto(r, "work")
        /\ UNCHANGED <<stale, faults>>
     \/ /\ Call("fail")
        /\ Goto(r, "release")
        /\ stale' = stale \cup {issue[r]}
        /\ UNCHANGED <<resume, watching>>
  /\ UNCHANGED <<server, wake, cand, issue, token, verdict, leaked,
                 kills, humans>>

\* The poller, or the WebSocket handler, sees the issue cancelled.
SeeCancelled(r) ==
  /\ watching[r] /\ ~token[r]
  /\ status[issue[r]] = "cancelled"
  /\ token' = [token EXCEPT ![r] = TRUE]
  /\ UNCHANGED <<server, pc, wake, cand, issue, resume, watching, verdict,
                 history, bounds>>

\* Three errors in a row: the poller stops for good (one fault stands for the
\* outage).
PollerGivesUp(r) ==
  /\ watching[r]
  /\ Call("fail")
  /\ watching' = [watching EXCEPT ![r] = FALSE]
  /\ UNCHANGED <<server, pc, wake, cand, issue, resume, token, verdict,
                 history, kills, humans>>

Conclude(r, v) ==
  /\ Goto(r, "post")
  /\ verdict' = [verdict EXCEPT ![r] = v]
  /\ watching' = [watching EXCEPT ![r] = FALSE]

\* The workflow returns, scored or with questions, or raises.  The token is
\* only looked at between two nodes, so a fired one may come too late.
WorkflowEnds(r) ==
  /\ pc[r] = "work"
  /\ \/ \E v \in {"done", "blocked", "clarify", "billing"} : Conclude(r, v)
     \/ token[r] /\ Conclude(r, "cancelled")
  /\ UNCHANGED <<server, wake, cand, issue, resume, token, history, bounds>>

\* SIGTERM while the handler is installed.
Sigterm(r) ==
  /\ pc[r] = "work"
  /\ kills < MaxKills /\ kills' = kills + 1
  /\ Conclude(r, "blocked")
  /\ UNCHANGED <<server, wake, cand, issue, resume, token, history, faults, humans>>

-----------------------------------------------------------------------------
(* Steps 8 and 9: the outcome; then the checkout is released               *)

FinalStatus(v) == IF v = "done" THEN "done" ELSE "blocked"

\* The issue gets its status and comment, whatever it has become meanwhile; a
\* cancelled one only a comment.
PostOutcome(r) ==
  /\ pc[r] = "post"
  /\ verdict[r] # "cancelled"
  /\ \E out \in Writes :
       /\ Call(out)
       /\ IF Applied(out)
          THEN /\ status' = [status EXCEPT ![issue[r]] = FinalStatus(verdict[r])]
               /\ asked' = IF verdict[r] = "clarify" THEN asked \cup {issue[r]}
                           ELSE asked \ {issue[r]}
               /\ stale' = stale \ {issue[r]}
          ELSE /\ stale' = stale \cup {issue[r]}
               /\ UNCHANGED <<status, asked>>
  /\ locked' = (locked \/ verdict[r] = "billing")
  /\ Goto(r, "release")
  /\ UNCHANGED <<holder, replied, wake, cand, issue, resume, watching, token,
                 verdict, leaked, kills, humans>>

PostCancelled(r) ==
  /\ pc[r] = "post"
  /\ verdict[r] = "cancelled"
  /\ \E out \in Writes : Call(out)
  /\ Goto(r, "release")
  /\ UNCHANGED <<server, wake, cand, issue, resume, watching, token, verdict,
                 history, kills, humans>>

\* Mutant: nothing is released after a cancellation.
FreedUnlessCancelled(r) ==
  holder' = IF verdict[r] = "cancelled" THEN holder
            ELSE [holder EXCEPT ![issue[r]] = None]

Freed(r) == holder' = [holder EXCEPT ![issue[r]] = None]

\* The finally clause; it also runs under the NameError that the billing handler
\* ends in (it calls _finish, a name its function does not have).
Release(r) ==
  /\ pc[r] = "release"
  /\ \E out \in Writes :
       /\ Call(out)
       /\ IF Applied(out)
          THEN /\ Freed(r)
               /\ leaked' = leaked \ {issue[r]}
          ELSE /\ leaked' = leaked \cup {issue[r]}
               /\ UNCHANGED holder
  /\ Forget(r)
  /\ UNCHANGED <<status, asked, replied, locked, stale, kills, humans>>

-----------------------------------------------------------------------------
(* SIGKILL, or SIGTERM outside the handler's window                        *)

Kill(r) ==
  /\ pc[r] # "idle"
  /\ kills < MaxKills /\ kills' = kills + 1
  /\ stale' = stale \cup ({issue[r]} \cap Issues)
  /\ leaked' = leaked \cup ({issue[r]} \cap Issues)
  /\ Forget(r)
  /\ UNCHANGED <<server, faults, humans>>

-----------------------------------------------------------------------------
(* The server and the people                                               *)

\* The server notices that the run holding an issue does not work on it.
Expire(i) ==
  /\ holder[i] # None
  /\ issue[holder[i]] # i
  /\ holder' = [holder EXCEPT ![i] = None]
  /\ leaked' = leaked \ {i}
  /\ UNCHANGED <<status, asked, replied, locked, run, stale, bounds>>

ByHuman == humans < MaxHuman /\ humans' = humans + 1

Reply(i) ==
  /\ i \in asked /\ i \notin replied
  /\ replied' = replied \cup {i}
  /\ ByHuman
  /\ UNCHANGED <<status, holder, asked, locked, run, history, faults, kills>>

Cancel(i) ==
  /\ status[i] # "cancelled"
  /\ status' = [status EXCEPT ![i] = "cancelled"]
  /\ ByHuman
  /\ UNCHANGED <<holder, asked, replied, locked, run, history, faults, kills>>

Reopen(i) ==
  /\ status[i] \in {"blocked", "done", "cancelled"}
  /\ status' = [status EXCEPT ![i] = "todo"]
  /\ ByHuman
  /\ UNCHANGED <<holder, asked, replied, locked, run, history, faults, kills>>

-----------------------------------------------------------------------------

Advance(r) ==
  \/ Start(r) \/ FetchAssignments(r) \/ NothingToDo(r) \/ MarkInProgress(r)
  \/ BuildContext(r) \/ WorkflowEnds(r) \/ PostOutcome(r) \/ PostCancelled(r)
  \/ Release(r)
  \/ \E i \in Issues : Checkout(r, i)

Next ==
  \/ \E r \in Runs : \/ Advance(r) \/ SeeCancelled(r) \/ PollerGivesUp(r)
                     \/ Sigterm(r) \/ Kill(r)
  \/ \E i \in Issues : Expire(i) \/ Reply(i) \/ Cancel(i) \/ Reopen(i)

\* Heartbeats are started again and again, every call and the workflow itself
\* have a timeout, and the server frees the checkouts of runs that are gone.
Fairness ==
  /\ \A r \in Runs : WF_vars(Advance(r))
  /\ \A i \in Issues : WF_vars(Expire(i))

Spec == Init /\ [][Next]_vars /\ Fairness

-----------------------------------------------------------------------------
(* Properties                                                              *)

Pcs == {"idle", "assignments", "checkout", "picked", "marked", "work", "post",
        "release"}
Owning == {"picked", "marked", "work", "post", "release"}
Verdicts == {None, "done", "blocked", "clarify", "cancelled", "billing"}

\* The type invariant.
TypeOK ==
  /\ status \in [Issues -> Statuses]
  /\ holder \in [Issues -> Runs \cup {None}]
  /\ asked \in SUBSET Issues /\ replied \in SUBSET Issues
  /\ locked \in BOOLEAN
  /\ pc \in [Runs -> Pcs]
  /\ wake \in [Runs -> Issues \cup {None}]
  /\ cand \in [Runs -> [Issues -> Ranks]]
  /\ issue \in [Runs -> Issues \cup {None}]
  /\ resume \in [Runs -> BOOLEAN]
  /\ watching \in [Runs -> BOOLEAN]
  /\ token \in [Runs -> BOOLEAN]
  /\ verdict \in [Runs -> Verdicts]
  /\ stale \in SUBSET Issues /\ leaked \in SUBSET Issues
  /\ faults \in Nat /\ kills \in Nat /\ humans \in Nat

\* Two heartbeats never work on one issue, and each holds the checkout of the
\* issue it works on from the checkout to the release.
OneRunPerIssue ==
  \A r \in Runs : pc[r] \in Owning => holder[issue[r]] = r

\* A checkout nobody works under was left by a killed run, or by a call whose
\* failure the run could only log.
CheckoutsAreReturned ==
  \A i \in Issues :
    holder[i] # None => i \in leaked \/ issue[holder[i]] = i

\* An issue is "in_progress" only while a heartbeat works on it, unless one was
\* killed on it or could not read or write it.
NoIssueLeftInProgress ==
  \A i \in Issues :
    status[i] = "in_progress" =>
      \/ i \in stale
      \/ \E r \in Runs : issue[r] = i /\ pc[r] \in {"marked", "work", "post"}

\* When heartbeats of the agent do not overlap, an issue that is blocked, for
\* instance on a question, is not worked on before a person replied to it or
\* moved it on.
QuestionsAreAwaited ==
  [][\A r \in Runs, i \in Issues :
       issue[r] # i /\ issue'[r] = i /\ status[i] = "blocked" => wake[r] = i]_vars

\* As long as the spending tracker is not locked, an issue that is "todo" is
\* taken up, when heartbeats do not overlap.
IsTakenUp(i) == [](~locked) => (status[i] = "todo" ~> status[i] # "todo")

\* What every state of the heartbeats satisfies, for any constants.
HeartbeatInv ==
  TypeOK /\ OneRunPerIssue /\ CheckoutsAreReturned /\ NoIssueLeftInProgress

=============================================================================
