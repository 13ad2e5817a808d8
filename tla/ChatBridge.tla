------------------------------ MODULE ChatBridge ------------------------------
(***************************************************************************)
(* agents/daemon.py: the bridge from chat to the board.  The main thread   *)
(* polls for mentions and queues them; one handler thread makes an issue   *)
(* of each and blocks until the issue is settled, to post the result back. *)
(* What both know of a mention is in memory: a restart forgets it, while   *)
(* the mention can still be found for a minute.  A message that the chat   *)
(* server refuses is logged and forgotten.                                 *)
(***************************************************************************)
EXTENDS Naturals, Sequences, FiniteSets, Functions

CONSTANTS
  Mentions,    \* messages that mention the bot
  Short,       \* those whose text is too short for a request
  MaxQueue,    \* MAX_QUEUE_SIZE
  MaxDedup,    \* DEDUP_MAX_SIZE
  MaxTrouble   \* bound: failed polls, calls and messages, restarts, and polls that
               \* find more than the table of processed messages holds

VARIABLES
  age,       \* of each mention: "unsent", "recent" (a poll finds it), "old"
  processed, \* processed_messages, in the order of insertion
  queue,     \* request_queue
  found,     \* all_mentions of the present poll, those not looked at yet;
             \* the order in which the servers list them is left open
  main,      \* the main thread: "poll", "consider", "exit"
  stopped,   \* running is False and shutdown_event is set
  handler,   \* the handler thread: its next step, "stopped" or "dead"
  current,   \* the mention it handles
  inflight,  \* the entries in inflight: a mention and the number of its issue
  issues,    \* issues made for each mention in this life of the process
  answers,   \* final replies to each mention, of any kind, in this life
  unheard,   \* history: mentions a final reply to which did not get through
  raised,    \* history: mentions whose handling ended in an exception
  forgotten, \* history: how often each mention lost its mark while a poll or
             \* the present turn could still come upon it
  faults, restarts \* failures and restarts so far, bounded together

mainVars == <<processed, found, main, stopped, forgotten>>
handlerVars == <<handler, current, inflight>>
replies == <<answers, unheard>>
bounds == <<faults, restarts>>
vars == <<age, mainVars, queue, handlerVars, issues, replies, raised, bounds>>

None == "none"

ChatBridgeAssumption ==
  /\ IsFiniteSet(Mentions) /\ None \notin Mentions /\ Short \subseteq Mentions
  /\ MaxQueue \in Nat \ {0} /\ MaxDedup \in Nat \ {0} /\ MaxTrouble \in Nat

Init ==
  /\ age = [m \in Mentions |-> "unsent"]
  /\ processed = <<>> /\ queue = <<>> /\ found = {}
  /\ main = "poll" /\ stopped = FALSE
  /\ handler = "check" /\ current = None
  /\ inflight = {}
  /\ issues = [m \in Mentions |-> 0] /\ answers = [m \in Mentions |-> 0]
  /\ forgotten = [m \in Mentions |-> 0]
  /\ unheard = {} /\ raised = {}
  /\ faults = 0 /\ restarts = 0

Trouble == faults + restarts < MaxTrouble

\* _send_response: whether the message gets through makes no difference to the
\* bridge.
Delivered(m) == answers' = [answers EXCEPT ![m] = @ + 1] /\ UNCHANGED unheard
Refused(m) == unheard' = unheard \cup {m} /\ UNCHANGED answers
Answer(m) ==
  \/ Delivered(m) /\ UNCHANGED faults
  \/ Refused(m) /\ Trouble /\ faults' = faults + 1

-----------------------------------------------------------------------------
(* The main thread                                                         *)

\* _mark_message_processed.  An entry expires after an hour, when a poll no
\* longer finds its message, so that only the cap on the size matters.
Mark(m) ==
  LET p == Append(processed, m)
      h == Head(p)
  IN  IF Len(p) > MaxDedup
      THEN /\ processed' = Tail(p)
           /\ forgotten' = IF age[h] = "recent" \/ h \in found \ {m}
                           THEN [forgotten EXCEPT ![h] = @ + 1] ELSE forgotten
      ELSE processed' = p /\ UNCHANGED forgotten

\* One turn of the loop finds every recent mention, or nothing when the search
\* fails.  Without a new turn the stopped loop ends, and the handler with it.
Recent == {m \in Mentions : age[m] = "recent"}

Poll ==
  /\ main = "poll" /\ ~stopped
  /\ \/ found' = Recent /\ Cardinality(Recent) <= MaxDedup /\ UNCHANGED faults
     \/ found' = Recent /\ Cardinality(Recent) > MaxDedup /\ Trouble /\ faults' = faults + 1
     \/ found' = {} /\ Trouble /\ faults' = faults + 1
  /\ main' = "consider"
  /\ UNCHANGED <<age, processed, stopped, forgotten, queue, handlerVars, issues,
                 replies, raised, restarts>>

PollEnds ==
  /\ main = "consider" /\ found = {}
  /\ main' = "poll"
  /\ UNCHANGED <<age, processed, found, stopped, forgotten, queue, handlerVars,
                 issues, replies, raised, bounds>>

Quit ==
  /\ main = "poll" /\ stopped
  /\ main' = "exit" /\ handler' = "dead" /\ current' = None
  /\ UNCHANGED <<age, processed, found, stopped, forgotten, queue, inflight,
                 issues, replies, raised, bounds>>

SkipProcessed(m) ==
  /\ main = "consider" /\ m \in found \cap Range(processed)
  /\ found' = found \ {m}
  /\ UNCHANGED <<age, processed, main, stopped, forgotten, queue, handlerVars,
                 issues, replies, raised, bounds>>

\* Mutant: a mention is marked before it is offered to the queue, and the reply
\* that there is no room is forgotten.
ConsiderSilently(m) ==
  /\ main = "consider" /\ m \in found \ Range(processed)
  /\ Mark(m)
  /\ found' = found \ {m}
  /\ queue' = IF m \notin Short /\ Len(queue) < MaxQueue THEN Append(queue, m) ELSE queue
  /\ UNCHANGED <<age, main, stopped, handlerVars, issues, replies, raised, bounds>>

\* A new mention is dropped without a word (no request in it), queued, or
\* answered with "at capacity"; in each case it is marked.
Consider(m) ==
  /\ main = "consider" /\ m \in found \ Range(processed)
  /\ Mark(m)
  /\ \/ m \in Short /\ UNCHANGED <<queue, replies, faults>>
     \/ m \notin Short /\ Len(queue) < MaxQueue
        /\ queue' = Append(queue, m) /\ UNCHANGED <<replies, faults>>
     \/ m \notin Short /\ Len(queue) = MaxQueue
        /\ Answer(m) /\ UNCHANGED queue
  /\ found' = found \ {m}
  /\ UNCHANGED <<age, main, stopped, handlerVars, issues, raised, restarts>>

\* SIGTERM: stop() runs in the main thread, which waits for the handler for at
\* most ten seconds; then the interrupted loop goes on with what it has found.
Stop ==
  /\ main # "exit" /\ ~stopped
  /\ stopped' = TRUE
  /\ UNCHANGED <<age, processed, found, main, forgotten, queue, handlerVars, issues, replies,
                 raised, bounds>>

-----------------------------------------------------------------------------
(* The handler thread                                                      *)

Step(p) == handler' = p
rest == <<age, mainVars, restarts>>

\* Mutant: an exception ends the thread.
CheckDying ==
  /\ handler = "check"
  /\ Step(IF stopped \/ raised # {} THEN "stopped" ELSE "get")
  /\ UNCHANGED <<rest, replies, queue, current, inflight, issues, raised, faults>>

Check ==
  /\ handler = "check"
  /\ Step(IF stopped THEN "stopped" ELSE "get")
  /\ UNCHANGED <<rest, replies, queue, current, inflight, issues, raised, faults>>

\* get(timeout=1.0): the flags were looked at before it blocks.
Get ==
  /\ handler = "get"
  /\ IF queue = <<>>
     THEN Step("check") /\ UNCHANGED <<queue, current>>
     ELSE Step("create") /\ current' = Head(queue) /\ queue' = Tail(queue)
  /\ UNCHANGED <<rest, replies, inflight, issues, raised, faults>>

\* The handler is done with its mention; only the last line of _handle_mention
\* takes the entry out of inflight.
Leave == Step("check") /\ current' = None

\* The issue is made, and the handler waits for it.
Create ==
  /\ handler = "create"
  /\ issues' = [issues EXCEPT ![current] = @ + 1]
  /\ inflight' = inflight \cup {<<current, issues[current] + 1>>}
  /\ Step("wait")
  /\ UNCHANGED <<rest, replies, queue, current, raised, faults>>

\* PaperclipAPIError: "Failed to create task", made or not.
CreateFails ==
  /\ handler = "create" /\ Trouble /\ faults' = faults + 1
  /\ issues' \in {issues, [issues EXCEPT ![current] = @ + 1]}
  /\ Delivered(current) \/ Refused(current)
  /\ Leave
  /\ UNCHANGED <<rest, queue, inflight, raised>>

\* Any other exception ends the handling: no reply, and inflight stays.
Raise ==
  /\ handler \in {"create", "wait"} /\ Trouble /\ faults' = faults + 1
  /\ raised' = raised \cup {current}
  /\ Leave
  /\ UNCHANGED <<rest, replies, queue, inflight, issues>>

\* _poll_issue_completion: the issue is settled, the deadline has passed,
\* or the bridge was stopped.  A poll that fails is repeated.
Wait ==
  /\ handler = "wait" /\ Step("reply")
  /\ UNCHANGED <<rest, replies, queue, current, inflight, issues, raised, faults>>

Reply ==
  /\ handler = "reply"
  /\ Answer(current)
  /\ inflight' = inflight \ {<<current, issues[current]>>}
  /\ Leave
  /\ UNCHANGED <<rest, queue, issues, raised>>

-----------------------------------------------------------------------------
(* The world                                                               *)

Send(m) ==
  /\ age[m] = "unsent"
  /\ age' = [age EXCEPT ![m] = "recent"]
  /\ UNCHANGED <<mainVars, queue, handlerVars, issues, replies, raised, bounds>>

\* The search goes back one minute.
GrowOld(m) ==
  /\ age[m] = "recent"
  /\ age' = [age EXCEPT ![m] = "old"]
  /\ UNCHANGED <<mainVars, queue, handlerVars, issues, replies, raised, bounds>>

\* The process is killed, or has ended, and is started again with empty tables.
\* The histories are those of one life.
Restart ==
  /\ Trouble /\ restarts' = restarts + 1
  /\ processed' = <<>> /\ queue' = <<>> /\ found' = {}
  /\ main' = "poll" /\ stopped' = FALSE
  /\ handler' = "check" /\ current' = None /\ inflight' = {}
  /\ issues' = [m \in Mentions |-> 0] /\ answers' = [m \in Mentions |-> 0]
  /\ forgotten' = [m \in Mentions |-> 0]
  /\ unheard' = {} /\ raised' = {}
  /\ UNCHANGED <<age, faults>>

-----------------------------------------------------------------------------

MainThread ==
  \/ Poll \/ PollEnds \/ Quit
  \/ \E m \in Mentions : SkipProcessed(m) \/ Consider(m)
HandlerThread == Check \/ Get \/ Create \/ CreateFails \/ Raise \/ Wait \/ Reply

Next ==
  \/ MainThread \/ HandlerThread
  \/ Stop \/ Restart
  \/ \E m \in Mentions : Send(m) \/ GrowOld(m)

\* Both threads run; the deadline makes every wait end.
Fairness == WF_vars(MainThread) /\ WF_vars(HandlerThread)

Spec == Init /\ [][Next]_vars /\ Fairness

-----------------------------------------------------------------------------
(* Properties                                                              *)

\* The type invariant.
TypeOK ==
  /\ age \in [Mentions -> {"unsent", "recent", "old"}]
  /\ Range(processed) \subseteq Mentions /\ Len(processed) <= MaxDedup
  /\ Range(queue) \subseteq Mentions /\ Len(queue) <= MaxQueue
  /\ found \subseteq Mentions
  /\ main \in {"poll", "consider", "exit"}
  /\ stopped \in BOOLEAN
  /\ handler \in {"check", "get", "create", "wait", "reply", "stopped", "dead"}
  /\ current \in Mentions \cup {None}
  /\ inflight \subseteq Mentions \X Nat
  /\ unheard \subseteq Mentions /\ raised \subseteq Mentions

\* A mention is found by many polls and by two searches; in one life of the
\* process it makes at most one issue and gets at most one final reply, and one
\* more each time the table of processed messages, being full, let go of its
\* mark too early.
AnsweredOnce ==
  \A m \in Mentions : issues[m] <= 1 + forgotten[m] /\ answers[m] <= 1 + forgotten[m]

\* A mention that is marked is not looked at again, so it must not be lost: it
\* waits, is being handled, was answered, has no request in it, its handling
\* raised, or the chat server refused the reply.
MarkedIsAccountedFor ==
  main # "exit" =>
    \A m \in Range(processed) :
      \/ m \in Range(queue) \cup {current} \cup Short \cup raised \cup unheard
      \/ answers[m] > 0

\* The issues in flight are the one that is waited for, and those left there by
\* an exception.
InflightIsBeingHandled ==
  handler # "dead" =>
    \A e \in inflight :
      e[1] \in raised \/ (current # None /\ e = <<current, issues[current]>>)

\* A queued mention gets its reply however long the ones before it take, unless
\* the chat server refuses the reply, the handling raises, or the bridge is
\* stopped or started again.
IsAnswered(m) ==
  \A n \in 0 .. MaxTrouble :
    (m \in Range(queue) /\ restarts = n) ~>
      (answers[m] > 0 \/ m \in unheard \cup raised \/ stopped \/ restarts > n)

\* What every state of the bridge satisfies.
BridgeInv ==
  TypeOK /\ InflightIsBeingHandled /\ AnsweredOnce /\ MarkedIsAccountedFor

=============================================================================
