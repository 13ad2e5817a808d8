---------------------------- MODULE Cancellation ----------------------------
(***************************************************************************)
(* The cancellation of a running workflow (agents/cancellation.py), with   *)
(* the parts it is made of: the CancellationToken, the polling thread and  *)
(* its retried requests (paperclip_client.py), the WebSocket subscription  *)
(* (ws_client.py), and the workflow thread that looks at the token between *)
(* two nodes (graph_engine.py) while a person changes the issue.           *)
(*                                                                         *)
(* The Paperclip server and its event stream are external: an event goes   *)
(* to the connections that are up when the status changes, and is lost     *)
(* with a connection that drops before the client has read it.             *)
(***************************************************************************)
EXTENDS Integers, Sequences

CONSTANTS
    MaxErrors,   \* CancellationPoller.max_errors
    MaxRetries,  \* PaperclipClient.max_retries
    MaxNodes,    \* bound: nodes the workflow executes
    MaxChanges,  \* bound: changes of the issue's status by people
    MaxDrops     \* bound: WebSocket connections that drop

CancellationAssumption ==
    /\ MaxErrors \in Nat \ {0} /\ MaxRetries \in Nat
    /\ MaxNodes \in Nat /\ MaxChanges \in Nat /\ MaxDrops \in Nat

VARIABLES
    status,      \* the issue's status at the server
    pushing,     \* the heartbeat has a WebSocket client
    socket,      \* down, up, or closed for good by ws_client.stop()
    events,      \* status changes on their way to this client
    subscribed,  \* the watcher's handler is registered
    phase,       \* the workflow thread
    nodes,       \* nodes started so far
    token,       \* the CancellationToken has fired
    poller,      \* the polling thread
    attempt,     \* attempts of its request so far
    answer,      \* the status its request has read at the server
    errors,      \* consecutive_errors
    stopped,     \* the poller's stop event
    cancelledOnce, \* history: the issue was cancelled during the watch
    late,        \* history: nodes started after the token had fired
    polls,       \* history: how the last MaxErrors polls ended
    changes, drops

server == <<status, changes>>
ws == <<pushing, socket, events, drops>>
thread == <<poller, attempt, answer, errors, polls>>
work == <<phase, nodes, late>>
vars == <<server, ws, thread, work, subscribed, token, stopped, cancelledOnce>>

Statuses == {"in_progress", "cancelled", "done"}

TypeOK ==
    /\ status \in Statuses
    /\ pushing \in BOOLEAN
    /\ socket \in {"down", "up", "closed"}
    /\ events \in Seq(Statuses)
    /\ subscribed \in BOOLEAN
    /\ phase \in {"before", "boundary", "checked", "node", "finally", "over"}
    /\ nodes \in 0 .. MaxNodes
    /\ token \in BOOLEAN
    /\ poller \in {"off", "waiting", "asking", "ended", "gave_up"}
    /\ attempt \in 0 .. MaxRetries + 1
    /\ answer \in Statuses \cup {"none"}
    /\ errors \in 0 .. MaxErrors
    /\ stopped \in BOOLEAN
    /\ cancelledOnce \in BOOLEAN
    /\ late \in 0 .. MaxNodes
    /\ polls \in Seq({"ok", "error"}) /\ Len(polls) <= MaxErrors
    /\ changes \in 0 .. MaxChanges
    /\ drops \in 0 .. MaxDrops

Init ==
    /\ status = "in_progress"
    /\ pushing \in BOOLEAN
    /\ socket = "down"
    /\ events = <<>>
    /\ subscribed = FALSE
    /\ phase = "before"
    /\ nodes = 0
    /\ token = FALSE
    /\ poller = "off"
    /\ attempt = 0
    /\ answer = "none"
    /\ errors = 0
    /\ stopped = FALSE
    /\ cancelledOnce = FALSE
    /\ late = 0
    /\ polls = <<>>
    /\ changes = 0
    /\ drops = 0

-----------------------------------------------------------------------------
(* People and the server. *)

\* Somebody cancels the issue, closes it, or takes it up again.
Change(s) ==
    /\ changes < MaxChanges
    /\ s # status
    /\ changes' = changes + 1
    /\ status' = s
    /\ events' = IF socket = "up" THEN Append(events, s) ELSE events
    /\ cancelledOnce' = (cancelledOnce \/ s = "cancelled")
    /\ UNCHANGED <<pushing, socket, drops, thread, work, subscribed, token, stopped>>

-----------------------------------------------------------------------------
(* PaperclipWSClient. *)

\* The connect loop succeeds; it tries again until it is stopped.
Connect ==
    /\ pushing /\ socket = "down"
    /\ socket' = "up"
    /\ UNCHANGED <<server, pushing, events, drops, thread, work, subscribed, token,
                   stopped, cancelledOnce>>

Drop ==
    /\ socket = "up" /\ drops < MaxDrops
    /\ drops' = drops + 1
    /\ socket' = "down"
    /\ events' = <<>>
    /\ UNCHANGED <<server, pushing, thread, work, subscribed, token, stopped,
                   cancelledOnce>>

\* CancellationToken.cancel: once fired, the token stays so.
FiresIf(seen) == token' = (token \/ seen)

\* The watcher's filter and handler, as long as they are registered.
Handled(event) == subscribed /\ event = "cancelled"

\* _dispatch: the handler of the watcher, if it is registered, fires the token.
Dispatch ==
    /\ socket = "up" /\ events # <<>>
    /\ events' = Tail(events)
    /\ FiresIf(Handled(Head(events)))
    /\ UNCHANGED <<server, pushing, socket, drops, thread, work, subscribed, stopped,
                   cancelledOnce>>

-----------------------------------------------------------------------------
(* CancellationPoller._poll_loop. *)

Reset == attempt' = 0 /\ answer' = "none"

\* The interval is over: get_issue is called, unless stop() came first.
Ask ==
    /\ poller = "waiting"
    /\ poller' = IF stopped \/ token THEN "ended" ELSE "asking"
    /\ UNCHANGED <<server, ws, attempt, answer, errors, polls, work, subscribed, token,
                   stopped, cancelledOnce>>

\* The server reads the issue for an attempt of the request.
Serve ==
    /\ poller = "asking" /\ answer = "none"
    /\ answer' = status
    /\ UNCHANGED <<server, ws, poller, attempt, errors, polls, work, subscribed, token,
                   stopped, cancelledOnce>>

Noted(outcome) ==
    LET all == Append(polls, outcome)
    IN  IF Len(all) > MaxErrors THEN Tail(all) ELSE all

\* The poll has an answer: the loop ends with a cancelled issue.
Answered ==
    /\ poller = "asking" /\ answer # "none"
    /\ errors' = 0
    /\ polls' = Noted("ok")
    /\ IF answer = "cancelled" THEN poller' = "ended" ELSE poller' = "waiting"
    /\ FiresIf(answer = "cancelled")
    /\ Reset
    /\ UNCHANGED <<server, ws, work, subscribed, stopped, cancelledOnce>>

\* A connection error, a timeout (the server may have answered) or a
\* retryable status: _request tries again, with a delay.
Retry ==
    /\ poller = "asking" /\ attempt < MaxRetries
    /\ attempt' = attempt + 1
    /\ answer' = "none"
    /\ UNCHANGED <<server, ws, poller, errors, polls, work, subscribed, token, stopped,
                   cancelledOnce>>

\* The last attempt failed, or the server answered with an error that is not
\* retried: one more error, and with MaxErrors in a row the thread ends.
PollFails ==
    /\ poller = "asking"
    /\ errors' = errors + 1
    /\ polls' = Noted("error")
    /\ poller' = IF errors' >= MaxErrors THEN "gave_up" ELSE "waiting"
    /\ Reset
    /\ UNCHANGED <<server, ws, work, subscribed, token, stopped, cancelledOnce>>

-----------------------------------------------------------------------------
(* The workflow thread: start, run and stop. *)

\* Mutant: a pushed event is thought to be enough.
WatchWithoutFallback ==
    /\ phase = "before"
    /\ phase' = "boundary"
    /\ subscribed' = pushing
    /\ poller' = IF pushing THEN "off" ELSE "waiting"
    /\ UNCHANGED <<server, ws, attempt, answer, errors, polls, nodes, late, token,
                   stopped, cancelledOnce>>

\* start_cancellation_poller: with a WebSocket client both ways are used.
Watch ==
    /\ phase = "before"
    /\ phase' = "boundary"
    /\ subscribed' = pushing
    /\ poller' = "waiting"
    /\ UNCHANGED <<server, ws, attempt, answer, errors, polls, nodes, late, token,
                   stopped, cancelledOnce>>

\* Mutant: only the first node is guarded.
CheckOnce ==
    /\ phase = "boundary"
    /\ phase' = IF token /\ nodes = 0 THEN "finally" ELSE "checked"
    /\ UNCHANGED <<server, ws, thread, nodes, late, subscribed, token, stopped,
                   cancelledOnce>>

\* _check_cancellation at a node boundary raises, or lets the loop go on; at
\* END the loop leaves without a check.
Check ==
    /\ phase = "boundary"
    /\ phase' = IF token THEN "finally" ELSE "checked"
    /\ UNCHANGED <<server, ws, thread, nodes, late, subscribed, token, stopped,
                   cancelledOnce>>

StartNode ==
    /\ phase = "checked" /\ nodes < MaxNodes
    /\ phase' = "node"
    /\ nodes' = nodes + 1
    /\ late' = IF token THEN late + 1 ELSE late
    /\ UNCHANGED <<server, ws, thread, subscribed, token, stopped, cancelledOnce>>

\* The node returns: another node follows, or END.
NodeEnds ==
    /\ phase = "node"
    /\ \/ nodes < MaxNodes /\ phase' = "boundary"
       \/ phase' = "finally"
    /\ UNCHANGED <<server, ws, thread, nodes, late, subscribed, token, stopped,
                   cancelledOnce>>

\* The finally clauses: cancel_poller.stop() waits two seconds for the thread,
\* which may outlive it in a request; then ws_client.stop().
Stop ==
    /\ phase = "finally"
    /\ phase' = "over"
    /\ stopped' = TRUE
    /\ subscribed' = FALSE
    /\ socket' = IF pushing THEN "closed" ELSE socket
    /\ events' = <<>>
    /\ UNCHANGED <<server, pushing, drops, thread, nodes, late, token, cancelledOnce>>

-----------------------------------------------------------------------------
Poll == Ask \/ Serve \/ Answered \/ Retry \/ PollFails

Next ==
    \/ \E s \in Statuses : Change(s)
    \/ Connect \/ Drop \/ Dispatch
    \/ Poll
    \/ Watch \/ Check \/ StartNode \/ NodeEnds \/ Stop

\* The polling thread runs and its requests end, one way or the other; the
\* workflow thread reaches its boundaries if its nodes return, which nothing
\* guarantees.  Nothing is assumed of the WebSocket or of people.
Fairness ==
    /\ WF_vars(Poll)
    /\ WF_vars(Watch \/ Check \/ StartNode)
    /\ WF_vars(Stop)

Spec == Init /\ [][Next]_vars /\ Fairness

-----------------------------------------------------------------------------
(* Properties. *)

\* Whatever the WebSocket loses, an issue that stays cancelled stops the
\* workflow (the token fires or the work is over), unless the poller has given
\* up: the fallback poller covers the pushed events (cancellation.py:141-147).
CancelIsNoticed ==
    (status = "cancelled" /\ phase # "before") ~>
        (token \/ phase = "over" \/ poller = "gave_up" \/ status # "cancelled")

\* "the graph stops at the next node boundary" (cancellation.py:5-7): once the
\* token has fired, at most the node whose check had passed still starts.
StopsAtTheNextBoundary == late <= 1

\* The poller gives up only when its last MaxErrors polls all failed.
GivesUpAfterConsecutiveErrors ==
    poller = "gave_up" => polls = [n \in 1 .. MaxErrors |-> "error"]

\* What every state of a watched workflow satisfies.
WatchInv == TypeOK /\ StopsAtTheNextBoundary /\ GivesUpAfterConsecutiveErrors

=============================================================================
