------------------------------ MODULE Requests ------------------------------
(***************************************************************************)
(* The calls of PaperclipClient, each with the retries of _request, in the *)
(* order a heartbeat makes them, over a network that loses and delays      *)
(* requests and answers.  The Paperclip server is external: it executes a  *)
(* request it gets, or answers with an error.  A request the client has    *)
(* given up on may still be executed, after later ones.                    *)
(***************************************************************************)
EXTENDS Integers, Sequences

CONSTANTS
  MaxRetries,   \* max_retries
  MaxFaults,    \* requests and answers that are lost, delayed or errors
  MaxRivals     \* checkouts of the issue by other runs

RequestsAssumption == MaxRetries \in Nat /\ MaxFaults \in Nat /\ MaxRivals \in Nat

VARIABLES
  at, attempt,  \* the call under way and its attempt, from 0
  pc,           \* "send", "wait", "backoff", "over"
  flight,       \* attempts <<call, attempt>> on their way to the server
  result,       \* what each call came to
  made,         \* how often the server executed each call
  status, holder,  \* the issue: its status, and who has checked it out
  unlearned,    \* history: executions of each call the client did not learn of
  late,         \* history: a request was executed after the client had given it up
  faults, rivals
server == <<made, status, holder>>
vars == <<at, attempt, pc, flight, result, server, unlearned, late, faults, rivals>>

\* The calls of a heartbeat that works: register_self_run, checkout_issue,
\* update_issue(in_progress), add_comment (for every call that adds a record:
\* create_subtask, create_issue, report_cost, emit_run_event), update_issue
\* (done), release_issue.
Calls == <<"register", "checkout", "start", "add", "finish", "release">>
Call == 1..Len(Calls)
Kind(c) == Calls[c]
Last == Len(Calls)
CallOf(k) == CHOOSE c \in Call : Calls[c] = k

Init ==
  /\ at = 1 /\ attempt = 0 /\ pc = "send" /\ flight = {}
  /\ result = [c \in Call |-> "none"] /\ made = [c \in Call |-> 0]
  /\ status = "todo" /\ holder = "nobody"
  /\ unlearned = [c \in Call |-> 0] /\ late = FALSE
  /\ faults = 0 /\ rivals = 0

-----------------------------------------------------------------------------
(* What the server does with a request                                     *)

\* A checkout is granted when nobody has the issue; a release frees one's own.
MayExecute(c) == Kind(c) = "checkout" => holder = "nobody"

Register(c) == Kind(c) = "register" => UNCHANGED <<status, holder>>
CheckoutIssue(c) == Kind(c) = "checkout" => holder' = "client" /\ UNCHANGED status
UpdateIssue(c) ==
  Kind(c) \in {"start", "finish"} =>
    /\ status' = IF Kind(c) = "start" THEN "in_progress" ELSE "done"
    /\ UNCHANGED holder
AddRecord(c) == Kind(c) = "add" => UNCHANGED <<status, holder>>
ReleaseIssue(c) ==
  Kind(c) = "release" =>
    /\ holder' = IF holder = "client" THEN "nobody" ELSE holder
    /\ UNCHANGED status

Effect(c) ==
  /\ made' = [made EXCEPT ![c] = @ + 1]
  /\ Register(c) /\ CheckoutIssue(c) /\ UpdateIssue(c) /\ AddRecord(c) /\ ReleaseIssue(c)

-----------------------------------------------------------------------------
(* What the client makes of an answer                                      *)

Awaited(m) == pc = "wait" /\ m = <<at, attempt>>

\* The call that follows one that came to r.  Without the checkout there is no
\* work; an error that is no PaperclipAPIError passes the handlers and ends the
\* heartbeat, by way of the release once the work has begun.
After(c, r) ==
  IF \/ Kind(c) = "checkout" /\ r # "ok"
     \/ r = "escaped" /\ Kind(c) \in {"register", "start"}
  THEN Last + 1
  ELSE IF r = "escaped" /\ c # Last THEN Last ELSE c + 1

Return(r) ==
  /\ result' = [result EXCEPT ![at] = r]
  /\ at' = After(at, r) /\ attempt' = 0
  /\ pc' = IF at' > Last THEN "over" ELSE "send"

\* A retryable status, a connection error or a timeout.
Backoff == pc' = "backoff" /\ UNCHANGED <<at, attempt, result>>

\* The attempts are used up; one too late, and as the code has it.
GivesUpLate(n) == n > MaxRetries
GivesUp(n) == n >= MaxRetries

Retry ==
  /\ pc = "backoff"
  /\ IF GivesUp(attempt)
     THEN Return("failed")
     ELSE /\ attempt' = attempt + 1 /\ pc' = "send"
          /\ UNCHANGED <<at, result>>
  /\ UNCHANGED <<flight, server, unlearned, late, faults, rivals>>

Send ==
  /\ pc = "send"
  /\ flight' = flight \cup {<<at, attempt>>}
  /\ pc' = "wait"
  /\ UNCHANGED <<at, attempt, result, server, unlearned, late, faults, rivals>>

-----------------------------------------------------------------------------

Fault == faults < MaxFaults /\ faults' = faults + 1

\* The server executes an attempt, and the client reads its answer.
Executed(m) ==
  /\ Awaited(m) /\ MayExecute(m[1])
  /\ flight' = flight \ {m}
  /\ Effect(m[1])
  /\ Return("ok")
  /\ UNCHANGED <<unlearned, late, faults, rivals>>

\* It executes an attempt and the client does not learn of it: the answer is
\* lost, is a 5xx, or cannot be parsed, or the client had given up waiting.
ExecutedUnlearned(m) ==
  /\ MayExecute(m[1])
  /\ flight' = flight \ {m}
  /\ Effect(m[1])
  /\ unlearned' = [unlearned EXCEPT ![m[1]] = @ + 1]
  /\ IF Awaited(m)
     THEN Fault /\ UNCHANGED late /\ (Backoff \/ Return("escaped"))
     ELSE late' = TRUE /\ UNCHANGED <<at, attempt, pc, result, faults>>
  /\ UNCHANGED rivals

\* 409: the issue is checked out.
Conflict(m) ==
  /\ ~MayExecute(m[1])
  /\ flight' = flight \ {m}
  /\ IF Awaited(m) THEN Return("conflict") ELSE UNCHANGED <<at, attempt, pc, result>>
  /\ UNCHANGED <<server, unlearned, late, faults, rivals>>

\* The server refuses the awaited attempt: 400, 401, 403 or 404; 429 or 5xx,
\* which is retried; another 4xx, for which raise_for_status raises HTTPError.
Refused(m) ==
  /\ Awaited(m) /\ Fault
  /\ flight' = flight \ {m}
  /\ Return("refused") \/ Backoff \/ Return("escaped")
  /\ UNCHANGED <<server, unlearned, late, rivals>>

\* An attempt is lost, or is answered after the timeout: then it stays on its
\* way while the client goes on.
Timeout ==
  /\ pc = "wait" /\ Fault
  /\ flight' \in {flight, flight \ {<<at, attempt>>}}
  /\ Backoff
  /\ UNCHANGED <<server, unlearned, late, rivals>>

\* Another run takes the issue, and gives it back.
RivalTakes ==
  /\ holder = "nobody" /\ rivals < MaxRivals
  /\ rivals' = rivals + 1 /\ holder' = "rival"
  /\ UNCHANGED <<at, attempt, pc, flight, result, made, status, unlearned, late, faults>>
RivalReleases ==
  /\ holder = "rival" /\ holder' = "nobody"
  /\ UNCHANGED <<at, attempt, pc, flight, result, made, status, unlearned, late, faults, rivals>>

Next ==
  \/ Send \/ Retry \/ Timeout \/ RivalTakes \/ RivalReleases
  \/ \E m \in flight : Executed(m) \/ ExecutedUnlearned(m) \/ Conflict(m) \/ Refused(m)

Spec == Init /\ [][Next]_vars

-----------------------------------------------------------------------------
(* Properties                                                              *)

TypeOK ==
  /\ at \in 1..Last + 1 /\ attempt \in 0..MaxRetries
  /\ pc \in {"send", "wait", "backoff", "over"} /\ (pc = "over" <=> at = Last + 1)
  /\ flight \subseteq Call \X (0..MaxRetries)
  /\ result \in [Call -> {"none", "ok", "conflict", "refused", "failed", "escaped"}]
  /\ status \in {"todo", "in_progress", "done"}
  /\ holder \in {"nobody", "client", "rival"}

\* A record is made again only after an execution the client could not learn
\* of, and a call that returned was executed: a retry never repeats what the
\* client has an answer for.
RepeatsAreUnlearned ==
  \A c \in Call : made[c] = unlearned[c] + (IF result[c] = "ok" THEN 1 ELSE 0)

\* A refused checkout is another run's, was at least, or is the client's own, of
\* which it did not learn: "task already checked out by another agent" (the
\* docstring of PaperclipConflictError) holds but for that.
ConflictIsExplained ==
  result[CallOf("checkout")] = "conflict" => rivals > 0 \/ unlearned[CallOf("checkout")] > 0

\* When the client is done and nothing is on its way, a checkout is left behind
\* only by a call that failed, by one that escaped the handlers before the
\* release was sure, or by a request that was executed late or unlearned.
CheckoutIsReturned ==
  pc = "over" /\ flight = {} /\ holder = "client" =>
    \/ unlearned[CallOf("checkout")] > 0 \/ late
    \/ result[CallOf("start")] = "escaped"
    \/ result[CallOf("release")] \in {"failed", "refused", "escaped"}

\* An answered update stands, unless an older one was executed late.
LastWordStands ==
  result[CallOf("finish")] = "ok" /\ ~late => status = "done"

RequestInv ==
  TypeOK /\ RepeatsAreUnlearned /\ ConflictIsExplained /\ CheckoutIsReturned /\ LastWordStands

=============================================================================
