------------------------------ MODULE KeyPrompt ------------------------------
(***************************************************************************)
(* API keys (agents/api_key_manager.py): a process that needs one looks in *)
(* its environment, its cache and the shared file, and else asks a person  *)
(* in a direct message (agents/messenger_client.py) and polls the          *)
(* conversation for the answer.  The processes share the file, the person  *)
(* and the conversation.  The messenger, the person and the file system    *)
(* are external.                                                           *)
(***************************************************************************)
EXTENDS Integers, Sequences, FiniteSetsExt

CONSTANTS
    Procs, KeyNames, Values,
    Valid,        \* the pairs of a name and a value _validate_api_key accepts
    MaxMessages,  \* bound: messages of the person
    MaxCalls,     \* bound: calls of get_api_key
    MaxFaults     \* bound: failed calls of the messenger, and crashes

KeyPromptAssumption ==
    /\ Valid \subseteq KeyNames \X Values
    /\ {MaxMessages, MaxCalls, MaxFaults} \subseteq Nat

Ids == 1 .. MaxMessages

VARIABLES
    messenger,  \* "mattermost" or "slack"
    file,       \* api_keys.json: pairs of a name and a value
    torn,       \* it was truncated and not written again
    cache,      \* the cache of each process
    pc,         \* where get_api_key of each process is
    job,        \* its locals, see NoJob
    chat,       \* the values of the person's messages
    shown,      \* those of them that are in the conversation
    warned,     \* those the person was told to delete
    calls, faults,
    saved,      \* the names written to the file so far
    raced       \* a save overlapped another, or was cut short

vars == <<messenger, file, torn, cache, pc, job, chat, shown, warned,
          calls, faults, saved, raced>>

\* The name that is asked for; where in the conversation the prompt was sent;
\* whether its time is over; the messages of this poll still to be looked at;
\* the pairs read from the file that is being rewritten.
NoJob == [want |-> "", since |-> 0, late |-> FALSE, todo |-> {}, read |-> {}]

Names(pairs) == {e[1] : e \in pairs}
Updated(pairs, new) == {e \in pairs : e[1] \notin Names(new)} \cup new

Init ==
    /\ messenger \in {"mattermost", "slack"}
    /\ file = {} /\ torn = FALSE
    /\ cache = [p \in Procs |-> {}]
    /\ pc = [p \in Procs |-> "idle"]
    /\ job = [p \in Procs |-> NoJob]
    /\ chat = << >> /\ shown = {} /\ warned = {}
    /\ calls = 0 /\ faults = 0
    /\ saved = {} /\ raced = FALSE

\* A call of the messenger works, or fails while the bound allows it.
Works == UNCHANGED faults
Fails == faults < MaxFaults /\ faults' = faults + 1

\* The process goes on with locals j; they are gone when the call is over.
Go(p, next, j) ==
    /\ pc' = [pc EXCEPT ![p] = next]
    /\ job' = [job EXCEPT ![p] = IF next = "idle" THEN NoJob ELSE j]

\* A direct message that fails raises with Mattermost, which ends the prompt;
\* Slack's client returns None, which nobody looks at.
Tell(p, next, j) ==
    \/ Works /\ Go(p, next, j)
    \/ Fails /\ Go(p, IF messenger = "mattermost" THEN "idle" ELSE next, j)

\* The next message to look at: Mattermost's client sorts the oldest first,
\* Slack gives the newest first.
Current(p) == IF messenger = "slack" THEN Max(job[p].todo) ELSE Min(job[p].todo)
Entry(p) == <<job[p].want, chat[Current(p)]>>

FileFrame == UNCHANGED <<file, torn, saved, raced>>
ChatFrame == UNCHANGED <<chat, shown, warned>>
Frame == UNCHANGED <<messenger, calls>>

-----------------------------------------------------------------------------
(* get_api_key                                                             *)

\* The environment, the cache, the file: a torn one is logged and passed over.
\* Only a name found in none of them is asked for.
Get(p) ==
    /\ pc[p] = "idle" /\ calls < MaxCalls
    /\ calls' = calls + 1
    /\ \E k \in KeyNames, environ \in SUBSET KeyNames :
         LET inside == k \in environ \cup Names(cache[p])
             loaded == IF inside \/ torn THEN cache[p] ELSE Updated(cache[p], file)
         IN  /\ cache' = [cache EXCEPT ![p] = loaded]
             /\ Go(p, IF inside \/ k \in Names(loaded) THEN "idle" ELSE "ask",
                   [NoJob EXCEPT !.want = k])
    /\ FileFrame /\ ChatFrame /\ UNCHANGED <<messenger, faults>>

\* The time is taken before the prompt is sent.
Ask(p) ==
    /\ pc[p] = "ask"
    /\ Go(p, "send", [job[p] EXCEPT !.since = Len(chat)])
    /\ Frame /\ FileFrame /\ ChatFrame /\ UNCHANGED <<cache, faults>>

\* Without a prompt there is no polling.
Send(p) ==
    /\ pc[p] = "send"
    /\ \/ Works /\ Go(p, "poll", job[p])
       \/ Fails /\ Go(p, "idle", job[p])
    /\ Frame /\ FileFrame /\ ChatFrame /\ UNCHANGED cache

\* The minutes of the prompt are over; it shows at the next poll.
Deadline(p) ==
    /\ pc[p] = "poll" /\ ~job[p].late
    /\ job' = [job EXCEPT ![p].late = TRUE]
    /\ Frame /\ FileFrame /\ ChatFrame /\ UNCHANGED <<cache, pc, faults>>

\* The person's messages since the prompt.
Answers(p) == {m \in shown : m > job[p].since}

Poll(p) ==
    /\ pc[p] = "poll" /\ ~job[p].late
    /\ Go(p, "scan", [job[p] EXCEPT !.todo = Answers(p)])
    /\ Frame /\ FileFrame /\ ChatFrame /\ UNCHANGED <<cache, faults>>

\* The time is looked at between two polls only.
GiveUp(p) ==
    /\ pc[p] = "poll" /\ job[p].late
    /\ Tell(p, "idle", job[p])
    /\ Frame /\ FileFrame /\ ChatFrame /\ UNCHANGED cache

ScanDone(p) ==
    /\ pc[p] = "scan" /\ job[p].todo = {}
    /\ Go(p, "poll", job[p])
    /\ Frame /\ FileFrame /\ ChatFrame /\ UNCHANGED <<cache, faults>>

-----------------------------------------------------------------------------
(* A message                                                               *)

\* Mutant: a message that cannot be deleted is taken all the same.
DeleteQuietly(p) ==
    /\ pc[p] = "scan" /\ job[p].todo # {}
    /\ \/ Works /\ shown' = shown \ {Current(p)}
       \/ Fails /\ UNCHANGED shown
    /\ Go(p, "validate", job[p])
    /\ Frame /\ FileFrame /\ UNCHANGED <<cache, chat, warned>>

\* The message is deleted before it is looked at.  The server refuses to delete
\* one that is gone; an answer may be lost after it was deleted.
Delete(p) ==
    /\ pc[p] = "scan" /\ job[p].todo # {}
    /\ \/ /\ Works /\ shown' = shown \ {Current(p)}
          /\ Go(p, IF Current(p) \in shown THEN "validate" ELSE "warn", job[p])
       \/ /\ Fails /\ shown' \in {shown, shown \ {Current(p)}}
          /\ Go(p, "warn", job[p])
    /\ Frame /\ FileFrame /\ UNCHANGED <<cache, chat, warned>>

\* The person is told to delete it by hand.
Warn(p) ==
    /\ pc[p] = "warn"
    /\ Tell(p, "validate", job[p])
    /\ warned' = IF faults' = faults THEN warned \cup {Current(p)} ELSE warned
    /\ Frame /\ FileFrame /\ UNCHANGED <<cache, chat, shown>>

Reject(p) ==
    /\ pc[p] = "validate" /\ Entry(p) \notin Valid
    /\ Tell(p, "scan", [job[p] EXCEPT !.todo = @ \ {Current(p)}])
    /\ Frame /\ FileFrame /\ ChatFrame /\ UNCHANGED cache

\* _save_key: the whole file is read; a torn one raises, and the person is told.
Read(p) ==
    /\ pc[p] = "validate" /\ Entry(p) \in Valid
    /\ IF torn
       THEN (Works \/ Fails) /\ Go(p, "idle", job[p]) /\ UNCHANGED raced
       ELSE /\ Works /\ Go(p, "truncate", [job[p] EXCEPT !.read = file])
            /\ raced' = (raced \/ \E q \in Procs \ {p} : pc[q] \in {"truncate", "dump"})
    /\ Frame /\ ChatFrame /\ UNCHANGED <<cache, file, torn, saved>>

\* Opened for writing, it is empty.
Truncate(p) ==
    /\ pc[p] = "truncate"
    /\ file' = {} /\ torn' = TRUE
    /\ Go(p, "dump", job[p])
    /\ Frame /\ ChatFrame /\ UNCHANGED <<cache, faults, saved, raced>>

Dump(p) ==
    /\ pc[p] = "dump"
    /\ file' = Updated(job[p].read, {Entry(p)}) /\ torn' = FALSE
    /\ saved' = saved \cup {job[p].want}
    /\ cache' = [cache EXCEPT ![p] = Updated(@, {Entry(p)})]
    /\ Go(p, "confirm", job[p])
    /\ Frame /\ ChatFrame /\ UNCHANGED <<faults, raced>>

\* The person is told, the prompt is deleted, and the key returned; with
\* Mattermost a message that fails counts as a failure to store.
Confirm(p) ==
    /\ pc[p] = "confirm"
    /\ Works \/ Fails
    /\ Go(p, "idle", job[p])
    /\ Frame /\ FileFrame /\ ChatFrame /\ UNCHANGED cache

Step(p) ==
    \/ Ask(p) \/ Send(p) \/ Poll(p) \/ GiveUp(p) \/ ScanDone(p)
    \/ Delete(p) \/ Warn(p) \/ Reject(p)
    \/ Read(p) \/ Truncate(p) \/ Dump(p) \/ Confirm(p)

-----------------------------------------------------------------------------
(* The person, and crashes                                                 *)

\* The person writes while a prompt is open; a reply in a Slack thread is in no
\* history of the conversation and is left out.
Say(v) ==
    /\ Len(chat) < MaxMessages
    /\ \E p \in Procs : pc[p] \notin {"idle", "ask"}
    /\ chat' = Append(chat, v)
    /\ shown' = shown \cup {Len(chat) + 1}
    /\ Frame /\ FileFrame /\ UNCHANGED <<pc, job, cache, warned, faults>>

\* A process dies and starts again, with what it loads from the file.
Crash(p) ==
    /\ pc[p] # "idle" /\ Fails
    /\ Go(p, "idle", job[p])
    /\ cache' = [cache EXCEPT ![p] = IF torn THEN {} ELSE file]
    /\ raced' = (raced \/ pc[p] = "dump")
    /\ Frame /\ ChatFrame /\ UNCHANGED <<file, torn, saved>>

Next ==
    \/ \E p \in Procs : Get(p) \/ Step(p) \/ Deadline(p) \/ Crash(p)
    \/ \E v \in Values : Say(v)

Spec == Init /\ [][Next]_vars

-----------------------------------------------------------------------------
(* Properties                                                              *)

\* The type invariant.
TypeOK ==
    /\ file \subseteq KeyNames \X Values
    /\ cache \in [Procs -> SUBSET (KeyNames \X Values)]
    /\ chat \in Seq(Values) /\ Len(chat) <= MaxMessages
    /\ shown \subseteq Ids /\ warned \subseteq Ids
    /\ \A p \in Procs :
         /\ job[p].since \in 0 .. Len(chat) /\ job[p].todo \subseteq 1 .. Len(chat)
         /\ job[p].read \subseteq KeyNames \X Values
    /\ faults \in 0 .. MaxFaults

\* Whichever process a message was meant for, whichever takes it: a value is
\* stored, and cached, under a name it is valid for.
StoredKeysFit ==
    file \subseteq Valid /\ \A p \in Procs : cache[p] \subseteq Valid

\* One failure never leaves a key exposed in silence: a message whose value is
\* in the file was deleted, or the person was told to delete it.
ExposedIsWarned ==
    faults <= 1 =>
      \A p \in Procs :
        pc[p] \in {"truncate", "dump", "confirm"} =>
          Current(p) \notin shown \ warned

\* A key that was stored stays in the file, unless two saves overlapped or one
\* was cut short.
SavedIsKept ==
    raced \/ torn \/ saved \subseteq Names(file)

\* What every state of the key prompts satisfies.
PromptInv == TypeOK /\ StoredKeysFit /\ ExposedIsWarned /\ SavedIsKept
=============================================================================
