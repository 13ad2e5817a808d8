---------------------------- MODULE MessageStore ----------------------------
(* The message store the agents share (agents/message_store.py), with the    *)
(* bulletin board tool and the heartbeat's maintenance as its users.  Every  *)
(* agent is a process of its own with a connection per call: each SQL        *)
(* statement is a transaction, nothing spans two of them, and the lock of    *)
(* the store orders the threads of one process only.                         *)
EXTENDS Integers, FiniteSets, FiniteSetsExt

CONSTANTS
  Agents,       \* agents, one heartbeat process each
  MaxMessages,  \* MAX_MESSAGES: more rows than that are evicted
  MaxIds,       \* bound: messages written in a behaviour
  Recipients,   \* bound: whom a post is addressed to, agents or All
  Limit         \* how many messages a reader asks for

MessageStoreAssumption ==
  /\ IsFiniteSet(Agents)
  /\ {MaxMessages, MaxIds, Limit} \subseteq Nat \ {0}
  /\ Recipients \subseteq Agents \cup {"*"}

Ids == 1 .. MaxIds    \* in the order of created_at
NoId == 0
All == "*"            \* BROADCAST
V1 == "v1"            \* the author of the entries of BULLETIN.md

VARIABLES
  messages,  \* table messages: id -> row
  embedded,  \* table message_embeddings: the ids it has a row for
  expired,   \* ids whose expires_at has passed
  sent,      \* ids given out
  pc,        \* where the process of an agent is
  draft,     \* the id of the message it is sending
  fields,    \* the columns of that message
  excess,    \* rows it found above the limit
  todo,      \* ids it is about to mark as read or to embed
  readers,   \* read_by as it read it
  got        \* history: how often an agent was given message 1 as unread

vars == <<messages, embedded, expired, sent, pc, draft, fields, excess, todo,
          readers, got>>
tables == <<messages, embedded, expired>>
locals == <<draft, fields, excess, todo, readers>>

Row == [sender : Agents \cup {V1}, to : Agents \cup {All, V1},
        parent : Ids \cup {NoId}, readBy : SUBSET Agents]
NoRow == [sender |-> V1, to |-> All, parent |-> NoId, readBy |-> {}]

Present == DOMAIN messages

Init ==
  /\ messages = << >> /\ embedded = {} /\ expired = {} /\ sent = 0
  /\ pc = [a \in Agents |-> "start"]
  /\ draft = [a \in Agents |-> NoId] /\ fields = [a \in Agents |-> NoRow]
  /\ excess = [a \in Agents |-> 0]
  /\ todo = [a \in Agents |-> {}] /\ readers = [a \in Agents |-> {}]
  /\ got = [a \in Agents |-> 0]

Go(a, l) == pc' = [pc EXCEPT ![a] = l]

\* The newest n messages of a set.
Newest(S, n) == {i \in S : Cardinality({j \in S : j > i}) < n}
Oldest(S, n) == {i \in S : Cardinality({j \in S : j < i}) < n}

\* DELETE: embeddings go with their message (ON DELETE CASCADE), replies to it
\* become roots (ON DELETE SET NULL).
Without(gone) ==
  [i \in Present \ gone |->
     IF messages[i].parent \in gone
     THEN [messages[i] EXCEPT !.parent = NoId] ELSE messages[i]]

Delete(gone) ==
  /\ messages' = Without(gone)
  /\ embedded' = embedded \ gone
  /\ expired' = expired \ gone

-----------------------------------------------------------------------------
(* Reading                                                                 *)

Visible(a) == {i \in Present \ expired : messages[i].to \in {a, All}}
Unread(a) == {i \in Visible(a) : a \notin messages[i].readBy}

\* The unread messages inject_memory puts in front of an agent; it marks none
\* of them as read.
Surfaced(a) == Newest(Unread(a), Limit)

-----------------------------------------------------------------------------
(* Start of a process: the first use of the store imports BULLETIN.md,      *)
(* which has one entry here.                                                *)

Migrate(a) ==
  /\ pc[a] = "start"
  /\ Go(a, IF Present = {} THEN "import" ELSE "idle")
  /\ UNCHANGED <<tables, sent, locals, got>>

\* A Message object: its id and its created_at are made before the lock is asked for.
Compose(a, row) ==
  /\ sent < MaxIds
  /\ sent' = sent + 1
  /\ draft' = [draft EXCEPT ![a] = sent + 1]
  /\ fields' = [fields EXCEPT ![a] = row]
  /\ Go(a, "insert")
  /\ UNCHANGED <<tables, excess, todo, readers, got>>

Import(a) == pc[a] = "import" /\ Compose(a, NoRow)

-----------------------------------------------------------------------------
(* Posting                                                                 *)

Post(a) ==
  /\ pc[a] = "idle"
  /\ \E to \in Recipients :
       Compose(a, [NoRow EXCEPT !.sender = a, !.to = to])

\* The root of the thread a message is in.
Root(i) == IF messages[i].parent # NoId THEN messages[i].parent ELSE i

\* reply reads the parent; the insert comes later.
Reply(a) ==
  /\ pc[a] = "idle"
  /\ \E i \in Present :
       Compose(a, [NoRow EXCEPT !.sender = a, !.parent = Root(i),
                     !.to = messages[i].sender])

Insert(a) ==
  /\ pc[a] = "insert"
  /\ fields[a].parent \in Present \cup {NoId}
  /\ messages' = [i \in Present \cup {draft[a]} |->
                    IF i = draft[a] THEN fields[a] ELSE messages[i]]
  /\ fields' = [fields EXCEPT ![a] = NoRow]
  /\ Go(a, "count")
  /\ UNCHANGED <<embedded, expired, sent, draft, excess, todo, readers, got>>

\* The thread's root was deleted since: the foreign key refuses the row.
InsertFails(a) ==
  /\ pc[a] = "insert"
  /\ fields[a].parent \notin Present \cup {NoId}
  /\ fields' = [fields EXCEPT ![a] = NoRow]
  /\ draft' = [draft EXCEPT ![a] = NoId]
  /\ Go(a, "idle")
  /\ UNCHANGED <<tables, sent, excess, todo, readers, got>>

Count(a) ==
  /\ pc[a] = "count"
  /\ excess' = [excess EXCEPT ![a] = Cardinality(Present) - MaxMessages]
  /\ Go(a, IF excess'[a] > 0 THEN "evict" ELSE "embed")
  /\ UNCHANGED <<tables, sent, draft, fields, todo, readers, got>>

Evict(a) ==
  /\ pc[a] = "evict"
  /\ Delete(Oldest(Present, excess[a]))
  /\ excess' = [excess EXCEPT ![a] = 0]
  /\ Go(a, "embed")
  /\ UNCHANGED <<sent, draft, fields, todo, readers, got>>

\* Mutant: a connection without foreign keys writes the row all the same.
EmbedAnyway(a) ==
  /\ pc[a] = "embed"
  /\ embedded' \in {embedded, embedded \cup {draft[a]}}
  /\ draft' = [draft EXCEPT ![a] = NoId]
  /\ Go(a, "idle")
  /\ UNCHANGED <<messages, expired, sent, fields, excess, todo, readers, got>>

\* Best effort: no embedding server, or the message is gone already.
Embed(a) ==
  /\ pc[a] = "embed"
  /\ embedded' \in {embedded, embedded \cup ({draft[a]} \cap Present)}
  /\ draft' = [draft EXCEPT ![a] = NoId]
  /\ Go(a, "idle")
  /\ UNCHANGED <<messages, expired, sent, fields, excess, todo, readers, got>>

-----------------------------------------------------------------------------
(* The bulletin board's read                                               *)

Read(a) ==
  /\ pc[a] = "idle"
  /\ \E S \in {Newest(Unread(a), Limit), Newest(Visible(a), Limit)} :
       /\ S # {}
       /\ todo' = [todo EXCEPT ![a] = S]
       /\ got' = IF 1 \in S \cap Unread(a) THEN [got EXCEPT ![a] = @ + 1] ELSE got
  /\ Go(a, "look")
  /\ UNCHANGED <<tables, sent, draft, fields, excess, readers>>

\* mark_many_read, message by message: read_by is read, and written back.
Current(a) == Min(todo[a])

Look(a) ==
  /\ pc[a] = "look" /\ todo[a] # {}
  /\ IF Current(a) \in Present /\ a \notin messages[Current(a)].readBy
     THEN /\ readers' = [readers EXCEPT ![a] = messages[Current(a)].readBy]
          /\ Go(a, "mark")
          /\ UNCHANGED todo
     ELSE /\ todo' = [todo EXCEPT ![a] = @ \ {Current(a)}]
          /\ UNCHANGED <<readers, pc>>
  /\ UNCHANGED <<tables, sent, draft, fields, excess, got>>

Mark(a) ==
  /\ pc[a] = "mark"
  /\ messages' = [i \in Present |->
       IF i = Current(a) THEN [messages[i] EXCEPT !.readBy = readers[a] \cup {a}]
       ELSE messages[i]]
  /\ todo' = [todo EXCEPT ![a] = @ \ {Current(a)}]
  /\ readers' = [readers EXCEPT ![a] = {}]
  /\ Go(a, "look")
  /\ UNCHANGED <<embedded, expired, sent, draft, fields, excess, got>>

ReadDone(a) ==
  /\ pc[a] = "look" /\ todo[a] = {}
  /\ Go(a, "idle")
  /\ UNCHANGED <<tables, sent, locals, got>>

-----------------------------------------------------------------------------
(* The end of a heartbeat                                                  *)

Cleanup(a) ==
  /\ pc[a] = "idle"
  /\ Delete(expired)
  /\ Go(a, "backfill")
  /\ UNCHANGED <<sent, locals, got>>

\* The messages without an embedding; the server is asked with the rows at hand.
Backfill(a) ==
  /\ pc[a] = "backfill"
  /\ \E S \in {{}, Oldest(Present \ embedded, Limit)} :
       todo' = [todo EXCEPT ![a] = S]
  /\ Go(a, "fill")
  /\ UNCHANGED <<tables, sent, draft, fields, excess, readers, got>>

\* A message deleted in between makes its insert fail and ends the backfill.
\* The next heartbeat of the agent is a new process.
Fill(a) ==
  /\ pc[a] = "fill"
  /\ embedded' = embedded \cup
       {i \in todo[a] : \A j \in todo[a] : j <= i => j \in Present}
  /\ todo' = [todo EXCEPT ![a] = {}]
  /\ Go(a, "start")
  /\ UNCHANGED <<messages, expired, sent, draft, fields, excess, readers, got>>

\* The time to live of a message runs out; imported entries have none.
Expire ==
  /\ \E i \in Present \ expired :
       /\ messages[i].sender # V1
       /\ expired' = expired \cup {i}
  /\ UNCHANGED <<messages, embedded, sent, pc, locals, got>>

Process(a) ==
  \/ Migrate(a) \/ Import(a)
  \/ Post(a) \/ Reply(a)
  \/ Insert(a) \/ InsertFails(a) \/ Count(a) \/ Evict(a) \/ Embed(a)
  \/ Read(a) \/ Look(a) \/ Mark(a) \/ ReadDone(a)
  \/ Cleanup(a) \/ Backfill(a) \/ Fill(a)

Next == Expire \/ \E a \in Agents : Process(a)

Spec == Init /\ [][Next]_vars

-----------------------------------------------------------------------------
(* Properties                                                              *)

\* The type invariant.
TypeOK ==
  /\ Present \subseteq Ids /\ \A i \in Present : messages[i] \in Row
  /\ embedded \subseteq Ids /\ expired \subseteq Ids /\ sent \in 0 .. MaxIds
  /\ draft \in [Agents -> Ids \cup {NoId}] /\ fields \in [Agents -> Row]
  /\ todo \in [Agents -> SUBSET Ids] /\ readers \in [Agents -> SUBSET Agents]

\* Embedding and deleting race across processes: no embedding outlives its
\* message, so a search never joins to a row that is gone.
EmbeddingsHaveMessages == embedded \subseteq Present

\* However replies, evictions and expiry interleave, a thread is one level
\* deep: what a message answers is there and answers nothing itself.
ThreadsAreFlat ==
  \A i \in Present : messages[i].parent # NoId =>
    /\ messages[i].parent \in Present
    /\ messages[messages[i].parent].parent = NoId

\* The table never holds more than the limit and one row per process that is
\* between its insert and its eviction.
StoreIsBounded ==
  Cardinality(Present)
    <= MaxMessages
       + Cardinality({a \in Agents : pc[a] \in {"count", "evict"}})

\* Agents that mark the same message overwrite each other's marks, but not for
\* ever: each of the others can double how often an agent is given a message as
\* unread, and no more.
RereadIsBounded ==
  \A a \in Agents : got[a] <= 2 ^ (Cardinality(Agents) - 1)

\* What every state of the message store satisfies.
MessagesInv ==
  TypeOK /\ EmbeddingsHaveMessages /\ ThreadsAreFlat /\ StoreIsBounded /\ RereadIsBounded

=============================================================================
