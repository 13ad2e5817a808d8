---------------------------- MODULE SkillLibrary ----------------------------
(***************************************************************************)
(* The skill registry: one directory per skill in the tiers official/,     *)
(* local/ and temp/, and .index.json with an entry for each skill and the  *)
(* integrity hashes.  Every heartbeat loads the index once when it starts, *)
(* works on its copy and saves the whole copy after each change; the file  *)
(* lock orders the writes, it does not merge them.                         *)
(*                                                                         *)
(* A session is one heartbeat: it looks for a skill, generates or          *)
(* downloads one when nothing matches, loads what it found, tracks the     *)
(* usage (and promotes), and evicts stale skills at its end.  The versions *)
(* of a skill (A/B) are in SkillVersions.                                  *)
(***************************************************************************)
EXTENDS Naturals, FiniteSets

CONSTANTS
  Procs,        \* heartbeats that may run at the same time
  Generated,    \* names ephemeral-<task type>: generated into temp
  Remote,       \* names of the remote catalogs: downloaded into official
  Contents,     \* what a SKILL.md may contain
  MinUses,      \* MIN_USAGE_FOR_PROMOTION
  MaxSessions,  \* bound: sessions started
  MaxCrashes    \* bound: sessions that crash or raise

Skills == Generated \cup Remote
Tiers == {"official", "local", "temp"}
Absent == "absent"
Nothing == "nothing"

SkillLibraryAssumption ==
  /\ Generated \cap Remote = {} /\ Nothing \notin Skills /\ Absent \notin Contents
  /\ {MinUses, MaxSessions, MaxCrashes} \subseteq Nat

Content == Contents \cup {Absent}
\* usage_count (up to MinUses) and whether avg_score reaches 85.
Entry == [uses : 0..MinUses, high : BOOLEAN]
NoEntry == [uses |-> MinUses + 1, high |-> FALSE]
Fresh == [uses |-> 0, high |-> FALSE]

\* The index: entries by tier and, by name only, the integrity hashes.
Index == [entry : [Tiers -> [Skills -> Entry \cup {NoEntry}]],
          hash : [Skills -> Content]]

VARIABLES
  disk,     \* the SKILL.md of each directory, by tier and name
  file,     \* .index.json
  torn,     \* a crash left it truncated: it no longer parses
  mem,      \* the index of each running session
  pc,       \* its next step
  used,     \* skills_in_use that are not tracked yet
  now,      \* the skill it is generating, downloading or promoting
  content,  \* the content it generated last
  touched,  \* the skills it created or tracked: never stale for it
  alone,    \* history: no other session ran since it started
  spoiled,  \* history: sessions overlapped, or one crashed
  sessions, crashes

vars == <<disk, file, torn, mem, pc, used, now, content, touched, alone, spoiled,
          sessions, crashes>>
files == <<disk, file, torn>>
history == <<alone, spoiled, sessions, crashes>>

Empty == [entry |-> [t \in Tiers |-> [s \in Skills |-> NoEntry]],
          hash |-> [s \in Skills |-> Absent]]

Running == {p \in Procs : pc[p] # "off"}
Has(index, t, s) == index.entry[t][s] # NoEntry
Known(index) == {s \in Skills : \E t \in Tiers : Has(index, t, s)}
\* official, then local, then temp: the first tier with an entry.
TierOf(index, s) ==
  CASE Has(index, "official", s) -> "official"
    [] Has(index, "local", s) -> "local"
    [] OTHER -> "temp"

WithEntry(index, t, s, e) == [index EXCEPT !.entry[t][s] = e]
WithHash(index, s, c) == [index EXCEPT !.hash[s] = c]

Init ==
  /\ disk = [t \in Tiers |-> [s \in Skills |-> Absent]]
  /\ file = Empty
  /\ torn = FALSE
  /\ mem = [p \in Procs |-> Empty]
  /\ pc = [p \in Procs |-> "off"]
  /\ used = [p \in Procs |-> {}]
  /\ now = [p \in Procs |-> Nothing]
  /\ content = [p \in Procs |-> Absent]
  /\ touched = [p \in Procs |-> {}]
  /\ alone = [p \in Procs |-> TRUE]
  /\ spoiled = FALSE
  /\ sessions = 0 /\ crashes = 0

Go(p, step) == pc' = [pc EXCEPT ![p] = step]
Remember(p, index) == mem' = [mem EXCEPT ![p] = index]
\* _save_index: the whole copy replaces the file.
Save(p, index) == Remember(p, index) /\ file' = index
\* The process ends: what it held in memory is gone.
End(p) ==
  /\ Go(p, "off")
  /\ Remember(p, Empty)
  /\ used' = [used EXCEPT ![p] = {}]
  /\ touched' = [touched EXCEPT ![p] = {}]
  /\ now' = [now EXCEPT ![p] = Nothing]
  /\ content' = [content EXCEPT ![p] = Absent]
Write(t, s, c) == disk' = [disk EXCEPT ![t][s] = c]

-----------------------------------------------------------------------------
(* A session starts: the index is loaded, and hashes that are missing are  *)
(* computed from what is on disk                                           *)

FirstOf(tiers) ==
  CASE "official" \in tiers -> "official"
    [] "local" \in tiers -> "local"
    [] OTHER -> "temp"

Backfilled(index) ==
  LET there(s) == {t \in Tiers : Has(index, t, s) /\ disk[t][s] # Absent}
  IN  [index EXCEPT !.hash = [s \in Skills |->
         IF index.hash[s] # Absent \/ there(s) = {}
         THEN index.hash[s]
         ELSE disk[FirstOf(there(s))][s]]]

Start(p) ==
  /\ pc[p] = "off" /\ ~torn /\ sessions < MaxSessions
  /\ sessions' = sessions + 1
  /\ Save(p, Backfilled(file))
  /\ Go(p, "find")
  /\ alone' = [q \in Procs |-> IF q = p THEN Running = {}
                               ELSE alone[q] /\ q \notin Running]
  /\ spoiled' = (spoiled \/ Running # {})
  /\ UNCHANGED <<disk, torn, used, now, content, touched, crashes>>

-----------------------------------------------------------------------------
(* Discovery.  A skill generated for a task type is found for that type    *)
(* whatever its score; other skills may match too.                         *)

Find(p) ==
  /\ pc[p] = "find"
  /\ \E matches \in SUBSET Known(mem[p]) :
       /\ used' = [used EXCEPT ![p] = matches]
       /\ \/ matches # {} /\ Go(p, "load") /\ UNCHANGED now
          \/ /\ matches = {}
             /\ \E s \in Generated \ Known(mem[p]) : now' = [now EXCEPT ![p] = s]
             /\ Go(p, "generate")
          \/ /\ \E s \in Remote : /\ disk["official"][s] = Absent
                                  /\ now' = [now EXCEPT ![p] = s]
             /\ Go(p, "download")
  /\ UNCHANGED <<files, mem, content, touched, history>>

\* _generate_skill: the file is written,
Generate(p) ==
  /\ pc[p] = "generate"
  /\ \E c \in Contents :
       /\ Write("temp", now[p], c)
       /\ content' = [content EXCEPT ![p] = c]
  /\ Go(p, "register")
  /\ UNCHANGED <<file, torn, mem, used, now, touched, history>>

\* Mutant: refreshing a skill keeps its hash.
RegisterKeepingHash(p) ==
  LET s == now[p]
      known == Has(mem[p], "temp", s)
      there == disk["temp"][s]
  IN  /\ pc[p] = "register"
      /\ known \/ there # Absent
      /\ Save(p, IF known THEN mem[p]
                 ELSE WithHash(WithEntry(mem[p], "temp", s, Fresh), s, there))
      /\ used' = [used EXCEPT ![p] = @ \cup {s}]
      /\ touched' = [touched EXCEPT ![p] = @ \cup {s}]
      /\ Go(p, "load") \/ Go(p, "generate")
      /\ UNCHANGED <<disk, torn, now, content, history>>

\* then the hash of a skill that has an entry is replaced and its metrics are
\* kept, while a new one is registered with the content read back.  Two
\* subtasks of one type generate the same name twice.
Register(p) ==
  LET s == now[p]
      known == Has(mem[p], "temp", s)
      there == disk["temp"][s]
  IN  /\ pc[p] = "register"
      /\ known \/ there # Absent
      /\ Save(p, IF known THEN WithHash(mem[p], s, content[p])
                 ELSE WithHash(WithEntry(mem[p], "temp", s, Fresh), s, there))
      /\ used' = [used EXCEPT ![p] = @ \cup {s}]
      /\ touched' = [touched EXCEPT ![p] = @ \cup {s}]
      /\ Go(p, "load") \/ Go(p, "generate")
      /\ UNCHANGED <<disk, torn, now, content, history>>

\* register_skill raises when the file is gone or the scan rejects it.
Reject(p) ==
  /\ pc[p] = "register" /\ ~Has(mem[p], "temp", now[p])
  /\ disk["temp"][now[p]] = Absent \/ crashes < MaxCrashes
  /\ crashes' = IF disk["temp"][now[p]] = Absent THEN crashes ELSE crashes + 1
  /\ End(p)
  /\ UNCHANGED <<files, alone, spoiled, sessions>>

\* _download_remote_skill: the file, the hash in memory,
Download(p) ==
  /\ pc[p] = "download"
  /\ \E c \in Contents :
       /\ Write("official", now[p], c)
       /\ Remember(p, WithHash(mem[p], now[p], c))
  /\ Go(p, "cache")
  /\ UNCHANGED <<file, torn, used, now, content, touched, history>>

\* then the entry; a failure removes the directory.
Cache(p) ==
  /\ pc[p] = "cache"
  /\ Save(p, WithEntry(mem[p], "official", now[p], Fresh))
  /\ used' = [used EXCEPT ![p] = @ \cup {now[p]}]
  /\ touched' = [touched EXCEPT ![p] = @ \cup {now[p]}]
  /\ Go(p, "load")
  /\ UNCHANGED <<disk, torn, now, content, history>>

DownloadFails(p) ==
  /\ pc[p] = "cache"
  /\ Write("official", now[p], Absent)
  /\ \E h \in {mem[p].hash[now[p]], Absent} : Remember(p, WithHash(mem[p], now[p], h))
  /\ Go(p, IF used[p] = {} THEN "find" ELSE "load")
  /\ UNCHANGED <<file, torn, used, now, content, touched, history>>

-----------------------------------------------------------------------------
(* load_skill: the SKILL.md must be there and match the hash; without a    *)
(* hash it is trusted, and its hash is kept                                *)

Loads(p, s) ==
  LET there == disk[TierOf(mem[p], s)][s]
  IN  there # Absent /\ mem[p].hash[s] \in {Absent, there}

Trusting(p, s) == 
  IF Loads(p, s) THEN disk[TierOf(mem[p], s)][s] ELSE mem[p].hash[s]

Load(p) ==
  /\ pc[p] = "load"
  /\ Remember(p, [mem[p] EXCEPT !.hash = [s \in Skills |->
                    IF s \in used[p] THEN Trusting(p, s) ELSE mem[p].hash[s]]])
  /\ Go(p, "track")
  /\ UNCHANGED <<files, used, now, content, touched, history>>

-----------------------------------------------------------------------------
(* track_usage, and promote_skill when a temp skill has proven itself      *)

Track(p) ==
  /\ pc[p] = "track"
  /\ \E s \in used[p], high \in BOOLEAN :
       LET t == TierOf(mem[p], s)
           e == [uses |-> IF mem[p].entry[t][s].uses < MinUses
                          THEN mem[p].entry[t][s].uses + 1 ELSE MinUses,
                 high |-> high]
       IN  /\ used' = [used EXCEPT ![p] = @ \ {s}]
           /\ IF s \in Known(mem[p])
              THEN /\ Save(p, WithEntry(mem[p], t, s, e))
                   /\ touched' = [touched EXCEPT ![p] = @ \cup {s}]
                   /\ IF t = "temp" /\ e.uses = MinUses /\ high
                      THEN Go(p, "promote") /\ now' = [now EXCEPT ![p] = s]
                      ELSE UNCHANGED <<pc, now>>
              ELSE UNCHANGED <<file, mem, touched, pc, now>>
  /\ UNCHANGED <<disk, torn, content, history>>

\* The directory is moved, if it is there, intact, and local/ has none.
MoveToLocal(p) ==
  LET s == now[p]
      there == disk["temp"][s]
  IN  /\ pc[p] = "promote"
      /\ there # Absent
      /\ IF mem[p].hash[s] \in {Absent, there} /\ disk["local"][s] = Absent
         THEN /\ disk' = [disk EXCEPT !["temp"][s] = Absent, !["local"][s] = there]
              /\ Go(p, "promoted")
         ELSE UNCHANGED disk /\ Go(p, "track")
      /\ Remember(p, IF mem[p].hash[s] = Absent
                     THEN WithHash(mem[p], s, there) ELSE mem[p])
      /\ UNCHANGED <<file, torn, used, now, content, touched, history>>

\* An entry without a directory is dropped.
PromoteNothing(p) ==
  /\ pc[p] = "promote" /\ disk["temp"][now[p]] = Absent
  /\ Save(p, WithEntry(mem[p], "temp", now[p], NoEntry))
  /\ Go(p, "track")
  /\ UNCHANGED <<disk, torn, used, now, content, touched, history>>

Promoted(p) ==
  LET s == now[p]
  IN  /\ pc[p] = "promoted"
      /\ Save(p, WithEntry(WithEntry(mem[p], "local", s, mem[p].entry["temp"][s]),
                           "temp", s, NoEntry))
      /\ Go(p, "track")
      /\ UNCHANGED <<disk, torn, used, now, content, touched, history>>

-----------------------------------------------------------------------------
(* cleanup_temp: temp and official skills not used for days are removed,   *)
(* then every directory of temp/ that this copy of the index does not know *)

\* Mutant: every tier has a time to live.
StaleSetsAnywhere(p) ==
  SUBSET {x \in Tiers \X (Skills \ touched[p]) : Has(mem[p], x[1], x[2])}

StaleSets(p) ==
  SUBSET {x \in {"official", "temp"} \X (Skills \ touched[p]) :
            Has(mem[p], x[1], x[2])}

Evict(p) ==
  /\ pc[p] = "track" /\ used[p] = {}
  /\ \E stale \in StaleSets(p) :
       /\ disk' = [t \in Tiers |-> [s \in Skills |->
                     IF <<t, s>> \in stale THEN Absent ELSE disk[t][s]]]
       /\ Remember(p,
            [entry |-> [t \in Tiers |-> [s \in Skills |->
               IF <<t, s>> \in stale THEN NoEntry ELSE mem[p].entry[t][s]]],
             hash |-> [s \in Skills |->
               IF \E t \in Tiers : <<t, s>> \in stale
               THEN Absent ELSE mem[p].hash[s]]])
       /\ Go(p, IF stale = {} THEN "sweep" ELSE "sweep_and_save")
  /\ UNCHANGED <<file, torn, used, now, content, touched, history>>

Swept(p) ==
  [disk EXCEPT !["temp"] = [s \in Skills |->
     IF Has(mem[p], "temp", s) THEN disk["temp"][s] ELSE Absent]]

\* Mutant: the sweep is left out when nothing was evicted.
SweepNothing(p) ==
  /\ pc[p] = "sweep"
  /\ End(p)
  /\ UNCHANGED <<files, history>>

\* Nothing was evicted: the session is over.
Sweep(p) ==
  /\ pc[p] = "sweep"
  /\ disk' = Swept(p)
  /\ End(p)
  /\ UNCHANGED <<file, torn, history>>

SweepAfterEviction(p) ==
  /\ pc[p] = "sweep_and_save"
  /\ disk' = Swept(p)
  /\ Go(p, "save")
  /\ UNCHANGED <<file, torn, mem, used, now, content, touched, history>>

SaveEvicted(p) ==
  /\ pc[p] = "save"
  /\ file' = mem[p]
  /\ End(p)
  /\ UNCHANGED <<disk, torn, history>>

-----------------------------------------------------------------------------

\* A heartbeat is killed; in the middle of a save it leaves a truncated file,
\* which no later session can load.
Crash(p) ==
  /\ pc[p] # "off" /\ crashes < MaxCrashes
  /\ crashes' = crashes + 1
  /\ spoiled' = TRUE
  /\ torn' \in {torn, torn \/ pc[p] \in {"register", "cache", "track",
                                         "promote", "promoted", "save"}}
  /\ End(p)
  /\ UNCHANGED <<disk, file, alone, sessions>>

Session(p) ==
  \/ Start(p) \/ Find(p)
  \/ Generate(p) \/ Register(p) \/ Reject(p)
  \/ Download(p) \/ Cache(p) \/ DownloadFails(p)
  \/ Load(p) \/ Track(p)
  \/ MoveToLocal(p) \/ PromoteNothing(p) \/ Promoted(p)
  \/ Evict(p) \/ Sweep(p) \/ SweepAfterEviction(p) \/ SaveEvicted(p)

Next == \E p \in Procs : Session(p) \/ Crash(p)

Spec == Init /\ [][Next]_vars

-----------------------------------------------------------------------------
(* Properties                                                              *)

\* The type invariant.
TypeOK ==
  /\ disk \in [Tiers -> [Skills -> Content]]
  /\ file \in Index /\ mem \in [Procs -> Index]
  /\ used \in [Procs -> SUBSET Skills] /\ touched \in [Procs -> SUBSET Skills]
  /\ now \in [Procs -> Skills \cup {Nothing}] /\ content \in [Procs -> Content]
  /\ alone \in [Procs -> BOOLEAN] /\ spoiled \in BOOLEAN
  /\ sessions \in 0..MaxSessions /\ crashes \in 0..MaxCrashes

\* As long as heartbeats came one after the other and none was killed, a skill
\* of the index loads: its directory is there and its content matches the hash.
\* A name has one entry, and outside temp/ no directory is without one.
LibraryIsConsistent ==
  ~spoiled /\ Running = {} =>
    \A s \in Skills :
      /\ \A t \in Tiers : Has(file, t, s) =>
           disk[t][s] # Absent /\ file.hash[s] = disk[t][s]
      /\ Cardinality({t \in Tiers : Has(file, t, s)}) <= 1
      /\ \A t \in {"official", "local"} : disk[t][s] # Absent => Has(file, t, s)

\* What every state of the library satisfies.
LibraryInv == TypeOK /\ LibraryIsConsistent

\* A promoted skill is permanent: whatever happened before, a heartbeat that
\* nobody overlaps does not take it out of the index.
LocalIsPermanent ==
  [][\A s \in Skills : Has(file, "local", s) /\ ~Has(file', "local", s) =>
       \E p \in Running : ~alone[p] /\ <<pc[p], used[p]>>' # <<pc[p], used[p]>>]_vars

\* Whatever crashed or overlapped before: a heartbeat that runs alone to its
\* end leaves no directory in temp/ that the index does not know.
SweepLeavesNoOrphans ==
  [][\A p \in Procs :
       /\ pc[p] \in {"sweep", "save"} /\ pc'[p] = "off"
       /\ alone[p] /\ crashes' = crashes
       => \A s \in Skills : disk'["temp"][s] # Absent => Has(file', "temp", s)]_vars

=============================================================================
