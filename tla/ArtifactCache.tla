---------------------------- MODULE ArtifactCache ----------------------------
(***************************************************************************)
(* The result cache that the heartbeats of all agents share                *)
(* (agents/artifact_store.py; the nodes cache_lookup and                   *)
(* skill_cleanup_wrapper of agents/graph_nodes.py): a SQLite table in      *)
(* which every statement is a transaction of its own, done or not done.    *)
(* A process is one heartbeat: it looks its key up, works on a miss,       *)
(* stores its result, and clears the table of what is over.  A statement   *)
(* that fails is swallowed: the lookup is a miss, the store gives up.      *)
(***************************************************************************)
EXTENDS Integers, FiniteSets

CONSTANTS
    Procs,            \* heartbeats
    Keys,             \* cache keys
    Scores,           \* effective scores that reach the minimum
    MaxRows,          \* max_entries of the configured store
    MaintenanceRows,  \* max_entries of the store the maintenance builds
    MaxRuns,          \* bound: heartbeats
    MaxFaults         \* bound: failed statements and killed heartbeats

ArtifactCacheAssumption ==
    /\ IsFiniteSet(Procs) /\ IsFiniteSet(Keys) /\ Keys # {}
    /\ Scores \subseteq Nat \ {0}
    /\ {MaxRows, MaintenanceRows, MaxRuns, MaxFaults} \subseteq Nat

Absent == 0
AnyKey == CHOOSE k \in Keys : TRUE

VARIABLES
    score,    \* key -> the score of its row, or Absent
    lapsed,   \* the keys whose row is past its time to live
    older,    \* pairs of keys with a row, the first with the smaller last_accessed_at
    step,     \* process -> where it is
    key,      \* process -> its cache_key
    mine,     \* process -> the score of its own result
    excess,   \* process -> the rows it is about to evict
    runs,     \* heartbeats so far
    faults,   \* failed statements and killed heartbeats so far
    since,    \* history: process -> the keys stored since its lookup
    blind,    \* history: processes whose miss is a lookup that failed
    unpaid,   \* history: numbers of the faults that kept a store from evicting
    seen      \* history: process -> the faults before it counted the rows

table == <<score, lapsed, older>>
own == <<key, mine, excess, since, blind, seen>>
vars == <<table, own, step, runs, faults, unpaid>>

Stored == {k \in Keys : score[k] # Absent}

Init ==
    /\ score = [k \in Keys |-> Absent] /\ lapsed = {} /\ older = {}
    /\ step = [p \in Procs |-> "idle"]
    /\ key = [p \in Procs |-> AnyKey]
    /\ mine = [p \in Procs |-> Absent]
    /\ excess = [p \in Procs |-> 0]
    /\ since = [p \in Procs |-> {}]
    /\ seen = [p \in Procs |-> 0]
    /\ blind = {} /\ unpaid = {}
    /\ runs = 0 /\ faults = 0

Go(p, next) == step' = [step EXCEPT ![p] = next]

\* A process has done with its key.
Forget(p) ==
    /\ mine' = [mine EXCEPT ![p] = Absent]
    /\ excess' = [excess EXCEPT ![p] = 0]
    /\ since' = [since EXCEPT ![p] = {}]
    /\ seen' = [seen EXCEPT ![p] = 0]
    /\ blind' = blind \ {p}
    /\ key' = [key EXCEPT ![p] = AnyKey]

Fault == faults < MaxFaults /\ faults' = faults + 1

\* Rows leave the table.
Drop(gone) ==
    /\ score' = [k \in Keys |-> IF k \in gone THEN Absent ELSE score[k]]
    /\ lapsed' = lapsed \ gone
    /\ older' = {r \in older : r[1] \notin gone /\ r[2] \notin gone}

\* Nothing was used after k.
Use(k) == older' = {r \in older : r[1] # k} \cup ((Stored \ {k}) \X {k})

\* A row becomes the latest one that was used; nothing when it is gone.
Touch(k) == IF score[k] = Absent THEN UNCHANGED older ELSE Use(k)

\* The n rows that were not used for longest, all of them if there are fewer.
Oldest(n) ==
    {S \in SUBSET Stored :
       /\ Cardinality(S) = n \/ (S = Stored /\ Cardinality(S) < n)
       /\ S \X (Stored \ S) \subseteq older}

\* The time to live of a row is over.
Lapse(k) ==
    /\ k \in Stored \ lapsed
    /\ lapsed' = lapsed \cup {k}
    /\ UNCHANGED <<score, older, own, step, runs, faults, unpaid>>

-----------------------------------------------------------------------------
(* cache_lookup                                                            *)

\* A miss sets the workflow to work; a row that is over is deleted first, by
\* its key.  A workflow that has no specification, or never comes to the node,
\* looks nothing up.
Lookup(p) ==
    /\ step[p] = "idle" /\ runs < MaxRuns
    /\ runs' = runs + 1
    /\ \/ \E k \in Keys :
            /\ key' = [key EXCEPT ![p] = k]
            /\ Go(p, IF k \notin Stored THEN "work" ELSE IF k \in lapsed THEN "delete" ELSE "touch")
       \/ Go(p, "cleanup") /\ UNCHANGED key
    /\ UNCHANGED <<table, mine, excess, since, blind, seen, faults, unpaid>>

\* Mutant: the row that is over stays.
DeleteLater(p) ==
    /\ step[p] = "delete"
    /\ Go(p, "work")
    /\ UNCHANGED <<table, own, runs, faults, unpaid>>

DeleteLapsed(p) ==
    /\ step[p] = "delete"
    /\ Drop({key[p]})
    /\ Go(p, "work")
    /\ UNCHANGED <<own, runs, faults, unpaid>>

\* A hit: the row is served, and nothing is stored at the end.
Hit(p) ==
    /\ step[p] = "touch"
    /\ Touch(key[p])
    /\ Go(p, "cleanup")
    /\ Forget(p)
    /\ UNCHANGED <<score, lapsed, runs, faults, unpaid>>

\* The SELECT, the DELETE or the UPDATE fails: a miss, and the row stays.
LookupFails(p) ==
    /\ Fault
    /\ \/ /\ step[p] = "idle" /\ runs < MaxRuns
          /\ runs' = runs + 1
          /\ \E k \in Keys : key' = [key EXCEPT ![p] = k]
       \/ step[p] \in {"delete", "touch"} /\ UNCHANGED <<key, runs>>
    /\ blind' = blind \cup {p}
    /\ Go(p, "work")
    /\ UNCHANGED <<table, mine, excess, since, seen, unpaid>>

-----------------------------------------------------------------------------
(* skill_cleanup_wrapper: store                                            *)

\* The workflow ends with a result that is worth storing, or without.
Work(p) ==
    /\ step[p] = "work"
    /\ \/ /\ mine' \in {[mine EXCEPT ![p] = s] : s \in Scores}
          /\ Go(p, "check")
          /\ UNCHANGED <<key, excess, since, blind, seen>>
       \/ Go(p, "cleanup") /\ Forget(p)
    /\ UNCHANGED <<table, runs, faults, unpaid>>

\* A row with as good a score stands in the way, whether it is over or not.
Rejected(p) ==
    /\ step[p] = "check" /\ score[key[p]] >= mine[p]
    /\ Go(p, "cleanup")
    /\ Forget(p)
    /\ UNCHANGED <<table, runs, faults, unpaid>>

Accepted(p) ==
    /\ step[p] = "check" /\ score[key[p]] < mine[p]
    /\ Go(p, "insert")
    /\ UNCHANGED <<table, own, runs, faults, unpaid>>

\* INSERT ON CONFLICT DO UPDATE, whatever is there by now.
Insert(p) ==
    /\ step[p] = "insert"
    /\ score' = [score EXCEPT ![key[p]] = mine[p]]
    /\ lapsed' = lapsed \ {key[p]}
    /\ Use(key[p])
    /\ since' = [q \in Procs |->
                   IF step[q] \in {"delete", "work", "check", "insert"}
                   THEN since[q] \cup {key[p]} ELSE since[q]]
    /\ Go(p, "count")
    /\ UNCHANGED <<key, mine, excess, blind, seen, runs, faults, unpaid>>

\* _evict_if_needed: the rows are counted, then as many as were too many then
\* are deleted, the least recently used first.
Over(n) == IF Cardinality(Stored) <= n THEN 0 ELSE Cardinality(Stored) - n

Count(p) ==
    /\ step[p] = "count"
    /\ excess' = [excess EXCEPT ![p] = Over(MaxRows)]
    /\ seen' = [seen EXCEPT ![p] = faults]
    /\ Go(p, "evict")
    /\ UNCHANGED <<table, key, mine, since, blind, runs, faults, unpaid>>

\* What a store left behind before the rows were counted leaves with them.
Evict(p) ==
    /\ step[p] = "evict"
    /\ \E gone \in Oldest(excess[p]) : Drop(gone)
    /\ unpaid' = {f \in unpaid : f > seen[p]}
    /\ Go(p, "cleanup")
    /\ Forget(p)
    /\ UNCHANGED <<runs, faults>>

\* A fault between the INSERT and the end of the eviction leaves the row.
Leave(p) == unpaid' = IF step[p] \in {"count", "evict"} THEN unpaid \cup {faults + 1} ELSE unpaid

\* A statement of the store fails, and the store gives up where it is; with
\* nothing to evict there is no DELETE.
StoreFails(p) ==
    /\ Fault
    /\ step[p] \in {"check", "insert", "count"} \/ (step[p] = "evict" /\ excess[p] > 0)
    /\ Leave(p)
    /\ Go(p, "cleanup")
    /\ Forget(p)
    /\ UNCHANGED <<table, runs>>

-----------------------------------------------------------------------------
(* _artifact_cache_maintenance, at the end of the heartbeat                *)

Cleanup(p) ==
    /\ step[p] = "cleanup"
    /\ Drop(lapsed)
    /\ Go(p, "count_all")
    /\ UNCHANGED <<own, runs, faults, unpaid>>

CountAll(p) ==
    /\ step[p] = "count_all"
    /\ excess' = [excess EXCEPT ![p] = Over(MaintenanceRows)]
    /\ Go(p, "evict_all")
    /\ UNCHANGED <<table, key, mine, since, blind, seen, runs, faults, unpaid>>

EvictAll(p) ==
    /\ step[p] = "evict_all"
    /\ \E gone \in Oldest(excess[p]) : Drop(gone)
    /\ Go(p, "idle")
    /\ Forget(p)
    /\ UNCHANGED <<runs, faults, unpaid>>

\* A clean-up that fails is followed by the count; a count or an eviction that
\* fails, and a table that cannot be opened, end it.
MaintenanceFails(p) ==
    /\ Fault
    /\ \/ step[p] = "cleanup" /\ Go(p, "count_all")
       \/ step[p] \in {"cleanup", "count_all", "evict_all"} /\ Go(p, "idle")
    /\ Forget(p)
    /\ UNCHANGED <<table, runs, unpaid>>

\* The heartbeat is killed.
Die(p) ==
    /\ Fault
    /\ step[p] # "idle"
    /\ Leave(p)
    /\ Go(p, "idle")
    /\ Forget(p)
    /\ UNCHANGED <<table, runs>>

Next ==
    \/ \E k \in Keys : Lapse(k)
    \/ \E p \in Procs :
         \/ Lookup(p) \/ DeleteLapsed(p) \/ Hit(p) \/ LookupFails(p)
         \/ Work(p) \/ Rejected(p) \/ Accepted(p) \/ Insert(p) \/ Count(p) \/ Evict(p)
         \/ StoreFails(p)
         \/ Cleanup(p) \/ CountAll(p) \/ EvictAll(p) \/ MaintenanceFails(p)
         \/ Die(p)

Spec == Init /\ [][Next]_vars

-----------------------------------------------------------------------------
(* Properties                                                              *)

\* The type invariant.
TypeOK ==
    /\ score \in [Keys -> Scores \cup {Absent}]
    /\ lapsed \subseteq Stored
    /\ older \subseteq Stored \X Stored
    /\ \A j, k \in Stored : <<j, k>> \in older <=> j # k /\ <<k, j>> \notin older
    /\ key \in [Procs -> Keys]
    /\ mine \in [Procs -> Scores \cup {Absent}]
    /\ excess \in [Procs -> 0 .. Cardinality(Keys)]
    /\ unpaid \subseteq 1 .. faults

\* However the inserts, counts and evictions of the processes interleave, the
\* table exceeds its limit only by what the processes between their insert and
\* their eviction have still to evict, and by one row for each store that
\* failed or died there, until the next eviction that counted after it.
CapacityHolds ==
    Cardinality(Stored) <=
      MaxRows + Cardinality({p \in Procs : step[p] \in {"count", "evict"}})
              + Cardinality(unpaid)

\* A result is kept out of the cache only by one that another heartbeat stored
\* after this one had found nothing, or that its own lookup failed to read: a
\* row that was found to be over never stands in the way.
OnlyNewsRejects ==
    \A p \in Procs :
      step[p] \in {"work", "check"} /\ score[key[p]] # Absent =>
        key[p] \in since[p] \/ p \in blind

\* What every state of the cache satisfies.
ArtifactInv == TypeOK /\ CapacityHolds /\ OnlyNewsRejects
=============================================================================
