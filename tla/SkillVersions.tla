---------------------------- MODULE SkillVersions ----------------------------
(***************************************************************************)
(* The A/B versions of one skill (agents/skill_ab.py): Tier1aBuilder       *)
(* writes a refined candidate <name>__v2 beside the skill, the loader      *)
(* picks a version by the session id, skill_cleanup records the outcomes   *)
(* and promotes the winner.  A name is the number of its __v2 suffixes.    *)
(* Sessions follow each other; one may be killed between two steps.  The   *)
(* index is saved with every change, so that one set stands for it.        *)
(***************************************************************************)
EXTENDS Naturals, FiniteSetsExt

CONSTANTS
  Positive,   \* scores from 70, POSITIVE_EXAMPLE_FLOOR
  Negative,   \* scores from 1 to 50, NEGATIVE_EXAMPLE_CEILING
  Quota,      \* K_per_version, 10 in skill_cleanup; _append keeps two
              \* outcomes of a name, so that a promotion needs at most 2
  MaxDrafts,  \* bound: candidates drafted
  MaxCrashes  \* bound: killed processes

SkillVersionsAssumption ==
  /\ Positive \subseteq Nat /\ Negative \subseteq Nat /\ Positive \cap Negative = {}
  /\ {Quota, MaxDrafts, MaxCrashes} \subseteq Nat

Names == 0..2
Base(n) == IF n = 0 THEN 0 ELSE n - 1
Drafts == 0..MaxDrafts   \* contents: 0 is the skill as it was generated
NoDraft == MaxDrafts + 1 \* no such directory

VARIABLES
  tier,     \* where the skill lives
  dir,      \* the content of each version's directory
  entries,  \* the names in the index
  outcomes, \* the scores kept for each name
  pc,       \* the next step of the session
  name,     \* the skill the router found
  chosen,   \* the version the loader picked
  winner, loser,
  drafts, crashes

vars == <<tier, dir, entries, outcomes, pc, name, chosen, winner, loser, drafts, crashes>>
local == <<tier, name, chosen, winner, loser>>

Exists(n) == dir[n] # NoDraft
\* list_versions_for
Versions(base) == {n \in {base, base + 1} \cap Names : Exists(n)}

\* The average of the scores of a is higher, without dividing.
Better(a, b) ==
  SumSet(outcomes[a]) * Cardinality(outcomes[b])
    > SumSet(outcomes[b]) * Cardinality(outcomes[a])

Init ==
  /\ tier \in {"local", "temp"}
  /\ dir = [n \in Names |-> IF n = 0 THEN 0 ELSE NoDraft]
  /\ entries = {0}
  /\ outcomes = [n \in Names |-> {}]
  /\ pc = "idle"
  /\ name = 0 /\ chosen = 0 /\ winner = 0 /\ loser = 0
  /\ drafts = 0 /\ crashes = 0

-----------------------------------------------------------------------------
(* A session: find, load, record                                           *)

\* The router returns a name of the index; when there are two versions the
\* session id decides which one is loaded.
Find ==
  /\ pc = "idle"
  /\ name' \in entries
  /\ chosen' \in IF Cardinality(Versions(Base(name'))) > 1
                 THEN Versions(Base(name')) ELSE {name'}
  /\ pc' = "loaded"
  /\ UNCHANGED <<dir, entries, outcomes, winner, loser, tier, drafts, crashes>>

\* Of each band the most telling score is kept.
Highest(scores) == {x \in scores : \A y \in scores : y <= x}
Lowest(scores) == {x \in scores : \A y \in scores : x <= y}
Keep(scores, s) ==
  LET all == scores \cup {s}
  IN  Highest(all \cap Positive) \cup Lowest(all \cap Negative)

\* The outcome counts for the router's name, and only when the content that
\* was loaded has that name.
Record ==
  /\ pc = "loaded"
  /\ chosen = name /\ Exists(chosen)
  /\ \E s \in Positive \cup Negative :
       outcomes' = [outcomes EXCEPT ![name] = Keep(@, s)]
  /\ pc' = "promote"
  /\ UNCHANGED <<dir, entries, local, drafts, crashes>>

\* Not evaluated, between the bands, or not loaded under the router's name.
RecordNothing ==
  /\ pc = "loaded"
  /\ pc' = "promote"
  /\ UNCHANGED <<dir, entries, outcomes, local, drafts, crashes>>

-----------------------------------------------------------------------------
(* maybe_promote_winners                                                   *)

Decided ==
  LET versions == Versions(Base(name))
  IN  /\ Cardinality(versions) = 2
      /\ \A n \in versions : Cardinality(outcomes[n]) >= Quota

Decide ==
  /\ pc = "promote" /\ Decided
  /\ LET base == Base(name)
         wins == IF Better(base + 1, base) THEN base + 1 ELSE base
     IN  winner' = wins /\ loser' = IF wins = base THEN base + 1 ELSE base
  /\ pc' = "archive"
  /\ UNCHANGED <<tier, dir, entries, outcomes, name, chosen, drafts, crashes>>

DecideNothing ==
  /\ pc = "promote" /\ ~Decided
  /\ pc' = "sweep"
  /\ UNCHANGED <<dir, entries, outcomes, local, drafts, crashes>>

\* archive_loser: the directory is moved to archive/,
Archive ==
  /\ pc = "archive"
  /\ dir' = [dir EXCEPT ![loser] = NoDraft]
  /\ pc' = "unregister"
  /\ UNCHANGED <<entries, outcomes, local, drafts, crashes>>

\* and leaves the index.  A winner with a suffix takes the base name, unless
\* the index does not know it.
Unregister ==
  /\ pc = "unregister"
  /\ entries' = entries \ {loser}
  /\ pc' = IF winner = Base(name) \/ winner \notin entries
           THEN "sweep" ELSE "rename"
  /\ UNCHANGED <<dir, outcomes, local, drafts, crashes>>

\* rename_winner_to_base: the directory, the old entry, the new entry.
Rename ==
  /\ pc = "rename"
  /\ dir' = [dir EXCEPT ![Base(winner)] = dir[winner], ![winner] = NoDraft]
  /\ pc' = "forget"
  /\ UNCHANGED <<entries, outcomes, local, drafts, crashes>>

Forget ==
  /\ pc = "forget"
  /\ entries' = entries \ {winner}
  /\ pc' = "register_winner"
  /\ UNCHANGED <<dir, outcomes, local, drafts, crashes>>

RegisterWinner ==
  /\ pc = "register_winner"
  /\ entries' = entries \cup {Base(winner)}
  /\ pc' = "sweep"
  /\ UNCHANGED <<dir, outcomes, local, drafts, crashes>>

\* cleanup_temp: directories without an entry go, archive/ among them.
Sweep ==
  /\ pc = "sweep"
  /\ dir' = [n \in Names |-> IF tier = "temp" /\ n \notin entries
                             THEN NoDraft ELSE dir[n]]
  /\ pc' = "idle"
  /\ UNCHANGED <<entries, outcomes, local, drafts, crashes>>

-----------------------------------------------------------------------------
(* Tier1aBuilder.build                                                     *)

\* A skill with an outcome and no second version gets one: the directory,
Draft ==
  /\ pc = "idle" /\ drafts < MaxDrafts
  /\ \E n \in entries :
       /\ outcomes[n] # {} /\ Exists(n)
       /\ n + 1 \in Names /\ ~Exists(n + 1)
       /\ dir' = [dir EXCEPT ![n + 1] = drafts + 1]
       /\ winner' = n + 1
  /\ drafts' = drafts + 1
  /\ pc' = "register_draft"
  /\ UNCHANGED <<tier, entries, outcomes, name, chosen, loser, crashes>>

\* then the entry.  The name of a candidate's candidate is not valid:
\* register_skill raises and the directory stays.  A skill whose last name
\* left the index is not found again: its story ends.
RegisterDraft ==
  /\ pc = "register_draft"
  /\ entries' = IF winner = 1 THEN entries \cup {1} ELSE entries
  /\ pc' = "idle"
  /\ UNCHANGED <<dir, outcomes, local, drafts, crashes>>

-----------------------------------------------------------------------------

Crash ==
  /\ pc # "idle" /\ crashes < MaxCrashes
  /\ crashes' = crashes + 1
  /\ pc' = "idle"
  /\ UNCHANGED <<dir, entries, outcomes, local, drafts>>

Next ==
  \/ Find \/ Record \/ RecordNothing
  \/ Decide \/ DecideNothing \/ Archive \/ Unregister
  \/ Rename \/ Forget \/ RegisterWinner \/ Sweep
  \/ Draft \/ RegisterDraft
  \/ Crash

Spec == Init /\ [][Next]_vars

-----------------------------------------------------------------------------
(* Properties                                                              *)

\* The type invariant.
TypeOK ==
  /\ dir \in [Names -> Drafts \cup {NoDraft}]
  /\ entries \subseteq Names
  /\ outcomes \in [Names -> SUBSET (Positive \cup Negative)]
  /\ \A n \in Names :
       /\ Cardinality(outcomes[n] \cap Positive) <= 1
       /\ Cardinality(outcomes[n] \cap Negative) <= 1
  /\ {name, chosen, winner, loser} \subseteq Names
  /\ drafts \in 0..MaxDrafts /\ crashes \in 0..MaxCrashes

\* Between sessions none of which was killed, the base name is there and the
\* index names the directories, so that a promotion left one version.
VersionsAreIndexed ==
  pc = "idle" /\ crashes = 0 =>
    0 \in entries /\ entries = {n \in {0, 1} : Exists(n)}

\* The incumbent leaves the disk only for a winner: at every moment, and after
\* a kill at any step, a version of the skill is on disk.  (In temp/ the sweep
\* of the next session takes a winner that was not registered yet.)
AVersionSurvives == tier # "temp" \/ crashes = 0 => Exists(0) \/ Exists(1)

\* What every state of a skill's versions satisfies.
VersionsInv == TypeOK /\ VersionsAreIndexed /\ AVersionSurvives

=============================================================================
