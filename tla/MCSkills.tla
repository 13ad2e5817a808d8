------------------------------ MODULE MCSkills ------------------------------
(***************************************************************************)
(* The library, with two heartbeats, and the versions of one skill, side   *)
(* by side: topic says which of the two a behaviour is about, the other    *)
(* stays as it is.                                                         *)
(***************************************************************************)
EXTENDS Naturals, TLC

CONSTANTS Beats, Generated, Remote, Contents, MinUses, MaxSessions, MaxEnds,
          Positive, Negative, Quota, MaxDrafts, MaxDeaths

VARIABLES topic,
          disk, index, torn, copy, turn, using, doing, text, touched, alone, spoiled,
          sessions, ends,
          tier, dir, entries, outcomes, stage, name, chosen, winner, loser, drafts, deaths

library == <<disk, index, torn, copy, turn, using, doing, text, touched, alone, spoiled,
             sessions, ends>>
versions == <<tier, dir, entries, outcomes, stage, name, chosen, winner, loser, drafts,
              deaths>>
skills == <<topic, library, versions>>

Lib == INSTANCE SkillLibrary
  WITH Procs <- Beats, MaxCrashes <- MaxEnds, file <- index, mem <- copy, pc <- turn,
       used <- using, now <- doing, content <- text, crashes <- ends
Ver == INSTANCE SkillVersions
  WITH MaxCrashes <- MaxDeaths, pc <- stage, crashes <- deaths

ASSUME Lib!SkillLibraryAssumption /\ Ver!SkillVersionsAssumption

OnLibrary == topic = "library"
OnVersions == topic = "versions"

SkillsInit ==
  /\ Lib!Init /\ Ver!Init
  /\ topic \in {"library", "versions"}
  /\ OnLibrary => tier = "local"
SkillsNext ==
  \/ OnLibrary /\ Lib!Next /\ UNCHANGED <<topic, versions>>
  \/ OnVersions /\ Ver!Next /\ UNCHANGED <<topic, library>>
SkillsSpec == SkillsInit /\ [][SkillsNext]_skills

\* See SkillLibrary and SkillVersions: what every state of the library and of a
\* skill's versions satisfies.
LibraryInv == Lib!LibraryInv /\ Ver!VersionsInv
LocalIsPermanent == Lib!LocalIsPermanent
SweepLeavesNoOrphans == Lib!SweepLeavesNoOrphans

SkillsSymmetry == Permutations(Beats) \cup Permutations(Contents)
=============================================================================
