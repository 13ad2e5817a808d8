---------------------------- MODULE SelfUpgrade ----------------------------
(***************************************************************************)
(* The self-upgrade loop at the end of a workflow run                      *)
(* (agents/self_upgrade_trigger.py, self_upgrade_dispatcher.py,            *)
(* self_upgrade/tier*_builder.py, graph_nodes.py, prompt_library).         *)
(*                                                                         *)
(* Every heartbeat process loads the signal file once, adds the signals of *)
(* its runs to its memory and to the file, and hands the signals that have *)
(* no artifact yet to a dispatcher, which classifies them and asks the     *)
(* builder of one tier for a lesson (0), a second version of a skill (1a), *)
(* a prompt override on a branch of the shared checkout (1b) or a report   *)
(* to a human (3).  The file, the checkout and the skill directory are     *)
(* shared by the processes of a host; nothing serialises them.             *)
(*                                                                         *)
(* One task type, hence one adapter and one skill, is modelled: signals of *)
(* different task types never meet.  What a signal says is its detail.     *)
(***************************************************************************)
EXTENDS Integers, Sequences, FiniteSets

CONSTANTS
    Processes,      \* heartbeat processes that share the host
    Publishers,     \* those whose dispatcher has the Tier 1b builder
    Details,        \* what a detector may write into a signal
    MaxSignals,     \* bound: signals ever recorded
    MaxOverrides,   \* bound: override branches ever created
    MaxCrashes      \* bound: processes killed

SelfUpgradeAssumption ==
    /\ Publishers \subseteq Processes /\ "none" \notin Details
    /\ MaxSignals \in Nat /\ MaxOverrides \in Nat /\ MaxCrashes \in Nat

Blank == "blank"            \* the detail of a line that carries none
Signals == 1 .. MaxSignals
Overrides == 1 .. MaxOverrides
Main == 0                   \* the branch the checkout starts on
Branches == {Main} \cup Overrides   \* an override's branch bears its id
NoOne == "no one"

VARIABLES
    wired,      \* TRUE: every builder of Tiers 0, 1a and 3 is there
    detail,     \* the detail of every signal recorded so far
    stored,     \* upgrade_signals.jsonl: signal -> absent, open, filed
    memory,     \* _signal_history of each process, the same way
    step,       \* what each process is doing
    batch,      \* the signals it is dispatching
    lines,      \* the file as its mark_artifact_ref has read it
    override,   \* the override its Tier 1b builder is publishing
    drawn,      \* override ids drawn so far
    filings,    \* history: the signals it filed since it started, but for those
                \* that it then failed to mark
    candidate,  \* whose draft the __v2 directory holds
    head,       \* the branch checked out
    commits,    \* branch -> overrides committed on it
    files,      \* override files in the working tree
    pushed,     \* branch -> overrides on it at origin
    prs,        \* the branches with a pull request
    loaded,     \* overrides each process appends to its prompts
    crashes

git == <<head, commits, files, pushed, prs>>
publishing == <<override, drawn>>
private == <<memory, step, batch, lines, filings, loaded>>
vars == <<wired, detail, stored, private, publishing, candidate, git, crashes>>

Marks == {"absent", "open", "filed"}
Steps == {"down", "idle", "lesson", "refine", "draft", "gates", "branch",
          "write", "diff", "commit", "push", "pr", "report", "mark", "rewrite"}

TypeOK ==
    /\ wired \in BOOLEAN
    /\ detail \in [Signals -> Details \cup {Blank, "none"}]
    /\ stored \in [Signals -> Marks]
    /\ memory \in [Processes -> [Signals -> Marks]]
    /\ step \in [Processes -> Steps]
    /\ batch \in [Processes -> SUBSET Signals]
    /\ lines \in [Processes -> [Signals -> Marks]]
    /\ override \in [Processes -> Branches]
    /\ drawn \in 0 .. MaxOverrides
    /\ filings \in [Processes -> SUBSET Signals]
    /\ candidate \in Processes \cup {NoOne}
    /\ head \in Branches
    /\ commits \in [Branches -> SUBSET Overrides]
    /\ files \subseteq Overrides
    /\ pushed \in [Branches -> SUBSET Overrides]
    /\ prs \subseteq Overrides
    /\ loaded \in [Processes -> SUBSET Overrides]
    /\ crashes \in 0 .. MaxCrashes

Nothing == [s \in Signals |-> "absent"]

\* The file may hold a line written before signals had a detail.
Init ==
    /\ wired \in BOOLEAN
    /\ \E legacy \in SUBSET {1} :
         /\ detail = [s \in Signals |-> IF s \in legacy THEN Blank ELSE "none"]
         /\ stored = [s \in Signals |-> IF s \in legacy THEN "open" ELSE "absent"]
    /\ memory = [p \in Processes |-> Nothing]
    /\ step = [p \in Processes |-> "down"]
    /\ batch = [p \in Processes |-> {}]
    /\ lines = [p \in Processes |-> Nothing]
    /\ override = [p \in Processes |-> Main]
    /\ drawn = 0
    /\ filings = [p \in Processes |-> {}]
    /\ candidate = NoOne
    /\ head = Main
    /\ commits = [b \in Branches |-> {}]
    /\ files = {}
    /\ pushed = [b \in Branches |-> {}]
    /\ prs = {}
    /\ loaded = [p \in Processes |-> {}]
    /\ crashes = 0

-----------------------------------------------------------------------------
(* The trigger and the dispatcher. *)

\* What a process starting now finds active: every valid override file of the
\* working tree (no file is ever marked decayed or superseded by the code).
Active == files

\* A heartbeat process starts: the trigger loads the file into its memory
\* and the adapter registry every override file of the working tree.
Start(p) ==
    /\ step[p] = "down"
    /\ step' = [step EXCEPT ![p] = "idle"]
    /\ memory' = [memory EXCEPT ![p] = stored]
    /\ loaded' = [loaded EXCEPT ![p] = Active]
    /\ UNCHANGED <<wired, detail, stored, batch, lines, publishing, filings,
                   candidate, git, crashes>>

\* classify_signals: the tier of a cluster, named by the step that begins it.
Tier(signals, says) ==
    LET actionable == {s \in signals : says[s] # Blank}
        distinct == {says[s] : s \in actionable}
        n == Cardinality(actionable)
    IN  CASE n = 0 -> "report"
          [] n = 1 -> "lesson"
          [] n >= 3 /\ Cardinality(distinct) = 1 -> "gates"
          [] n >= 3 /\ Cardinality(distinct) > 1 -> "refine"
          [] OTHER -> "report"

Added(held, new) == [s \in Signals |-> IF s \in new THEN "open" ELSE held[s]]

HasBuilder(p, tier) == IF tier = "gates" THEN p \in Publishers ELSE wired

\* What the four detectors may find in a finished run: any number of new
\* signals.  They are numbered in the order they are found.
Detected ==
    UNION {[{s \in 1 .. n : detail[s] = "none"} -> Details] : n \in 0 .. MaxSignals}

\* A run of p ends: its new signals, if any, go to memory and to the file (an
\* OSError there is only logged), then all signals without an artifact are
\* dispatched, the old ones included; without the tier's builder the dispatch
\* is Rejected at once.
EndOfRun(p) ==
    /\ step[p] = "idle"
    /\ \E new \in Detected, persisted \in BOOLEAN :
         /\ detail' = [s \in Signals |-> IF s \in DOMAIN new THEN new[s] ELSE detail[s]]
         /\ memory' = [memory EXCEPT ![p] = Added(@, DOMAIN new)]
         /\ stored' = IF persisted THEN Added(stored, DOMAIN new) ELSE stored
         /\ LET open == {s \in Signals : memory'[p][s] = "open"}
                tier == Tier(open, detail')
            IN  IF open # {} /\ HasBuilder(p, tier)
                THEN /\ step' = [step EXCEPT ![p] = tier]
                     /\ batch' = [batch EXCEPT ![p] = open]
                ELSE UNCHANGED <<step, batch>>
    /\ UNCHANGED <<wired, lines, publishing, filings, loaded, candidate, git, crashes>>

\* p goes on to the step named; a process between two runs dispatches nothing.
Goto(p, next) ==
    /\ step' = [step EXCEPT ![p] = next]
    /\ batch' = [batch EXCEPT ![p] = IF next \in {"idle", "down"} THEN {} ELSE @]

\* What the steps of the builders and of Report leave alone.
SignalFrame == UNCHANGED <<wired, detail, stored, memory, lines, loaded, crashes>>
BuilderFrame == SignalFrame /\ UNCHANGED filings

\* p has a lesson or an issue that stands for the signals, which it marks next.
File(p) ==
    /\ Goto(p, "mark")
    /\ filings' = [filings EXCEPT ![p] = @ \cup batch[p]]
\* It has none.
Skip(p) == Goto(p, "idle") /\ UNCHANGED filings

\* Tier 0: the LLM's lesson is added to the lesson store and the signals are
\* marked; an empty answer is Rejected and an exception skips the dispatch.
Lesson(p) ==
    /\ step[p] = "lesson"
    /\ File(p) \/ Skip(p)
    /\ SignalFrame /\ UNCHANGED <<publishing, candidate, git>>

\* What becomes of a draft: parsed and approved by its own critique, or not.
Drafts == {"approved", "dropped"}

\* Tier 3: an approved report is filed and the signals are marked; a dropped
\* one, or an exception while filing, marks nothing.
Report(p) ==
    /\ step[p] = "report"
    /\ \E draft \in Drafts :
         \/ wired /\ draft = "approved" /\ File(p)
         \/ Skip(p)
    /\ SignalFrame /\ UNCHANGED <<publishing, candidate, git>>

\* What Tiers 1a and 1b do with signals they have no answer for.
FallThrough(p) == Goto(p, "report")

-----------------------------------------------------------------------------
(* Tier 1a: the second version of a skill. *)

\* The skill is found, was used, and has no second version yet; else Tier 3.
FindSkill(p) ==
    /\ step[p] = "refine"
    /\ \/ candidate = NoOne /\ Goto(p, "draft")
       \/ FallThrough(p)
    /\ BuilderFrame /\ UNCHANGED <<publishing, candidate, git>>

\* Mutant: write_candidate that tolerates an existing directory.
WriteCandidateExistOk(p) ==
    /\ step[p] = "draft"
    /\ \/ candidate' = p /\ Goto(p, "idle")
       \/ candidate' = candidate /\ FallThrough(p)
    /\ BuilderFrame /\ UNCHANGED <<publishing, git>>

\* write_candidate after the LLM's draft: the directory may have appeared
\* meanwhile, which is a low confidence too.  A candidate marks no signal.
WriteCandidate(p) ==
    /\ step[p] = "draft"
    /\ \/ candidate = NoOne /\ candidate' = p /\ Goto(p, "idle")
       \/ candidate' = candidate /\ FallThrough(p)
    /\ BuilderFrame /\ UNCHANGED <<publishing, git>>

-----------------------------------------------------------------------------
(* Tier 1b: a prompt override, published from the shared checkout. *)

\* The checks before anything is written, in their order.  A first refusal
\* ends the build; whether one refuses depends on fixtures and on the scorer.
Checks == <<"cluster", "adapter", "fixtures", "schema", "blocklist", "smoke test">>
Verdicts == {"passed"} \cup {Checks[i] : i \in DOMAIN Checks}

\* The override's id is drawn here.
Gates(p) ==
    /\ step[p] = "gates"
    /\ \E verdict \in Verdicts :
       \/ /\ verdict = "passed" /\ drawn < MaxOverrides
          /\ drawn' = drawn + 1
          /\ override' = [override EXCEPT ![p] = drawn']
          /\ Goto(p, "branch")
       \/ verdict # "passed" /\ FallThrough(p) /\ UNCHANGED publishing
    /\ BuilderFrame /\ UNCHANGED <<candidate, git>>

\* A publish step of p: it does what Effect says and goes on, or it fails and
\* leaves the checkout as it is.
Publish(p, at, next, Effect) ==
    /\ step[p] = at
    /\ \/ Effect /\ Goto(p, next) /\ UNCHANGED override
       \/ /\ UNCHANGED git /\ FallThrough(p)
          /\ override' = [override EXCEPT ![p] = Main]
    /\ BuilderFrame /\ UNCHANGED <<drawn, candidate>>

\* git checkout -b: from whatever is checked out.
CreateBranch(p) ==
    Publish(p, "branch", "write",
        /\ head' = override[p]
        /\ commits' = [commits EXCEPT ![override[p]] = commits[head]]
        /\ UNCHANGED <<files, pushed, prs>>)

WriteFiles(p) ==
    Publish(p, "write", "diff",
        files' = files \cup {override[p]} /\ UNCHANGED <<head, commits, pushed, prs>>)

\* git diff --name-status HEAD: override files are only ever added, so the
\* check finds a modification only when someone edits one by hand.
DiffCheck(p) == Publish(p, "diff", "commit", UNCHANGED git)

\* git add of the two files, then git commit, on the branch checked out now.
Commit(p) ==
    Publish(p, "commit", "push",
        /\ commits' = [commits EXCEPT ![head] = @ \cup {override[p]}]
        /\ UNCHANGED <<head, files, pushed, prs>>)

Push(p) ==
    Publish(p, "push", "pr",
        /\ pushed' = [pushed EXCEPT ![override[p]] = commits[override[p]]]
        /\ UNCHANGED <<head, commits, files, prs>>)

\* The pull request, and the companion issue whose failure changes nothing.
\* The checkout stays on the override's branch and the signals stay open.
OpenPR(p) ==
    /\ step[p] = "pr"
    /\ \/ prs' = prs \cup {override[p]} /\ Goto(p, "idle")
       \/ prs' = prs /\ FallThrough(p)
    /\ override' = [override EXCEPT ![p] = Main]
    /\ BuilderFrame /\ UNCHANGED <<drawn, candidate, head, commits, files, pushed>>

-----------------------------------------------------------------------------
(* mark_artifact_ref, and the end of a process. *)

MarkRead(p) ==
    /\ step[p] = "mark"
    /\ Goto(p, "rewrite")
    /\ lines' = [lines EXCEPT ![p] = stored]
    /\ UNCHANGED <<wired, detail, stored, memory, publishing, filings, loaded,
                   candidate, git, crashes>>

Filed(held, signals) ==
    [s \in Signals |-> IF s \in signals /\ held[s] # "absent" THEN "filed" ELSE held[s]]

\* Mutant: Memory forgets to follow the file.
FiledOnlyStored(p) ==
    /\ step[p] = "rewrite"
    /\ Goto(p, "idle")
    /\ stored' = Filed(lines[p], batch[p])
    /\ UNCHANGED memory
    /\ lines' = [lines EXCEPT ![p] = Nothing]
    /\ UNCHANGED <<wired, detail, publishing, filings, loaded, candidate, git, crashes>>

\* The file is written back from what was read, and memory follows.
MarkWrite(p) ==
    /\ step[p] = "rewrite"
    /\ Goto(p, "idle")
    /\ stored' = Filed(lines[p], batch[p])
    /\ memory' = [memory EXCEPT ![p] = Filed(@, batch[p])]
    /\ lines' = [lines EXCEPT ![p] = Nothing]
    /\ UNCHANGED <<wired, detail, publishing, filings, loaded, candidate, git, crashes>>

\* It ends before it has updated memory: there is no file yet, or an error while
\* it reads or writes the file, which the end of the run logs.  Writing truncates
\* the file first.
MarkFails(p) ==
    /\ \/ step[p] = "mark" /\ UNCHANGED stored
       \/ step[p] = "rewrite" /\ stored' \in {stored, Nothing}
    /\ Goto(p, "idle")
    /\ filings' = [filings EXCEPT ![p] = @ \ batch[p]]
    /\ lines' = [lines EXCEPT ![p] = Nothing]
    /\ UNCHANGED <<wired, detail, memory, publishing, loaded, candidate, git, crashes>>

\* The process ends: between two runs, or killed anywhere; write_text
\* truncates before it writes, so a kill there may lose the whole file.
Exit(p) ==
    /\ step[p] # "down"
    /\ Goto(p, "down")
    /\ IF step[p] = "idle" THEN UNCHANGED crashes
       ELSE crashes < MaxCrashes /\ crashes' = crashes + 1
    /\ \/ UNCHANGED stored
       \/ step[p] = "rewrite" /\ stored' = Nothing
    /\ memory' = [memory EXCEPT ![p] = Nothing]
    /\ lines' = [lines EXCEPT ![p] = Nothing]
    /\ override' = [override EXCEPT ![p] = Main]
    /\ filings' = [filings EXCEPT ![p] = {}]
    /\ loaded' = [loaded EXCEPT ![p] = {}]
    /\ UNCHANGED <<wired, detail, drawn, candidate, git>>

Next ==
    \E p \in Processes :
        \/ Start(p) \/ EndOfRun(p) \/ Exit(p)
        \/ Lesson(p) \/ Report(p) \/ MarkRead(p) \/ MarkWrite(p) \/ MarkFails(p)
        \/ FindSkill(p) \/ WriteCandidate(p)
        \/ Gates(p) \/ CreateBranch(p) \/ WriteFiles(p) \/ DiffCheck(p)
        \/ Commit(p) \/ Push(p) \/ OpenPR(p)

Spec == Init /\ [][Next]_vars

-----------------------------------------------------------------------------
(* Properties. *)

\* A signal the process has filed (a lesson, a report) is not handed to a
\* builder again by that process, however many runs follow and whatever the
\* others do to the file, unless marking it failed: mark_artifact_ref updates
\* memory as well as lines, but memory last.
FiledIsNotRefiled ==
    \A p \in Processes :
        step[p] \notin {"down", "mark", "rewrite"} => batch[p] \cap filings[p] = {}

\* A draft that became a skill's second version is never overwritten by the
\* draft of another process that looked before it was there (write_candidate).
CandidateIsKept == [][candidate # NoOne => candidate' = candidate]_vars

\* With one publisher on the host, a pull request carries the override it
\* announces, whichever step failed or was killed before (Tier1bBuilder.build).
PullRequestCarriesItsOverride == \A o \in prs : o \in pushed[o]

\* What every state of the upgrade loop satisfies.
UpgradeInv == TypeOK /\ FiledIsNotRefiled /\ PullRequestCarriesItsOverride

=============================================================================
