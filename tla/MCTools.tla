------------------------------ MODULE MCTools -------------------------------
(***************************************************************************)
(* The sandbox pool, the sub-tasks and the prompts for API keys, side by   *)
(* side: subject says which of them a behaviour is about; the others stay  *)
(* as they are.                                                            *)
(***************************************************************************)
EXTENDS SandboxPool

CONSTANTS NumSubTasks, MaxWorkers, MaxRounds, MaxAttempts, MaxLookups,
          Procs, KeyNames, Values, Valid, MaxMessages, MaxPrompts, MaxFaults

VARIABLES subject,
          tools, at, output, round, noted, errored, attempt, status,
          lookups, searches, node, results,
          messenger, file, torn, cache, where, job, chat, shown, warned,
          prompts, faults, saved, raced

subtasks == <<tools, at, output, round, noted, errored, attempt, status,
              lookups, searches, node, results>>
keys == <<messenger, file, torn, cache, where, job, chat, shown, warned,
          prompts, faults, saved, raced>>
all == <<subject, vars, subtasks, keys>>

\* What _validate_api_key lets through: one value fits both names.
MCValid == {<<"ka", "va">>, <<"kb", "vb">>, <<"kb", "va">>}

Sub == INSTANCE SubTasks WITH pc <- at
Key == INSTANCE KeyPrompt WITH
         pc <- where, calls <- prompts, MaxCalls <- MaxPrompts

ASSUME Sub!SubTasksAssumption /\ Key!KeyPromptAssumption

OnSandbox == subject = "sandbox"
OnSubTasks == subject = "subtasks"
OnKeys == subject = "keys"

MCInit ==
  /\ Init /\ Sub!Init /\ Key!Init
  /\ subject \in {"sandbox", "subtasks", "keys"}
  /\ ~OnSandbox => lazy
  /\ ~OnSubTasks => tools = {}
  /\ ~OnKeys => messenger = "slack"
MCNext ==
  \/ OnSandbox /\ Next /\ UNCHANGED <<subject, subtasks, keys>>
  \/ OnSubTasks /\ Sub!Next /\ UNCHANGED <<subject, vars, keys>>
  \/ OnKeys /\ Key!Next /\ UNCHANGED <<subject, vars, subtasks>>
MCSpec == MCInit /\ [][MCNext]_all /\ (OnSubTasks => Sub!Fairness)

\* See SubTasks and KeyPrompt.
SubTasksInv == Sub!SubTasksInv
PromptInv == Key!PromptInv
NodeEnds == OnSubTasks => Sub!NodeEnds
=============================================================================
