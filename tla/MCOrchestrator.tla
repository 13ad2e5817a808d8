---------------------------- MODULE MCOrchestrator ----------------------------
(***************************************************************************)
(* TLC instance of Orchestrator: two subtasks, one retry, one failed call, *)
(* one death of a container and one intervention of a person.              *)
(***************************************************************************)
EXTENDS Orchestrator, TLC

CONSTANTS research, code

MCSubtasks == {research, code}
=============================================================================
