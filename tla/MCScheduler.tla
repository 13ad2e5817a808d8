------------------------------ MODULE MCScheduler ------------------------------
(***************************************************************************)
(* TLC instance of Scheduler: one urgent role and its assistant on one     *)
(* slot.                                                                   *)
(***************************************************************************)
EXTENDS Scheduler, TLC

MCAgentMap == <<"cto-assistant", "cto">>
MCPriority == [r \in {"cto", "cto-assistant"} |-> IF r = "cto" THEN 0 ELSE 2]
=============================================================================
