---------------------------- MODULE MCAgentMemory ----------------------------
(***************************************************************************)
(* Instances of AgentMemory for TLC.                                       *)
(***************************************************************************)
EXTENDS AgentMemory

\* Two runs of one agent, then one of another.
TwoAndOne == [r \in Runs |-> IF r = 3 THEN "evaluator" ELSE "profile"]
=============================================================================
