----------------------------- MODULE MCAgentLoop -----------------------------
(***************************************************************************)
(* Instances of AgentLoop for TLC.                                         *)
(***************************************************************************)
EXTENDS AgentLoop

\* read and list are parallel-safe reads, write is not idempotent, send has a
\* side effect.
Resources == [read |-> "file", list |-> "none", write |-> "file", send |-> "candidate"]

LoopBatches == {<<"read">>, <<"write", "write">>, <<"read", "list", "send">>, <<"send", "write">>}
=============================================================================
