---------------------------- MODULE MCToolExecutor ----------------------------
(***************************************************************************)
(* Instances of ToolExecutor for TLC: a catalogue with one tool of each    *)
(* kind the executor tells apart.                                          *)
(***************************************************************************)
EXTENDS ToolExecutor

\* list and read are parallel-safe reads, peek and read touch one file; write is
\* neither idempotent nor parallel-safe; send has a side effect; purge too, but
\* the agent may not use it; ghost is not registered.
Resources ==
    [list |-> "none", read |-> "file", peek |-> "file", write |-> "file",
     send |-> "candidate", purge |-> "none", ghost |-> "none"]

AllBatches ==
    {<<"list", "read", "peek", "write">>, <<"read", "ghost", "read">>, <<"send", "list", "send">>,
     <<"list", "send">>, <<"purge", "write">>, <<"read", "list", "peek">>}

TwoSenders == [send |-> "candidate", notify |-> "none", list |-> "none"]
SenderBatches == {<<"send", "notify">>, <<"list", "send">>}
=============================================================================
