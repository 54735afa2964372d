----------------------------- MODULE AgentMemory -----------------------------
(***************************************************************************)
(* The interaction memory of the specialist agents (memory/) and what      *)
(* AgentLoop.run makes of it: the context a run starts from is built out   *)
(* of its scope's history and the blackboard's facts, trimmed to the       *)
(* budget, and followed by the messages of the task; every message of the  *)
(* run is written back to the history as it appears.                       *)
(*                                                                         *)
(* A message is its author, its run and its length; contents are left out. *)
(* Runs of different agents overlap, and so do runs of one agent when two  *)
(* callers step the same session.                                          *)
(***************************************************************************)
EXTENDS Integers, Sequences, FiniteSets, SequencesExt

CONSTANTS
    Runs,              \* runs of agent loops, in this session
    Agents,
    AgentOf,           \* AgentOf[r]: the agent that run r belongs to
    Sizes,             \* lengths a message may have; 0: no text, tool calls only
    WithHistory,       \* include_interaction_memory
    SnapshotSize,      \* length of the domain snapshot, 0: none (include_domain_snapshot)
    MaxRecent,         \* max_recent_messages
    MaxSummarized,     \* max_summary_messages
    SummarySize,       \* length of a summary
    MaxChars,          \* context_budget_tokens * 4
    MaxMessages        \* bound: messages a run may produce

ASSUME MemoryAssumption ==
    /\ AgentOf \in [Runs -> Agents]
    /\ Sizes \subseteq Nat
    /\ WithHistory \in BOOLEAN
    /\ SnapshotSize \in Nat /\ SummarySize \in Nat /\ MaxChars \in Nat
    /\ MaxRecent \in Nat \ {0} /\ MaxSummarized \in Nat \ {0}
    /\ MaxMessages \in Nat

VARIABLES
    items,          \* InMemorySessionMemory._items, by scope
    conversation,   \* the messages of each run, first to last
    start,          \* how many of them it was started with (history variable)
    state           \* "new", "running" or "stopped"

vars == <<items, conversation, start, state>>

-----------------------------------------------------------------------------
Message == [from : Agents, run : Runs, size : Sizes]

\* What a summary or a snapshot stands for, in a context.
Summary(messages) == [summary |-> messages, size |-> SummarySize]
Snapshot == [snapshot |-> TRUE, size |-> SnapshotSize]

IsSummary(m) == "summary" \in DOMAIN m
IsMessage(m) == "run" \in DOMAIN m

\* Mutant: one history for the session.
MemoryKeyOfSession(r) == CHOOSE a \in Agents : TRUE

\* MemoryScope.key(): a history for each agent of a session.
MemoryKey(r) == AgentOf[r]

-----------------------------------------------------------------------------
(* MemoryContextBuilder.build *)

LastN(s, n) == SubSeq(s, (IF Len(s) > n THEN Len(s) - n ELSE 0) + 1, Len(s))

Recent(history) == LastN(history, MaxRecent)
Older(history) == SubSeq(history, 1, Len(history) - Len(Recent(history)))

Summarized(history) ==
    IF Older(history) = << >> THEN << >>
    ELSE <<Summary(LastN(Older(history), MaxSummarized))>>

HistoryMessages(history) ==
    IF WithHistory THEN Summarized(history) \o Recent(history) ELSE << >>

DomainMessages == IF SnapshotSize > 0 THEN <<Snapshot>> ELSE << >>

TotalSize(messages) == FoldLeft(LAMBDA n, m : n + m.size, 0, messages)

-----------------------------------------------------------------------------
(* MemoryContext.to_messages *)

\* Mutant: the newest message is weighed like any other.
FitsStrictly(m, kept) == TotalSize(kept) + SnapshotSize + m.size <= MaxChars

\* Mutant: the domain snapshot is not counted.
FitsWithoutSnapshot(m, kept) == kept = << >> \/ TotalSize(kept) + m.size <= MaxChars

\* The newest message is kept whatever its length.
Fits(m, kept) == kept = << >> \/ SnapshotSize + TotalSize(kept) + m.size <= MaxChars

\* From the newest to the oldest; one that does not fit is skipped, not the end.
Trimmed(messages) ==
    FoldRight(LAMBDA m, kept : IF Fits(m, kept) THEN <<m>> \o kept ELSE kept, messages, << >>)

Context(history) == DomainMessages \o Trimmed(HistoryMessages(history))

-----------------------------------------------------------------------------
Init ==
    /\ items = [a \in Agents |-> << >>]
    /\ conversation = [r \in Runs |-> << >>]
    /\ start = [r \in Runs |-> 0]
    /\ state = [r \in Runs |-> "new"]

\* AgentLoop.run up to its first request: the context, then the task.
Start(r, size) ==
    LET task == [from |-> AgentOf[r], run |-> r, size |-> size]
        context == Append(Context(items[MemoryKey(r)]), task)
    IN  /\ state[r] = "new"
        /\ conversation' = [conversation EXCEPT ![r] = context]
        /\ start' = [start EXCEPT ![r] = Len(context)]
        /\ items' = [items EXCEPT ![MemoryKey(r)] = Append(@, task)]
        /\ state' = [state EXCEPT ![r] = "running"]

\* An assistant or a tool message of the run.
Produce(r, size) ==
    LET message == [from |-> AgentOf[r], run |-> r, size |-> size]
    IN  /\ state[r] = "running" /\ Len(conversation[r]) < start[r] + MaxMessages
        /\ conversation' = [conversation EXCEPT ![r] = Append(@, message)]
        /\ items' = [items EXCEPT ![MemoryKey(r)] = Append(@, message)]
        /\ UNCHANGED <<start, state>>

\* The loop stops, for whatever reason, or its attempt is given up.
Stop(r) ==
    /\ state[r] = "running"
    /\ state' = [state EXCEPT ![r] = "stopped"]
    /\ UNCHANGED <<items, conversation, start>>

Next == \E r \in Runs : \/ Stop(r)
                        \/ \E size \in Sizes : Start(r, size) \/ Produce(r, size)

Spec == Init /\ [][Next]_vars

-----------------------------------------------------------------------------
(* Properties *)

ContextItem == Message \cup [snapshot : {TRUE}, size : {SnapshotSize}]
                       \cup [summary : Seq(Message), size : {SummarySize}]

MemoryTypeOK ==
    /\ items \in [Agents -> Seq(Message)]
    /\ conversation \in [Runs -> Seq(ContextItem)]
    /\ start \in [Runs -> Nat]
    /\ state \in [Runs -> {"new", "running", "stopped"}]

\* What a run has of the history, summaries included.
Known(r) ==
    LET context == {conversation[r][i] : i \in DOMAIN conversation[r]}
    IN  {m \in context : IsMessage(m)}
        \cup UNION {{m.summary[i] : i \in DOMAIN m.summary} : m \in {n \in context : IsSummary(n)}}

\* The context of a run stays inside the budget, unless the newest message of its
\* history alone exceeds it; and yet it begins with the domain snapshot, and the
\* run's own messages, from its task on, follow it untrimmed.
ContextSound ==
    \A r \in Runs : state[r] # "new" =>
        LET before == SubSeq(conversation[r], 1, start[r] - 1)
            history == SubSeq(before, Len(DomainMessages) + 1, Len(before))
        IN  /\ Len(history) <= 1 \/ TotalSize(before) <= MaxChars
            /\ IsPrefix(DomainMessages, before)
            /\ \A i \in start[r]..Len(conversation[r]) :
                  IsMessage(conversation[r][i]) /\ conversation[r][i].run = r

\* The messages of run r in a history.
OfRun(messages, r) ==
    FoldLeft(LAMBDA own, m : IF m.run = r THEN Append(own, m) ELSE own, << >>, messages)

\* The history of an agent has each message of each of its runs, in the order the
\* run had them, although runs that overlap mix theirs; and no message of another
\* agent reaches a run, directly or through a summary (README.md, "Memory").
HistoryComplete ==
    \A r \in Runs : state[r] # "new" =>
        /\ \A m \in Known(r) : m.from = AgentOf[r]
        /\ OfRun(items[MemoryKey(r)], r) = SubSeq(conversation[r], start[r], Len(conversation[r]))

\* The last message before a run started is part of what it knows.
NewestKept ==
    [][\A r \in Runs : state[r] = "new" /\ state'[r] = "running" /\ WithHistory =>
          LET history == items[MemoryKey(r)]
          IN  history # << >> => history[Len(history)] \in Known(r)']_vars
=============================================================================
