----------------------------- MODULE ToolExecutor -----------------------------
(***************************************************************************)
(* The tool executor (tools/registry.py) during one agent step: batches of *)
(* calls governed by a run's records, parallel groups of calls in flight   *)
(* together, and the durable records of side effects that outlive a run,   *)
(* a failed attempt and a restart.                                         *)
(*                                                                         *)
(* A call's code between two awaits is atomic; handlers, which await, may  *)
(* finish in any order.  A key is a ToolInvocationKey; its resource        *)
(* version does not change (no resource_version_resolver is installed).    *)
(***************************************************************************)
EXTENDS Naturals, Sequences, FiniteSets

CONSTANTS
    Keys,                \* logical invocation identities a model may ask for
    Registered,          \* those of registered tools
    Visible,             \* those of tools authorized for the agent
    SideEffects,         \* ToolSpec.side_effect
    Idempotent,          \* ToolSpec.idempotent
    ParallelSafe,        \* ToolSpec.parallel_safe
    Resource,            \* resource_key of each, or NoResource
    NoResource,
    ParallelMode,        \* concurrency_mode is PARALLEL_SAFE
    MaxDuplicateCalls,   \* ToolGovernanceState.max_duplicate_calls
    Batches,             \* tool calls of one assistant message
    MaxRounds,           \* messages of one run
    MaxRuns              \* bound: runs of the step, retries and restarts

ASSUME ExecutorAssumption ==
    /\ Registered \subseteq Keys /\ Visible \subseteq Registered
    /\ SideEffects \subseteq Registered
    /\ Idempotent \subseteq Registered /\ ParallelSafe \subseteq Registered
    /\ DOMAIN Resource = Keys
    /\ ParallelMode \in BOOLEAN
    /\ MaxDuplicateCalls \in Nat /\ MaxRounds \in Nat /\ MaxRuns \in Nat \ {0}
    /\ Batches \subseteq Seq(Keys)

VARIABLES
    run,          \* which run of the step
    rounds,       \* round_no
    records,      \* governance.records: status of each invocation in this run
    counts,       \* invocation_count of each record
    rejections,   \* _consecutive_duplicate_rejections
    durable,      \* durable_tool_records of the live blackboard
    saved,        \* durable_tool_records of the checkpoint
    executor,     \* "idle", "running", "raising", "returned" or "ended" (the run)
    batch,        \* the calls
    next,         \* the position execute_batch has reached
    alone,        \* that call waits for the safe group and then runs alone
    group,        \* safe_group, the positions collected for a parallel group
    results,      \* result status of each position
    running,      \* executions in progress
    effects,      \* how often each side effect took place (history variable)
    unseen        \* how often the program had no way to keep knowing of it (history)

governanceVars == <<records, counts, rejections>>
batchVars == <<batch, next, alone, group>>
toolVars == <<run, rounds, governanceVars, durable, saved, executor, batchVars, results,
              running, effects, unseen>>

-----------------------------------------------------------------------------
RecordStatus == {"none", "pending", "success", "error", "retryable"}
ResultStatus == {"none", "success", "error", "retryable", "cache_hit",
                 "durable_recovered", "duplicate_rejected"}
OkStatus == {"success", "cache_hit", "durable_recovered"}
DurableStatus == {"none", "success", "failed"}

Position == 1..Len(batch)
Execution == [run : Nat, pos : Nat, key : Keys, pc : {"start", "handler"}]

ToolTypeOK ==
    /\ run \in 1..MaxRuns
    /\ rounds \in 0..MaxRounds
    /\ records \in [Keys -> RecordStatus]
    /\ counts \in [Keys -> Nat]
    /\ rejections \in Nat
    /\ durable \in [SideEffects -> DurableStatus]
    /\ saved \in [SideEffects -> DurableStatus]
    /\ executor \in {"idle", "running", "raising", "returned", "ended"}
    /\ batch \in Batches \cup {<< >>}
    /\ next \in 1..Len(batch) + 1
    /\ alone \in BOOLEAN
    /\ group \in SUBSET Position
    /\ results \in [Position -> ResultStatus]
    /\ running \in SUBSET Execution
    /\ effects \in [SideEffects -> Nat]
    /\ unseen \in [SideEffects -> Nat]

NewRecords == [k \in Keys |-> "none"]
NewCounts == [k \in Keys |-> 0]
NoRecords == [k \in SideEffects |-> "none"]

ToolInit ==
    /\ run = 1 /\ rounds = 0
    /\ records = NewRecords /\ counts = NewCounts /\ rejections = 0
    /\ durable = NoRecords /\ saved = NoRecords
    /\ executor = "idle"
    /\ batch = << >> /\ next = 1 /\ alone = FALSE /\ group = {} /\ results = << >>
    /\ running = {}
    /\ effects = [k \in SideEffects |-> 0]
    /\ unseen = [k \in SideEffects |-> 0]

-----------------------------------------------------------------------------
(* execute_batch *)

StartBatch(calls) ==
    /\ executor \in {"idle", "returned"} /\ rounds < MaxRounds
    /\ rounds' = rounds + 1
    /\ executor' = "running"
    /\ batch' = calls /\ next' = 1 /\ alone' = FALSE /\ group' = {}
    /\ results' = [i \in 1..Len(calls) |-> "none"]
    /\ UNCHANGED <<run, governanceVars, durable, saved, running, effects, unseen>>

Current == {e \in running : e.run = run}
Turn == executor = "running" /\ Current = {}

Reached(key) == Turn /\ next <= Len(batch) /\ batch[next] = key

Launch(positions) ==
    running' = running \cup
        {[run |-> run, pos |-> i, key |-> batch[i], pc |-> "start"] : i \in positions}

\* resolve() fails: execute() is called at once, without governance, and answers
\* with an error; the safe group keeps waiting.
CallUnknown ==
    /\ \E k \in Keys \ Registered : Reached(k)
    /\ results' = [results EXCEPT ![next] = "error"]
    /\ next' = next + 1
    /\ UNCHANGED <<run, rounds, governanceVars, durable, saved, executor, batch, alone,
                   group, running, effects, unseen>>

Seen == {batch[i] : i \in 1..next - 1}
DuplicateInBatch(k) == ParallelMode /\ k \in Seen

RejectInBatch ==
    /\ \E k \in Registered : Reached(k) /\ DuplicateInBatch(k)
    /\ results' = [results EXCEPT ![next] = "duplicate_rejected"]
    /\ next' = next + 1
    /\ UNCHANGED <<run, rounds, governanceVars, durable, saved, executor, batch, alone,
                   group, running, effects, unseen>>

\* Mutant: only the member added last is compared.
ConflictsWithLast(k) ==
    group # {} /\ Resource[k] # NoResource /\
    \E i \in group : (\A j \in group : j <= i) /\ Resource[batch[i]] = Resource[k]

ResourceConflict(k) ==
    Resource[k] # NoResource /\ \E i \in group : Resource[batch[i]] = Resource[k]

Groupable(k) == ParallelMode /\ k \in ParallelSafe /\ ~ResourceConflict(k) /\ ~alone

JoinGroup ==
    /\ \E k \in Registered : Reached(k) /\ ~DuplicateInBatch(k) /\ Groupable(k)
    /\ group' = group \cup {next}
    /\ next' = next + 1
    /\ UNCHANGED <<run, rounds, governanceVars, durable, saved, executor, batch, alone,
                   results, running, effects, unseen>>

\* Mutant: the group left at the end of the batch is not flushed.
FlushGroupBeforeAlone ==
    /\ Turn /\ group # {}
    /\ \E k \in Registered : Reached(k) /\ ~DuplicateInBatch(k) /\ ~Groupable(k)
    /\ alone' = TRUE
    /\ Launch(group)
    /\ group' = {}
    /\ UNCHANGED <<run, rounds, governanceVars, durable, saved, executor, batch, next,
                   results, effects, unseen>>

\* A call that must run alone first waits for the group collected before it.
FlushGroup ==
    /\ Turn /\ group # {}
    /\ \/ \E k \in Registered :
             Reached(k) /\ ~DuplicateInBatch(k) /\ ~Groupable(k) /\ alone' = TRUE
       \/ next > Len(batch) /\ UNCHANGED alone
    /\ Launch(group)
    /\ group' = {}
    /\ UNCHANGED <<run, rounds, governanceVars, durable, saved, executor, batch, next,
                   results, effects, unseen>>

RunAlone ==
    /\ \E k \in Registered : Reached(k) /\ ~DuplicateInBatch(k) /\ ~Groupable(k)
    /\ group = {}
    /\ Launch({next})
    /\ next' = next + 1
    /\ alone' = FALSE
    /\ UNCHANGED <<run, rounds, governanceVars, durable, saved, executor, batch, group,
                   results, effects, unseen>>

\* Mutant: the last group is not flushed.
ReturnUnflushed ==
    /\ Turn /\ next > Len(batch)
    /\ executor' = "returned"
    /\ UNCHANGED <<run, rounds, governanceVars, durable, saved, batchVars, results, running,
                   effects, unseen>>

ReturnBatch ==
    /\ Turn /\ next > Len(batch) /\ group = {}
    /\ executor' = "returned"
    /\ UNCHANGED <<run, rounds, governanceVars, durable, saved, batchVars, results, running,
                   effects, unseen>>

-----------------------------------------------------------------------------
(* execute: the decision, taken before the first await *)

\* A group's coroutines start in the order they were collected.
Starting(e) ==
    /\ e \in running /\ e.pc = "start"
    /\ \A f \in running : f.run = e.run /\ f.pos < e.pos => f.pc # "start"

\* Mutants: the durable records are not consulted; an answered invocation may run
\* again.
NotRecovered(k) == FALSE
RetryAnything(k) == records[k] # "pending"

Recovered(k) == k \in SideEffects /\ durable[k] = "success"

Retry(k) == records[k] \in {"none", "retryable"}

Governed(e) == Starting(e) /\ e.run = run

Answer(e, status) ==
    /\ running' = running \ {e}
    /\ results' = [results EXCEPT ![e.pos] = status]
    /\ UNCHANGED <<run, rounds, durable, saved, executor, batchVars, effects, unseen>>

Recover ==
    \E e \in running :
        /\ Governed(e) /\ Recovered(e.key)
        /\ records' = [records EXCEPT ![e.key] = "success"]
        /\ counts' = [counts EXCEPT ![e.key] = 1]
        /\ Answer(e, "durable_recovered")
        /\ UNCHANGED rejections

Repeat(k) == counts' = [counts EXCEPT ![k] = @ + 1]

Cachable(k) ==
    /\ records[k] = "success"
    /\ k \in Idempotent \ SideEffects
    /\ counts[k] + 1 <= MaxDuplicateCalls + 1

HitCache ==
    \E e \in running :
        /\ Governed(e) /\ ~Recovered(e.key) /\ Cachable(e.key)
        /\ Repeat(e.key) /\ rejections' = 0
        /\ Answer(e, "cache_hit")
        /\ UNCHANGED records

RejectDuplicate ==
    \E e \in running :
        /\ Governed(e) /\ ~Recovered(e.key) /\ ~Cachable(e.key) /\ ~Retry(e.key)
        /\ Repeat(e.key) /\ rejections' = rejections + 1
        /\ Answer(e, "duplicate_rejected")
        /\ UNCHANGED records

CallHandler ==
    \E e \in running :
        /\ Governed(e) /\ ~Recovered(e.key) /\ ~Cachable(e.key) /\ Retry(e.key)
        /\ records' = [records EXCEPT ![e.key] = IF @ = "none" THEN "pending" ELSE @]
        /\ Repeat(e.key)
        /\ rejections' = IF records[e.key] = "none" THEN rejections ELSE 0
        /\ running' = (running \ {e}) \cup {[e EXCEPT !.pc = "handler"]}
    /\ UNCHANGED <<run, rounds, durable, saved, executor, batchVars, results, effects, unseen>>

-----------------------------------------------------------------------------
(* execute: what it does when the handler is over *)

\* Outcomes of a call; effect: did the side effect take place?  A handler that
\* raised or was cancelled by its timeout may have got as far.
Outcomes(k) ==
    IF k \in Visible
    THEN {[status |-> "success", effect |-> TRUE]} \cup
         [status : {"error", "retryable"}, effect : BOOLEAN]
    ELSE {[status |-> "error", effect |-> FALSE]}

Durable(k, status) ==
    IF k \in SideEffects
    THEN [durable EXCEPT ![k] = IF status = "success" THEN "success" ELSE "failed"]
    ELSE durable

Count(k, tally, happened) ==
    IF k \in SideEffects /\ happened THEN [tally EXCEPT ![k] = @ + 1] ELSE tally

Finish(e, outcome) ==
    /\ e \in running /\ e.pc = "handler"
    /\ outcome \in Outcomes(e.key)
    /\ running' = running \ {e}
    /\ IF e.run = run
       THEN /\ records' = [records EXCEPT ![e.key] = outcome.status]
            /\ rejections' = 0
       ELSE UNCHANGED <<records, rejections>>
    /\ durable' = Durable(e.key, outcome.status)
    /\ effects' = Count(e.key, effects, outcome.effect)
    /\ unseen' = Count(e.key, unseen, outcome.effect /\ outcome.status # "success")
    /\ UNCHANGED <<run, rounds, counts, batchVars>>

\* Mutant: a record that could not be saved does not stop the loop.
SettleUnsaved ==
    \E e \in running : \E outcome \in Outcomes(e.key) :
        /\ Finish(e, outcome)
        /\ results' = IF e.run = run /\ executor = "running"
                      THEN [results EXCEPT ![e.pos] = outcome.status] ELSE results
        /\ UNCHANGED <<saved, executor>>

\* The result is returned after the durable record, if there is one, was saved:
\* checkpoint_store.save writes the whole blackboard.
Settle ==
    \E e \in running : \E outcome \in Outcomes(e.key) :
        /\ Finish(e, outcome)
        /\ saved' = IF e.key \in SideEffects THEN durable' ELSE saved
        /\ results' = IF e.run = run /\ executor = "running"
                      THEN [results EXCEPT ![e.pos] = outcome.status] ELSE results
        /\ UNCHANGED executor

\* The save failed: ToolDurabilityError ends the batch that waits for it, but not the
\* siblings of a parallel group, and the record stays on the live blackboard.
SaveFails ==
    \E e \in running : \E outcome \in Outcomes(e.key) :
        /\ e.key \in SideEffects
        /\ Finish(e, outcome)
        /\ executor' = IF e.run = run /\ executor = "running" THEN "raising" ELSE executor
        /\ UNCHANGED <<saved, results>>

-----------------------------------------------------------------------------
(* Runs of the step *)

EndRun ==
    /\ \/ executor \in {"idle", "returned"}
       \/ executor = "raising" /\ \A e \in running : e.pc = "handler"
    /\ executor' = "ended"
    /\ UNCHANGED <<run, rounds, governanceVars, durable, saved, batchVars, results, running,
                   effects, unseen>>

\* What interrupted handlers may have done by then, as a set of executions.
Interrupted(executions, done) ==
    /\ done \subseteq {e \in executions : e.pc = "handler" /\ e.key \in SideEffects \cap Visible}
    /\ effects' = [k \in SideEffects |-> effects[k] + Cardinality({e \in done : e.key = k})]

\* TaskExecutor's timeout cancels the run and everything it waits for.
CancelRun ==
    /\ executor = "running"
    /\ \E done \in SUBSET Current :
          /\ Interrupted(Current, done)
          /\ unseen' = [k \in SideEffects |->
                           unseen[k] + Cardinality({e \in done : e.key = k})]
    /\ running' = running \ Current
    /\ executor' = "ended"
    /\ UNCHANGED <<run, rounds, governanceVars, durable, saved, batchVars, results>>

\* The process dies and a later one loads the checkpoint: the side effects of the
\* handlers it interrupts, and of the records it had not saved, are forgotten.
Crash ==
    /\ executor # "ended" \/ durable # saved
    /\ \E done \in SUBSET running :
          /\ Interrupted(running, done)
          /\ unseen' = [k \in SideEffects |->
                unseen[k] + Cardinality({e \in done : e.key = k})
                + (IF durable[k] = "success" /\ saved[k] # "success" THEN 1 ELSE 0)]
    /\ running' = {}
    /\ durable' = saved
    /\ executor' = "ended"
    /\ UNCHANGED <<run, rounds, governanceVars, saved, batchVars, results>>

\* The next attempt at the step: governance is local to a run.
StartRun ==
    /\ executor = "ended" /\ run < MaxRuns
    /\ run' = run + 1 /\ rounds' = 0
    /\ records' = NewRecords /\ counts' = NewCounts /\ rejections' = 0
    /\ executor' = "idle"
    /\ batch' = << >> /\ next' = 1 /\ alone' = FALSE /\ group' = {} /\ results' = << >>
    /\ UNCHANGED <<durable, saved, running, effects, unseen>>

BatchStep ==
    \/ CallUnknown \/ RejectInBatch \/ JoinGroup \/ FlushGroup \/ RunAlone \/ ReturnBatch

ExecutionStep ==
    \/ Recover \/ HitCache \/ RejectDuplicate \/ CallHandler \/ Settle \/ SaveFails

RunChange == EndRun \/ CancelRun \/ Crash \/ StartRun

ToolNext ==
    \/ \E calls \in Batches : StartBatch(calls)
    \/ BatchStep \/ ExecutionStep \/ RunChange

ToolSpec == ToolInit /\ [][ToolNext]_toolVars

-----------------------------------------------------------------------------
(* Properties *)

\* A side effect takes place once, over all attempts and restarts of the step, and
\* once more for each time the program could not know that it had: a failure or a
\* cancellation that came too late, a crash before the record was saved.
EffectsAccounted == \A k \in SideEffects : effects[k] <= 1 + unseen[k]

\* README.md, Tool Invocation Governance: when the loop goes on, every side effect
\* the batch reports as done is in the checkpoint, or was recovered from a record.
RecordedBeforeContinue ==
    executor = "returned" =>
        \A i \in Position : batch[i] \in SideEffects =>
            /\ results[i] = "success" => saved[batch[i]] = "success"
            /\ results[i] = "durable_recovered" => durable[batch[i]] = "success"

\* Every call of a returned batch is answered, and answered truthfully: with a good
\* result only if its invocation succeeded in this run or in a recorded one.
AnswersTruthful ==
    executor = "returned" =>
        \A i \in Position :
            /\ results[i] # "none"
            /\ results[i] \in OkStatus => records[batch[i]] = "success"

\* The calls in flight together never share a resource, however the batch was cut
\* into groups.
ResourcesSerialized ==
    \A e, f \in Current :
        e # f => Resource[e.key] = NoResource \/ Resource[e.key] # Resource[f.key]

\* In one run an invocation that succeeded or failed for good is never executed again.
VerdictsFinal ==
    [][run' = run =>
          \A k \in Keys :
             records[k] \in {"success", "error"} => records'[k] = records[k]]_toolVars

\* README.md, Tool Invocation Governance: side-effect calls stay serialized.
SideEffectsSerialized ==
    \A e, f \in Current :
        e # f /\ e.pc = "handler" /\ f.pc = "handler" => e.key \notin SideEffects
=============================================================================
