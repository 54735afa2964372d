# Verification of the interview agent runtime

TLA+ models of the AI interview runtime in `src/src/interview_agent_runtime`
(all paths below are relative to it), their TLC configurations, and theorems
checked by TLAPS.

## 1. Inventory

| component | state it keeps | operations | properties that make it correct |
|---|---|---|---|
| interview plan, planning policy (`domain/models.py`, `planning/policy.py`) | per dimension: question and follow-up budget, questions asked, coverage, completed | `next_dimension`, `mark_question_asked`, `update_after_evaluation`, redistribution, early completion | budget moves, it is never minted; a closed dimension stays closed; asking for the next dimension has no lasting side effect |
| blackboard (`blackboard/board.py`) | the session: stage, plan, current question, the logs of questions, answers, evaluations and decisions, budgets, follow-up rounds, review status | `publish` per kind of artifact, budget and round queries, timeout test | logs stay aligned, budgets are conserved, ids are unique |
| state machine and guard (`runtime/state_machine.py`) | none | `transition`, `allow_follow_up`, `allow_next_question` | what it promises (another question, a follow-up) can be kept in the next step |
| interview runtime (`runtime/interview_runtime.py`) and application service (`application/service.py`) | none of its own; loads and saves the blackboard | `start_session`, `run_step`, `receive_answer`, `submit_human_review`, `run_until_waiting_or_done`, resume | one answer per question, ended sessions stay ended, the driver's iteration budget suffices, an interview ends |
| agents (`agents/mock_agents.py`, `agents/base.py`) | none | one `execute` per agent | they only propose; the guard decides |
| question pipeline (`questioning/pipeline.py`) | none | `generate`: select a dimension, pick and validate a bank question, or fall back, or build a follow-up | fresh ids, the dimension the guard promised |
| answer evaluation (`evaluation/`) | none | `evaluate` | scores only the current question's dimension |
| human review (`runtime/review.py`) | none | `evaluate` a report | a thin report never finishes unseen |
| task executor (`runtime/execution_policy.py`) | attempts | `execute` with timeout, retry and fallback | attempts do not build on each other's leftovers |
| tool executor (`tools/registry.py`) | per run: records, cache, duplicate counters; per session: durable side-effect records | `authorize`, `call`, `execute`, `execute_batch` | no side effect twice in a run, recorded before the loop goes on |
| agent loop (`runtime/agent_loop.py`) | rounds, tool and token budgets, transcript | `run` | budgets hold, every tool call is answered, it stops |
| session memory (`memory/`) | messages per session and agent | append, build a context, trim | histories are complete and kept apart, a context fits its budget and keeps what matters |
| checkpoint stores (`checkpoint/stores.py`) | boards, in memory or as JSON files | `save`, `load` | a restart finds the last completed step, and the session it finds is the one that was saved |
| events, observability (`runtime/events.py`, `observability/`) | bound trace contexts, the spans of a session | emit, bind, observe | the spans are a tree and say truthfully how their work ended |
| provider (`providers/llm.py`) | requests handed to a pool of threads | `chat` | an answer reaches the attempt that asked; only its threads and timeouts are modelled |
| harness, skills, prompts, context projection | none, or fixed after start | assembly, parsing, projection | not modelled |

How they interact: a caller of the application service starts a session, then
the driver calls `run_step` until the session has to wait. A step loads the
blackboard, resolves the agent of the stage, lets the task executor run it
(which may call the agent loop and tools), publishes its artifact, asks the
state machine for the next stage and saves. Answers, rulings and resumes are
later calls by the same or other callers; the blackboard is all they share.

What is hard to test: plan updates that act at a distance (redistribution,
hidden writes, early completion), promises kept one step later, the many orders
of crashes, resumes, failures and a timeout, several callers in one session over
a live or a copied board, tool batches running in parallel, restarts between a
side effect and its record, answers to attempts that were given up, nested
deadlines, and what a session loses on its way through a file. `PROJECT.json`
lists each of these hazards at its line.

## 2. Modules

| module | models | composes |
|---|---|---|
| `InterviewPlan` | the plan and its policies as operators on a plan record | - |
| `InterviewFlow` | abstract specification: what an interview promises from outside | - |
| `InterviewSession` | one session and one caller: blackboard, guard, every stage of `run_step`, review, driver, crash, timeout | `InterviewPlan`, `InterviewFlow` (refinement) |
| `SessionConcurrency` | several callers of one session, each step split at its agent's await, over the live board of the in-memory store or the copies of the JSON store, with crashes and abandoned steps | - |
| `AgentAttempts` | one agent invocation: attempts and deadlines of the task executor, the agent's waits for model and tool, the provider's threads | - |
| `ToolExecutor` | `execute` and `execute_batch`, run-local governance, durable records, attempts and restarts of one agent step | - |
| `AgentLoop` | the loop of one agent invocation, as the executor's environment | `ToolExecutor` |
| `AgentMemory` | the histories of the agents and the context a run is started with, for overlapping runs | - |
| `CheckpointFile` | the document of the JSON store and its reconstruction, side by side with the board of the in-memory store | - |
| `TraceRecorder` | events, bound trace contexts and recorded spans of one session, over retries and restarts | - |
| `MCInterviewSession`, `MCSessionConcurrency`, `MCToolExecutor`, `MCAgentLoop`, `MCAgentMemory`, `MCCheckpointFile` | constants and symmetry for TLC | the module of that name |
| `InterviewPlanProofs` | lemmas about the plan operators: types, totals, sums over dimensions, induction over the naturals | `InterviewPlan` |
| `InterviewSessionProofs` | every theorem about a session of one caller, and the refinement of `InterviewFlow` | `InterviewSession`, `InterviewPlanProofs` |
| `SessionConcurrencyProofs` | what several callers can and cannot do to a session | `SessionConcurrency` |
| `AgentAttemptsProofs` | the time and the draft of a step | `AgentAttempts` |
| `AgentLoopProofs` | the executor on its own, then the loop as its environment | `AgentLoop` (and so `ToolExecutor`) |
| `TraceRecorderProofs` | the tree of spans and their status | `TraceRecorder` |
| `CheckpointFileProofs` | every call commutes with going through the file | `CheckpointFile` |
| `AgentMemoryProofs` | what the memory's folds compute, and what reaches a run | `AgentMemory` |

## 3. How the models correspond to the code

### The interview

State. Each variable of `InterviewSession` is a field of `InterviewBlackboard`
(or of the plan and the capability profile it holds), except `expired` (the
clock test of `session_not_timeout`), `late_questions` (history only) and
`driver`/`steps` (the loop variable of `run_until_waiting_or_done`). A question
id is a pair: the ordinal of its main question and the follow-up round, which is
what the pipeline's id format encodes. Texts, evidence contents and the skill
lists of the profile are left out; scores and coverage are integer percentages.

Actions. `run_step` is one action per stage and outcome:

| action | code |
|---|---|
| `Begin`, `PublishProfile`, `PublishPlan`, `AskQuestion` | the stages up to the first question, and presenting a question |
| `PublishMainQuestion`, `PublishFollowUp` | the question pipeline and `publish(QuestionArtifact)`, with the hidden plan writes of `next_dimension` |
| `PublishEvaluation` | evaluator, `update_dimension`, the planning policy with redistribution and early completion, publish |
| `DecideFollowUp`, `DecideNextQuestion`, `DecideReport` | the follow-up agent, the state machine's transition and its guard |
| `PublishReport` | the report and the human review policy |
| `AgentFails` | the executor gave up; the stage becomes FAILED and the board is saved |
| `SubmitAnswer`, `SubmitHumanReview`, `ResumeInterview` | the callers |
| `DriverReturns`, `StepBudgetExhausted` | the two ways out of the driver loop |
| `Crash`, `TimeOut` | the environment |

What an agent proposes is a nondeterministic choice over what its code can put
into the artifact: any subset of the dimensions as the plan's, any of them as
core, any score, amount of evidence, missing points, confidence and follow-up
target. A transition that publishes, refreshes the plan and moves the stage is
one action, because the code does not save in between.

Assumptions. The dimensions of a plan have distinct names. The code looks a
dimension up by its name and takes the first (`domain/models.py:91`, `104`), and
the planner (`agents/mock_agents.py:238-263`) does not check the names it gets
from the job description or a model. With two of one name, the first is charged
for the questions of the second and exceeds its `question_budget`, and
`next_dimension` closes the second without handing its questions on:
`DimensionBudgetsCovered`, `PlanTracksCoverage` and their theorems
`PlanBudgetsCovered` and `PlanUpToDate` say nothing about such a plan. A step is
atomic for its single caller; `SessionConcurrency` drops that. The configuration is consistent (skills exist, schemas match), so the
errors that raise before the board changes are not modelled. `Crash` keeps the
last saved board, which is what the JSON checkpoint store gives.

### Several callers

`SessionConcurrency` splits `run_step` in three: `BeginStep` loads the board and
builds the agent's context, `AgentReturns` is the end of the only await that
gives way to other callers (`executor.execute`), `FinishStep` publishes, moves
the stage and saves. `previous` is the local variable of that name, `board` the
copy a step holds over the JSON store, `artifact` what it works on or will
publish. `PassThrough`, `ReceiveAnswer` and `SubmitHumanReview` load and save
without an await. `FailStep` is a step whose attempts all failed, `AbandonStep` a
cancelled request, `PersistRecord` the save in the middle of a step that writes
the whole board with a durable record. `stale` is history: somebody saved since
the step loaded.

`live_board` chooses the store: with the in-memory store every step reads and
writes the one live board (`Held`), with the JSON store its copy. What
`InterviewSession` already models in full - plan, scores, review policy - is a
free choice here; `NEXT_DIMENSION` stands with `NEXT_QUESTION`. The question
pipeline reads the board twice, when it starts and when its search has answered,
and on a live board the stage may have changed in between (`Returned`).

Not modelled: `start_session` over an id in use, a crash of the in-memory store
(the session is gone), the hidden `current_dimension` write that an abandoned
step leaves on a live board, and a process that dies inside `write_text`: the
file is then unreadable and no code handles it, so there is nothing to interleave.

### The attempts

`AgentAttempts` follows one `TaskExecutor.execute`. `kind` says what the agent
waits for: a tool (the question agent), a model (the evaluator and the follow-up
agent, which turn any failure of the model into a fallback of their own), or the
loop (the profile agent; only its first request is followed). Executor, provider
and socket get the same timeout; the executor's is armed first. `request[a]` is
the provider call of attempt a: cancelling an attempt removes a queued request
and leaves a sent one in its thread (`asyncio.to_thread`), where its answer or
`SocketTimeout` still comes. The timeout of `urlopen` bounds one socket operation,
not the request: `BytesArrive` starts it again, so a server that trickles its
answer can hold a thread for as long as it likes. No policy in the source has a fallback function, so
`execute` ends with the artifact or a failure.

### The tools

`ToolExecutor` models one agent step: its attempts (`run`), the rounds of an
attempt, one batch of calls at a time. A *key* is a `ToolInvocationKey`; the
catalogue (what is registered, visible, parallel-safe, idempotent, has a side
effect, and on which resource) is given by constants. `execute_batch` walks the
calls with `next`; `group` is `safe_group`; `alone` says that the current call
waits for the group to be flushed before it runs by itself. An execution is in
`start` until its governance decision, which the code takes before its first
await (`Recover`, `HitCache`, `RejectDuplicate`, `CallHandler`), and then in
`handler` until it finishes with any outcome (`Settle`), in any order among its
siblings. `SaveFails` is the `ToolDurabilityError` path: the record stays on the
live blackboard, the batch raises, siblings go on as orphans of a finished run.
`CancelRun` is the attempt's timeout; `Crash` goes back to the checkpoint.
`effects` and `unseen` are history variables: how often a side effect took
place, and how often the program had no chance to know (a handler that failed or
was cancelled after its effect, a crash before the save).

`AgentLoop` adds the loop: its budgets, its stop reasons and `owed`, the tool
calls of the last message that have no tool message in memory. It starts a batch
through the same `StartBatch` and waits for the same executor steps, so each
interleaving of handlers is one of the loop too.

Assumptions. No resource version resolver is installed anywhere in the source,
so a key does not change within a step. The durable records outlive a process
only with the JSON store. Everything between two awaits is atomic (asyncio).

### Memory

`AgentMemory` has one history per agent (`MemoryScope.key`), the list of messages
of each run, and the operators of `MemoryContextBuilder.build` and
`MemoryContext.to_messages` (`Recent`, `Summarized`, `Trimmed`, `Context`). A
message is its author, its run and its length. Only the profile agent uses a
loop, and it leaves history and snapshot out of its context; the default of
`AgentRunRequest` has both, and the instance has them too. `clear` is never
called, and no compressor is installed, so neither is an action.

### Checkpoints

`CheckpointFile` makes every call on two boards: `live`, which the in-memory store
hands from call to call, and `file`, which the JSON store encodes after a call
(`Encode`: `_to_json`) and rebuilds before the next (`Decode`:
`_blackboard_from_json` and the constructors of `artifacts/models.py`, which
draw ids and fill in defaults). The board has the fields that do not come back
as they were and those that a constructor sets and the code then copies back:
grant, deadline, sets and counters; the candidate's projects, which are rebuilt
as `ProjectExperience` objects (`stores.py:165`); the plan artifact's confidence,
which is not passed on (`stores.py:191`), beside the candidate's, which is;
questions, answers, evaluations, evidence and decisions with their ids; durable
records and the report. Fields that come back as they were are left out: the
texts, the position profile, the dimensions and budgets of the plan, the
capability profile, the confidence of the other artifacts, the review fields.
`education`, rebuilt in the same way as the projects, is never filled in `src`.

A candidate's projects are nothing, plain objects with the fields of a
`ProjectExperience` (`dict`), the dataclass (`object`), or something else
(`other`), since `agents/mock_agents.py:159` copies what the resume lists. Where
they are something else, `Readable` is false and every call that would load the
file raises; the session is stuck. Both boards make the same calls, so the model
stops there for both. The stage QUESTIONING is merged into LISTENING and the
review stage is left out; texts, titles and lists of points have two values each.
Session inputs and resumes are taken as JSON values; those that no JSON encoder
accepts make the save fail: `SaveFails` of `ToolExecutor`.

### Traces

`TraceRecorder` has one action per emitted event or group of events without an
await between them. `bound` is the context the bus adds to an event that has
none, `Observe` is `TraceObserver.on_event`, and the span ids say whose span it
is. The agent loop's events carry contexts of their own. `RefuseAnswer` is an
answer offered while nobody listens: it rebinds the session's context before it
raises. Assumed: the JSON trace store, one step at a time. A trace store that
fails and the sanitizer (a pure filter) are left out. The spans of loops, model
calls and tools that were cancelled with their attempt stay open; no property
denies it. So does the trace of a session that FAILED or was ruled on after a
restart.

## 4. What is checked

| run | instance | properties |
|---|---|---|
| `session_core` | 2 dimensions (the heavier one second), 2 interchangeable targets, scores 50, 70, 80, 90, evidence 0, 1, 3, limit 10, 6 iterations; 1.07M states | `TypeOK`, `LogsFollowQuestions`, `BudgetsConserved`, `QuestionIdsUnique`, `OneLateQuestion`, `ReviewGate`, `StepBudgetSuffices`, `EndIsFinal`, `ImplementsFlow` |
| `session_plan` | 3 dimensions of distinct names, with tied weights, scores 50 and 90, limit 3, 4 iterations; 1.01M states | `QuestionLimit`, `DimensionBudgetsCovered`, `PlanTracksCoverage`, `PromisedQuestionExists`, `CompletedDimensionsClosed` |
| `session_ends` | 1 dimension, fair; 9468 states | `InterviewEnds` |
| `audit_follow_up` | expected violation | `AuditFollowUpRule` |
| `session_concurrent` | 2 callers, both stores, 2 main questions, 1 follow-up, 1 durable record; 4.28M states | `ConcurrencyTypeOK`, `SnapshotsConsistent`, `AnswersAwaited`, `EvaluationsBounded`, `OnlyStaleStepsUndo` |
| `agent_attempts` | 3 kinds of agent, timeout of 3 ticks, 3 attempts, 2 threads, fair; 35311 states | `StepTimeBounded`, `DraftCurrent`, `StepEnds` |
| `tool_batches` | 7 keys, one of each kind (parallel reads with and without a shared file, a non-idempotent write, a side effect, an unauthorized side effect, an unregistered tool), 6 batches, 2 rounds, 2 runs; 0.69M states | `EffectsAccounted`, `RecordedBeforeContinue`, `AnswersTruthful`, `ResourcesSerialized`, `VerdictsFinal` |
| `side_effects_serial` | expected violation | `SideEffectsSerialized` |
| `agent_loop` | parallel executor, 4 keys, budget 6, 3 rounds, 2 runs, fair; 0.31M states | `AgentTypeOK` (with `ToolTypeOK`), `BudgetHolds`, `TranscriptPaired`, `LoopStops` |
| `agent_memory` | 3 overlapping runs of 2 agents, messages of length 0 and 3, budget 3, 2 messages per run; 0.26M states | `ContextSound`, `HistoryComplete`, `NewestKept` |
| `checkpoint_file` | 2 tools, 2 questions, 1 target, 2 scores, timeout 0, clock to 1; 1.34M states | `SameSession`, `LinksResolve` |
| `trace_recorder` | 2 agent runs of 2 attempts, loops of 1 round; 0.71M states | `SpansFormTree`, `StatusTruthful`, `RunSpansClosed` |

Each property is stated in its module with a sentence in plain words. The type
invariants `AttemptsTypeOK`, `MemoryTypeOK`, `CheckpointTypeOK` and
`TraceTypeOK` hold on the same instances; they are not listed in the `.cfg`
files, add them under `INVARIANTS` to check them again. What the runs show, and
what they do not:

- The budgets, ids and logs of a session stay consistent under agent failures,
  crashes, resumes and a timeout at any step, and the whole session implements
  `InterviewFlow`: one answer per question, credit never overspent, a report
  before the end.
- The plan's budget only moves. The number of questions the open dimensions may
  still ask never exceeds `question_budget`, so that counter is never the reason
  an interview ends, and asking for the next dimension in the guard and again in
  question generation gives the same answer.
- The counters that question ids are made from never fall behind the ids in use
  (`QuestionIdsUnique`). Since the follow-up agent proposes no follow-up to a
  follow-up, a counter that missed one would not show as a repeated id; the
  property looks at the counter itself.
- `session_question_limit` can be exceeded by one question, a follow-up to the
  last main question; `QuestionLimit` states exactly that.
- Several callers: the two stores fail differently. With the JSON store work is
  lost, never mixed: the last save wins, and `OnlyStaleStepsUndo` says that the
  save of a step that loaded too early is the only thing that undoes an answer, a
  record or even the end of an interview. With the in-memory store nothing is
  lost, but a late step publishes again and moves the stage back: questions and
  evaluations repeat (`EvaluationsBounded` says how often), while no answer is
  taken for a question that has one. Neither store has a lock or a version.
- A step takes `timeout * (retry + 1)` at most, although three deadlines are
  nested and abandoned requests fill the pool, and never uses an answer to an
  attempt that was given up.
- `EffectsAccounted` is the best-effort guarantee of the README made precise:
  without a lost record a side effect happens once over all attempts. The instance
  has side-effect tools that are not parallel-safe. With side-effect tools that
  are, an orphan of a finished run can repeat the effect of its successor; the
  executor does not exclude such tools (see the second finding).
- A run of the loop may stop in the middle of a conversation (tokens, a repeated
  call, a failed save or encoding); `TranscriptPaired` says that these are the
  only cases that leave calls unanswered.
- Through a file a session loses four things, which `Lossy` names: the report's own
  `role_match_score`, the planner's confidence in its plan (back to 1.0), the
  Python objects that tools returned, and the plain form of the candidate's
  projects. The grant of tools, the deadline, ids, links, counters and sets
  survive, a second round trip loses nothing more, and unreadable projects are the
  only reason why a session that was saved cannot be loaded.
- A run's span may stay open for three reasons only: the process died, the caller
  went away, or another call took the session's trace context (`RunSpansClosed`).

**Findings.** Two places where a document and the code disagree:

1. `docs/architecture_audit.md:198` requires `question_budget > 0` for a
   follow-up; `allow_follow_up` does not test it, and a follow-up to the last main
   question is granted with a budget of 0 (`audit_follow_up`).
2. The repository's `README.md:105-106` says side-effect calls stay serialized;
   `execute_batch` groups by `parallel_safe` alone, so two side-effect tools
   declared parallel-safe run together (`side_effects_serial`).

Further disagreements met while modelling, which have no run of their own:

- `README.md:228` calls a checkpoint a recoverable snapshot;
  `checkpoint/stores.py:59` writes in place, so a process that dies inside the
  write leaves a file that cannot be read.
- `README.md:423-427` says that the file store saves and loads the candidate
  profile. `checkpoint/stores.py:165` rebuilds each project with
  `ProjectExperience(**item)`, and the list comes from the resume unchecked: a
  project that is a text, or has another field (`years`, `title`), is saved, and
  every later load raises `TypeError`. `SameSession` states this case: it is the
  only one in which the two stores part.
- `README.md:303-304` says an agent falls back when the model is silent; the
  executor's deadline (`execution_policy.py:43`) is armed before the provider's and
  has the same length, so a silent model costs the attempt, not the draft.
- The comment at `memory/models.py:135` says old history is trimmed first; the loop
  continues after a message that does not fit, so an older short message can stay
  where a newer long one was dropped (`models.py:141`).
- `README.md:380-381` ties a run's events to its trace; an answer that is refused
  while an agent runs rebinds the context (`interview_runtime.py:120`), and the
  run's last events are emitted in the session's.

**Bounds.** The constants in the `.cfg` files are the only bounds (`MaxSteps`,
`MaxRuns`, `MaxRounds`, `MaxBatch`, `MaxMessages`, `MaxTime`, the sets of scores,
evidence counts, targets, sizes and batches); interviews need none, since budgets
run out.

- Scores lie on both sides of every threshold the code compares with (65, 80, 82);
  evidence 0, 1 and 3 reaches no, some and enough coverage to close a dimension.
  Two dimensions suffice for redistribution, three with tied weights for the order
  of candidates and for a dimension that was closed earlier.
- Six iterations are one more than the longest path between two waits, so running
  out of them would be seen; the four of `session_plan` make the driver give up in
  the middle.
- Two callers are the fewest that interleave, and a late step with a caller that
  keeps the session going reaches every stage; the JSON half passes with three
  callers as well, and its theorems hold for any number.
- Two threads are fewer than the three attempts, so the pool runs full; three ticks
  separate a tool's wait from the model's before it.
- For the tools two runs are the shortest history with a retry or a restart, two
  rounds the shortest with a repeated call across batches, three the shortest with
  a stop on repetition.
- A budget of 3 characters holds one long message, not two; two recent and one
  summarized message make a run drop, summarize and keep.
- Two questions, one of which follows the other, are the shortest history with a
  parent link, a timeout of 0 with a clock to 1 the shortest time in which a
  deadline passes; two runs of two attempts the shortest trace with a retry and a
  restart. Traces with two rounds or batches of two calls and fewer runs pass too.

**Fairness.** `RuntimeFairness`: the driver's loop goes on while its process
lives; a crash may interrupt it any number of times but not forever, hence strong
fairness. `CallersPersist`: somebody answers, rules and resumes; nothing in the
code forces a human to, and `InterviewEnds` says what happens when they do.
`FairAgentSpec`: the model answers or `asyncio.wait_for` raises, and handlers
return; cancellation, crash and restart are never assumed to happen. `FairSpec` of
`AgentAttempts`: time passes, timers that have expired fire and code that can run
runs; neither the model nor a tool has to answer.

## 5. What is proved

The theorems hold for every value of the constants that meets the named
assumption of the module (`PlanAssumption`, `SessionAssumption`,
`ConcurrencyAssumption`, `AttemptsAssumption`, `ExecutorAssumption`,
`LoopAssumption`, `TraceAssumption`, `CheckpointAssumption`, `MemoryAssumption`). These say that
bounds are natural numbers, that what a session counts is finite, and, in
`CheckpointFile`, that JSON's null is none of the arrays, strings and profile
objects of the document. What section 3 assumes of the code's data is built into
the models and so into the theorems too: above all, distinct names of dimensions
for everything about the plan. Two theorems assume more:

- `StepBudget` assumes `MaxSteps >= 6`; the code's default is 20.
- The theorems about side effects assume `SerialSideEffects`: no side-effect tool
  is declared `parallel_safe`. The catalogue in `src` meets it (the one
  parallel-safe tool, `default_tools.py:126`, only reads), the executor does not
  enforce it (second finding), and without it the statements are false: a sibling
  of a call whose save failed goes on beside the next run.

| theorem | states | inductive invariant |
|---|---|---|
| `TypeCorrect` | `[]TypeOK` | `TypeInv`: `TypeOK` and `QuestionPlaced`. A follow-up increments the round of its parent, so the parent must be known to exist |
| `BudgetsKept` | `[](BudgetsConserved /\ BudgetAvailable)` | `BudgetInv`: conservation needs that a promised question is still in budget, otherwise `max(0, ...)` would hide the loss |
| `LogsKept` | `[]LogsFollowQuestions` | `LogInv`: the logs are prefixes of each other, each lags by at most one entry in the stages that owe it, and the current question is the last one |
| `IdsUnique` | `[]QuestionIdsUnique` | `IdInv`: the property, whose second half says that every id in use lies below the counters the next ids are made from, and that the ids are finitely many |
| `EndsAreFinal` | `EndIsFinal` | none: from the guards of every action |
| `ReviewGateHolds` | `[]ReviewGate` | `ReviewGate` with `TypeInv` and `LogInv`: a report follows at least one evaluation because the logs are aligned |
| `StepBudget` | `[]StepBudgetSuffices` | `StepsBounded`: iterations spent plus those still needed are at most five |
| `PlanBudgetsCovered`, `PlanUpToDate` | `[]DimensionBudgetsCovered`, `[]PlanTracksCoverage` | `PlanInv`: both together, and a coverage of zero before there is a plan. What redistribution hands to a dimension, closing another released, so the sum over the dimensions only falls; an evaluation leaves nothing for the hidden writes of `next_dimension` |
| `ClosedStaysClosed` | `CompletedDimensionsClosed` | `PlanInv`: each evaluation and each question, dimension by dimension |
| `PromisesKept` | `[]PromisedQuestionExists` | `PromiseInv`: also that `current_dimension` is the dimension of the current question, which the guard and question generation read separately |
| `LateOnlyOnce` | `[]OneLateQuestion` | `LateInv`: once a late question was asked, no stage that may ask is reachable, because every decision looks at the clock |
| `QuestionsLimited` | `[]QuestionLimit` | `LimitInv`: where another main question was promised, the limit is not reached yet |
| `SessionImplementsFlow` | `Spec => ImplementsFlow` | `FlowInv`: types, budgets and logs; each action maps to a named step of `InterviewFlow` or stutters, with `PhaseOf` and `Credit` as the mapping |
| `StepTime`, `DraftIsCurrent` | `[]StepTimeBounded`, `[]DraftCurrent` | `AttemptsInv`: an attempt that runs has used of its timeout what its clock shows, all earlier ones at most theirs |
| `ConcurrencyTypes`, `NoAnswerTwice` | `[]ConcurrencyTypeOK`, `[]AnswersAwaited`, for either store | `CallersInv`: every board in use has its question and its debts, every running step an artifact that fits the stage it started from. `Keeps` is what a call leaves of the board it was made on |
| `NothingMixed` | `[]SnapshotsConsistent` | `CopyInv`, over `CallersInv`: `BoardInv` of the stored board and of every copy, and a copy that is not stale is the stored board. `BoardInv` adds to the property what the next step needs: a promised question is in budget, follow-up rounds count every follow-up, an empty history before the plan |
| `OnlyStaleUndo` | `OnlyStaleStepsUndo` | the same: a step whose copy is not stale saves an extension of what is stored, and started from a stage that is no end |
| `EvaluationsLimited` | `[]EvaluationsBounded` | `ScoreInv`: over the live board an evaluation still to come is already paid for, and while an answer is due one of every caller is; a copy never has more evaluations than answers |
| `ToolTypes`, `NoSharedResource` | `[]ToolTypeOK`, `[]ResourcesSerialized` | `ToolInv`: the calls collected in a group are pairwise apart, because each was compared with all of them as it joined, and a group starts only when nothing of its run is in flight. Executions are of this run or an earlier one, so a new run starts with none of its own; they are finitely many, which the counts of interrupted side effects need |
| `EffectsOnce`, `RecordedFirst`, `AnswersTrue`, `VerdictsStand` | `[]EffectsAccounted`, `[]RecordedBeforeContinue`, `[]AnswersTruthful`, `VerdictsFinal` | `SerialInv`, over `ToolInv`: a side effect in flight is alone, has no verdict yet and was announced; what this run's records, the durable ones and the checkpoint say of an invocation agree; a result that is still missing belongs to a call in flight, in the group or not yet reached |
| `LoopTypes`, `BudgetKept`, `TranscriptWhole` | `[]AgentTypeOK`, `[]BudgetHolds`, `[]TranscriptPaired` | `LoopInv`: what is counted is what was executed, and a batch in progress is still in budget and still owed |
| `LoopKeepsPromises` | the executor's promises under `AgentSpec` | every step of the loop is one of the executor's or leaves it alone |
| `TraceIsTree`, `TraceTellsTruth`, `RunsAreClosed` | `[]SpansFormTree`, `[]StatusTruthful`, `[]RunSpansClosed` | `TraceInv`: ids of runs to come are unused; the observer remembers exactly what it recorded since the restart; the bound context, when it is the run's own, names spans that are recorded; the open loop's span is the last of its attempt |
| `CheckpointTypes`, `StoresAgree`, `LinksHold` | `[]CheckpointTypeOK`, `[]SameSession`, `[]LinksResolve` | `FileInv`: what is loaded is `Lossy` of what is in memory, which is a sound board, and the file can be read when its projects can. `RoundTrip`: decoding an encoded board gives `Lossy` of it; `LossyTwice`: a second time loses nothing; and each call gives the same on `Lossy(b)` as on `b`. Ids are positions, so a link resolves when it lies below the length |
| `MemoryTypes`, `ContextsSound`, `HistoriesComplete`, `NewestAlwaysKept` | `[]MemoryTypeOK`, `[]ContextSound`, `[]HistoryComplete`, `NewestKept` | `MemoryInv`: a history holds only what its own agent said (`Owned`), and nothing yet of a run that has not begun (`Begun`); without these a summary could carry what another agent said, and a run could begin in the middle of its messages. `TrimmedIs`: the right fold begins at the newest message, which is kept whatever its length; what is added later fits, so only that message alone can exceed the budget |

Each step lemma handles one action; `Next...` lemmas combine them; the theorem
adds the temporal step. The plan enters the proofs only through the lemmas of
`InterviewPlanProofs`. What the folds over dimensions compute is proved there for
any number of dimensions, and in `AgentMemoryProofs` what those over messages
compute for histories of any length: the fold is shown to be the last entry of a table whose
entries obey the recurrence, and facts about every entry follow from the least one
that would break them (`LeastNat`), since an induction rule that takes a predicate
as its parameter cannot be used. The proofs about several callers go board by
board first - what `publish` and `transition` make of any board, and of one a
single caller could have left - and then over the callers, where `SaveBy` is the
only action that touches the store. Every inductive invariant was checked by TLC
on the instance of its run before it was proved.

Only model-checked:

- `InterviewEnds`, `StepEnds` and `LoopStops`: liveness under fairness is beyond
  the proof system.
- The two properties that are violated: their counterexamples are
  TLC's.

## 6. Not modelled, and the plan

Not modelled: prompts, wording, provider protocols, skill parsing, context
projection and truncation; they hold no state that the control depends on, or are
pure functions of it. `PROJECT.json` lists every component with its status and
reason; section 3 says what each module leaves out.

Planned: a resource version resolver as an environment of
`ToolExecutor`, the skill lists of the capability profile, and the traces of
concurrent steps.
