---------------------------- MODULE AgentAttempts ----------------------------
(***************************************************************************)
(* How one step of the runtime gets its artifact: TaskExecutor.execute     *)
(* (runtime/execution_policy.py) runs an agent once and again under a      *)
(* deadline, the agent (agents/mock_agents.py) asks a model, a tool or     *)
(* both, and the provider (providers/llm.py) hands the model's request to  *)
(* a pool of threads.                                                      *)
(*                                                                         *)
(* The executor, the provider and the socket are all given the skill's     *)
(* timeout, and the executor's is armed first.  Cancelling an attempt      *)
(* takes a request out of the pool's queue, but not out of a thread; there *)
(* a server that answers in pieces keeps it for longer than the timeout.   *)
(***************************************************************************)
EXTENDS Integers, FiniteSets

CONSTANTS
    Timeout,      \* skill.timeout, in ticks
    Retry,        \* skill.retry
    Threads,      \* threads of the event loop's default executor
    Kinds         \* the kinds of agent that may run, see Asks and Calls

ASSUME AttemptsAssumption ==
    /\ Timeout \in Nat \ {0}
    /\ Retry \in Nat
    /\ Threads \in Nat \ {0}
    /\ Kinds \subseteq {"tool", "draft", "loop"}

VARIABLES
    kind,        \* "tool": QuestionAgent; "draft": EvaluatorAgent, FollowUpAgent; "loop": ProfileAgent
    phase,       \* what the executor is waiting for
    attempt,
    clock,       \* ticks since the attempt was started
    elapsed,     \* ticks since the step was started
    request,     \* of each attempt: what became of its request to the model
    age,         \* of each request: ticks its socket has waited since it last moved
    draft        \* attempt whose model answer the agent works with, 0: its own fallback

vars == <<kind, phase, attempt, clock, elapsed, request, age, draft>>

-----------------------------------------------------------------------------
Attempts == 1..Retry + 1

Running == {"asking", "calling", "composing"}

Asks == kind \in {"draft", "loop"}

AttemptsTypeOK ==
    /\ kind \in Kinds
    /\ phase \in Running \cup {"between", "ok", "failed"}
    /\ attempt \in 0..Retry + 1
    /\ clock \in 0..Timeout
    /\ elapsed \in Nat
    /\ request \in [Attempts -> {"none", "queued", "sent", "closed"}]
    /\ age \in [Attempts -> 0..Timeout]
    /\ draft \in 0..Retry + 1

Init ==
    /\ kind \in Kinds
    /\ phase = "between" /\ attempt = 0 /\ clock = 0 /\ elapsed = 0
    /\ request = [a \in Attempts |-> "none"] /\ age = [a \in Attempts |-> 0]
    /\ draft = 0

-----------------------------------------------------------------------------
(* TaskExecutor.execute *)

\* The agent runs up to its first wait: the draft and the loop agents hand a
\* request to the provider, the others call a tool.  (Of a loop agent's rounds only
\* the first request is followed here; AgentLoop has the rounds.)
StartAttempt ==
    /\ phase = "between" /\ attempt <= Retry
    /\ attempt' = attempt + 1
    /\ clock' = 0 /\ draft' = 0
    /\ phase' = IF Asks THEN "asking" ELSE "calling"
    /\ request' = IF Asks THEN [request EXCEPT ![attempt + 1] = "queued"] ELSE request
    /\ UNCHANGED <<kind, elapsed, age>>

\* The attempt's exception, a deadline's included, is swallowed.
AttemptFails ==
    /\ phase' = "between"
    /\ request' = [request EXCEPT ![attempt] = IF @ = "queued" THEN "closed" ELSE @]
    /\ UNCHANGED <<kind, attempt, clock, elapsed, age, draft>>

\* Mutant: only the model is waited for under the deadline.
DeadlineOfModelOnly ==
    /\ phase = "asking" /\ clock = Timeout
    /\ AttemptFails

Deadline ==
    /\ phase \in Running /\ clock = Timeout
    /\ AttemptFails

AllAttemptsFailed ==
    /\ phase = "between" /\ attempt = Retry + 1
    /\ phase' = "failed"
    /\ UNCHANGED <<kind, attempt, clock, elapsed, request, age, draft>>

AgentRaises ==
    /\ phase \in {"calling", "composing"}
    /\ AttemptFails

AgentReturns ==
    /\ phase = "composing"
    /\ phase' = "ok"
    /\ UNCHANGED <<kind, attempt, clock, elapsed, request, age, draft>>

-----------------------------------------------------------------------------
(* The provider's threads *)

Busy == {a \in Attempts : request[a] = "sent"}

ThreadTakes(a) ==
    /\ request[a] = "queued" /\ Cardinality(Busy) < Threads
    /\ request' = [request EXCEPT ![a] = "sent"]
    /\ UNCHANGED <<kind, phase, attempt, clock, elapsed, age, draft>>

\* The agent waits for the answer of its own attempt.  A draft agent turns any
\* exception of the provider, and an answer that is no JSON object, into its own
\* fallback; the loop agent's loop stops and it calls its tools itself, as it does
\* when the model called none.
AwaitedNext == IF kind = "loop" THEN {"calling", "composing"} ELSE {"composing"}

\* Mutants: the answer is given to whoever waits; it renews the deadline.
AnswerWhoeverWaits(a) ==
    /\ request[a] = "sent"
    /\ request' = [request EXCEPT ![a] = "closed"]
    /\ IF phase = "asking"
       THEN phase' \in AwaitedNext /\ draft' \in {0, a}
       ELSE UNCHANGED <<phase, draft>>
    /\ UNCHANGED <<kind, attempt, clock, elapsed, age>>

AnswerRenewsDeadline(a) ==
    /\ request[a] = "sent"
    /\ request' = [request EXCEPT ![a] = "closed"]
    /\ IF phase = "asking" /\ a = attempt
       THEN phase' \in AwaitedNext /\ draft' \in {0, a} /\ clock' = 0
       ELSE UNCHANGED <<phase, draft, clock>>
    /\ UNCHANGED <<kind, attempt, elapsed, age>>

\* The server answers, with a draft or without one, or the request fails.
Answer(a) ==
    /\ request[a] = "sent"
    /\ request' = [request EXCEPT ![a] = "closed"]
    /\ IF phase = "asking" /\ a = attempt
       THEN phase' \in AwaitedNext /\ draft' \in {0, a}
       ELSE UNCHANGED <<phase, draft>>
    /\ UNCHANGED <<kind, attempt, clock, elapsed, age>>

\* Part of an answer: each operation on the socket has the whole timeout.
BytesArrive(a) ==
    /\ request[a] = "sent"
    /\ age' = [age EXCEPT ![a] = 0]
    /\ UNCHANGED <<kind, phase, attempt, clock, elapsed, request, draft>>

\* The socket's own timeout; it counts from its last operation.
SocketTimeout(a) ==
    /\ request[a] = "sent" /\ age[a] = Timeout
    /\ request' = [request EXCEPT ![a] = "closed"]
    /\ IF phase = "asking" /\ a = attempt
       THEN phase' \in AwaitedNext ELSE UNCHANGED phase
    /\ UNCHANGED <<kind, attempt, clock, elapsed, age, draft>>

ToolAnswers ==
    /\ phase = "calling"
    /\ phase' = "composing"
    /\ UNCHANGED <<kind, attempt, clock, elapsed, request, age, draft>>

\* Time passes no deadline by, neither the attempt's nor that of a waiting socket;
\* composing an artifact takes no time.
Tick ==
    /\ phase \in {"asking", "calling"} /\ clock < Timeout
    /\ \A a \in Busy : age[a] < Timeout
    /\ clock' = clock + 1 /\ elapsed' = elapsed + 1
    /\ age' = [a \in Attempts |-> IF a \in Busy THEN age[a] + 1 ELSE age[a]]
    /\ UNCHANGED <<kind, phase, attempt, request, draft>>

Executor == StartAttempt \/ Deadline \/ AllAttemptsFailed \/ AgentRaises \/ AgentReturns

Next ==
    \/ Executor \/ ToolAnswers \/ Tick
    \/ \E a \in Attempts : ThreadTakes(a) \/ Answer(a) \/ BytesArrive(a) \/ SocketTimeout(a)

Spec == Init /\ [][Next]_vars

(* Time passes, expired timers fire and runnable code runs; neither a model nor a *)
(* tool has to answer.                                                            *)
FairSpec ==
    /\ Spec
    /\ WF_vars(Tick) /\ WF_vars(StartAttempt) /\ WF_vars(AllAttemptsFailed)
    /\ WF_vars(Deadline) /\ WF_vars(AgentReturns)
    /\ \A a \in Attempts : WF_vars(SocketTimeout(a))

-----------------------------------------------------------------------------
(* Properties *)

\* The three nested deadlines do not add up: however an attempt waits, for a model,
\* for a tool after it, behind the requests abandoned attempts left in the pool, a
\* step takes no longer than its attempts are allowed together.
StepTimeBounded == elapsed <= attempt * Timeout

\* The answer to a request whose attempt was given up may still arrive; it is never
\* taken for the answer to the request of a later attempt.
DraftCurrent == draft \in {0, attempt}

\* A step ends although neither the model nor a tool ever answers.
StepEnds == <>(phase \in {"ok", "failed"})
=============================================================================
