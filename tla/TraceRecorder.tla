---------------------------- MODULE TraceRecorder ----------------------------
(***************************************************************************)
(* The trace of one session.  The runtime and the agent loop emit events   *)
(* (runtime/interview_runtime.py, runtime/agent_loop.py); the event bus    *)
(* gives an event without a trace context the one bound to its session     *)
(* (runtime/events.py); TraceObserver (observability/observer.py) opens a  *)
(* span at the first event of a span id and closes it at a finishing one;  *)
(* JsonFileTraceStore (observability/store.py) keeps the spans.            *)
(*                                                                         *)
(* One caller drives the session.  While its agent runs, somebody else may *)
(* offer an answer nobody waits for; that call is refused, but not before  *)
(* it has bound the session's trace context.                               *)
(***************************************************************************)
EXTENDS Integers, Sequences, FiniteSets

CONSTANTS
    MaxRuns,       \* bound: agent runs
    MaxAttempts,   \* attempts of an agent run, retry + 1
    MaxRounds,     \* rounds of an agent loop
    MaxBatch       \* bound: tool calls of a response

ASSUME TraceAssumption ==
    MaxRuns \in Nat /\ MaxAttempts \in Nat \ {0} /\ MaxRounds \in Nat /\ MaxBatch \in Nat \ {0}

VARIABLES
    trace,       \* RunTrace: "none" before start_trace, "running", "ok" once finished
    spans,       \* RunTrace.spans
    started,     \* TraceObserver._started_spans
    bound,       \* the bus's trace context of the session
    stage,       \* what the trace can tell of current_stage
    run,         \* agent runs begun
    attempt,     \* attempts of the current run begun
    loop,        \* where the loop of the attempt is
    round,       \* its round
    calls,       \* calls of its last response
    delivered,   \* results of them it has reported
    published,   \* runs that published an artifact (history)
    completed,   \* loops that completed (history)
    unnamed,     \* runs whose end was emitted in another context (history)
    killed       \* runs the process died in, or whose caller went away (history)

recordVars == <<trace, spans, started>>
loopVars == <<attempt, loop, round, calls, delivered>>
historyVars == <<published, completed, unnamed, killed>>
vars == <<recordVars, bound, stage, run, loopVars, historyVars>>

-----------------------------------------------------------------------------
(* Trace contexts *)

\* Span ids are fresh; here they say whose span it is.
Id(kind, r, a, n, k) == [kind |-> kind, run |-> r, attempt |-> a, round |-> n, call |-> k]

Session == Id("session", 0, 0, 0, 0)     \* a context without run and span: only the trace
Unbound == Id("unbound", 0, 0, 0, 0)

Run == Id("run", run, 0, 0, 0)
Loop == Id("loop", run, attempt, 0, 0)
Llm == Id("llm", run, attempt, round, 0)
Tool(k) == Id("tool", run, attempt, round, k)

\* _child_trace; a run's context has no parent.
ParentOf(id) ==
    CASE id.kind = "loop" -> [id EXCEPT !.kind = "run", !.attempt = 0]
      [] id.kind \in {"llm", "tool"} -> [id EXCEPT !.kind = "loop", !.round = 0, !.call = 0]
      [] OTHER -> Session

Ids(kind) == [kind : {kind}, run : 1..MaxRuns, attempt : 0..MaxAttempts,
              round : 0..MaxRounds, call : 0..MaxBatch]

Span == [id : UNION {Ids(k) : k \in {"run", "loop", "llm", "tool"}},
         status : {"running", "ok", "error"}]

TraceTypeOK ==
    /\ trace \in {"none", "running", "ok"}
    /\ spans \in Seq(Span)
    /\ started \subseteq {s.id : s \in Span}
    /\ bound \in {Unbound, Session} \cup Ids("run")
    /\ stage \in {"new", "ready", "working", "review", "finished", "failed"}
    /\ run \in 0..MaxRuns /\ attempt \in 0..MaxAttempts /\ round \in 0..MaxRounds
    /\ loop \in {"none", "between", "chatting", "responded", "batch", "over"}
    /\ calls \in 0..MaxBatch + 1 /\ delivered \in 0..MaxBatch
    /\ published \cup unnamed \cup killed \subseteq 1..MaxRuns
    /\ completed \subseteq (1..MaxRuns) \X (1..MaxAttempts)

Init ==
    /\ trace = "none" /\ spans = << >> /\ started = {} /\ bound = Unbound
    /\ stage = "new" /\ run = 0
    /\ attempt = 0 /\ loop = "none" /\ round = 0 /\ calls = 0 /\ delivered = 0
    /\ published = {} /\ completed = {} /\ unnamed = {} /\ killed = {}

-----------------------------------------------------------------------------
(* TraceObserver.on_event for an event of the span id: finishing is "no" or *)
(* the status it closes the span with.                                      *)

Open(s, id) == {i \in DOMAIN s : s[i].id = id /\ s[i].status = "running"}

Close(s, id, status) ==
    IF Open(s, id) = {} THEN s
    ELSE [s EXCEPT ![CHOOSE i \in Open(s, id) : \A j \in Open(s, id) : j <= i].status = status]

\* Mutant: _started_spans is not updated.
ObserveForgetting(id, finishing) ==
    IF id \in {Session, Unbound} THEN UNCHANGED <<spans, started>>
    ELSE LET seen == Append(spans, [id |-> id, status |-> "running"])
         IN  /\ spans' = IF finishing = "no" THEN seen ELSE Close(seen, id, finishing)
             /\ UNCHANGED started

Observe(id, finishing) ==
    IF id \in {Session, Unbound} THEN UNCHANGED <<spans, started>>
    ELSE LET seen == IF id \in started THEN spans
                     ELSE Append(spans, [id |-> id, status |-> "running"])
         IN  /\ spans' = IF finishing = "no" THEN seen ELSE Close(seen, id, finishing)
             /\ started' = started \cup {id}

-----------------------------------------------------------------------------
(* InterviewRuntime *)

StartSession ==
    /\ stage = "new"
    /\ stage' = "ready" /\ bound' = Session /\ trace' = "running"
    /\ UNCHANGED <<spans, started, run, loopVars, historyVars>>

\* Steps that run no agent, receive_answer.  STATE_TRANSITIONED and the like are
\* emitted in the session's context and open no span.
CallWithoutAgent ==
    /\ stage = "ready" /\ bound # Session
    /\ bound' = Session
    /\ UNCHANGED <<recordVars, stage, run, loopVars, historyVars>>

\* receive_answer of a session that does not listen binds, and then raises.
RefuseAnswer ==
    /\ stage # "new" /\ bound # Session
    /\ bound' = Session
    /\ UNCHANGED <<recordVars, stage, run, loopVars, historyVars>>

NewLoop == loop' = "none" /\ round' = 0 /\ calls' = 0 /\ delivered' = 0

\* AGENT_STARTED, then the first attempt.
StartRun ==
    /\ stage = "ready" /\ run < MaxRuns
    /\ run' = run + 1 /\ attempt' = 1 /\ NewLoop
    /\ stage' = "working"
    /\ bound' = Id("run", run + 1, 0, 0, 0)
    /\ Observe(bound', "no")
    /\ UNCHANGED <<trace, historyVars>>

\* The end of a run is emitted in the context bound by then.
Unnamed == unnamed' = IF bound = Run THEN unnamed ELSE unnamed \cup {run}

AgentReturned == stage = "working" /\ loop \in {"none", "over"}

\* The artifact's event, AGENT_FINISHED and STATE_TRANSITIONED; then the session's
\* context is bound again.  The last one finishes the trace of a finished session.
\* Mutant: the session's context is bound too early.
FinishRunLate ==
    /\ AgentReturned
    /\ \E s \in {"ready", "review", "finished"} :
          stage' = s /\ trace' = IF s = "finished" THEN "ok" ELSE trace
    /\ bound' = Session
    /\ Observe(Session, "ok")
    /\ published' = published \cup {run} /\ Unnamed
    /\ UNCHANGED <<run, loopVars, completed, killed>>

FinishRun ==
    /\ AgentReturned
    /\ \E s \in {"ready", "review", "finished"} :
          stage' = s /\ trace' = IF s = "finished" THEN "ok" ELSE trace
    /\ Observe(bound, "ok")
    /\ bound' = Session
    /\ published' = published \cup {run} /\ Unnamed
    /\ UNCHANGED <<run, loopVars, completed, killed>>

Waiting == stage = "working" /\ loop \in {"none", "chatting", "batch", "over"}

\* The attempt times out, wherever it waits, or raises.
NextAttempt ==
    /\ Waiting /\ attempt < MaxAttempts
    /\ attempt' = attempt + 1 /\ NewLoop
    /\ UNCHANGED <<recordVars, bound, stage, run, historyVars>>

\* RUNTIME_ERROR; the run's context stays bound.
FailRun ==
    /\ Waiting /\ attempt = MaxAttempts
    /\ stage' = "failed"
    /\ Observe(bound, "error")
    /\ Unnamed
    /\ UNCHANGED <<trace, bound, run, loopVars, published, completed, killed>>

\* submit_human_review binds no context.
SubmitHumanReview ==
    /\ stage = "review"
    /\ \E approved \in BOOLEAN :
          /\ stage' = IF approved THEN "finished" ELSE "failed"
          /\ trace' = IF approved /\ bound # Unbound THEN "ok" ELSE trace
    /\ Observe(bound, "ok")
    /\ UNCHANGED <<bound, run, loopVars, historyVars>>

\* The caller of run_step goes away: the run is cancelled and emits nothing more.
AbandonRun ==
    /\ Waiting
    /\ stage' = "ready" /\ killed' = killed \cup {run}
    /\ attempt' = 0 /\ NewLoop
    /\ UNCHANGED <<recordVars, bound, run, published, completed, unnamed>>

\* The process dies; a new one has a new bus and a new observer.
Restart ==
    /\ stage \in {"ready", "working", "review"}
    /\ bound # Unbound
    /\ bound' = Unbound /\ started' = {}
    /\ stage' = IF stage = "working" THEN "ready" ELSE stage
    /\ killed' = IF stage = "working" THEN killed \cup {run} ELSE killed
    /\ attempt' = 0 /\ NewLoop
    /\ UNCHANGED <<trace, spans, run, published, completed, unnamed>>

-----------------------------------------------------------------------------
(* AgentLoop.run, in the contexts it makes itself *)

Working == stage = "working"

\* Only ProfileAgent, whose artifact is the session's first, runs a loop.
StartLoop ==
    /\ Working /\ loop = "none" /\ published = {}
    /\ loop' = "between"
    /\ Observe(Loop, "no")
    /\ UNCHANGED <<trace, bound, stage, run, attempt, round, calls, delivered, historyVars>>

\* LLM_REQUESTED
Request ==
    /\ Working /\ loop = "between" /\ round < MaxRounds
    /\ round' = round + 1 /\ loop' = "chatting"
    /\ Observe(Id("llm", run, attempt, round + 1, 0), "no")
    /\ UNCHANGED <<trace, bound, stage, run, attempt, calls, delivered, historyVars>>

\* LLM_RESPONDED
Respond ==
    /\ Working /\ loop = "chatting"
    /\ loop' = "responded" /\ calls' \in 0..MaxBatch + 1 /\ delivered' = 0
    /\ Observe(Llm, "ok")
    /\ UNCHANGED <<trace, bound, stage, run, attempt, round, historyVars>>

\* AGENT_LOOP_FINISHED
Complete ==
    /\ Working /\ loop = "responded" /\ calls = 0
    /\ loop' = "over"
    /\ Observe(Loop, "ok")
    /\ completed' = completed \cup {<<run, attempt>>}
    /\ UNCHANGED <<trace, bound, stage, run, attempt, round, calls, delivered,
                   published, unnamed, killed>>

\* TOOL_CALLED for every call of the batch.
CallTools ==
    /\ Working /\ loop = "responded" /\ calls \in 1..MaxBatch
    /\ loop' = "batch"
    /\ spans' = spans \o [k \in 1..calls |-> [id |-> Tool(k), status |-> "running"]]
    /\ started' = started \cup {Tool(k) : k \in 1..calls}
    /\ UNCHANGED <<trace, bound, stage, run, attempt, round, calls, delivered, historyVars>>

\* TOOL_SUCCEEDED or TOOL_FAILED for the next result.
DeliverResult ==
    /\ Working /\ loop = "batch" /\ delivered < calls
    /\ delivered' = delivered + 1
    /\ loop' = IF delivered' = calls THEN "between" ELSE "batch"
    /\ \E status \in {"ok", "error"} : Observe(Tool(delivered'), status)
    /\ UNCHANGED <<trace, bound, stage, run, attempt, round, calls, historyVars>>

\* A batch over the budget: TOOL_FAILED for every call, in the loop's own context.
RejectBatch ==
    /\ Working /\ loop = "responded" /\ calls > 0
    /\ loop' = "over"
    /\ Observe(Loop, "error")
    /\ UNCHANGED <<trace, bound, stage, run, attempt, round, calls, delivered, historyVars>>

\* Mutant: a loop that was stopped reports that it finished.
StopLoopAsFinished ==
    /\ Working /\ loop \in {"between", "chatting", "responded", "batch"}
    /\ loop' = "over"
    /\ Observe(Loop, "ok")
    /\ UNCHANGED <<trace, bound, stage, run, attempt, round, calls, delivered, historyVars>>

\* AGENT_LOOP_STOPPED: a budget, a timeout of the model, an exception, a repeated call.
StopLoop ==
    /\ Working /\ loop \in {"between", "chatting", "responded", "batch"}
    /\ loop' = "over"
    /\ Observe(Loop, "error")
    /\ UNCHANGED <<trace, bound, stage, run, attempt, round, calls, delivered, historyVars>>

RuntimeStep ==
    \/ StartSession \/ CallWithoutAgent \/ RefuseAnswer \/ StartRun \/ FinishRun
    \/ NextAttempt \/ FailRun \/ SubmitHumanReview \/ AbandonRun \/ Restart

LoopStep ==
    \/ StartLoop \/ Request \/ Respond \/ Complete \/ CallTools \/ DeliverResult
    \/ RejectBatch \/ StopLoop

Next == RuntimeStep \/ LoopStep

Spec == Init /\ [][Next]_vars

-----------------------------------------------------------------------------
(* Properties *)

Recorded == {spans[i].id : i \in DOMAIN spans}

\* README.md, "Trace / Observer": the spans are a tree.  Every span is recorded once,
\* over all retries and restarts, after the span it belongs to.
SpansFormTree ==
    /\ \A i, j \in DOMAIN spans : spans[i].id = spans[j].id => i = j
    /\ \A i \in DOMAIN spans :
          LET parent == ParentOf(spans[i].id)
          IN  parent = Session \/ \E j \in 1..i - 1 : spans[j].id = parent

\* A closed span says how its work ended: a run's is good if the run published its
\* artifact, a loop's if the loop completed, whoever else used the session meanwhile.
\* The trace itself is finished with the interview, and never before.
StatusTruthful ==
    /\ trace = "ok" => stage = "finished"
    /\ \A i \in DOMAIN spans :
        LET s == spans[i]
        IN  /\ s.id.kind = "run" /\ s.status = "ok" => s.id.run \in published
            /\ s.id.kind = "run" /\ s.status = "error" => s.id.run \notin published
            /\ s.id.kind = "loop" => (s.status = "ok" <=> <<s.id.run, s.id.attempt>> \in completed)

\* When no agent runs, a run's span is still open only if the process or the caller
\* went away during the run, or somebody bound another context before it ended.
RunSpansClosed ==
    \A i \in DOMAIN spans :
        spans[i].id.kind = "run" /\ spans[i].status = "running" =>
            \/ stage = "working" /\ spans[i].id.run = run
            \/ spans[i].id.run \in killed \cup unnamed
=============================================================================
