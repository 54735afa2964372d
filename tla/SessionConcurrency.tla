-------------------------- MODULE SessionConcurrency --------------------------
(***************************************************************************)
(* One interview session used by several callers at once.  A caller of     *)
(* run_step (runtime/interview_runtime.py) loads the board, lets an agent  *)
(* run, and publishes what the agent returns; the agent's run is the only  *)
(* place where the event loop may switch to another caller.                *)
(*                                                                         *)
(* The two stores of checkpoint/stores.py make this two systems.  The      *)
(* in-memory store hands out the one live board, so callers see each       *)
(* other's changes at once; the JSON store hands out copies, and a save    *)
(* replaces whatever was saved since the load.  The board is reduced to    *)
(* what callers can take from each other: stage, logs, budgets, review.    *)
(***************************************************************************)
EXTENDS Integers, Sequences, FiniteSets, SequencesExt

CONSTANTS
    Callers,
    MainQuestions,        \* ids of the question bank and of fallback questions
    Records,              \* durable tool records a profile run may save
    PlannedQuestions,     \* total_question_budget of the plan
    PlannedFollowUps,     \* total_follow_up_budget of the plan
    QuestionLimit,        \* TransitionGuard.session_question_limit
    MaxFollowUpRounds     \* TransitionGuard.max_follow_up_round_per_question

ASSUME ConcurrencyAssumption ==
    /\ IsFiniteSet(Callers)
    /\ PlannedQuestions \in Nat \ {0}     \* a plan has a dimension, a dimension a question
    /\ PlannedFollowUps \in Nat
    /\ QuestionLimit \in Nat /\ MaxFollowUpRounds \in Nat

VARIABLES
    live_board,  \* TRUE: InMemoryCheckpointStore, FALSE: JsonFileCheckpointStore
    saved,       \* the session's board in the store
    step         \* what each caller's run_step is doing

vars == <<live_board, saved, step>>

-----------------------------------------------------------------------------
(* The board *)

QuestionStages == {"QUESTION_PREPARING", "NEXT_QUESTION", "FOLLOW_UP"}
AgentStages == QuestionStages \cup
    {"PROFILE_ANALYSIS", "INTERVIEW_PLANNING", "EVALUATING", "DECISION", "REPORTING"}
EndStages == {"FINISHED", "FAILED"}
Stages == AgentStages \cup EndStages \cup
    {"INIT", "QUESTIONING", "LISTENING", "WAITING_HUMAN_REVIEW"}

\* A question id: the main question it belongs to and its follow-up round.
QuestionId == MainQuestions \X Nat

Board ==
    [stage : Stages,
     questions : Seq(QuestionId),        \* question_history; the last is current_question
     rounds : [MainQuestions -> Nat],    \* question_follow_up_rounds
     answers : Seq(QuestionId),
     evaluations : Seq(QuestionId),
     decisions : Seq(QuestionId),
     question_budget : Nat,
     follow_up_budget : Nat,
     report : BOOLEAN,
     review : {"not_required", "pending", "approved", "rejected"},
     records : SUBSET Records]           \* durable_tool_records

NewBoard ==
    [stage |-> "INIT", questions |-> << >>, rounds |-> [q \in MainQuestions |-> 0],
     answers |-> << >>, evaluations |-> << >>, decisions |-> << >>,
     question_budget |-> 0, follow_up_budget |-> 0,
     report |-> FALSE, review |-> "not_required", records |-> {}]

CurrentQuestion(b) == b.questions[Len(b.questions)]
AskedIds(b) == {b.questions[i] : i \in DOMAIN b.questions}

\* publish(QuestionArtifact)
\* Mutant: max(0, ...) is missing.
AddQuestionUnbounded(b, id) ==
    IF id[2] > 0
    THEN [b EXCEPT !.questions = Append(@, id), !.rounds[id[1]] = @ + 1]
    ELSE [b EXCEPT !.questions = Append(@, id), !.question_budget = @ - 1]

AddQuestion(b, id) ==
    IF id[2] > 0
    THEN [b EXCEPT !.questions = Append(@, id), !.rounds[id[1]] = @ + 1]
    ELSE [b EXCEPT !.questions = Append(@, id),
                   !.question_budget = IF @ > 0 THEN @ - 1 ELSE 0]

\* The boards transition() may make of a board in the stage DECISION; what the
\* agent decided and whether the plan has an open dimension are free here
\* (InterviewSession models both).  NEXT_DIMENSION stands with NEXT_QUESTION.
Decided(b) ==
    {[b EXCEPT !.stage = "REPORTING"]}
    \cup (IF b.follow_up_budget > 0 /\ b.rounds[CurrentQuestion(b)[1]] < MaxFollowUpRounds
          THEN {[b EXCEPT !.stage = "FOLLOW_UP", !.follow_up_budget = @ - 1]} ELSE {})
    \cup (IF b.question_budget > 0 /\ Cardinality(AskedIds(b)) < QuestionLimit
          THEN {[b EXCEPT !.stage = "NEXT_QUESTION"]} ELSE {})

\* Mutant: an evaluation leaves the stage as it was.
EvaluatedInPlace(b, artifact) == [b EXCEPT !.evaluations = Append(@, artifact)]

Evaluated(b, artifact) ==
    [b EXCEPT !.evaluations = Append(@, artifact), !.stage = "DECISION"]

\* publish(artifact), then transition(previous, ...) on the same board: previous
\* is the stage the step started from, the board may be in another one by now.
Published(b, previous, artifact) ==
    CASE previous = "PROFILE_ANALYSIS" -> {[b EXCEPT !.stage = "INTERVIEW_PLANNING"]}
      [] previous = "INTERVIEW_PLANNING" ->
            {[b EXCEPT !.stage = "QUESTION_PREPARING", !.question_budget = PlannedQuestions,
                       !.follow_up_budget = PlannedFollowUps]}
      [] previous \in QuestionStages ->
            {[AddQuestion(b, artifact) EXCEPT !.stage = "QUESTIONING"]}
      [] previous = "EVALUATING" -> {Evaluated(b, artifact)}
      [] previous = "DECISION" -> Decided([b EXCEPT !.decisions = Append(@, artifact)])
      [] previous = "REPORTING" ->
            {[b EXCEPT !.report = TRUE, !.review = "not_required", !.stage = "FINISHED"],
             [b EXCEPT !.report = TRUE, !.review = "pending", !.stage = "WAITING_HUMAN_REVIEW"]}

-----------------------------------------------------------------------------
(* The stores *)

NoArtifact == << >>
Idle == [phase |-> "idle", previous |-> "INIT", board |-> NewBoard,
         artifact |-> NoArtifact, stale |-> FALSE]

StepType ==
    [phase : {"idle", "started", "returned"},
     previous : Stages,
     board : Board,               \* the copy the step holds; unused with a live board
     artifact : QuestionId \cup {NoArtifact},
     stale : BOOLEAN]             \* somebody saved since the step loaded (history)

ConcurrencyTypeOK ==
    /\ live_board \in BOOLEAN
    /\ saved \in Board
    /\ step \in [Callers -> StepType]

\* The board a running step reads and writes.
Held(c) == IF live_board THEN saved ELSE step[c].board

\* A save by c, whose step becomes s: every other copy in use is stale from now on.
SaveBy(c, b, s) ==
    /\ saved' = b
    /\ step' = [d \in Callers |-> IF d = c THEN s
                                  ELSE [step[d] EXCEPT !.stale = step[d].phase # "idle"]]
    /\ UNCHANGED live_board

Init ==
    /\ live_board \in BOOLEAN
    /\ saved = NewBoard
    /\ step = [c \in Callers |-> Idle]

-----------------------------------------------------------------------------
(* Calls that load and save without letting go of the event loop *)

Free(c) == step[c].phase = "idle"

\* run_step in INIT and in QUESTIONING.
PassThrough(c) ==
    /\ Free(c)
    /\ saved.stage \in {"INIT", "QUESTIONING"}
    /\ SaveBy(c, [saved EXCEPT !.stage = IF @ = "INIT" THEN "PROFILE_ANALYSIS"
                                         ELSE "LISTENING"], Idle)

\* Mutant: the stage is not checked.
ReceiveAnyAnswer(c) ==
    /\ Free(c)
    /\ saved.questions # << >>
    /\ SaveBy(c, [saved EXCEPT !.answers = Append(@, CurrentQuestion(saved)),
                               !.stage = "EVALUATING"], Idle)

ReceiveAnswer(c) ==
    /\ Free(c)
    /\ saved.stage = "LISTENING" /\ saved.questions # << >>
    /\ SaveBy(c, [saved EXCEPT !.answers = Append(@, CurrentQuestion(saved)),
                               !.stage = "EVALUATING"], Idle)

Ruled(b, approved) ==
    [b EXCEPT !.review = IF approved THEN "approved" ELSE "rejected",
              !.stage = IF approved THEN "FINISHED" ELSE "FAILED"]

\* Mutant: a closed session can be ruled on again.
RuleAgain(c) ==
    /\ Free(c)
    /\ saved.stage \in EndStages \cup {"WAITING_HUMAN_REVIEW"}
    /\ \E approved \in BOOLEAN : SaveBy(c, Ruled(saved, approved), Idle)

SubmitHumanReview(c) ==
    /\ Free(c)
    /\ saved.stage = "WAITING_HUMAN_REVIEW"
    /\ \E approved \in BOOLEAN : SaveBy(c, Ruled(saved, approved), Idle)

-----------------------------------------------------------------------------
(* run_step in a stage that runs an agent *)

\* The evaluator and the follow-up agent work on the question their agent context
\* was built from, before the step lets go of the event loop.
BeginStep(c) ==
    /\ Free(c)
    /\ saved.stage \in AgentStages
    /\ step' = [step EXCEPT ![c] =
            [phase |-> "started", previous |-> saved.stage,
             board |-> IF live_board THEN NewBoard ELSE saved,
             artifact |-> IF saved.stage \in {"EVALUATING", "DECISION"}
                          THEN CurrentQuestion(saved) ELSE NoArtifact,
             stale |-> FALSE]]
    /\ UNCHANGED <<live_board, saved>>

\* The question pipeline reads the stage, the current question and the follow-up
\* rounds off the board when it starts, the asked ids when its search has answered: a
\* question of the bank is refused when its id was asked, a fallback gets a new id.
FollowUpIds(b) ==
    IF b.stage = "FOLLOW_UP"
    THEN LET main == CurrentQuestion(b)[1] IN {<<main, b.rounds[main] + 1>>}
    ELSE {}

MainIds(b) == {<<m, 0>> : m \in MainQuestions} \ AskedIds(b)

\* What the agent returns.  A search that began in another stage than FOLLOW_UP ends
\* in a main question, whatever the stage is by then.
Returned(c) ==
    IF step[c].previous \notin QuestionStages THEN {step[c].artifact}
    ELSE FollowUpIds(Held(c))
         \cup (IF step[c].previous = "FOLLOW_UP" /\ Held(c).stage = "FOLLOW_UP" THEN {}
               ELSE MainIds(Held(c)))

AgentReturns(c) ==
    /\ step[c].phase = "started"
    /\ \E artifact \in Returned(c) :
          step' = [step EXCEPT ![c].phase = "returned", ![c].artifact = artifact]
    /\ UNCHANGED <<live_board, saved>>

\* Mutant: the step reloads the board before it publishes.
FinishReloadedStep(c) ==
    /\ step[c].phase = "returned"
    /\ \E b \in Published(saved, step[c].previous, step[c].artifact) : SaveBy(c, b, Idle)

FinishStep(c) ==
    /\ step[c].phase = "returned"
    /\ \E b \in Published(Held(c), step[c].previous, step[c].artifact) : SaveBy(c, b, Idle)

\* Every attempt failed.
FailStep(c) ==
    /\ step[c].phase = "started"
    /\ SaveBy(c, [Held(c) EXCEPT !.stage = "FAILED"], Idle)

\* The caller goes away (its request is cancelled) before the agent is done.
AbandonStep(c) ==
    /\ step[c].phase # "idle"
    /\ step' = [step EXCEPT ![c] = Idle]
    /\ UNCHANGED <<live_board, saved>>

\* _persist_durable_tool_record: the whole board is saved in the middle of the step.
\* The profile agent is the one that runs an agent loop.
PersistRecord(c) ==
    /\ step[c].phase = "started"
    /\ step[c].previous = "PROFILE_ANALYSIS"
    /\ \E r \in Records \ Held(c).records :
          LET b == [Held(c) EXCEPT !.records = @ \cup {r}]
          IN  SaveBy(c, b, [step[c] EXCEPT !.board = IF live_board THEN @ ELSE b,
                                           !.stale = FALSE])

-----------------------------------------------------------------------------
(* The process dies; with the in-memory store the session is gone with it. *)

Crash ==
    /\ ~live_board
    /\ \E c \in Callers : step[c].phase # "idle"
    /\ step' = [c \in Callers |-> Idle]
    /\ UNCHANGED <<live_board, saved>>

Next ==
    \/ \E c \in Callers :
          \/ PassThrough(c) \/ ReceiveAnswer(c) \/ SubmitHumanReview(c)
          \/ BeginStep(c) \/ AgentReturns(c) \/ FinishStep(c) \/ FailStep(c)
          \/ AbandonStep(c) \/ PersistRecord(c)
    \/ Crash

Spec == Init /\ [][Next]_vars

-----------------------------------------------------------------------------
(* Properties *)

\* A log of a board lags its questions by one entry in the stages that owe it.
Owes(b, log, stages) ==
    /\ \A i \in DOMAIN log : i \in DOMAIN b.questions /\ log[i] = b.questions[i]
    /\ Len(b.questions) <= Len(log) + 1
    /\ b.stage \in stages => Len(b.questions) = Len(log) + 1
    /\ b.stage \notin stages \cup {"FAILED"} => Len(b.questions) = Len(log)

LogsAligned(b) ==
    /\ Owes(b, b.answers, {"QUESTIONING", "LISTENING"})
    /\ Owes(b, b.evaluations, {"QUESTIONING", "LISTENING", "EVALUATING"})
    /\ Owes(b, b.decisions, {"QUESTIONING", "LISTENING", "EVALUATING", "DECISION"})

IdsDistinct(b) ==
    \A i, j \in DOMAIN b.questions : b.questions[i] = b.questions[j] => i = j

\* The boards somebody may still save: the stored one and the copies in use.
Copies == {saved} \cup {step[c].board : c \in {d \in Callers : step[d].phase # "idle"}}

MainAsked(b) == Cardinality({i \in DOMAIN b.questions : b.questions[i][2] = 0})
FollowUpsAsked(b) == Len(b.questions) - MainAsked(b)

BudgetsAccounted(b) ==
    b.stage \notin {"INIT", "PROFILE_ANALYSIS", "INTERVIEW_PLANNING", "FAILED"} =>
        /\ b.question_budget + MainAsked(b) = PlannedQuestions
        /\ b.follow_up_budget + FollowUpsAsked(b) + (IF b.stage = "FOLLOW_UP" THEN 1 ELSE 0)
              = PlannedFollowUps

\* However many callers load, run and save at once, with the JSON store every board
\* is one a single caller could have left: answers, evaluations and decisions line
\* up with the questions, no question id occurs twice, and nothing is charged twice
\* because two callers ran the same step.  Work may be lost, never mixed.
SnapshotsConsistent ==
    ~live_board => \A b \in Copies : LogsAligned(b) /\ IdsDistinct(b) /\ BudgetsAccounted(b)

\* With either store an answer is accepted for a question asked after the last
\* answer: however late a step publishes and wherever it moves the stage, two
\* answers never go to one question, nor an answer to none.
AnswersAwaited ==
    Len(saved.answers) + (IF saved.stage \in {"QUESTIONING", "LISTENING"} THEN 1 ELSE 0)
        <= Len(saved.questions)

\* With a live board an answer may be scored by every caller that started while it
\* was due, and by no other: late evaluations are bounded by the callers, however
\* often a late step moves the stage back.
EvaluationsBounded ==
    Len(saved.evaluations) <= Cardinality(Callers) * Len(saved.answers)

Extends(b, a) ==
    /\ IsPrefix(a.questions, b.questions) /\ IsPrefix(a.answers, b.answers)
    /\ IsPrefix(a.evaluations, b.evaluations) /\ IsPrefix(a.decisions, b.decisions)
    /\ a.records \subseteq b.records

\* What was saved - an accepted answer, a durable tool record, with the JSON store
\* also a ruling or the end of the interview - is undone by one thing only: over the
\* JSON store, the save of a step that loaded before somebody else saved.
OnlyStaleStepsUndo ==
    [][\/ /\ Extends(saved', saved)
          /\ ~live_board /\ saved.stage \in EndStages => saved' = saved
       \/ ~live_board /\ \E c \in Callers : step[c].stale /\ ~step'[c].stale]_vars
=============================================================================
