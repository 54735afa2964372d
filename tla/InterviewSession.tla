--------------------------- MODULE InterviewSession ---------------------------
(***************************************************************************)
(* One interview session driven by one caller: the blackboard              *)
(* (blackboard/board.py), the state machine and its guard                  *)
(* (runtime/state_machine.py), the steps of runtime/interview_runtime.py   *)
(* with the decisions of the agents they run, the human review gate, and   *)
(* the driver loop that runs steps until the session has to wait.          *)
(*                                                                         *)
(* A step is atomic here: between loading a session and saving it only     *)
(* this caller touches it.                                                 *)
(***************************************************************************)
EXTENDS InterviewPlan, Sequences, Folds, Functions

CONSTANTS
    Targets,                 \* normalized follow-up targets an agent may propose
    Scores,                  \* scores an evaluation may give
    EvidenceCounts,          \* evidence items it may add for the question's dimension
    SessionQuestionLimit,    \* TransitionGuard.session_question_limit
    MaxFollowUpRounds,       \* TransitionGuard.max_follow_up_round_per_question
    MaxSteps                 \* max_steps of run_until_waiting_or_done

ASSUME SessionAssumption ==
    /\ IsFiniteSet(Targets)
    /\ Scores \subseteq Percent
    /\ EvidenceCounts \subseteq Nat
    /\ SessionQuestionLimit \in Nat \ {0}
    /\ MaxFollowUpRounds \in Nat
    /\ MaxSteps \in Nat

MinReviewCoverage == 50      \* HumanReviewPolicy.min_dimension_coverage
SaturatedCoverage == 85      \* coverage from which FollowUpAgent asks no more

VARIABLES
    stage,                   \* current_stage
    plan,                    \* interview_plan.plan, EmptyPlan until published
    question_budget,
    follow_up_budget,
    coverage,                \* capability_profile.dimension_coverage, 0: not scored yet
    current_dimension,
    current_question,
    question_history,        \* ids of the questions published, in order
    asked_question_ids,
    rounds,                  \* question_follow_up_rounds of each main question
    answers,                 \* question_id of each answer
    evaluations,             \* question_id of each evaluation
    decisions,               \* question_id of each follow-up decision
    latest_evaluation,       \* what FollowUpAgent reads of the last evaluation
    followed_targets,
    report,                  \* a report was published
    review_status,
    expired,                 \* session_not_timeout() has become false
    late_questions,          \* questions published after that (history variable)
    driver,                  \* is a run_until_waiting_or_done in progress?
    steps                    \* run_step calls it has made

planVars == <<plan, question_budget, follow_up_budget, followed_targets>>
questionVars == <<current_dimension, current_question, question_history,
                  asked_question_ids, rounds, late_questions>>
assessVars == <<evaluations, decisions, latest_evaluation, coverage>>
reportVars == <<report, review_status>>
sessionVars == <<stage, planVars, questionVars, answers, assessVars, reportVars>>
vars == <<sessionVars, expired, driver, steps>>

-----------------------------------------------------------------------------
NoDimension == 0

\* A question id: the ordinal of the main question and the follow-up round
\* (0 for the main question itself, whose id the pipeline makes fresh).
QuestionId == Nat \X Nat
NoQuestion == [id |-> <<0, 0>>, dimension |-> NoDimension]

IsFollowUp(question) == question.id[2] > 0
Parent(question) == question.id[1]

QuestionStages == {"QUESTION_PREPARING", "NEXT_QUESTION", "NEXT_DIMENSION"}

AgentStages == QuestionStages \cup
    {"PROFILE_ANALYSIS", "INTERVIEW_PLANNING", "FOLLOW_UP", "EVALUATING",
     "DECISION", "REPORTING"}

EndStages == {"FINISHED", "FAILED"}

\* Where run_until_waiting_or_done returns.
StopStages == EndStages \cup {"LISTENING", "WAITING_HUMAN_REVIEW"}

Stages == AgentStages \cup StopStages \cup {"INIT", "QUESTIONING"}

TypeOK ==
    /\ stage \in Stages
    /\ plan \in PlanType
    /\ question_budget \in Nat
    /\ follow_up_budget \in Nat
    /\ coverage \in CoverageType
    /\ current_dimension \in Dims \cup {NoDimension}
    /\ current_question \in [id : QuestionId, dimension : Dims \cup {NoDimension}]
    /\ question_history \in Seq(QuestionId)
    /\ asked_question_ids \in SUBSET QuestionId
    /\ rounds \in Seq(Nat)
    /\ answers \in Seq(QuestionId)
    /\ evaluations \in Seq(QuestionId)
    /\ decisions \in Seq(QuestionId)
    /\ latest_evaluation \in [missing : BOOLEAN, confident : BOOLEAN]
    /\ followed_targets \in SUBSET Targets
    /\ report \in BOOLEAN
    /\ review_status \in {"not_required", "pending", "approved", "rejected"}
    /\ expired \in BOOLEAN
    /\ late_questions \in Nat
    /\ driver \in {"idle", "running"}
    /\ steps \in Nat

\* start_session saves a fresh board; start_interview then drives it.
Init ==
    /\ stage = "INIT"
    /\ plan = EmptyPlan
    /\ question_budget = 0 /\ follow_up_budget = 0
    /\ coverage = [d \in Dims |-> 0]
    /\ current_dimension = NoDimension /\ current_question = NoQuestion
    /\ question_history = << >> /\ asked_question_ids = {} /\ rounds = << >>
    /\ answers = << >> /\ evaluations = << >> /\ decisions = << >>
    /\ latest_evaluation = [missing |-> FALSE, confident |-> FALSE]
    /\ followed_targets = {}
    /\ report = FALSE /\ review_status = "not_required"
    /\ expired = FALSE /\ late_questions = 0
    /\ driver = "running" /\ steps = 0

-----------------------------------------------------------------------------
(* TransitionGuard *)

\* The decisions FollowUpAgent can reach: none when _select_target finds no
\* reason to follow up; otherwise the model may still decline, and the target
\* and the confidence of its draft are free.
FollowUpWanted ==
    /\ ~IsFollowUp(current_question)
    /\ follow_up_budget > 0
    /\ current_dimension # NoDimension
    /\ plan.follow_up_budget[current_dimension] > 0
    /\ latest_evaluation.confident
    /\ latest_evaluation.missing
    /\ coverage[current_dimension] < SaturatedCoverage

Decline == [need_follow_up |-> FALSE, confident |-> TRUE]

AgentDecisions ==
    {Decline} \cup
    (IF FollowUpWanted
     THEN [need_follow_up : {TRUE}, confident : BOOLEAN, target : Targets]
     ELSE {})

CurrentQuestionRound ==
    IF current_question = NoQuestion THEN 0 ELSE rounds[Parent(current_question)]

\* Mutant: the test of followed_targets is dropped.
AllowRepeatedFollowUp(decision) ==
    /\ decision.need_follow_up /\ decision.confident
    /\ follow_up_budget > 0
    /\ current_dimension # NoDimension
    /\ plan.follow_up_budget[current_dimension] > 0
    /\ ~expired
    /\ CurrentQuestionRound < MaxFollowUpRounds

AllowFollowUp(decision) ==
    /\ decision.need_follow_up
    /\ decision.confident
    /\ follow_up_budget > 0
    /\ current_dimension # NoDimension
    /\ plan.follow_up_budget[current_dimension] > 0
    /\ ~expired
    /\ decision.target \notin followed_targets
    /\ CurrentQuestionRound < MaxFollowUpRounds

\* Mutants: no dimension need be open; the limit is off by one; a session
\* that timed out goes on.
AllowNextWithoutDimension ==
    /\ question_budget > 0
    /\ Cardinality(asked_question_ids) < SessionQuestionLimit
    /\ ~expired

AllowNextOverLimit ==
    /\ question_budget > 0
    /\ OpenDimensions(plan, coverage) # {}
    /\ Cardinality(asked_question_ids) <= SessionQuestionLimit
    /\ ~expired

AllowNextAfterTimeout ==
    /\ question_budget > 0
    /\ OpenDimensions(plan, coverage) # {}
    /\ Cardinality(asked_question_ids) < SessionQuestionLimit

AllowNextQuestion ==
    /\ question_budget > 0
    /\ OpenDimensions(plan, coverage) # {}
    /\ Cardinality(asked_question_ids) < SessionQuestionLimit
    /\ ~expired

-----------------------------------------------------------------------------
(* InterviewRuntime.run_step, one action per stage and outcome.  Each is   *)
(* one iteration of the driver loop.                                       *)

Step == /\ driver = "running"
        /\ steps < MaxSteps
        /\ steps' = steps + 1
        /\ UNCHANGED <<driver, expired>>

Begin ==
    /\ stage = "INIT" /\ Step
    /\ stage' = "PROFILE_ANALYSIS"
    /\ UNCHANGED <<planVars, questionVars, answers, assessVars, reportVars>>

PublishProfile ==
    /\ stage = "PROFILE_ANALYSIS" /\ Step
    /\ stage' = "INTERVIEW_PLANNING"
    /\ UNCHANGED <<planVars, questionVars, answers, assessVars, reportVars>>

PublishPlan ==
    /\ stage = "INTERVIEW_PLANNING" /\ Step
    /\ \E dims \in SUBSET Dims : \E core \in SUBSET dims :
          plan' = CreatePlan(dims, core)
    /\ question_budget' = plan'.total_question_budget
    /\ follow_up_budget' = plan'.total_follow_up_budget
    /\ stage' = "QUESTION_PREPARING"
    /\ UNCHANGED <<followed_targets, questionVars, answers, assessVars, reportVars>>

\* publish(QuestionArtifact), the part common to main and follow-up questions.
Publish(id, d) ==
    /\ current_question' = [id |-> id, dimension |-> d]
    /\ current_dimension' = d
    /\ question_history' = Append(question_history, id)
    /\ asked_question_ids' = asked_question_ids \cup {id}
    /\ late_questions' = late_questions + (IF expired THEN 1 ELSE 0)
    /\ stage' = "QUESTIONING"

PublishMainQuestion ==
    /\ stage \in QuestionStages /\ Step
    /\ \E d \in NextDimension(plan, coverage) :
          /\ Publish(<<Len(rounds) + 1, 0>>, d)
          /\ plan' = MarkQuestionAsked(Refresh(plan, coverage), d)
    /\ rounds' = Append(rounds, 0)
    /\ question_budget' = Larger(0, question_budget - 1)
    /\ UNCHANGED <<follow_up_budget, followed_targets, answers, assessVars, reportVars>>

\* Mutant: the counter of the parent misses the follow-up.
PublishFollowUpUncounted ==
    /\ stage = "FOLLOW_UP" /\ Step
    /\ LET parent == Parent(current_question)
       IN  Publish(<<parent, rounds[parent] + 1>>, current_question.dimension)
    /\ UNCHANGED <<rounds, planVars, answers, assessVars, reportVars>>

PublishFollowUp ==
    /\ stage = "FOLLOW_UP" /\ Step
    /\ LET parent == Parent(current_question)
           round == rounds[parent] + 1
       IN  /\ Publish(<<parent, round>>, current_question.dimension)
           /\ rounds' = [rounds EXCEPT ![parent] = round]
    /\ UNCHANGED <<planVars, answers, assessVars, reportVars>>

\* Mutant: the stage reached is not saved.
AskQuestionUnsaved ==
    /\ stage = "QUESTIONING" /\ Step
    /\ UNCHANGED sessionVars

AskQuestion ==
    /\ stage = "QUESTIONING" /\ Step
    /\ stage' = "LISTENING"
    /\ UNCHANGED <<planVars, questionVars, answers, assessVars, reportVars>>

\* EvaluatorAgent scores the current question's dimension only.
PublishEvaluation ==
    /\ stage = "EVALUATING" /\ Step
    /\ \E score \in Scores, evidence \in EvidenceCounts, missing, confident \in BOOLEAN :
          LET d == current_question.dimension
              covered == UpdateDimension(coverage, d, score, evidence)
          IN  /\ coverage' = covered
              /\ plan' = ApplyEvaluation(plan, d, score, missing, covered)
              /\ latest_evaluation' = [missing |-> missing, confident |-> confident]
    /\ evaluations' = Append(evaluations, current_question.id)
    /\ stage' = "DECISION"
    /\ UNCHANGED <<question_budget, follow_up_budget, followed_targets, questionVars,
                   answers, decisions, reportVars>>

Decide ==
    /\ stage = "DECISION" /\ Step
    /\ decisions' = Append(decisions, current_question.id)
    /\ UNCHANGED <<question_budget, questionVars, answers, evaluations,
                   latest_evaluation, coverage, reportVars>>

\* Mutant: the session's follow_up_budget is not charged.
DecideFreeFollowUp ==
    /\ Decide
    /\ \E decision \in AgentDecisions :
          /\ AllowFollowUp(decision)
          /\ followed_targets' = followed_targets \cup {decision.target}
    /\ plan' = [plan EXCEPT !.follow_up_budget[current_dimension] = @ - 1]
    /\ stage' = "FOLLOW_UP"
    /\ UNCHANGED follow_up_budget

DecideFollowUp ==
    /\ Decide
    /\ \E decision \in AgentDecisions :
          /\ AllowFollowUp(decision)
          /\ followed_targets' = followed_targets \cup {decision.target}
    /\ follow_up_budget' = follow_up_budget - 1
    /\ plan' = [plan EXCEPT !.follow_up_budget[current_dimension] = @ - 1]
    /\ stage' = "FOLLOW_UP"

DecideNextQuestion ==
    /\ Decide
    /\ \E decision \in AgentDecisions : ~AllowFollowUp(decision)
    /\ AllowNextQuestion
    /\ stage' = IF \E d \in NextDimension(plan, coverage) :
                      current_dimension # NoDimension /\ d # current_dimension
                THEN "NEXT_DIMENSION" ELSE "NEXT_QUESTION"
    /\ plan' = Refresh(plan, coverage)
    /\ UNCHANGED <<follow_up_budget, followed_targets>>

DecideReport ==
    /\ Decide
    /\ \E decision \in AgentDecisions : ~AllowFollowUp(decision)
    /\ ~AllowNextQuestion
    /\ plan' = Refresh(plan, coverage)
    /\ stage' = "REPORTING"
    /\ UNCHANGED <<follow_up_budget, followed_targets>>

\* HumanReviewPolicy.evaluate with its defaults.  ReportAgent leaves the report's
\* confidence at 1.0 and every evaluation adds at least one evidence item.
\* Mutant: coverage is not looked at.
ReviewWithoutCoverage == evaluations = << >>

ReviewRequired ==
    \/ evaluations = << >>
    \/ \E d \in Dims : coverage[d] # 0 /\ coverage[d] < MinReviewCoverage

PublishReport ==
    /\ stage = "REPORTING" /\ Step
    /\ report' = TRUE
    /\ review_status' = IF ReviewRequired THEN "pending" ELSE "not_required"
    /\ stage' = IF ReviewRequired THEN "WAITING_HUMAN_REVIEW" ELSE "FINISHED"
    /\ UNCHANGED <<planVars, questionVars, answers, assessVars>>

\* The executor gave up on the agent (error or timeout in every attempt).  A
\* failing question run may already have selected a dimension on the board.
AgentFails ==
    /\ stage \in AgentStages /\ Step
    /\ stage' = "FAILED"
    /\ \/ UNCHANGED <<plan, current_dimension>>
       \/ /\ stage \in QuestionStages
          /\ current_dimension' \in NextDimension(plan, coverage)
          /\ plan' = Refresh(plan, coverage)
    /\ UNCHANGED <<question_budget, follow_up_budget, followed_targets, current_question,
                   question_history, asked_question_ids, rounds, late_questions,
                   answers, assessVars, reportVars>>

-----------------------------------------------------------------------------
(* The driver loop and its callers *)

DriverReturns ==
    /\ driver = "running" /\ stage \in StopStages /\ steps < MaxSteps
    /\ driver' = "idle" /\ steps' = 0
    /\ UNCHANGED <<sessionVars, expired>>

\* The loop ran out of iterations: RuntimeError, whatever stage was reached.
StepBudgetExhausted ==
    /\ driver = "running" /\ steps = MaxSteps
    /\ driver' = "idle" /\ steps' = 0
    /\ UNCHANGED <<sessionVars, expired>>

\* Mutant: the stage is not checked.
SubmitAnswerAnytime ==
    /\ driver = "idle" /\ current_question # NoQuestion
    /\ answers' = Append(answers, current_question.id)
    /\ stage' = "EVALUATING"
    /\ driver' = "running" /\ steps' = 0
    /\ UNCHANGED <<planVars, questionVars, assessVars, reportVars, expired>>

\* receive_answer, then the driver.
SubmitAnswer ==
    /\ driver = "idle" /\ stage = "LISTENING" /\ current_question # NoQuestion
    /\ answers' = Append(answers, current_question.id)
    /\ stage' = "EVALUATING"
    /\ driver' = "running" /\ steps' = 0
    /\ UNCHANGED <<planVars, questionVars, assessVars, reportVars, expired>>

ResumeInterview ==
    /\ driver = "idle"
    /\ driver' = "running" /\ steps' = 0
    /\ UNCHANGED <<sessionVars, expired>>

\* Mutant: a closed session can be ruled on again.
ReviewClosedSession ==
    /\ driver = "idle" /\ stage \in {"WAITING_HUMAN_REVIEW", "FINISHED", "FAILED"}
    /\ \E approved \in BOOLEAN :
          /\ review_status' = IF approved THEN "approved" ELSE "rejected"
          /\ stage' = IF approved THEN "FINISHED" ELSE "FAILED"
    /\ UNCHANGED <<planVars, questionVars, answers, assessVars, report, expired,
                   driver, steps>>

SubmitHumanReview ==
    /\ driver = "idle" /\ stage = "WAITING_HUMAN_REVIEW"
    /\ \E approved \in BOOLEAN :
          /\ review_status' = IF approved THEN "approved" ELSE "rejected"
          /\ stage' = IF approved THEN "FINISHED" ELSE "FAILED"
    /\ UNCHANGED <<planVars, questionVars, answers, assessVars, report, expired,
                   driver, steps>>

\* The process dies; a new one finds the last saved board, timestamps included.
Crash ==
    /\ driver = "running"
    /\ driver' = "idle" /\ steps' = 0
    /\ UNCHANGED <<sessionVars, expired>>

TimeOut ==
    /\ ~expired
    /\ expired' = TRUE
    /\ UNCHANGED <<sessionVars, driver, steps>>

RunStep ==
    \/ Begin \/ PublishProfile \/ PublishPlan \/ PublishMainQuestion \/ PublishFollowUp
    \/ AskQuestion \/ PublishEvaluation
    \/ DecideFollowUp \/ DecideNextQuestion \/ DecideReport
    \/ PublishReport \/ AgentFails

Next ==
    \/ RunStep \/ DriverReturns \/ StepBudgetExhausted \/ SubmitAnswer \/ ResumeInterview
    \/ SubmitHumanReview \/ Crash \/ TimeOut

Spec == Init /\ [][Next]_vars

(* The driver keeps running its loop; a crash may hit it, not every time.  The  *)
(* candidate keeps answering, the reviewer rules and somebody resumes a session *)
(* whose driver died: nothing in the code forces them to, and InterviewEnds     *)
(* says what happens when they do.                                              *)
RuntimeFairness == SF_vars(RunStep) /\ SF_vars(DriverReturns)
CallersPersist == SF_vars(SubmitAnswer) /\ SF_vars(SubmitHumanReview) /\ WF_vars(ResumeInterview)

FairSpec == Spec /\ RuntimeFairness /\ CallersPersist
-----------------------------------------------------------------------------
(* Properties *)

\* The three logs follow the question log: an answer, an evaluation and a
\* decision belong to the question asked at the same position, none is skipped
\* or doubled, and only the current question can lack one.
LogsFollowQuestions ==
    /\ \A i \in DOMAIN answers : i \in DOMAIN question_history /\ answers[i] = question_history[i]
    /\ \A i \in DOMAIN evaluations : i \in DOMAIN answers /\ evaluations[i] = answers[i]
    /\ \A i \in DOMAIN decisions : i \in DOMAIN evaluations /\ decisions[i] = evaluations[i]
    /\ Len(decisions) + 1 >= Len(question_history)
    /\ stage \notin {"QUESTIONING", "LISTENING", "FAILED"} => Len(answers) = Len(question_history)
    /\ stage \notin {"QUESTIONING", "LISTENING", "EVALUATING", "FAILED"} =>
          Len(evaluations) = Len(question_history)
    /\ stage \notin {"QUESTIONING", "LISTENING", "EVALUATING", "DECISION", "FAILED"} =>
          Len(decisions) = Len(question_history)

\* The budgets the planner granted are spent exactly: one unit of question_budget
\* per main question (the max(0, ...) of publish never hides an overspend) and one
\* unit of follow_up_budget per followed target.
BudgetsConserved ==
    /\ question_budget + Len(rounds) = plan.total_question_budget
    /\ follow_up_budget + Cardinality(followed_targets) = plan.total_follow_up_budget

\* Every id in use is below the counters the next ids are computed from.
IdsBelowCounters ==
    \A id \in asked_question_ids : id[1] \in DOMAIN rounds /\ id[2] <= rounds[id[1]]

\* No question id is published twice, and none that was published can be computed
\* again, although follow-up ids come from a counter kept beside the history
\* (question_follow_up_rounds).  FollowUpAgent proposes no follow-up to a follow-up,
\* so a counter that misses one would not show in a repeated id.
QuestionIdsUnique ==
    /\ Cardinality(asked_question_ids) = Len(question_history)
    /\ IdsBelowCounters

\* session_question_limit guards main questions only: a follow-up to the last one
\* may exceed it, and nothing else can.
QuestionLimit == Cardinality(asked_question_ids) <= SessionQuestionLimit + 1

RemainingQuestions ==
    FoldFunction(+, 0, [d \in Dims |-> plan.question_budget[d] - plan.asked_questions[d]])

\* Releasing and redistributing question budget never overdraws a dimension, and
\* never hands out more questions than the session's own budget still covers, so
\* the question_budget test of allow_next_question is never what ends a session.
\* Of dimensions with distinct names (see InterviewPlan).
DimensionBudgetsCovered ==
    /\ \A d \in Dims : plan.asked_questions[d] <= plan.question_budget[d]
    /\ RemainingQuestions <= question_budget

\* next_dimension writes to the plan while it is asked a question; after an
\* evaluation those writes change nothing, so no dimension is closed behind the
\* back of the redistribution.  Of dimensions with distinct names (see InterviewPlan).
PlanTracksCoverage == Refresh(plan, coverage) = plan

\* When the guard promised another question, question generation finds the
\* dimension the guard saw: _select_dimension cannot raise, and NEXT_DIMENSION is
\* left for a dimension other than the current one.
PromisedQuestionExists ==
    /\ stage \in {"NEXT_QUESTION", "NEXT_DIMENSION"} => NextDimension(plan, coverage) # {}
    /\ stage = "NEXT_DIMENSION" => current_dimension \notin NextDimension(plan, coverage)
    /\ stage = "NEXT_QUESTION" => current_dimension \in NextDimension(plan, coverage)

\* After the session timed out at most the question already decided is asked.
OneLateQuestion == late_questions <= 1

\* A finished interview has its report, and a report over a dimension with thin
\* coverage is never final without a human approval.
ReviewGate ==
    /\ stage \in {"FINISHED", "WAITING_HUMAN_REVIEW"} => report /\ evaluations # << >>
    /\ stage = "WAITING_HUMAN_REVIEW" => review_status = "pending"
    /\ stage = "FINISHED" =>
          \/ review_status = "approved"
          \/ \A d \in Dims : coverage[d] = 0 \/ coverage[d] >= MinReviewCoverage

\* max_steps is never what stops the driver: from any stage a session can be left
\* in, fewer iterations reach one where it waits.
StepBudgetSuffices == ~(driver = "running" /\ steps = MaxSteps)

\* A dimension that was completed is closed for good: it gets no main question and
\* no budget from another dimension.
CompletedDimensionsClosed ==
    [][\A d \in Dims : plan.completed[d] =>
          /\ plan'.completed[d]
          /\ plan'.asked_questions[d] = plan.asked_questions[d]
          /\ plan'.question_budget[d] <= plan.question_budget[d]]_vars

\* An interview that ended stays as it ended, whoever resumes it.
EndIsFinal == [][(stage \in EndStages) => UNCHANGED sessionVars]_vars

\* With callers that keep answering, ruling and resuming, every interview ends.
InterviewEnds == <>(stage \in EndStages)

\* docs/architecture_audit.md, section 8: a follow-up requires question_budget > 0.
AuditFollowUpRule ==
    [][stage = "DECISION" /\ stage' = "FOLLOW_UP" => question_budget > 0]_vars

-----------------------------------------------------------------------------
(* The inductive invariant: what the properties above need to be preserved  *)
(* by every step.                                                           *)

SetupStages == {"INIT", "PROFILE_ANALYSIS", "INTERVIEW_PLANNING"}

\* Once a question was published, the current one is a published one.
QuestionPlaced ==
    stage \notin SetupStages \cup {"QUESTION_PREPARING", "FAILED"} =>
        /\ Parent(current_question) \in DOMAIN rounds
        /\ current_question.dimension \in Dims

\* Nothing is asked before the plan, and a promised question is still in budget.
BudgetAvailable ==
    /\ stage \in SetupStages \cup {"QUESTION_PREPARING"} =>
          rounds = << >> /\ followed_targets = {}
    /\ stage \in SetupStages => plan = EmptyPlan /\ question_budget = 0 /\ follow_up_budget = 0
    /\ stage = "QUESTION_PREPARING" /\ plan.dims # {} => question_budget > 0
    /\ stage \in {"NEXT_QUESTION", "NEXT_DIMENSION"} => question_budget > 0

\* A log lags the questions by one entry in the stages that still owe it.
Owes(log, stages) ==
    /\ Len(log) <= Len(question_history) /\ Len(question_history) <= Len(log) + 1
    /\ stage \in stages => Len(question_history) = Len(log) + 1
    /\ stage \notin stages \cup {"FAILED"} => Len(question_history) = Len(log)

LogsInStep ==
    /\ Owes(answers, {"QUESTIONING", "LISTENING"})
    /\ Owes(evaluations, {"QUESTIONING", "LISTENING", "EVALUATING"})
    /\ Owes(decisions, {"QUESTIONING", "LISTENING", "EVALUATING", "DECISION"})

CurrentIsLast ==
    stage \notin SetupStages \cup {"QUESTION_PREPARING", "FAILED"} =>
        /\ question_history # << >>
        /\ current_question.id = question_history[Len(question_history)]

\* Nothing is scored before the plan.
UnscoredBeforePlan == stage \in SetupStages => coverage = [d \in Dims |-> 0]

\* The dimension on the board is the one of the current question.
DimensionOfQuestion ==
    stage \notin SetupStages \cup {"QUESTION_PREPARING", "FAILED"} =>
        current_dimension = current_question.dimension

\* A question that is late is the last one.
LateIsLast ==
    /\ ~expired => late_questions = 0
    /\ stage \in SetupStages \cup QuestionStages \cup {"FOLLOW_UP"} => late_questions = 0

\* Only the follow-up to the last main question exceeds the limit.
QuestionsCounted ==
    /\ stage \in SetupStages \cup {"QUESTION_PREPARING"} => asked_question_ids = {}
    /\ stage \in {"NEXT_QUESTION", "NEXT_DIMENSION"} =>
          Cardinality(asked_question_ids) < SessionQuestionLimit
    /\ stage = "FOLLOW_UP" => ~IsFollowUp(current_question)
    /\ ~IsFollowUp(current_question) => Cardinality(asked_question_ids) <= SessionQuestionLimit

\* run_step calls that bring a stage to one where the driver returns.
StepsToStop(s) ==
    CASE s = "INIT" -> 5
      [] s = "PROFILE_ANALYSIS" -> 4
      [] s = "INTERVIEW_PLANNING" -> 3
      [] s \in QuestionStages \cup {"FOLLOW_UP"} -> 2
      [] s = "QUESTIONING" -> 1
      [] s = "EVALUATING" -> 4
      [] s = "DECISION" -> 3
      [] s = "REPORTING" -> 1
      [] OTHER -> 0

StepsBounded == driver = "running" => steps + StepsToStop(stage) <= 5

-----------------------------------------------------------------------------
(* The session implements InterviewFlow. *)

PhaseOf(s) ==
    CASE s \in SetupStages -> "setup"
      [] s \in QuestionStages \cup {"FOLLOW_UP"} -> "ask"
      [] s \in {"QUESTIONING", "LISTENING"} -> "listen"
      [] s \in {"EVALUATING", "DECISION"} -> "assess"
      [] s = "REPORTING" -> "report"
      [] s = "WAITING_HUMAN_REVIEW" -> "review"
      [] s = "FINISHED" -> "closed"
      [] OTHER -> "failed"

\* A follow-up is paid for when it is granted, before it is asked.
Credit == question_budget + follow_up_budget + (IF stage = "FOLLOW_UP" THEN 1 ELSE 0)

Flow == INSTANCE InterviewFlow WITH phase <- PhaseOf(stage), credit <- Credit

\* The session only ever does what an interview promises.
ImplementsFlow == Flow!FlowSpec
=============================================================================
