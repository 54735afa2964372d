------------------------ MODULE InterviewSessionProofs ------------------------
(***************************************************************************)
(* Theorems about InterviewSession, for every number of dimensions, all    *)
(* weights, any finite set of targets and any limits.  First types,        *)
(* budgets and logs; on them ids, end states, the review gate, the plan,   *)
(* the promises of a decision and the limits; last the driver's budget and *)
(* the refinement of InterviewFlow.                                        *)
(***************************************************************************)
EXTENDS InterviewSession, InterviewPlanProofs, SequenceTheorems

TypeInv == TypeOK /\ QuestionPlaced

\* A fresh board has the type, and no question that would have to be placed.
LEMMA InitTypeInv == Init => TypeInv
<1>. SUFFICES ASSUME Init PROVE TypeInv
  OBVIOUS
<1>1. EmptyPlan \in PlanType
  BY CreatePlanType DEF EmptyPlan
<1>2. coverage \in CoverageType /\ plan \in PlanType
  BY <1>1 DEF Init, CoverageType, Percent
<1>3. current_question \in [id : QuestionId, dimension : Dims \cup {NoDimension}]
  <2>1. <<0, 0>> \in QuestionId
    BY DEF QuestionId
  <2>. QED
    BY <2>1 DEF Init, NoQuestion
<1>4. /\ question_history \in Seq(QuestionId) /\ rounds \in Seq(Nat) /\ answers \in Seq(QuestionId)
      /\ evaluations \in Seq(QuestionId) /\ decisions \in Seq(QuestionId)
  BY DEF Init
<1>5. stage \in Stages /\ QuestionPlaced
  BY DEF Init, QuestionPlaced, Stages, SetupStages
<1>. QED
  BY <1>2, <1>3, <1>4, <1>5 DEF Init, TypeInv, TypeOK

\* The steps that publish nothing: only the stage moves.
LEMMA BeginType == TypeInv /\ Begin => TypeInv'
  BY DEF TypeInv, TypeOK, QuestionPlaced, Begin, Step, planVars, questionVars, assessVars,
     reportVars, Stages, AgentStages, SetupStages

\* Publishing the profile moves the stage only.
LEMMA PublishProfileType == TypeInv /\ PublishProfile => TypeInv'
  BY DEF TypeInv, TypeOK, QuestionPlaced, PublishProfile, Step, planVars, questionVars,
     assessVars, reportVars, Stages, AgentStages, SetupStages

\* Presenting the question moves the stage only.
LEMMA AskQuestionType == TypeInv /\ AskQuestion => TypeInv'
  BY DEF TypeInv, TypeOK, QuestionPlaced, AskQuestion, Step, planVars, questionVars,
     assessVars, reportVars, Stages, StopStages, SetupStages, Parent

\* The planner's plan is a plan, and its totals are the session's budgets.
LEMMA PublishPlanType == TypeInv /\ PublishPlan => TypeInv'
<1>. SUFFICES ASSUME TypeInv, PublishPlan PROVE TypeInv'
  OBVIOUS
<1>. USE DEF TypeInv
<1>1. PICK dims \in SUBSET Dims : \E core \in SUBSET dims : plan' = CreatePlan(dims, core)
  BY DEF PublishPlan
<1>2. plan' \in PlanType
  BY <1>1, CreatePlanType
<1>3. question_budget' \in Nat /\ follow_up_budget' \in Nat
  BY <1>2 DEF PublishPlan, PlanType
<1>. QED
  BY <1>2, <1>3 DEF TypeOK, QuestionPlaced, PublishPlan, Step, questionVars, assessVars,
     reportVars, Stages, AgentStages, QuestionStages, SetupStages

\* What publishing any question writes is of its type.
LEMMA PublishType ==
    ASSUME TypeOK, NEW id \in QuestionId, NEW d \in Dims, Publish(id, d)
    PROVE  /\ current_question' \in [id : QuestionId, dimension : Dims \cup {NoDimension}]
           /\ current_dimension' \in Dims \cup {NoDimension}
           /\ question_history' \in Seq(QuestionId)
           /\ asked_question_ids' \in SUBSET QuestionId
           /\ late_questions' \in Nat
           /\ stage' = "QUESTIONING"
<1>1. current_question' \in [id : QuestionId, dimension : Dims \cup {NoDimension}]
  BY DEF Publish
<1>2. question_history' \in Seq(QuestionId) /\ asked_question_ids' \in SUBSET QuestionId
  BY DEF Publish, TypeOK
<1>3. late_questions' \in Nat
  BY DEF Publish, TypeOK
<1>. QED
  BY <1>1, <1>2, <1>3 DEF Publish

\* A main question is placed under the ordinal its round counter gets.
LEMMA PublishMainQuestionType == TypeInv /\ PublishMainQuestion => TypeInv'
<1>. SUFFICES ASSUME TypeInv, PublishMainQuestion PROVE TypeInv'
  OBVIOUS
<1>. USE DEF TypeInv
<1>1. PICK d \in NextDimension(plan, coverage) :
         /\ Publish(<<Len(rounds) + 1, 0>>, d)
         /\ plan' = MarkQuestionAsked(Refresh(plan, coverage), d)
  BY DEF PublishMainQuestion
<1>2. d \in Dims
  BY NextDimensionPlanned DEF TypeOK
<1>3. plan' \in PlanType
  BY <1>1, <1>2, RefreshType, MarkQuestionAskedType DEF TypeOK
<1>4. rounds \in Seq(Nat) /\ rounds' = Append(rounds, 0) /\ Len(rounds) \in Nat
  BY DEF TypeOK, PublishMainQuestion
<1>5. /\ rounds' \in Seq(Nat)
      /\ Len(rounds) + 1 \in DOMAIN rounds'
      /\ <<Len(rounds) + 1, 0>> \in QuestionId
  BY <1>4 DEF QuestionId
<1>6. question_budget' \in Nat
  BY DEF TypeOK, PublishMainQuestion, Larger
<1>7. /\ current_question' \in [id : QuestionId, dimension : Dims \cup {NoDimension}]
      /\ current_dimension' \in Dims \cup {NoDimension}
      /\ question_history' \in Seq(QuestionId)
      /\ asked_question_ids' \in SUBSET QuestionId
      /\ late_questions' \in Nat
      /\ stage' = "QUESTIONING"
  BY <1>1, <1>2, <1>5, PublishType
<1>8. QuestionPlaced'
  BY <1>1, <1>2, <1>5 DEF QuestionPlaced, Publish, Parent
<1>. QED
  BY <1>3, <1>5, <1>6, <1>7, <1>8 DEF TypeOK, PublishMainQuestion, Step, assessVars, reportVars,
     Stages

\* A follow-up is placed under the main question it belongs to.
LEMMA PublishFollowUpType == TypeInv /\ PublishFollowUp => TypeInv'
<1>. SUFFICES ASSUME TypeInv, PublishFollowUp PROVE TypeInv'
  OBVIOUS
<1>. USE DEF TypeInv
<1> DEFINE parent == Parent(current_question)
           round == rounds[parent] + 1
<1>1. parent \in DOMAIN rounds /\ current_question.dimension \in Dims
  BY DEF PublishFollowUp, QuestionPlaced, SetupStages
<1>2. /\ Publish(<<parent, round>>, current_question.dimension)
      /\ rounds' = [rounds EXCEPT ![parent] = round]
  BY DEF PublishFollowUp
<1>3. round \in Nat /\ parent \in Nat
  BY <1>1 DEF TypeOK
<1>4. rounds' \in Seq(Nat) /\ DOMAIN rounds' = DOMAIN rounds
  BY <1>1, <1>2, <1>3 DEF TypeOK
<1>. HIDE DEF parent, round
<1>5. <<parent, round>> \in QuestionId
  BY <1>3 DEF QuestionId
<1>6. /\ current_question' \in [id : QuestionId, dimension : Dims \cup {NoDimension}]
      /\ current_dimension' \in Dims \cup {NoDimension}
      /\ question_history' \in Seq(QuestionId)
      /\ asked_question_ids' \in SUBSET QuestionId
      /\ late_questions' \in Nat
      /\ stage' = "QUESTIONING"
  BY <1>1, <1>2, <1>5, PublishType
<1>7. QuestionPlaced'
  BY <1>1, <1>2, <1>4 DEF QuestionPlaced, Publish, Parent
<1>. QED
  BY <1>4, <1>6, <1>7 DEF TypeOK, PublishFollowUp, Step, planVars, assessVars, reportVars, Stages

\* An evaluation writes a coverage and a plan of their types.
LEMMA PublishEvaluationType == TypeInv /\ PublishEvaluation => TypeInv'
<1>. SUFFICES ASSUME TypeInv, PublishEvaluation PROVE TypeInv'
  OBVIOUS
<1>. USE DEF TypeInv
<1> DEFINE d == current_question.dimension
<1>1. d \in Dims
  BY DEF PublishEvaluation, QuestionPlaced, SetupStages
<1>2. PICK score \in Scores, evidence \in EvidenceCounts, missing \in BOOLEAN, confident \in BOOLEAN :
         /\ coverage' = UpdateDimension(coverage, d, score, evidence)
         /\ plan' = ApplyEvaluation(plan, d, score, missing, coverage')
         /\ latest_evaluation' = [missing |-> missing, confident |-> confident]
  BY Zenon DEF PublishEvaluation
<1>3. score \in Percent /\ evidence \in Nat
  BY SessionAssumption
<1>. HIDE DEF d
<1>4. coverage' \in CoverageType
  BY <1>1, <1>2, <1>3, UpdateDimensionType DEF TypeOK
<1>5. plan' \in PlanType
  BY <1>1, <1>2, <1>3, <1>4, ApplyEvaluationType DEF TypeOK
<1>6. latest_evaluation' \in [missing : BOOLEAN, confident : BOOLEAN]
  BY <1>2
<1>7. evaluations' \in Seq(QuestionId)
  BY DEF TypeOK, PublishEvaluation
<1>8. stage' = "DECISION" /\ QuestionPlaced'
  BY <1>1 DEF PublishEvaluation, QuestionPlaced, questionVars, SetupStages, Parent
<1>. QED
  BY <1>4, <1>5, <1>6, <1>7, <1>8 DEF TypeOK, PublishEvaluation, Step, questionVars, reportVars,
     Stages, AgentStages

\* Both follow-up budgets were positive and stay natural numbers.
LEMMA DecideFollowUpType == TypeInv /\ DecideFollowUp => TypeInv'
<1>. SUFFICES ASSUME TypeInv, DecideFollowUp PROVE TypeInv'
  OBVIOUS
<1>. USE DEF TypeInv
<1>1. PICK decision \in AgentDecisions :
         /\ AllowFollowUp(decision)
         /\ followed_targets' = followed_targets \cup {decision.target}
  BY DEF DecideFollowUp
<1>2. decision.target \in Targets
  <2>1. decision.need_follow_up
    BY <1>1 DEF AllowFollowUp
  <2>2. decision # Decline
    BY <2>1 DEF Decline
  <2>3. decision \in [need_follow_up : {TRUE}, confident : BOOLEAN, target : Targets]
    BY <2>2 DEF AgentDecisions
  <2>. QED
    BY <2>3
<1>3. followed_targets' \in SUBSET Targets
  BY <1>1, <1>2 DEF TypeOK
<1>4. /\ follow_up_budget > 0
      /\ current_dimension \in Dims
      /\ plan.follow_up_budget[current_dimension] > 0
  BY <1>1 DEF AllowFollowUp, TypeOK
<1>5. follow_up_budget' \in Nat
  BY <1>4 DEF DecideFollowUp, TypeOK
<1>6. plan' \in PlanType
  <2>1. plan.follow_up_budget[current_dimension] - 1 \in Nat
    BY <1>4 DEF TypeOK, PlanType
  <2>2. plan' = [plan EXCEPT !.follow_up_budget[current_dimension] =
                    plan.follow_up_budget[current_dimension] - 1]
    BY DEF DecideFollowUp
  <2>. QED
    BY <1>4, <2>1, <2>2 DEF TypeOK, PlanType
<1>7. decisions' \in Seq(QuestionId)
  BY DEF DecideFollowUp, Decide, TypeOK
<1>. QED
  BY <1>3, <1>5, <1>6, <1>7 DEF TypeOK, QuestionPlaced, DecideFollowUp, Decide, Step, questionVars,
     reportVars, Stages, AgentStages, SetupStages, Parent

\* The decision for another question refreshes the plan.
LEMMA DecideNextQuestionType == TypeInv /\ DecideNextQuestion => TypeInv'
<1>. SUFFICES ASSUME TypeInv, DecideNextQuestion PROVE TypeInv'
  OBVIOUS
<1>. USE DEF TypeInv
<1>1. plan' \in PlanType
  BY RefreshType DEF DecideNextQuestion, TypeOK
<1>2. decisions' \in Seq(QuestionId)
  BY DEF DecideNextQuestion, Decide, TypeOK
<1>3. stage = "DECISION" /\ stage' \in {"NEXT_DIMENSION", "NEXT_QUESTION"}
  BY DEF DecideNextQuestion, Decide
<1>. QED
  BY <1>1, <1>2, <1>3 DEF TypeOK, QuestionPlaced, DecideNextQuestion, Decide, Step, questionVars,
     reportVars, Stages, AgentStages, QuestionStages, SetupStages, Parent

\* The decision to report refreshes the plan.
LEMMA DecideReportType == TypeInv /\ DecideReport => TypeInv'
<1>. SUFFICES ASSUME TypeInv, DecideReport PROVE TypeInv'
  OBVIOUS
<1>. USE DEF TypeInv
<1>1. plan' \in PlanType
  BY RefreshType DEF DecideReport, TypeOK
<1>2. decisions' \in Seq(QuestionId)
  BY DEF DecideReport, Decide, TypeOK
<1>. QED
  BY <1>1, <1>2 DEF TypeOK, QuestionPlaced, DecideReport, Decide, Step, questionVars,
     reportVars, Stages, AgentStages, SetupStages, Parent

\* The report decides between the review and the end.
LEMMA PublishReportType == TypeInv /\ PublishReport => TypeInv'
  BY DEF TypeInv, TypeOK, QuestionPlaced, PublishReport, Step, planVars, questionVars, assessVars,
     Stages, StopStages, EndStages, SetupStages, Parent

\* A failing agent may leave a selected dimension and a refreshed plan.
LEMMA AgentFailsType == TypeInv /\ AgentFails => TypeInv'
<1>. SUFFICES ASSUME TypeInv, AgentFails PROVE TypeInv'
  OBVIOUS
<1>. USE DEF TypeInv
<1>1. plan' \in PlanType /\ current_dimension' \in Dims \cup {NoDimension}
  BY RefreshType, NextDimensionPlanned DEF AgentFails, TypeOK
<1>. QED
  BY <1>1 DEF TypeOK, QuestionPlaced, AgentFails, Step, assessVars, reportVars,
     Stages, StopStages, EndStages

\* An answer is logged under the current question's id.
LEMMA SubmitAnswerType == TypeInv /\ SubmitAnswer => TypeInv'
<1>. SUFFICES ASSUME TypeInv, SubmitAnswer PROVE TypeInv'
  OBVIOUS
<1>. USE DEF TypeInv
<1>1. answers' \in Seq(QuestionId)
  BY DEF SubmitAnswer, TypeOK
<1>. QED
  BY <1>1 DEF TypeOK, QuestionPlaced, SubmitAnswer, planVars, questionVars, assessVars, reportVars,
     Stages, AgentStages, SetupStages, Parent

\* A ruling ends the session.
LEMMA SubmitHumanReviewType == TypeInv /\ SubmitHumanReview => TypeInv'
  BY DEF TypeInv, TypeOK, QuestionPlaced, SubmitHumanReview, planVars, questionVars, assessVars,
     Stages, StopStages, EndStages, SetupStages, Parent

\* Steps of the driver, of the clock, and stuttering leave the session alone.
LEMMA OutsideType ==
    TypeInv /\ (\/ DriverReturns \/ StepBudgetExhausted \/ ResumeInterview \/ Crash \/ TimeOut
                \/ UNCHANGED vars) => TypeInv'
<1>. SUFFICES ASSUME TypeInv,
                     \/ DriverReturns \/ StepBudgetExhausted \/ ResumeInterview \/ Crash \/ TimeOut
                     \/ UNCHANGED vars
              PROVE  TypeInv'
  OBVIOUS
<1>1. /\ UNCHANGED sessionVars
      /\ expired' \in BOOLEAN /\ driver' \in {"idle", "running"} /\ steps' \in Nat
  <2>1. CASE DriverReturns
    BY <2>1 DEF TypeInv, TypeOK, DriverReturns
  <2>2. CASE StepBudgetExhausted
    BY <2>2 DEF TypeInv, TypeOK, StepBudgetExhausted
  <2>3. CASE ResumeInterview
    BY <2>3 DEF TypeInv, TypeOK, ResumeInterview
  <2>4. CASE Crash
    BY <2>4 DEF TypeInv, TypeOK, Crash
  <2>5. CASE TimeOut
    BY <2>5 DEF TypeInv, TypeOK, TimeOut
  <2>6. CASE UNCHANGED vars
    BY <2>6 DEF TypeInv, TypeOK, vars, sessionVars
  <2>. QED
    BY <2>1, <2>2, <2>3, <2>4, <2>5, <2>6
<1>2. QuestionPlaced'
  BY <1>1 DEF TypeInv, QuestionPlaced, sessionVars, questionVars, Parent
<1>3. TypeOK'
  BY <1>1 DEF TypeInv, TypeOK, sessionVars, planVars, questionVars, assessVars, reportVars
<1>. QED
  BY <1>2, <1>3 DEF TypeInv

\* Every step keeps the type invariant.
LEMMA NextTypeInv == TypeInv /\ [Next]_vars => TypeInv'
  BY BeginType, PublishProfileType, PublishPlanType, PublishMainQuestionType,
     PublishFollowUpType, AskQuestionType, PublishEvaluationType, DecideFollowUpType,
     DecideNextQuestionType, DecideReportType, PublishReportType, AgentFailsType,
     SubmitAnswerType, SubmitHumanReviewType, OutsideType
  DEF Next, RunStep

\* Every value on the blackboard stays of its type; budgets never go negative
\* and a question never names a round or a dimension that does not exist.
THEOREM TypeCorrect == Spec => [](TypeOK /\ QuestionPlaced)
<1>1. TypeInv <=> TypeOK /\ QuestionPlaced
  BY DEF TypeInv
<1>. QED
  BY <1>1, InitTypeInv, NextTypeInv, PTL DEF Spec

-----------------------------------------------------------------------------
(* Budgets: what the planner granted is spent exactly, and a question that was *)
(* promised is still in budget when it is asked.                               *)

BudgetInv == BudgetAvailable /\ BudgetsConserved

\* Nothing is granted and nothing spent before the plan.
LEMMA InitBudget == Init => BudgetInv
<1>. SUFFICES ASSUME Init PROVE BudgetInv
  OBVIOUS
<1>1. Cardinality({}) = 0 /\ {} \cap {} = {}
  BY FS_EmptySet
<1>2. EmptyPlan.total_question_budget = 0 /\ EmptyPlan.total_follow_up_budget = 0
  BY <1>1 DEF EmptyPlan, CreatePlan
<1>3. Len(rounds) = 0 /\ Cardinality(followed_targets) = 0
  BY <1>1 DEF Init
<1>. QED
  BY <1>2, <1>3 DEF Init, BudgetInv, BudgetAvailable, BudgetsConserved, SetupStages

\* A step that leaves the plan and the budgets alone and promises nothing new.
LEMMA UnspentStep ==
    ASSUME BudgetInv,
           UNCHANGED <<plan, question_budget, follow_up_budget, followed_targets, rounds>>,
           stage' \in SetupStages => stage \in SetupStages,
           stage' \in QuestionStages => stage' = stage
    PROVE  BudgetInv'
  BY DEF BudgetInv, BudgetAvailable, BudgetsConserved, SetupStages, QuestionStages

\* The planner's totals become the session's budgets, and no plan is without a question.
LEMMA PublishPlanBudget == TypeInv /\ BudgetInv /\ PublishPlan => BudgetInv'
<1>. SUFFICES ASSUME TypeInv, BudgetInv, PublishPlan PROVE BudgetInv'
  OBVIOUS
<1>1. PICK dims \in SUBSET Dims : \E core \in SUBSET dims : plan' = CreatePlan(dims, core)
  BY DEF PublishPlan
<1>2. plan' \in PlanType /\ (dims # {} => plan'.total_question_budget > 0) /\ plan'.dims = dims
  <2>1. PICK core \in SUBSET dims : plan' = CreatePlan(dims, core)
    BY <1>1
  <2>2. CreatePlan(dims, core) \in PlanType /\ (dims # {} => CreatePlan(dims, core).total_question_budget > 0)
    BY CreatePlanType
  <2>3. CreatePlan(dims, core).dims = dims
    BY DEF CreatePlan
  <2>. QED
    BY <2>1, <2>2, <2>3
<1>3. rounds' = << >> /\ followed_targets' = {}
  BY DEF PublishPlan, BudgetInv, BudgetAvailable, SetupStages, questionVars
<1>4. Len(rounds') = 0 /\ Cardinality(followed_targets') = 0
  BY <1>3, FS_EmptySet
<1>5. /\ question_budget' = plan'.total_question_budget
      /\ follow_up_budget' = plan'.total_follow_up_budget
      /\ stage' = "QUESTION_PREPARING"
  BY DEF PublishPlan
<1>6. BudgetsConserved'
  BY <1>2, <1>4, <1>5 DEF BudgetsConserved, PlanType
<1>7. BudgetAvailable'
  BY <1>2, <1>3, <1>5 DEF BudgetAvailable, SetupStages
<1>. QED
  BY <1>6, <1>7 DEF BudgetInv

\* One main question costs one unit of question_budget, which was there to spend.
LEMMA PublishMainQuestionBudget == TypeInv /\ BudgetInv /\ PublishMainQuestion => BudgetInv'
<1>. SUFFICES ASSUME TypeInv, BudgetInv, PublishMainQuestion PROVE BudgetInv'
  OBVIOUS
<1>. USE DEF TypeInv, BudgetInv
<1>1. PICK d \in NextDimension(plan, coverage) :
         /\ Publish(<<Len(rounds) + 1, 0>>, d)
         /\ plan' = MarkQuestionAsked(Refresh(plan, coverage), d)
  BY DEF PublishMainQuestion
<1>2. d \in Dims /\ plan.dims # {}
  BY NextDimensionPlanned DEF TypeOK
<1>3. /\ plan'.total_question_budget = plan.total_question_budget
      /\ plan'.total_follow_up_budget = plan.total_follow_up_budget
  <2> DEFINE refreshed == Refresh(plan, coverage)
  <2>1. /\ refreshed \in PlanType
        /\ refreshed.total_question_budget = plan.total_question_budget
        /\ refreshed.total_follow_up_budget = plan.total_follow_up_budget
    BY RefreshType DEF TypeOK
  <2>2. plan' = MarkQuestionAsked(refreshed, d)
    BY <1>1
  <2>. HIDE DEF refreshed
  <2>. QED
    BY <1>2, <2>1, <2>2, MarkQuestionAskedType
<1>4. question_budget > 0
  BY <1>2 DEF BudgetAvailable, PublishMainQuestion, QuestionStages
<1>5. question_budget' = question_budget - 1 /\ question_budget \in Nat
  BY <1>4 DEF PublishMainQuestion, TypeOK, Larger
<1>6. Len(rounds') = Len(rounds) + 1 /\ Len(rounds) \in Nat
  BY DEF PublishMainQuestion, TypeOK
<1>7. follow_up_budget' = follow_up_budget /\ followed_targets' = followed_targets
  BY DEF PublishMainQuestion
<1>8. BudgetsConserved'
  BY <1>3, <1>5, <1>6, <1>7 DEF BudgetsConserved
<1>9. BudgetAvailable'
  BY <1>1 DEF BudgetAvailable, Publish, SetupStages
<1>. QED
  BY <1>8, <1>9

\* A follow-up was paid for when it was granted: asking it costs nothing more.
LEMMA PublishFollowUpBudget == TypeInv /\ BudgetInv /\ PublishFollowUp => BudgetInv'
<1>. SUFFICES ASSUME TypeInv, BudgetInv, PublishFollowUp PROVE BudgetInv'
  OBVIOUS
<1>. USE DEF TypeInv, BudgetInv
<1>1. rounds \in Seq(Nat) /\ Parent(current_question) \in DOMAIN rounds
  BY DEF TypeOK, QuestionPlaced, PublishFollowUp, SetupStages
<1>2. PICK n \in Nat : rounds' = [rounds EXCEPT ![Parent(current_question)] = n]
  <2>1. rounds[Parent(current_question)] + 1 \in Nat
    BY <1>1
  <2>2. rounds' = [rounds EXCEPT ![Parent(current_question)] = rounds[Parent(current_question)] + 1]
    BY DEF PublishFollowUp
  <2>. QED
    BY <2>1, <2>2
<1>3. Len(rounds') = Len(rounds)
  BY <1>1, <1>2
<1>4. stage' = "QUESTIONING"
  BY DEF PublishFollowUp, Publish
<1>5. UNCHANGED <<plan, question_budget, follow_up_budget, followed_targets>>
  BY DEF PublishFollowUp, planVars
<1>. QED
  BY <1>3, <1>4, <1>5 DEF BudgetAvailable, BudgetsConserved, SetupStages

\* Redistribution and the raised follow-up budget of a dimension leave the totals alone.
LEMMA PublishEvaluationBudget == TypeInv /\ BudgetInv /\ PublishEvaluation => BudgetInv'
<1>. SUFFICES ASSUME TypeInv, BudgetInv, PublishEvaluation PROVE BudgetInv'
  OBVIOUS
<1>. USE DEF TypeInv, BudgetInv
<1> DEFINE d == current_question.dimension
<1>1. d \in Dims
  BY DEF PublishEvaluation, QuestionPlaced, SetupStages
<1>2. PICK score \in Scores, evidence \in EvidenceCounts, missing \in BOOLEAN, confident \in BOOLEAN :
         /\ coverage' = UpdateDimension(coverage, d, score, evidence)
         /\ plan' = ApplyEvaluation(plan, d, score, missing, coverage')
         /\ latest_evaluation' = [missing |-> missing, confident |-> confident]
  BY Zenon DEF PublishEvaluation
<1>3. score \in Percent /\ evidence \in Nat
  BY SessionAssumption
<1>. HIDE DEF d
<1>4. coverage' \in CoverageType
  BY <1>1, <1>2, <1>3, UpdateDimensionType DEF TypeOK
<1>5. /\ plan'.total_question_budget = plan.total_question_budget
      /\ plan'.total_follow_up_budget = plan.total_follow_up_budget
  BY <1>1, <1>2, <1>3, <1>4, ApplyEvaluationType DEF TypeOK
<1>6. /\ stage' = "DECISION"
      /\ UNCHANGED <<question_budget, follow_up_budget, followed_targets, rounds>>
  BY DEF PublishEvaluation, questionVars
<1>. QED
  BY <1>5, <1>6 DEF BudgetAvailable, BudgetsConserved, SetupStages

\* A granted follow-up has a new target and costs one unit of follow_up_budget.
LEMMA DecideFollowUpBudget == TypeInv /\ BudgetInv /\ DecideFollowUp => BudgetInv'
<1>. SUFFICES ASSUME TypeInv, BudgetInv, DecideFollowUp PROVE BudgetInv'
  OBVIOUS
<1>. USE DEF TypeInv, BudgetInv
<1>1. PICK decision \in AgentDecisions :
         /\ AllowFollowUp(decision)
         /\ followed_targets' = followed_targets \cup {decision.target}
  BY DEF DecideFollowUp
<1>2. IsFiniteSet(followed_targets)
  BY SessionAssumption, FS_Subset DEF TypeOK
<1>3. decision.target \notin followed_targets
  BY <1>1 DEF AllowFollowUp
<1>4. /\ Cardinality(followed_targets') = Cardinality(followed_targets) + 1
      /\ Cardinality(followed_targets) \in Nat
  BY <1>1, <1>2, <1>3, FS_AddElement, FS_CardinalityType
<1>5. follow_up_budget' = follow_up_budget - 1 /\ follow_up_budget \in Nat
  BY DEF DecideFollowUp, TypeOK
<1>6. /\ plan'.total_question_budget = plan.total_question_budget
      /\ plan'.total_follow_up_budget = plan.total_follow_up_budget
  BY DEF DecideFollowUp, TypeOK, PlanType
<1>7. stage' = "FOLLOW_UP" /\ UNCHANGED <<question_budget, rounds>>
  BY DEF DecideFollowUp, Decide, questionVars
<1>. QED
  BY <1>4, <1>5, <1>6, <1>7 DEF BudgetAvailable, BudgetsConserved, SetupStages

\* The guard promises another question only while question_budget is positive.
LEMMA DecideNextQuestionBudget == TypeInv /\ BudgetInv /\ DecideNextQuestion => BudgetInv'
<1>. SUFFICES ASSUME TypeInv, BudgetInv, DecideNextQuestion PROVE BudgetInv'
  OBVIOUS
<1>. USE DEF TypeInv, BudgetInv
<1>1. question_budget > 0
  BY DEF DecideNextQuestion, AllowNextQuestion
<1>2. /\ plan'.total_question_budget = plan.total_question_budget
      /\ plan'.total_follow_up_budget = plan.total_follow_up_budget
  BY RefreshType DEF DecideNextQuestion, TypeOK
<1>3. /\ stage' \in {"NEXT_DIMENSION", "NEXT_QUESTION"}
      /\ UNCHANGED <<question_budget, rounds, follow_up_budget, followed_targets>>
  BY DEF DecideNextQuestion, Decide, questionVars
<1>. QED
  BY <1>1, <1>2, <1>3 DEF BudgetAvailable, BudgetsConserved, SetupStages

\* The decision to report spends nothing.
LEMMA DecideReportBudget == TypeInv /\ BudgetInv /\ DecideReport => BudgetInv'
<1>. SUFFICES ASSUME TypeInv, BudgetInv, DecideReport PROVE BudgetInv'
  OBVIOUS
<1>1. /\ plan'.total_question_budget = plan.total_question_budget
      /\ plan'.total_follow_up_budget = plan.total_follow_up_budget
  BY RefreshType DEF DecideReport, TypeInv, TypeOK
<1>2. /\ stage' = "REPORTING"
      /\ UNCHANGED <<question_budget, rounds, follow_up_budget, followed_targets>>
  BY DEF DecideReport, Decide, questionVars
<1>. QED
  BY <1>1, <1>2 DEF BudgetInv, BudgetAvailable, BudgetsConserved, SetupStages

\* A failing agent spends nothing, even when it refreshed the plan before it failed.
LEMMA AgentFailsBudget == TypeInv /\ BudgetInv /\ AgentFails => BudgetInv'
<1>. SUFFICES ASSUME TypeInv, BudgetInv, AgentFails PROVE BudgetInv'
  OBVIOUS
<1>1. /\ plan'.total_question_budget = plan.total_question_budget
      /\ plan'.total_follow_up_budget = plan.total_follow_up_budget
  BY RefreshType DEF AgentFails, TypeInv, TypeOK
<1>2. /\ stage' = "FAILED"
      /\ UNCHANGED <<question_budget, rounds, follow_up_budget, followed_targets>>
  BY DEF AgentFails
<1>. QED
  BY <1>1, <1>2 DEF BudgetInv, BudgetAvailable, BudgetsConserved, SetupStages

\* The steps that touch no budget.
LEMMA OtherBudget ==
    ASSUME BudgetInv,
           \/ Begin \/ PublishProfile \/ AskQuestion \/ PublishReport \/ SubmitAnswer
           \/ SubmitHumanReview \/ DriverReturns \/ StepBudgetExhausted \/ ResumeInterview
           \/ Crash \/ TimeOut \/ UNCHANGED vars
    PROVE  BudgetInv'
<1>1. CASE Begin
  BY <1>1, UnspentStep DEF Begin, planVars, questionVars, SetupStages, QuestionStages
<1>2. CASE PublishProfile
  BY <1>2, UnspentStep DEF PublishProfile, planVars, questionVars, SetupStages, QuestionStages
<1>3. CASE AskQuestion
  BY <1>3, UnspentStep DEF AskQuestion, planVars, questionVars, SetupStages, QuestionStages
<1>4. CASE PublishReport
  BY <1>4, UnspentStep DEF PublishReport, planVars, questionVars, SetupStages, QuestionStages
<1>5. CASE SubmitAnswer
  BY <1>5, UnspentStep DEF SubmitAnswer, planVars, questionVars, SetupStages, QuestionStages
<1>6. CASE SubmitHumanReview
  BY <1>6, UnspentStep DEF SubmitHumanReview, planVars, questionVars, SetupStages, QuestionStages
<1>7. CASE DriverReturns \/ StepBudgetExhausted \/ ResumeInterview \/ Crash \/ TimeOut
           \/ UNCHANGED vars
  <2>1. UNCHANGED sessionVars
    BY <1>7 DEF DriverReturns, StepBudgetExhausted, ResumeInterview, Crash, TimeOut, vars
  <2>. QED
    BY <2>1, UnspentStep DEF sessionVars, planVars, questionVars
<1>. QED
  BY <1>1, <1>2, <1>3, <1>4, <1>5, <1>6, <1>7

\* Every step keeps the budgets.
LEMMA NextBudget == TypeInv /\ BudgetInv /\ [Next]_vars => BudgetInv'
  BY PublishPlanBudget, PublishMainQuestionBudget, PublishFollowUpBudget,
     PublishEvaluationBudget, DecideFollowUpBudget, DecideNextQuestionBudget,
     DecideReportBudget, AgentFailsBudget, OtherBudget
  DEF Next, RunStep

\* The budgets the planner granted are spent exactly, one unit per main question
\* and one per followed target (InterviewBlackboard.publish and
\* InterviewStateMachine.transition), and no promised question is out of budget.
THEOREM BudgetsKept == Spec => [](BudgetsConserved /\ BudgetAvailable)
<1>1. TypeInv /\ BudgetInv /\ [Next]_vars => (TypeInv /\ BudgetInv)'
  BY NextTypeInv, NextBudget
<1>2. Init => TypeInv /\ BudgetInv
  BY InitTypeInv, InitBudget
<1>3. BudgetInv <=> BudgetAvailable /\ BudgetsConserved
  BY DEF BudgetInv
<1>. QED
  BY <1>1, <1>2, <1>3, PTL DEF Spec

-----------------------------------------------------------------------------
(* Logs *)

Aligned(log, base) == \A i \in DOMAIN log : i \in DOMAIN base /\ log[i] = base[i]

LogsAligned ==
    /\ Aligned(answers, question_history)
    /\ Aligned(evaluations, answers)
    /\ Aligned(decisions, evaluations)

LogInv == LogsAligned /\ LogsInStep /\ CurrentIsLast

\* Appending the entry a log owes keeps it aligned.
LEMMA AppendOwed ==
    ASSUME NEW log \in Seq(QuestionId), NEW base \in Seq(QuestionId),
           Aligned(log, base), Len(base) = Len(log) + 1
    PROVE  Aligned(Append(log, base[Len(base)]), base)
  BY DEF Aligned

\* A log stays aligned while its base grows.
LEMMA AppendBase ==
    ASSUME NEW log \in Seq(QuestionId), NEW base \in Seq(QuestionId), NEW id \in QuestionId,
           Aligned(log, base)
    PROVE  Aligned(log, Append(base, id))
  BY DEF Aligned

\* Aligned logs of one length agree on their last entry.
LEMMA LastAgrees ==
    ASSUME NEW log \in Seq(QuestionId), NEW base \in Seq(QuestionId),
           Aligned(log, base), Len(log) = Len(base), log # << >>
    PROVE  log[Len(log)] = base[Len(base)]
<1>1. Len(log) \in DOMAIN log
  BY DEF Aligned
<1>. QED
  BY <1>1 DEF Aligned

\* The inductive invariant implies the property LogsFollowQuestions.
LEMMA LogsGiveProperty == TypeOK /\ LogInv => LogsFollowQuestions
<1>. SUFFICES ASSUME TypeOK, LogInv PROVE LogsFollowQuestions
  OBVIOUS
<1>1. /\ Len(answers) \in Nat /\ Len(evaluations) \in Nat /\ Len(decisions) \in Nat
      /\ Len(question_history) \in Nat
  BY DEF TypeOK
<1>. QED
  BY <1>1 DEF LogInv, LogsAligned, Aligned, LogsInStep, Owes, LogsFollowQuestions

\* The logs start empty.
LEMMA InitLog == Init => LogInv
  BY DEF Init, LogInv, LogsAligned, Aligned, LogsInStep, Owes, CurrentIsLast, SetupStages

\* A step that appends to no log and owes nothing new.
LEMMA QuietStep ==
    ASSUME TypeOK, LogInv,
           UNCHANGED <<question_history, answers, evaluations, decisions, current_question>>,
           \/ stage' = stage
           \/ stage = "QUESTIONING" /\ stage' = "LISTENING"
           \/ stage \in SetupStages /\ stage' \in SetupStages \cup {"QUESTION_PREPARING"}
           \/ stage = "REPORTING" /\ stage' \in {"WAITING_HUMAN_REVIEW", "FINISHED"}
           \/ stage = "WAITING_HUMAN_REVIEW" /\ stage' = "FINISHED"
           \/ stage' = "FAILED"
    PROVE  LogInv'
<1>1. LogsAligned'
  BY DEF LogInv, LogsAligned, Aligned
<1>2. LogsInStep'
  BY DEF LogInv, LogsInStep, Owes, SetupStages
<1>3. CurrentIsLast'
  BY DEF LogInv, CurrentIsLast, SetupStages
<1>. QED
  BY <1>1, <1>2, <1>3 DEF LogInv

\* Publishing a question when no log owes anything.
LEMMA PublishLog ==
    ASSUME TypeOK, LogInv, NEW id \in QuestionId, NEW d, Publish(id, d),
           stage \in QuestionStages \cup {"FOLLOW_UP"},
           UNCHANGED <<answers, evaluations, decisions>>
    PROVE  LogInv'
<1>1. /\ question_history' = Append(question_history, id)
      /\ current_question'.id = id /\ stage' = "QUESTIONING"
      /\ question_history \in Seq(QuestionId) /\ answers \in Seq(QuestionId)
  BY DEF Publish, TypeOK
<1>2. LogsAligned'
  BY <1>1, AppendBase DEF LogInv, LogsAligned
<1>3. /\ Len(answers) = Len(question_history) /\ Len(evaluations) = Len(question_history)
      /\ Len(decisions) = Len(question_history)
  BY DEF LogInv, LogsInStep, Owes, QuestionStages
<1>4. Len(question_history') = Len(question_history) + 1
  BY <1>1
<1>5. Len(question_history) \in Nat
  BY <1>1
<1>6. LogsInStep'
  BY <1>1, <1>3, <1>4, <1>5 DEF LogsInStep, Owes
<1>7. CurrentIsLast'
  BY <1>1 DEF CurrentIsLast
<1>. QED
  BY <1>2, <1>6, <1>7 DEF LogInv

\* A main question opens a new position that every other log owes.
LEMMA PublishMainQuestionLog == TypeInv /\ LogInv /\ PublishMainQuestion => LogInv'
<1>. SUFFICES ASSUME TypeInv, LogInv, PublishMainQuestion PROVE LogInv'
  OBVIOUS
<1>1. PICK d \in NextDimension(plan, coverage) : Publish(<<Len(rounds) + 1, 0>>, d)
  BY DEF PublishMainQuestion
<1>2. <<Len(rounds) + 1, 0>> \in QuestionId
  BY DEF TypeInv, TypeOK, QuestionId
<1>3. UNCHANGED <<answers, evaluations, decisions>> /\ stage \in QuestionStages
  BY DEF PublishMainQuestion, assessVars
<1>. QED
  BY <1>1, <1>2, <1>3, PublishLog DEF TypeInv

\* A follow-up opens a new position that every other log owes.
LEMMA PublishFollowUpLog == TypeInv /\ LogInv /\ PublishFollowUp => LogInv'
<1>. SUFFICES ASSUME TypeInv, LogInv, PublishFollowUp PROVE LogInv'
  OBVIOUS
<1> DEFINE parent == Parent(current_question)
           id == <<parent, rounds[parent] + 1>>
<1>1. parent \in DOMAIN rounds /\ rounds \in Seq(Nat)
  BY DEF TypeInv, TypeOK, QuestionPlaced, PublishFollowUp, SetupStages
<1>2. parent \in Nat /\ rounds[parent] + 1 \in Nat
  BY <1>1
<1>3. id \in QuestionId
  BY <1>2 DEF QuestionId
<1>4. Publish(id, current_question.dimension)
  BY DEF PublishFollowUp
<1>5. UNCHANGED <<answers, evaluations, decisions>> /\ stage = "FOLLOW_UP"
  BY DEF PublishFollowUp, assessVars
<1>. HIDE DEF id
<1>. QED
  BY <1>3, <1>4, <1>5, PublishLog DEF TypeInv

\* An accepted answer fills the position of the current question.
LEMMA SubmitAnswerLog == TypeInv /\ LogInv /\ SubmitAnswer => LogInv'
<1>. SUFFICES ASSUME TypeInv, LogInv, SubmitAnswer PROVE LogInv'
  OBVIOUS
<1>1. /\ stage = "LISTENING" /\ stage' = "EVALUATING"
      /\ answers' = Append(answers, current_question.id)
      /\ UNCHANGED <<question_history, evaluations, decisions, current_question>>
  BY DEF SubmitAnswer, questionVars, assessVars
<1>2. /\ question_history \in Seq(QuestionId) /\ answers \in Seq(QuestionId)
      /\ evaluations \in Seq(QuestionId) /\ decisions \in Seq(QuestionId)
  BY DEF TypeInv, TypeOK
<1>3. current_question.id = question_history[Len(question_history)] /\ question_history # << >>
  BY <1>1 DEF LogInv, CurrentIsLast, SetupStages
<1>4. /\ Len(question_history) = Len(answers) + 1
      /\ Len(question_history) = Len(evaluations) + 1
      /\ Len(question_history) = Len(decisions) + 1
  BY <1>1 DEF LogInv, LogsInStep, Owes
<1>5. current_question.id \in QuestionId
  BY <1>2, <1>3
<1>6. LogsAligned'
  BY <1>1, <1>2, <1>3, <1>4, <1>5, AppendOwed, AppendBase DEF LogInv, LogsAligned
<1>7. Len(answers') = Len(answers) + 1
  BY <1>1, <1>2
<1>8. LogsInStep'
  BY <1>1, <1>2, <1>4, <1>7 DEF LogsInStep, Owes
<1>9. CurrentIsLast'
  BY <1>1, <1>3 DEF CurrentIsLast
<1>. QED
  BY <1>6, <1>8, <1>9 DEF LogInv

\* An evaluation fills the position of the answer just accepted.
LEMMA PublishEvaluationLog == TypeInv /\ LogInv /\ PublishEvaluation => LogInv'
<1>. SUFFICES ASSUME TypeInv, LogInv, PublishEvaluation PROVE LogInv'
  OBVIOUS
<1>1. /\ stage = "EVALUATING" /\ stage' = "DECISION"
      /\ evaluations' = Append(evaluations, current_question.id)
      /\ UNCHANGED <<question_history, answers, decisions, current_question>>
  BY DEF PublishEvaluation, questionVars
<1>2. /\ question_history \in Seq(QuestionId) /\ answers \in Seq(QuestionId)
      /\ evaluations \in Seq(QuestionId) /\ decisions \in Seq(QuestionId)
  BY DEF TypeInv, TypeOK
<1>3. current_question.id = question_history[Len(question_history)] /\ question_history # << >>
  BY <1>1 DEF LogInv, CurrentIsLast, SetupStages
<1>4. /\ Len(question_history) = Len(answers)
      /\ Len(question_history) = Len(evaluations) + 1
      /\ Len(question_history) = Len(decisions) + 1
  BY <1>1 DEF LogInv, LogsInStep, Owes
<1>5. current_question.id = answers[Len(answers)] /\ current_question.id \in QuestionId
  <2>1. answers # << >>
    BY <1>2, <1>3, <1>4, EmptySeq
  <2>2. Aligned(answers, question_history)
    BY DEF LogInv, LogsAligned
  <2>3. answers[Len(answers)] = question_history[Len(question_history)]
    BY <2>1, <2>2, <1>2, <1>4, LastAgrees
  <2>4. Len(answers) \in DOMAIN answers
    BY <2>1, <1>2, EmptySeq
  <2>. QED
    BY <2>3, <2>4, <1>2, <1>3
<1>6. LogsAligned'
  BY <1>1, <1>2, <1>4, <1>5, AppendOwed, AppendBase DEF LogInv, LogsAligned
<1>7. Len(evaluations') = Len(evaluations) + 1
  BY <1>1, <1>2
<1>8. LogsInStep'
  BY <1>1, <1>2, <1>4, <1>7 DEF LogsInStep, Owes
<1>9. CurrentIsLast'
  BY <1>1, <1>3 DEF CurrentIsLast
<1>. QED
  BY <1>6, <1>8, <1>9 DEF LogInv

\* A decision, whichever it is, fills the last position that was owed.
LEMMA DecideLog ==
    ASSUME TypeInv, LogInv, DecideFollowUp \/ DecideNextQuestion \/ DecideReport
    PROVE  LogInv'
<1>1. /\ stage = "DECISION"
      /\ stage' \in {"FOLLOW_UP", "NEXT_DIMENSION", "NEXT_QUESTION", "REPORTING"}
      /\ decisions' = Append(decisions, current_question.id)
      /\ UNCHANGED <<question_history, answers, evaluations, current_question>>
  BY DEF DecideFollowUp, DecideNextQuestion, DecideReport, Decide, questionVars
<1>2. /\ question_history \in Seq(QuestionId) /\ answers \in Seq(QuestionId)
      /\ evaluations \in Seq(QuestionId) /\ decisions \in Seq(QuestionId)
  BY DEF TypeInv, TypeOK
<1>3. current_question.id = question_history[Len(question_history)] /\ question_history # << >>
  BY <1>1 DEF LogInv, CurrentIsLast, SetupStages
<1>4. /\ Len(question_history) = Len(answers)
      /\ Len(question_history) = Len(evaluations)
      /\ Len(question_history) = Len(decisions) + 1
  BY <1>1 DEF LogInv, LogsInStep, Owes
<1>5. current_question.id = evaluations[Len(evaluations)]
  <2>1. answers # << >> /\ evaluations # << >>
    BY <1>2, <1>3, <1>4, EmptySeq
  <2>2. answers[Len(answers)] = question_history[Len(question_history)]
    BY <2>1, <1>2, <1>4, LastAgrees DEF LogInv, LogsAligned
  <2>3. evaluations[Len(evaluations)] = answers[Len(answers)]
    BY <2>1, <1>2, <1>4, LastAgrees DEF LogInv, LogsAligned
  <2>. QED
    BY <2>2, <2>3, <1>3
<1>6. LogsAligned'
  BY <1>1, <1>2, <1>4, <1>5, AppendOwed DEF LogInv, LogsAligned
<1>7. Len(decisions') = Len(decisions) + 1
  BY <1>1, <1>2
<1>8. LogsInStep'
  BY <1>1, <1>2, <1>4, <1>7 DEF LogsInStep, Owes
<1>9. CurrentIsLast'
  BY <1>1, <1>3 DEF CurrentIsLast
<1>. QED
  BY <1>6, <1>8, <1>9 DEF LogInv

\* The steps that append to no log.
LEMMA OtherLog ==
    ASSUME TypeInv, LogInv,
           \/ Begin \/ PublishProfile \/ PublishPlan \/ AskQuestion \/ PublishReport
           \/ AgentFails \/ SubmitHumanReview \/ DriverReturns \/ StepBudgetExhausted
           \/ ResumeInterview \/ Crash \/ TimeOut \/ UNCHANGED vars
    PROVE  LogInv'
<1>. USE DEF TypeInv
<1>1. CASE Begin
  BY <1>1, QuietStep DEF Begin, questionVars, assessVars, SetupStages
<1>2. CASE PublishProfile
  BY <1>2, QuietStep DEF PublishProfile, questionVars, assessVars, SetupStages
<1>3. CASE PublishPlan
  BY <1>3, QuietStep DEF PublishPlan, questionVars, assessVars, SetupStages
<1>4. CASE AskQuestion
  BY <1>4, QuietStep DEF AskQuestion, questionVars, assessVars
<1>5. CASE PublishReport
  BY <1>5, QuietStep DEF PublishReport, questionVars, assessVars
<1>6. CASE AgentFails
  BY <1>6, QuietStep DEF AgentFails, assessVars
<1>7. CASE SubmitHumanReview
  BY <1>7, QuietStep DEF SubmitHumanReview, questionVars, assessVars
<1>8. CASE DriverReturns \/ StepBudgetExhausted \/ ResumeInterview \/ Crash \/ TimeOut
           \/ UNCHANGED vars
  <2>1. UNCHANGED sessionVars
    BY <1>8 DEF DriverReturns, StepBudgetExhausted, ResumeInterview, Crash, TimeOut, vars
  <2>. QED
    BY <2>1, QuietStep DEF sessionVars, questionVars, assessVars
<1>. QED
  BY <1>1, <1>2, <1>3, <1>4, <1>5, <1>6, <1>7, <1>8

\* Every step keeps the logs in step.
LEMMA NextLog == TypeInv /\ LogInv /\ [Next]_vars => LogInv'
  BY PublishMainQuestionLog, PublishFollowUpLog, SubmitAnswerLog, PublishEvaluationLog,
     DecideLog, OtherLog
  DEF Next, RunStep

\* Answers, evaluations and decisions follow the questions one for one, in order,
\* through every failure, crash and resume (InterviewBlackboard.publish,
\* receive_answer and run_step).
THEOREM LogsKept == Spec => []LogsFollowQuestions
<1>1. TypeInv /\ LogInv /\ [Next]_vars => (TypeInv /\ LogInv)'
  BY NextTypeInv, NextLog
<1>2. Init => TypeInv /\ LogInv
  BY InitTypeInv, InitLog
<1>3. TypeInv /\ LogInv => LogsFollowQuestions
  BY LogsGiveProperty DEF TypeInv
<1>. QED
  BY <1>1, <1>2, <1>3, PTL DEF Spec

-----------------------------------------------------------------------------
(* Question ids *)

IdInv == IsFiniteSet(asked_question_ids) /\ QuestionIdsUnique

\* Publishing an id that is in use nowhere.
LEMMA PublishFresh ==
    ASSUME TypeOK, IdInv, NEW id \in QuestionId, NEW d, Publish(id, d),
           id \notin asked_question_ids
    PROVE  /\ IsFiniteSet(asked_question_ids')
           /\ Cardinality(asked_question_ids') = Len(question_history')
<1>1. /\ asked_question_ids' = asked_question_ids \cup {id}
      /\ question_history' = Append(question_history, id)
  BY DEF Publish
<1>2. /\ IsFiniteSet(asked_question_ids')
      /\ Cardinality(asked_question_ids') = Cardinality(asked_question_ids) + 1
  BY <1>1, FS_AddElement DEF IdInv
<1>3. Len(question_history') = Len(question_history) + 1
  BY <1>1 DEF TypeOK
<1>. QED
  BY <1>2, <1>3 DEF IdInv, QuestionIdsUnique

\* The ordinal of a main question is above every ordinal in use.
LEMMA PublishMainQuestionId == TypeInv /\ IdInv /\ PublishMainQuestion => IdInv'
<1>. SUFFICES ASSUME TypeInv, IdInv, PublishMainQuestion PROVE IdInv'
  OBVIOUS
<1> DEFINE id == <<Len(rounds) + 1, 0>>
<1>1. PICK d \in NextDimension(plan, coverage) : Publish(id, d)
  BY DEF PublishMainQuestion
<1>2. rounds \in Seq(Nat) /\ rounds' = Append(rounds, 0) /\ asked_question_ids \subseteq QuestionId
  BY DEF TypeInv, TypeOK, PublishMainQuestion
<1>3. id \in QuestionId
  BY <1>2 DEF QuestionId
<1>4. id \notin asked_question_ids
  BY <1>2 DEF IdInv, QuestionIdsUnique, IdsBelowCounters
<1>5. IsFiniteSet(asked_question_ids') /\ Cardinality(asked_question_ids') = Len(question_history')
  <2>. HIDE DEF id
  <2>. QED
    BY <1>1, <1>3, <1>4, PublishFresh DEF TypeInv
<1>6. asked_question_ids' = asked_question_ids \cup {id}
  BY <1>1 DEF Publish
<1>7. ASSUME NEW used \in asked_question_ids'
      PROVE  used[1] \in DOMAIN rounds' /\ used[2] <= rounds'[used[1]]
  <2>1. CASE used \in asked_question_ids
    <3>1. used[1] \in DOMAIN rounds /\ used[2] <= rounds[used[1]]
      BY <2>1 DEF IdInv, QuestionIdsUnique, IdsBelowCounters
    <3>2. used[1] \in DOMAIN rounds' /\ rounds'[used[1]] = rounds[used[1]]
      BY <3>1, <1>2
    <3>. QED
      BY <3>1, <3>2
  <2>2. CASE used = id
    <3>1. Len(rounds) + 1 \in DOMAIN rounds' /\ rounds'[Len(rounds) + 1] = 0
      BY <1>2
    <3>. QED
      BY <2>2, <3>1
  <2>. QED
    BY <1>6, <2>1, <2>2
<1>8. IdsBelowCounters'
  BY <1>7 DEF IdsBelowCounters
<1>. QED
  BY <1>5, <1>8 DEF IdInv, QuestionIdsUnique

\* The round of a follow-up is above every round in use for its main question.
LEMMA PublishFollowUpId == TypeInv /\ IdInv /\ PublishFollowUp => IdInv'
<1>. SUFFICES ASSUME TypeInv, IdInv, PublishFollowUp PROVE IdInv'
  OBVIOUS
<1> DEFINE parent == Parent(current_question)
           round == rounds[parent] + 1
           id == <<parent, round>>
<1>1. rounds \in Seq(Nat) /\ parent \in DOMAIN rounds /\ asked_question_ids \subseteq QuestionId
  BY DEF TypeInv, TypeOK, QuestionPlaced, PublishFollowUp, SetupStages
<1>2. parent \in Nat /\ rounds[parent] \in Nat /\ round \in Nat
  BY <1>1
<1>3. Publish(id, current_question.dimension) /\ rounds' = [rounds EXCEPT ![parent] = round]
  BY DEF PublishFollowUp
<1>. HIDE DEF parent
<1>4. id \in QuestionId
  BY <1>2 DEF QuestionId
<1>5. id \notin asked_question_ids
  <2>1. ASSUME id \in asked_question_ids PROVE FALSE
    <3>1. id[2] <= rounds[id[1]]
      BY <2>1 DEF IdInv, QuestionIdsUnique, IdsBelowCounters
    <3>. QED
      BY <3>1, <1>2
  <2>. QED
    BY <2>1
<1>6. IsFiniteSet(asked_question_ids') /\ Cardinality(asked_question_ids') = Len(question_history')
  <2>. HIDE DEF id
  <2>. QED
    BY <1>3, <1>4, <1>5, PublishFresh DEF TypeInv
<1>7. asked_question_ids' = asked_question_ids \cup {id}
  BY <1>3 DEF Publish
<1>8. ASSUME NEW used \in asked_question_ids'
      PROVE  used[1] \in DOMAIN rounds' /\ used[2] <= rounds'[used[1]]
  <2>1. DOMAIN rounds' = DOMAIN rounds
    BY <1>3
  <2>2. CASE used \in asked_question_ids
    <3>1. used[1] \in DOMAIN rounds /\ used[2] <= rounds[used[1]] /\ used[2] \in Nat
      BY <2>2, <1>1 DEF IdInv, QuestionIdsUnique, IdsBelowCounters, QuestionId
    <3>2. rounds[used[1]] \in Nat /\ rounds[used[1]] <= rounds'[used[1]]
      BY <3>1, <1>1, <1>2, <1>3
    <3>3. rounds'[used[1]] \in Nat
      BY <3>1, <1>1, <1>2, <1>3
    <3>. QED
      BY <2>1, <3>1, <3>2, <3>3
  <2>3. CASE used = id
    BY <2>1, <2>3, <1>1, <1>2, <1>3
  <2>. QED
    BY <1>7, <2>2, <2>3
<1>9. IdsBelowCounters'
  BY <1>8 DEF IdsBelowCounters
<1>. QED
  BY <1>6, <1>9 DEF IdInv, QuestionIdsUnique

\* Every other step leaves ids, counters and history alone.
LEMMA NextId == TypeInv /\ IdInv /\ [Next]_vars => IdInv'
<1>. SUFFICES ASSUME TypeInv, IdInv, [Next]_vars PROVE IdInv'
  OBVIOUS
<1>1. CASE UNCHANGED <<question_history, asked_question_ids, rounds>>
  BY <1>1 DEF IdInv, IdsBelowCounters, QuestionIdsUnique
<1>2. CASE \/ Begin \/ PublishProfile \/ PublishPlan \/ AskQuestion \/ PublishEvaluation
           \/ PublishReport \/ AgentFails
  BY <1>1, <1>2 DEF Begin, PublishProfile, PublishPlan, AskQuestion, PublishEvaluation,
     PublishReport, AgentFails, questionVars
<1>3. CASE DecideFollowUp \/ DecideNextQuestion \/ DecideReport
  BY <1>1, <1>3 DEF DecideFollowUp, DecideNextQuestion, DecideReport, Decide, questionVars
<1>4. CASE \/ DriverReturns \/ StepBudgetExhausted \/ SubmitAnswer \/ ResumeInterview
           \/ SubmitHumanReview \/ Crash \/ TimeOut \/ UNCHANGED vars
  BY <1>1, <1>4 DEF DriverReturns, StepBudgetExhausted, SubmitAnswer, ResumeInterview,
     SubmitHumanReview, Crash, TimeOut, vars, sessionVars, questionVars
<1>. QED
  BY <1>2, <1>3, <1>4, PublishMainQuestionId, PublishFollowUpId DEF Next, RunStep

\* No question id is ever published twice, and none in use can be computed again, for
\* any number of questions, rounds and dimensions (QuestionGenerationPipeline._build_follow_up and publish).
THEOREM IdsUnique == Spec => []QuestionIdsUnique
<1>1. Init => TypeInv /\ IdInv
  <2>1. Init => IdInv
    BY FS_EmptySet DEF Init, IdInv, IdsBelowCounters, QuestionIdsUnique
  <2>. QED
    BY <2>1, InitTypeInv
<1>2. TypeInv /\ IdInv /\ [Next]_vars => (TypeInv /\ IdInv)'
  BY NextTypeInv, NextId
<1>3. IdInv => QuestionIdsUnique
  BY DEF IdInv
<1>. QED
  BY <1>1, <1>2, <1>3, PTL DEF Spec

-----------------------------------------------------------------------------
(* The end of an interview, the review gate, the driver *)

\* Nothing changes a session that ended: each handler tests the stage first
\* (run_step, receive_answer, submit_human_review).
THEOREM EndsAreFinal == Spec => EndIsFinal
<1>1. [Next]_vars => [(stage \in EndStages) => UNCHANGED sessionVars]_vars
  <2>. SUFFICES ASSUME Next, stage \in EndStages PROVE UNCHANGED sessionVars
    OBVIOUS
  <2>1. CASE \/ Begin \/ PublishProfile \/ PublishPlan \/ PublishMainQuestion \/ PublishFollowUp
             \/ AskQuestion \/ PublishEvaluation \/ PublishReport \/ AgentFails
    BY <2>1 DEF EndStages, AgentStages, QuestionStages, Begin, PublishProfile, PublishPlan,
       PublishMainQuestion, PublishFollowUp, AskQuestion, PublishEvaluation, PublishReport,
       AgentFails
  <2>2. CASE DecideFollowUp \/ DecideNextQuestion \/ DecideReport
    BY <2>2 DEF EndStages, DecideFollowUp, DecideNextQuestion, DecideReport, Decide
  <2>3. CASE SubmitAnswer \/ SubmitHumanReview
    BY <2>3 DEF EndStages, SubmitAnswer, SubmitHumanReview
  <2>4. CASE DriverReturns \/ StepBudgetExhausted \/ ResumeInterview \/ Crash \/ TimeOut
    BY <2>4 DEF DriverReturns, StepBudgetExhausted, ResumeInterview, Crash, TimeOut
  <2>. QED
    BY <2>1, <2>2, <2>3, <2>4 DEF Next, RunStep
<1>. QED
  BY <1>1, PTL DEF Spec, EndIsFinal

\* An evaluation precedes every report.
LEMMA ReportGrounded == TypeInv /\ LogInv /\ stage = "REPORTING" => evaluations # << >>
<1>. SUFFICES ASSUME TypeInv, LogInv, stage = "REPORTING" PROVE evaluations # << >>
  OBVIOUS
<1>1. question_history # << >> /\ Len(question_history) = Len(evaluations)
  BY DEF LogInv, CurrentIsLast, LogsInStep, Owes, SetupStages
<1>2. Len(question_history) > 0
  BY <1>1, EmptySeq DEF TypeInv, TypeOK
<1>. QED
  BY <1>1, <1>2

\* Every step keeps the review gate.
LEMMA NextReview == TypeInv /\ LogInv /\ ReviewGate /\ [Next]_vars => ReviewGate'
<1>. SUFFICES ASSUME TypeInv, LogInv, ReviewGate, [Next]_vars PROVE ReviewGate'
  OBVIOUS
<1>1. CASE stage' \notin {"FINISHED", "WAITING_HUMAN_REVIEW"}
  BY <1>1 DEF ReviewGate
<1>2. CASE UNCHANGED sessionVars
  BY <1>2 DEF ReviewGate, sessionVars, reportVars, assessVars
<1>3. CASE \/ Begin \/ PublishProfile \/ PublishPlan \/ PublishMainQuestion \/ PublishFollowUp
           \/ AskQuestion \/ PublishEvaluation \/ AgentFails \/ SubmitAnswer
  BY <1>1, <1>3 DEF Begin, PublishProfile, PublishPlan, PublishMainQuestion, PublishFollowUp,
     Publish, AskQuestion, PublishEvaluation, AgentFails, SubmitAnswer
<1>4. CASE DecideFollowUp \/ DecideNextQuestion \/ DecideReport
  BY <1>1, <1>4 DEF DecideFollowUp, DecideNextQuestion, DecideReport
<1>5. CASE PublishReport
  <2>1. /\ stage = "REPORTING" /\ report' = TRUE
        /\ review_status' = IF ReviewRequired THEN "pending" ELSE "not_required"
        /\ stage' = IF ReviewRequired THEN "WAITING_HUMAN_REVIEW" ELSE "FINISHED"
        /\ evaluations' = evaluations /\ coverage' = coverage
    BY <1>5 DEF PublishReport, assessVars
  <2>2. evaluations' # << >>
    BY <2>1, ReportGrounded
  <2>3. CASE ReviewRequired
    BY <2>1, <2>2, <2>3 DEF ReviewGate
  <2>4. CASE ~ReviewRequired
    <3>1. ASSUME NEW d \in Dims PROVE coverage[d] = 0 \/ coverage[d] >= MinReviewCoverage
      <4>1. coverage[d] \in Nat
        <5>1. coverage \in CoverageType
          BY DEF TypeInv, TypeOK
        <5>2. coverage[d] \in Percent
          BY <5>1 DEF CoverageType
        <5>. QED
          BY <5>2 DEF Percent
      <4>2. ~(coverage[d] # 0 /\ coverage[d] < MinReviewCoverage)
        BY <2>4 DEF ReviewRequired
      <4>. QED
        BY <4>1, <4>2 DEF MinReviewCoverage
    <3>2. stage' = "FINISHED" /\ report' = TRUE
      BY <2>1, <2>4
    <3>. QED
      BY <2>1, <2>2, <3>1, <3>2 DEF ReviewGate
  <2>. QED
    BY <2>3, <2>4
<1>6. CASE SubmitHumanReview
  <2>1. PICK approved \in BOOLEAN :
           /\ review_status' = IF approved THEN "approved" ELSE "rejected"
           /\ stage' = IF approved THEN "FINISHED" ELSE "FAILED"
    BY <1>6 DEF SubmitHumanReview
  <2>2. stage = "WAITING_HUMAN_REVIEW" /\ UNCHANGED <<report, evaluations, coverage>>
    BY <1>6 DEF SubmitHumanReview, assessVars
  <2>. QED
    BY <2>1, <2>2 DEF ReviewGate
<1>7. CASE \/ DriverReturns \/ StepBudgetExhausted \/ ResumeInterview \/ Crash \/ TimeOut
           \/ UNCHANGED vars
  BY <1>2, <1>7 DEF DriverReturns, StepBudgetExhausted, ResumeInterview, Crash, TimeOut, vars
<1>. QED
  BY <1>3, <1>4, <1>5, <1>6, <1>7 DEF Next, RunStep

\* A report over thin coverage never finishes an interview without an approval,
\* and no interview finishes unassessed (HumanReviewPolicy.evaluate, run_step).
THEOREM ReviewGateHolds == Spec => []ReviewGate
<1>1. Init => TypeInv /\ LogInv /\ ReviewGate
  <2>1. Init => ReviewGate
    BY DEF Init, ReviewGate
  <2>. QED
    BY <2>1, InitTypeInv, InitLog
<1>2. TypeInv /\ LogInv /\ ReviewGate /\ [Next]_vars => (TypeInv /\ LogInv /\ ReviewGate)'
  BY NextTypeInv, NextLog, NextReview
<1>. QED
  BY <1>1, <1>2, PTL DEF Spec

\* No stage is more than five run_step calls away from one where the driver returns.
LEMMA StepsToStopBounds ==
    ASSUME NEW s \in Stages
    PROVE  StepsToStop(s) \in 0..5
  BY DEF StepsToStop, Stages, StopStages, EndStages, AgentStages, QuestionStages

\* Every run_step brings the session nearer to a stage where the driver returns.
LEMMA StepProgress ==
    ASSUME TypeInv, RunStep
    PROVE  /\ StepsToStop(stage') + 1 <= StepsToStop(stage)
           /\ driver = "running" /\ steps' = steps + 1
<1>1. CASE Begin \/ PublishProfile \/ PublishPlan \/ AskQuestion
  BY <1>1 DEF Begin, PublishProfile, PublishPlan, AskQuestion, Step, StepsToStop, QuestionStages
<1>2. CASE PublishMainQuestion
  BY <1>2 DEF PublishMainQuestion, Publish, Step, StepsToStop, QuestionStages
<1>3. CASE PublishFollowUp
  BY <1>3 DEF PublishFollowUp, Publish, Step, StepsToStop, QuestionStages
<1>4. CASE PublishEvaluation \/ PublishReport
  BY <1>4 DEF PublishEvaluation, PublishReport, Step, StepsToStop, QuestionStages
<1>5. CASE DecideFollowUp \/ DecideNextQuestion \/ DecideReport
  BY <1>5 DEF DecideFollowUp, DecideNextQuestion, DecideReport, Decide, Step, StepsToStop,
     QuestionStages
<1>6. CASE AgentFails
  BY <1>6 DEF AgentFails, Step, StepsToStop, AgentStages, QuestionStages
<1>. QED
  BY <1>1, <1>2, <1>3, <1>4, <1>5, <1>6 DEF RunStep

\* Every step keeps the iterations spent and those still needed within five.
LEMMA NextSteps == TypeInv /\ StepsBounded /\ [Next]_vars => StepsBounded'
<1>. SUFFICES ASSUME TypeInv, StepsBounded, [Next]_vars PROVE StepsBounded'
  OBVIOUS
<1>1. stage \in Stages /\ stage' \in Stages /\ steps \in Nat
  BY NextTypeInv DEF TypeInv, TypeOK
<1>2. StepsToStop(stage) \in 0..5 /\ StepsToStop(stage') \in 0..5
  BY <1>1, StepsToStopBounds
<1>3. CASE RunStep
  <2>1. /\ StepsToStop(stage') + 1 <= StepsToStop(stage)
        /\ driver = "running" /\ steps' = steps + 1
    BY <1>3, StepProgress
  <2>. QED
    BY <2>1, <1>1, <1>2 DEF StepsBounded
<1>4. CASE DriverReturns \/ StepBudgetExhausted \/ Crash
  BY <1>4 DEF DriverReturns, StepBudgetExhausted, Crash, StepsBounded
<1>5. CASE SubmitAnswer
  BY <1>5 DEF SubmitAnswer, StepsBounded, StepsToStop, QuestionStages
<1>6. CASE ResumeInterview
  BY <1>2, <1>6 DEF ResumeInterview, StepsBounded
<1>7. CASE SubmitHumanReview
  BY <1>7 DEF SubmitHumanReview, StepsBounded
<1>8. CASE TimeOut \/ UNCHANGED vars
  BY <1>8 DEF TimeOut, vars, sessionVars, StepsBounded
<1>. QED
  BY <1>3, <1>4, <1>5, <1>6, <1>7, <1>8 DEF Next

\* Six iterations of run_until_waiting_or_done always suffice (the code allows 20),
\* from whatever stage a session is resumed in.
THEOREM StepBudget == ASSUME MaxSteps >= 6 PROVE Spec => []StepBudgetSuffices
<1>1. Init => TypeInv /\ StepsBounded
  <2>1. Init => StepsBounded
    BY DEF Init, StepsBounded, StepsToStop, QuestionStages
  <2>. QED
    BY <2>1, InitTypeInv
<1>2. TypeInv /\ StepsBounded /\ [Next]_vars => (TypeInv /\ StepsBounded)'
  BY NextTypeInv, NextSteps
<1>3. TypeInv /\ StepsBounded => StepBudgetSuffices
  <2>. SUFFICES ASSUME TypeInv, StepsBounded PROVE StepBudgetSuffices
    OBVIOUS
  <2>1. StepsToStop(stage) \in 0..5 /\ steps \in Nat
    BY StepsToStopBounds DEF TypeInv, TypeOK
  <2>. QED
    BY <2>1, SessionAssumption DEF StepsBounded, StepBudgetSuffices
<1>. QED
  BY <1>1, <1>2, <1>3, PTL DEF Spec

-----------------------------------------------------------------------------
(* The plan: what an evaluation releases and hands on, and what the hidden     *)
(* writes of next_dimension do to it.                                          *)

PlanInv == UnscoredBeforePlan /\ PlanTracksCoverage /\ DimensionBudgetsCovered

\* The property's sum is the one the plan lemmas count.
LEMMA RemainingIs == RemainingQuestions = Left(plan)
  BY DEF RemainingQuestions, Left, Remaining, SumOf

\* The property is what those lemmas keep.
LEMMA PlanInvIs ==
    ASSUME TypeOK
    PROVE  /\ RemainingQuestions = Left(plan) /\ RemainingQuestions \in Int
           /\ DimensionBudgetsCovered <=> Covers(plan) /\ Left(plan) <= question_budget
           /\ PlanTracksCoverage <=> Tracks(plan, coverage)
<1>1. plan \in PlanType /\ coverage \in CoverageType
  BY DEF TypeOK
<1>2. RemainingQuestions = Left(plan)
  BY RemainingIs
<1>3. Left(plan) \in Int
  BY <1>1, LeftIsANumber
<1>4. PlanTracksCoverage <=> Tracks(plan, coverage)
  BY <1>1, TracksIsRefreshed DEF PlanTracksCoverage
<1>. QED
  BY <1>2, <1>3, <1>4 DEF DimensionBudgetsCovered, Covers

\* The same of the next state.
LEMMA PlanInvNext ==
    ASSUME TypeOK', Covers(plan'), Left(plan') <= question_budget', Tracks(plan', coverage')
    PROVE  (PlanTracksCoverage /\ DimensionBudgetsCovered)'
<1>1. plan' \in PlanType /\ coverage' \in CoverageType
  BY DEF TypeOK
<1>2. (RemainingQuestions = Left(plan))'
  BY RemainingIs, PTL
<1>3. Refresh(plan', coverage') = plan'
  BY <1>1, TracksIsRefreshed
<1>4. \A d \in Dims : plan'.asked_questions[d] <= plan'.question_budget[d]
  BY DEF Covers
<1>. QED
  BY <1>2, <1>3, <1>4 DEF PlanTracksCoverage, DimensionBudgetsCovered

\* A new plan has as many questions left as the planner budgets.
LEMMA CreatedPlan ==
    ASSUME NEW dims \in SUBSET Dims, NEW core \in SUBSET dims,
           NEW board \in CoverageType, \A d \in Dims : board[d] = 0
    PROVE  LET created == CreatePlan(dims, core)
           IN  /\ Covers(created) /\ Tracks(created, board)
               /\ Left(created) = created.total_question_budget
               /\ \A d \in Dims : ~ created.completed[d]
<1>. DEFINE created == CreatePlan(dims, core)
            one == [d \in Dims |-> IF d \in dims THEN 1 ELSE 0]
            more == [d \in Dims |-> IF d \in core THEN 1 ELSE 0]
            rest == Remaining(created)
<1>1. created \in PlanType
  BY CreatePlanType
<1>2. /\ \A d \in Dims : /\ created.asked_questions[d] = 0
                         /\ created.current_coverage[d] = 0 /\ ~ created.completed[d]
                         /\ created.question_budget[d] \in Nat
      /\ created.total_question_budget = Cardinality(dims) + Cardinality(dims \cap core)
  BY DEF CreatePlan
<1>3. one \in [Dims -> Int] /\ more \in [Dims -> Int] /\ rest \in [Dims -> Int]
  BY <1>1, LeftIsANumber
<1>4. ASSUME NEW d \in Dims
      PROVE  rest[d] = one[d] + more[d]
  <2>1. rest[d] = created.question_budget[d] - created.asked_questions[d]
    BY DEF Remaining
  <2>2. created.question_budget[d] = IF d \notin dims THEN 0 ELSE IF d \in core THEN 2 ELSE 1
    BY DEF CreatePlan
  <2>3. rest[d] = created.question_budget[d]
    BY <1>2, <2>1
  <2>. HIDE DEF rest, created
  <2>4. CASE d \notin dims
    BY <2>2, <2>3, <2>4
  <2>5. CASE d \in dims /\ d \in core
    BY <2>2, <2>3, <2>5
  <2>6. CASE d \in dims /\ d \notin core
    BY <2>2, <2>3, <2>6
  <2>. QED
    BY <2>4, <2>5, <2>6
<1>5. SumOf(one) = Cardinality(dims) /\ SumOf(more) = Cardinality(core)
  <2>1. core \in SUBSET Dims
    OBVIOUS
  <2>. QED
    BY <2>1, SumCounts
<1>6. Left(created) = SumOf(rest)
  BY DEF Left
<1>. HIDE DEF rest, one, more, created
<1>7. SumOf(rest) = SumOf(one) + SumOf(more)
  BY <1>3, <1>4, SumAdds
<1>8. dims \cap core = core
  OBVIOUS
<1>9. Covers(created)
  BY <1>2 DEF Covers
<1>10. Tracks(created, board)
  BY <1>2 DEF Tracks, CoverageTarget
<1>. QED
  BY <1>2, <1>5, <1>6, <1>7, <1>8, <1>9, <1>10 DEF created

\* A fresh board has the empty plan and nothing scored.
LEMMA InitPlan == Init => PlanInv
<1>. SUFFICES ASSUME Init PROVE PlanInv
  OBVIOUS
<1>1. TypeOK
  BY InitTypeInv DEF TypeInv
<1>2. coverage \in CoverageType /\ \A d \in Dims : coverage[d] = 0
  BY <1>1 DEF Init, TypeOK
<1>3. plan = CreatePlan({}, {}) /\ question_budget = 0
  BY DEF Init, EmptyPlan
<1>4. CreatePlan({}, {}).total_question_budget = 0
  BY FS_EmptySet DEF CreatePlan
<1>5. Covers(plan) /\ Tracks(plan, coverage) /\ Left(plan) = 0
  BY <1>2, <1>3, <1>4, CreatedPlan
<1>6. PlanTracksCoverage /\ DimensionBudgetsCovered
  BY <1>1, <1>3, <1>5, PlanInvIs
<1>7. UnscoredBeforePlan
  BY DEF Init, UnscoredBeforePlan
<1>. QED
  BY <1>6, <1>7 DEF PlanInv

\* The planner writes its plan over an unscored board.
LEMMA PublishPlanPlan == TypeInv /\ BudgetInv /\ PlanInv /\ PublishPlan => PlanInv'
<1>. SUFFICES ASSUME TypeInv, BudgetInv, PlanInv, PublishPlan PROVE PlanInv'
  OBVIOUS
<1>1. TypeOK /\ TypeOK'
  BY PublishPlanType DEF TypeInv
<1>2. PICK dims \in SUBSET Dims : \E core \in SUBSET dims : plan' = CreatePlan(dims, core)
  BY DEF PublishPlan
<1>3. PICK core \in SUBSET dims : plan' = CreatePlan(dims, core)
  BY <1>2
<1>4. /\ stage = "INTERVIEW_PLANNING" /\ stage' = "QUESTION_PREPARING"
      /\ coverage' = coverage /\ question_budget' = plan'.total_question_budget
  BY DEF PublishPlan, assessVars
<1>5. coverage' \in CoverageType /\ \A d \in Dims : coverage'[d] = 0
  BY <1>1, <1>4 DEF PlanInv, UnscoredBeforePlan, SetupStages, TypeOK
<1>6. Covers(plan') /\ Tracks(plan', coverage') /\ Left(plan') = question_budget'
  BY <1>3, <1>4, <1>5, CreatedPlan
<1>7. question_budget' \in Nat
  BY <1>1 DEF TypeOK
<1>8. UnscoredBeforePlan'
  BY <1>4 DEF UnscoredBeforePlan, SetupStages
<1>9. (PlanTracksCoverage /\ DimensionBudgetsCovered)'
  <2>1. Left(plan') <= question_budget'
    BY <1>6, <1>7
  <2>. QED
    BY <1>1, <1>6, <2>1, PlanInvNext
<1>. QED
  BY <1>8, <1>9 DEF PlanInv
\* A main question takes one question from an open dimension and from the session.
LEMMA PublishMainQuestionPlan ==
    ASSUME TypeInv, BudgetInv, PlanInv, PublishMainQuestion
    PROVE  PlanInv' /\ KeepsClosed(plan, plan')
<1>1. TypeOK /\ TypeOK' /\ plan \in PlanType /\ plan' \in PlanType /\ coverage \in CoverageType
  BY PublishMainQuestionType DEF TypeInv, TypeOK
<1>2. /\ Covers(plan) /\ Left(plan) <= question_budget /\ Tracks(plan, coverage)
      /\ Refresh(plan, coverage) = plan /\ Left(plan) \in Int
  BY <1>1, PlanInvIs DEF PlanInv, PlanTracksCoverage
<1>3. PICK d \in NextDimension(plan, coverage) :
         /\ Publish(<<Len(rounds) + 1, 0>>, d)
         /\ plan' = MarkQuestionAsked(Refresh(plan, coverage), d)
  BY DEF PublishMainQuestion
<1>4. d \in Dims /\ d \in plan.dims
  BY <1>1, NextDimensionPlanned
<1>5. ~ plan.completed[d] /\ plan.question_budget[d] > plan.asked_questions[d]
  BY <1>2, OpenIs DEF NextDimension
<1>6. plan' = [plan EXCEPT !.asked_questions[d] = plan.asked_questions[d] + 1]
  BY <1>2, <1>3 DEF MarkQuestionAsked
<1>7. /\ plan'.question_budget = plan.question_budget /\ plan'.completed = plan.completed
      /\ plan'.current_coverage = plan.current_coverage /\ plan'.dims = plan.dims
      /\ plan'.asked_questions[d] = plan.asked_questions[d] + 1
      /\ \A e \in Dims : e # d => plan'.asked_questions[e] = plan.asked_questions[e]
  BY <1>1, <1>4, <1>6 DEF PlanType
<1>8. \A e \in Dims : plan.question_budget[e] \in Nat /\ plan.asked_questions[e] \in Nat
  BY <1>1 DEF PlanType
<1>9. question_budget' = question_budget - 1 /\ question_budget \in Nat /\ coverage' = coverage
  <2>1. question_budget > 0
    BY <1>4 DEF BudgetInv, BudgetAvailable, PublishMainQuestion, QuestionStages
  <2>. QED
    BY <1>1, <2>1 DEF PublishMainQuestion, TypeOK, Larger, assessVars
<1>10. Covers(plan')
  BY <1>2, <1>4, <1>5, <1>7, <1>8 DEF Covers
<1>11. Tracks(plan', coverage')
  BY <1>2, <1>7, <1>9 DEF Tracks
<1>12. Left(plan') = Left(plan) - 1
  <2>. DEFINE f == Remaining(plan)
              g == Remaining(plan')
  <2>1. f \in [Dims -> Int] /\ g \in [Dims -> Int]
    BY <1>1, LeftIsANumber
  <2>2. \A e \in Dims : /\ f[e] = plan.question_budget[e] - plan.asked_questions[e]
                        /\ g[e] = plan'.question_budget[e] - plan'.asked_questions[e]
    BY DEF Remaining
  <2>3. Left(plan) = SumOf(f) /\ Left(plan') = SumOf(g)
    BY DEF Left
  <2>. HIDE DEF f, g
  <2>4. \A e \in Dims : e # d => g[e] = f[e]
    BY <1>7, <2>2
  <2>5. g[d] - f[d] = -1
    BY <1>4, <1>7, <1>8, <2>2
  <2>6. SumOf(g) = SumOf(f) + (g[d] - f[d]) /\ SumOf(f) \in Int
    BY <1>4, <2>1, <2>4, SumChanges
  <2>. QED
    BY <2>3, <2>5, <2>6
<1>13. Left(plan') <= question_budget'
  BY <1>2, <1>9, <1>12
<1>14. KeepsClosed(plan, plan')
  BY <1>5, <1>7, <1>8 DEF KeepsClosed
<1>15. UnscoredBeforePlan'
  BY <1>3 DEF UnscoredBeforePlan, Publish, SetupStages
<1>. QED
  BY <1>1, <1>10, <1>11, <1>13, <1>14, <1>15, PlanInvNext DEF PlanInv

\* An evaluation scores the dimension of the current question.
LEMMA PublishEvaluationPlan ==
    ASSUME TypeInv, PlanInv, PublishEvaluation
    PROVE  PlanInv' /\ KeepsClosed(plan, plan')
<1>. DEFINE d == current_question.dimension
<1>1. TypeOK /\ TypeOK' /\ plan \in PlanType /\ plan' \in PlanType
      /\ coverage \in CoverageType /\ coverage' \in CoverageType
  BY PublishEvaluationType DEF TypeInv, TypeOK
<1>2. d \in Dims
  BY DEF TypeInv, PublishEvaluation, QuestionPlaced, SetupStages
<1>3. PICK score \in Scores, evidence \in EvidenceCounts, missing \in BOOLEAN, confident \in BOOLEAN :
         /\ coverage' = UpdateDimension(coverage, d, score, evidence)
         /\ plan' = ApplyEvaluation(plan, d, score, missing, coverage')
         /\ latest_evaluation' = [missing |-> missing, confident |-> confident]
  BY Zenon DEF PublishEvaluation
<1>4. score \in Percent
  BY SessionAssumption
<1>. HIDE DEF d
<1>5. \A e \in Dims : e # d => coverage'[e] = coverage[e]
  BY <1>1, <1>3 DEF UpdateDimension, CoverageType
<1>6. /\ Covers(plan) /\ Left(plan) <= question_budget /\ Tracks(plan, coverage)
      /\ Left(plan) \in Int
  BY <1>1, PlanInvIs DEF PlanInv
<1>7. /\ Covers(plan') /\ KeepsClosed(plan, plan') /\ Left(plan') <= Left(plan)
      /\ Tracks(plan', coverage')
  BY <1>1, <1>2, <1>3, <1>4, <1>5, <1>6, EvaluationKeeps
<1>8. Left(plan') <= question_budget'
  <2>1. question_budget' = question_budget /\ question_budget \in Nat
    BY <1>1 DEF PublishEvaluation, TypeOK
  <2>2. Left(plan') \in Int
    BY <1>1, LeftIsANumber
  <2>. QED
    BY <1>6, <1>7, <2>1, <2>2
<1>9. UnscoredBeforePlan'
  BY DEF UnscoredBeforePlan, PublishEvaluation, SetupStages
<1>. QED
  BY <1>1, <1>7, <1>8, <1>9, PlanInvNext DEF PlanInv

\* A plan that differs in nothing the invariant looks at.
LEMMA SamePlanning ==
    ASSUME TypeOK, TypeOK', PlanInv,
           plan'.dims = plan.dims, plan'.question_budget = plan.question_budget,
           plan'.asked_questions = plan.asked_questions,
           plan'.current_coverage = plan.current_coverage, plan'.completed = plan.completed,
           question_budget' = question_budget, coverage' = coverage,
           stage' \in SetupStages => stage \in SetupStages
    PROVE  PlanInv' /\ KeepsClosed(plan, plan')
<1>1. Covers(plan) /\ Left(plan) <= question_budget /\ Tracks(plan, coverage)
  BY PlanInvIs DEF PlanInv
<1>2. Covers(plan') /\ Left(plan') <= question_budget' /\ Tracks(plan', coverage')
  BY <1>1 DEF Covers, Left, Remaining, Tracks
<1>3. KeepsClosed(plan, plan')
  <2>1. \A d \in Dims : plan.question_budget[d] \in Nat
    BY DEF TypeOK, PlanType
  <2>. QED
    BY <2>1 DEF KeepsClosed
<1>4. UnscoredBeforePlan'
  BY DEF PlanInv, UnscoredBeforePlan
<1>. QED
  BY <1>2, <1>3, <1>4, PlanInvNext DEF PlanInv

\* Deciding, and failing, refreshes a plan that is up to date.
LEMMA RefreshingPlan ==
    ASSUME TypeInv, PlanInv,
           DecideFollowUp \/ DecideNextQuestion \/ DecideReport \/ AgentFails
    PROVE  PlanInv' /\ KeepsClosed(plan, plan')
<1>1. TypeOK /\ TypeOK' /\ plan \in PlanType
  BY DecideFollowUpType, DecideNextQuestionType, DecideReportType, AgentFailsType
  DEF TypeInv, TypeOK
<1>2. Refresh(plan, coverage) = plan
  BY DEF PlanInv, PlanTracksCoverage
<1>3. CASE DecideFollowUp
  <2>1. /\ plan'.dims = plan.dims /\ plan'.question_budget = plan.question_budget
        /\ plan'.asked_questions = plan.asked_questions
        /\ plan'.current_coverage = plan.current_coverage /\ plan'.completed = plan.completed
    BY <1>1, <1>3 DEF DecideFollowUp, PlanType
  <2>2. question_budget' = question_budget /\ coverage' = coverage /\ stage' = "FOLLOW_UP"
    BY <1>3 DEF DecideFollowUp, Decide
  <2>. QED
    BY <1>1, <2>1, <2>2, SamePlanning DEF SetupStages
<1>4. CASE DecideNextQuestion \/ DecideReport
  <2>1. /\ plan' = plan /\ question_budget' = question_budget /\ coverage' = coverage
        /\ stage' \notin SetupStages
    BY <1>2, <1>4 DEF DecideNextQuestion, DecideReport, Decide, SetupStages
  <2>. QED
    BY <1>1, <2>1, SamePlanning
<1>5. CASE AgentFails
  <2>1. /\ plan' = plan /\ question_budget' = question_budget /\ coverage' = coverage
        /\ stage' \notin SetupStages
    BY <1>2, <1>5 DEF AgentFails, assessVars, SetupStages
  <2>. QED
    BY <1>1, <2>1, SamePlanning
<1>. QED
  BY <1>3, <1>4, <1>5

\* The steps that leave plan and coverage alone.
LEMMA OtherPlan ==
    ASSUME TypeInv, PlanInv,
           \/ Begin \/ PublishProfile \/ PublishFollowUp \/ AskQuestion \/ PublishReport
           \/ SubmitAnswer \/ SubmitHumanReview \/ DriverReturns \/ StepBudgetExhausted
           \/ ResumeInterview \/ Crash \/ TimeOut \/ UNCHANGED vars
    PROVE  PlanInv' /\ KeepsClosed(plan, plan')
<1>1. TypeOK /\ TypeOK'
  BY BeginType, PublishProfileType, PublishFollowUpType, AskQuestionType, PublishReportType,
     SubmitAnswerType, SubmitHumanReviewType, OutsideType DEF TypeInv
<1>2. CASE Begin \/ PublishProfile
  BY <1>1, <1>2, SamePlanning DEF Begin, PublishProfile, planVars, assessVars, SetupStages
<1>3. CASE PublishFollowUp
  BY <1>1, <1>3, SamePlanning DEF PublishFollowUp, Publish, planVars, assessVars, SetupStages
<1>4. CASE AskQuestion \/ PublishReport \/ SubmitAnswer \/ SubmitHumanReview
  BY <1>1, <1>4, SamePlanning DEF AskQuestion, PublishReport, SubmitAnswer, SubmitHumanReview,
     planVars, assessVars, SetupStages
<1>5. CASE DriverReturns \/ StepBudgetExhausted \/ ResumeInterview \/ Crash \/ TimeOut
           \/ UNCHANGED vars
  <2>1. UNCHANGED sessionVars
    BY <1>5 DEF DriverReturns, StepBudgetExhausted, ResumeInterview, Crash, TimeOut, vars
  <2>. QED
    BY <1>1, <2>1, SamePlanning DEF sessionVars, planVars, assessVars
<1>. QED
  BY <1>2, <1>3, <1>4, <1>5

\* The planner overwrites a plan in which nothing is completed.
LEMMA PublishPlanOpens == TypeInv /\ BudgetInv /\ PublishPlan => KeepsClosed(plan, plan')
<1>. SUFFICES ASSUME TypeInv, BudgetInv, PublishPlan PROVE KeepsClosed(plan, plan')
  OBVIOUS
<1>1. plan = EmptyPlan
  BY DEF BudgetInv, BudgetAvailable, PublishPlan, SetupStages
<1>2. \A d \in Dims : ~ plan.completed[d]
  BY <1>1 DEF EmptyPlan, CreatePlan
<1>. QED
  BY <1>2 DEF KeepsClosed

\* Every step keeps the plan, and leaves its closed dimensions closed.
LEMMA NextPlan ==
    TypeInv /\ BudgetInv /\ PlanInv /\ [Next]_vars => PlanInv' /\ KeepsClosed(plan, plan')
  BY PublishPlanPlan, PublishPlanOpens, PublishMainQuestionPlan, PublishEvaluationPlan,
     RefreshingPlan, OtherPlan
  DEF Next, RunStep

\* Releasing and redistributing question budget overdraws no dimension and never hands
\* out more than the session's question_budget, for every number of dimensions with
\* distinct names and all weights (InterviewPlan.update_after_evaluation,
\* InterviewPlanPolicy).
THEOREM PlanBudgetsCovered == Spec => []DimensionBudgetsCovered
<1>1. Init => TypeInv /\ BudgetInv /\ PlanInv
  BY InitTypeInv, InitBudget, InitPlan
<1>2. TypeInv /\ BudgetInv /\ PlanInv /\ [Next]_vars => (TypeInv /\ BudgetInv /\ PlanInv)'
  BY NextTypeInv, NextBudget, NextPlan
<1>3. PlanInv => DimensionBudgetsCovered
  BY DEF PlanInv
<1>. QED
  BY <1>1, <1>2, <1>3, PTL DEF Spec

\* The writes hidden in InterviewPlan.next_dimension never change the plan: every
\* evaluation already brought it up to date with the capability coverage.  The names
\* of the dimensions are distinct.
THEOREM PlanUpToDate == Spec => []PlanTracksCoverage
<1>1. Init => TypeInv /\ BudgetInv /\ PlanInv
  BY InitTypeInv, InitBudget, InitPlan
<1>2. TypeInv /\ BudgetInv /\ PlanInv /\ [Next]_vars => (TypeInv /\ BudgetInv /\ PlanInv)'
  BY NextTypeInv, NextBudget, NextPlan
<1>3. PlanInv => PlanTracksCoverage
  BY DEF PlanInv
<1>. QED
  BY <1>1, <1>2, <1>3, PTL DEF Spec

\* A completed dimension stays completed, is asked no further main question and gets
\* no budget from another dimension.
THEOREM ClosedStaysClosed == Spec => CompletedDimensionsClosed
<1>1. Init => TypeInv /\ BudgetInv /\ PlanInv
  BY InitTypeInv, InitBudget, InitPlan
<1>2. TypeInv /\ BudgetInv /\ PlanInv /\ [Next]_vars => (TypeInv /\ BudgetInv /\ PlanInv)'
  BY NextTypeInv, NextBudget, NextPlan
<1>3. TypeInv /\ BudgetInv /\ PlanInv /\ [Next]_vars =>
         [\A d \in Dims : plan.completed[d] =>
             /\ plan'.completed[d]
             /\ plan'.asked_questions[d] = plan.asked_questions[d]
             /\ plan'.question_budget[d] <= plan.question_budget[d]]_vars
  BY NextPlan DEF KeepsClosed
<1>. QED
  BY <1>1, <1>2, <1>3, PTL DEF Spec, CompletedDimensionsClosed

-----------------------------------------------------------------------------
(* What a decision promises: another question exists, and where.               *)

PromiseInv == DimensionOfQuestion /\ PromisedQuestionExists

\* A step that moves neither plan nor question and promises nothing new.
LEMMA PromiseKept ==
    ASSUME PromiseInv,
           UNCHANGED <<plan, coverage, current_dimension, current_question>>,
           stage' \in {"NEXT_QUESTION", "NEXT_DIMENSION"} => stage' = stage,
           \/ stage' \in SetupStages \cup {"QUESTION_PREPARING", "FAILED"}
           \/ stage \notin SetupStages \cup {"QUESTION_PREPARING", "FAILED"}
    PROVE  PromiseInv'
<1>1. (NextDimension(plan, coverage))' = NextDimension(plan, coverage)
  OBVIOUS
<1>2. DimensionOfQuestion'
  BY DEF PromiseInv, DimensionOfQuestion
<1>3. PromisedQuestionExists'
  BY <1>1 DEF PromiseInv, PromisedQuestionExists
<1>. QED
  BY <1>2, <1>3 DEF PromiseInv

\* Publishing puts the question and its dimension on the board together.
LEMMA PromiseAsked ==
    ASSUME NEW id, NEW d, Publish(id, d)
    PROVE  PromiseInv'
  BY DEF PromiseInv, Publish, DimensionOfQuestion, PromisedQuestionExists

\* The guard saw an open dimension, so there is one to ask about, and NEXT_DIMENSION
\* is chosen exactly when it is not the current one.
LEMMA PromiseMade ==
    ASSUME TypeInv, PlanInv, PromiseInv, DecideNextQuestion
    PROVE  PromiseInv'
<1>1. /\ plan \in PlanType /\ current_question.dimension \in Dims
      /\ current_dimension = current_question.dimension
  BY DEF TypeInv, TypeOK, QuestionPlaced, PromiseInv, DimensionOfQuestion, DecideNextQuestion,
     Decide, SetupStages
<1>2. current_dimension # NoDimension
  BY <1>1 DEF Dims, NoDimension
<1>3. /\ plan' = plan /\ coverage' = coverage
      /\ current_dimension' = current_dimension /\ current_question' = current_question
  BY DEF PlanInv, PlanTracksCoverage, DecideNextQuestion, Decide, questionVars
<1>4. (NextDimension(plan, coverage))' = NextDimension(plan, coverage)
  BY <1>3
<1>5. NextDimension(plan, coverage) # {}
  <2>1. OpenDimensions(plan, coverage) # {}
    BY DEF DecideNextQuestion, AllowNextQuestion
  <2>. QED
    BY <1>1, <2>1, NextDimensionExists
<1>6. stage' = IF \E d \in NextDimension(plan, coverage) : d # current_dimension
               THEN "NEXT_DIMENSION" ELSE "NEXT_QUESTION"
  BY <1>2 DEF DecideNextQuestion
<1>7. \A d, e \in NextDimension(plan, coverage) : d = e
  BY <1>1, NextDimensionUnique
<1>8. DimensionOfQuestion'
  BY <1>1, <1>3 DEF DimensionOfQuestion
<1>9. PromisedQuestionExists'
  <2>1. CASE \E d \in NextDimension(plan, coverage) : d # current_dimension
    <3>1. stage' = "NEXT_DIMENSION"
      BY <1>6, <2>1
    <3>2. current_dimension \notin NextDimension(plan, coverage)
      BY <1>7, <2>1
    <3>. QED
      BY <1>3, <1>4, <1>5, <3>1, <3>2 DEF PromisedQuestionExists
  <2>2. CASE ~ \E d \in NextDimension(plan, coverage) : d # current_dimension
    <3>1. stage' = "NEXT_QUESTION"
      BY <1>6, <2>2
    <3>2. current_dimension \in NextDimension(plan, coverage)
      BY <1>5, <2>2
    <3>. QED
      BY <1>3, <1>4, <1>5, <3>1, <3>2 DEF PromisedQuestionExists
  <2>. QED
    BY <2>1, <2>2
<1>. QED
  BY <1>8, <1>9 DEF PromiseInv

\* Every step keeps what was promised.
LEMMA NextPromise == TypeInv /\ PlanInv /\ PromiseInv /\ [Next]_vars => PromiseInv'
<1>. SUFFICES ASSUME TypeInv, PlanInv, PromiseInv, [Next]_vars PROVE PromiseInv'
  OBVIOUS
<1>1. CASE PublishMainQuestion \/ PublishFollowUp
  BY <1>1, PromiseAsked DEF PublishMainQuestion, PublishFollowUp
<1>2. CASE DecideNextQuestion
  BY <1>2, PromiseMade
<1>3. CASE Begin \/ PublishProfile \/ PublishPlan \/ AgentFails
  <2>1. stage' \in SetupStages \cup {"QUESTION_PREPARING", "FAILED"}
    BY <1>3 DEF Begin, PublishProfile, PublishPlan, AgentFails, SetupStages
  <2>. QED
    BY <2>1 DEF PromiseInv, DimensionOfQuestion, PromisedQuestionExists, SetupStages
<1>4. CASE AskQuestion \/ PublishReport \/ SubmitAnswer \/ SubmitHumanReview
  BY <1>4, PromiseKept DEF AskQuestion, PublishReport, SubmitAnswer, SubmitHumanReview,
     planVars, questionVars, assessVars, SetupStages
<1>5. CASE PublishEvaluation \/ DecideFollowUp \/ DecideReport
  <2>1. /\ stage \in {"EVALUATING", "DECISION"}
        /\ stage' \in {"DECISION", "FOLLOW_UP", "REPORTING"}
        /\ UNCHANGED <<current_dimension, current_question>>
    BY <1>5 DEF PublishEvaluation, DecideFollowUp, DecideReport, Decide, questionVars
  <2>. QED
    BY <2>1 DEF PromiseInv, DimensionOfQuestion, PromisedQuestionExists, SetupStages
<1>6. CASE \/ DriverReturns \/ StepBudgetExhausted \/ ResumeInterview \/ Crash \/ TimeOut
           \/ UNCHANGED vars
  <2>1. UNCHANGED sessionVars
    BY <1>6 DEF DriverReturns, StepBudgetExhausted, ResumeInterview, Crash, TimeOut, vars
  <2>2. UNCHANGED <<stage, plan, coverage, current_dimension, current_question>>
    BY <2>1 DEF sessionVars, planVars, questionVars, assessVars
  <2>. QED
    BY <2>2, PromiseKept
<1>. QED
  BY <1>1, <1>2, <1>3, <1>4, <1>5, <1>6 DEF Next, RunStep

\* When the guard promised another question, question generation finds the dimension
\* the guard saw: _select_dimension cannot raise in NEXT_QUESTION or NEXT_DIMENSION.
THEOREM PromisesKept == Spec => []PromisedQuestionExists
<1>1. Init => TypeInv /\ BudgetInv /\ PlanInv /\ PromiseInv
  <2>1. Init => PromiseInv
    BY DEF Init, PromiseInv, DimensionOfQuestion, PromisedQuestionExists, SetupStages
  <2>. QED
    BY <2>1, InitTypeInv, InitBudget, InitPlan
<1>2. TypeInv /\ BudgetInv /\ PlanInv /\ PromiseInv /\ [Next]_vars
         => (TypeInv /\ BudgetInv /\ PlanInv /\ PromiseInv)'
  BY NextTypeInv, NextBudget, NextPlan, NextPromise
<1>3. PromiseInv => PromisedQuestionExists
  BY DEF PromiseInv
<1>. QED
  BY <1>1, <1>2, <1>3, PTL DEF Spec

-----------------------------------------------------------------------------
(* The limits: the session's timeout and its number of questions               *)

LateInv == LateIsLast /\ OneLateQuestion

\* Publishing counts a question as late once the session timed out.
LEMMA LateAsked ==
    ASSUME LateInv, NEW id, NEW d, Publish(id, d), expired' = expired,
           stage \in QuestionStages \cup {"FOLLOW_UP"}
    PROVE  LateInv'
<1>1. late_questions = 0 /\ (~ expired => late_questions' = 0) /\ late_questions' <= 1
  BY DEF LateInv, LateIsLast, Publish
<1>2. stage' = "QUESTIONING"
  BY DEF Publish
<1>. QED
  BY <1>1, <1>2 DEF LateInv, LateIsLast, OneLateQuestion, SetupStages, QuestionStages

\* Every step keeps the timeout: no decision asks for more once it has passed.
LEMMA NextLate == TypeInv /\ LateInv /\ [Next]_vars => LateInv'
<1>. SUFFICES ASSUME TypeInv, LateInv, [Next]_vars PROVE LateInv'
  OBVIOUS
<1>1. CASE PublishMainQuestion \/ PublishFollowUp
  <2>1. /\ \E id, d : Publish(id, d)
        /\ expired' = expired /\ stage \in QuestionStages \cup {"FOLLOW_UP"}
    BY <1>1 DEF PublishMainQuestion, PublishFollowUp, Step
  <2>. QED
    BY <2>1, LateAsked
<1>2. CASE DecideFollowUp \/ DecideNextQuestion
  <2>1. ~ expired /\ expired' = expired /\ late_questions' = late_questions
    BY <1>2 DEF DecideFollowUp, DecideNextQuestion, Decide, Step, AllowFollowUp,
       AllowNextQuestion, questionVars
  <2>. QED
    BY <2>1 DEF LateInv, LateIsLast, OneLateQuestion
<1>3. CASE \/ Begin \/ PublishProfile \/ PublishPlan \/ AskQuestion \/ PublishEvaluation
           \/ PublishReport \/ AgentFails
  <2>1. /\ expired' = expired /\ late_questions' = late_questions
        /\ stage' \in SetupStages \cup QuestionStages \cup {"FOLLOW_UP"} => stage \in SetupStages
    BY <1>3 DEF Begin, PublishProfile, PublishPlan, AskQuestion, PublishEvaluation,
       PublishReport, AgentFails, Step, questionVars, SetupStages, QuestionStages
  <2>. QED
    BY <2>1 DEF LateInv, LateIsLast, OneLateQuestion
<1>4. CASE DecideReport
  BY <1>4 DEF DecideReport, Decide, Step, questionVars, LateInv, LateIsLast, OneLateQuestion,
     SetupStages, QuestionStages
<1>5. CASE SubmitAnswer \/ SubmitHumanReview
  BY <1>5 DEF SubmitAnswer, SubmitHumanReview, questionVars, LateInv, LateIsLast,
     OneLateQuestion, SetupStages, QuestionStages
<1>6. CASE \/ DriverReturns \/ StepBudgetExhausted \/ ResumeInterview \/ Crash \/ TimeOut
           \/ UNCHANGED vars
  <2>1. UNCHANGED <<stage, late_questions>> /\ (expired' = expired \/ expired')
    BY <1>6 DEF DriverReturns, StepBudgetExhausted, ResumeInterview, Crash, TimeOut, vars,
       sessionVars, questionVars
  <2>. QED
    BY <2>1 DEF LateInv, LateIsLast, OneLateQuestion
<1>. QED
  BY <1>1, <1>2, <1>3, <1>4, <1>5, <1>6 DEF Next, RunStep

\* After session_not_timeout() has turned false at most one question is asked, the one
\* already decided (TransitionGuard, InterviewStateMachine.transition).
THEOREM LateOnlyOnce == Spec => []OneLateQuestion
<1>1. Init => TypeInv /\ LateInv
  <2>1. Init => LateInv
    BY DEF Init, LateInv, LateIsLast, OneLateQuestion
  <2>. QED
    BY <2>1, InitTypeInv
<1>2. TypeInv /\ LateInv /\ [Next]_vars => (TypeInv /\ LateInv)'
  BY NextTypeInv, NextLate
<1>3. LateInv => OneLateQuestion
  BY DEF LateInv
<1>. QED
  BY <1>1, <1>2, <1>3, PTL DEF Spec

LimitInv == QuestionsCounted /\ QuestionLimit

\* How many questions were asked is a number, and publishing one raises it by one at most.
LEMMA AskedCount ==
    ASSUME IdInv, NEW id, NEW d, Publish(id, d)
    PROVE  /\ Cardinality(asked_question_ids) \in Nat
           /\ Cardinality(asked_question_ids') \in Nat
           /\ Cardinality(asked_question_ids') <= Cardinality(asked_question_ids) + 1
<1>1. IsFiniteSet(asked_question_ids) /\ asked_question_ids' = asked_question_ids \cup {id}
  BY DEF IdInv, Publish
<1>2. Cardinality(asked_question_ids) \in Nat
  BY <1>1, FS_CardinalityType
<1>3. Cardinality(asked_question_ids') = IF id \in asked_question_ids
         THEN Cardinality(asked_question_ids) ELSE Cardinality(asked_question_ids) + 1
  BY <1>1, FS_AddElement
<1>. QED
  BY <1>2, <1>3

\* A main question was within the limit when it was promised, and the first one is.
LEMMA MainQuestionLimit ==
    ASSUME TypeInv, IdInv, LimitInv, PublishMainQuestion
    PROVE  LimitInv'
<1>1. PICK d \in NextDimension(plan, coverage) : Publish(<<Len(rounds) + 1, 0>>, d)
  BY DEF PublishMainQuestion
<1>2. stage' = "QUESTIONING"
  BY <1>1 DEF Publish
<1>3. Cardinality(asked_question_ids) < SessionQuestionLimit
  <2>1. CASE stage = "QUESTION_PREPARING"
    <3>1. Cardinality(asked_question_ids) = 0
      BY <2>1, FS_EmptySet DEF LimitInv, QuestionsCounted
    <3>. QED
      BY <3>1, SessionAssumption
  <2>2. CASE stage \in {"NEXT_QUESTION", "NEXT_DIMENSION"}
    BY <2>2 DEF LimitInv, QuestionsCounted
  <2>. QED
    BY <2>1, <2>2 DEF PublishMainQuestion, QuestionStages
<1>4. Cardinality(asked_question_ids') <= SessionQuestionLimit
  BY <1>1, <1>3, AskedCount, SessionAssumption
<1>5. QuestionLimit'
  BY <1>1, <1>4, AskedCount, SessionAssumption DEF QuestionLimit
<1>. QED
  BY <1>2, <1>4, <1>5 DEF LimitInv, QuestionsCounted, SetupStages

\* A follow-up follows a main question, which was within the limit, and is not followed
\* by another.
LEMMA FollowUpLimit ==
    ASSUME TypeInv, IdInv, LimitInv, PublishFollowUp
    PROVE  LimitInv'
<1>. DEFINE parent == Parent(current_question)
            round == rounds[parent] + 1
<1>1. stage = "FOLLOW_UP" /\ Publish(<<parent, round>>, current_question.dimension)
  BY DEF PublishFollowUp
<1>2. stage' = "QUESTIONING" /\ current_question'.id = <<parent, round>>
  BY <1>1 DEF Publish
<1>3. rounds[parent] \in Nat
  BY <1>1 DEF TypeInv, TypeOK, QuestionPlaced, SetupStages
<1>4. IsFollowUp(current_question')
  BY <1>2, <1>3 DEF IsFollowUp
<1>5. Cardinality(asked_question_ids) <= SessionQuestionLimit
  BY <1>1 DEF LimitInv, QuestionsCounted
<1>. HIDE DEF parent, round
<1>6. QuestionLimit'
  BY <1>1, <1>5, AskedCount, SessionAssumption DEF QuestionLimit
<1>7. QuestionsCounted'
  BY <1>2, <1>4 DEF QuestionsCounted, SetupStages
<1>. QED
  BY <1>6, <1>7 DEF LimitInv

\* The other steps ask nothing; the guard promises a main question below the limit and
\* FollowUpAgent a follow-up to a main question only.
LEMMA NextLimit == TypeInv /\ IdInv /\ LimitInv /\ [Next]_vars => LimitInv'
<1>. SUFFICES ASSUME TypeInv, IdInv, LimitInv, [Next]_vars PROVE LimitInv'
  OBVIOUS
<1>. USE DEF LimitInv, QuestionLimit
<1>1. CASE PublishMainQuestion \/ PublishFollowUp
  BY <1>1, MainQuestionLimit, FollowUpLimit
<1>2. CASE DecideFollowUp
  <2>1. UNCHANGED <<asked_question_ids, current_question>> /\ stage' = "FOLLOW_UP"
    BY <1>2 DEF DecideFollowUp, Decide, questionVars
  <2>2. PICK decision \in AgentDecisions : AllowFollowUp(decision)
    BY <1>2 DEF DecideFollowUp
  <2>3. decision # Decline
    BY <2>2 DEF AllowFollowUp, Decline
  <2>4. ~ IsFollowUp(current_question)
    BY <2>3 DEF AgentDecisions, FollowUpWanted
  <2>5. ~ IsFollowUp(current_question')
    BY <2>1, <2>4
  <2>. QED
    BY <2>1, <2>4, <2>5 DEF QuestionsCounted, SetupStages
<1>3. CASE DecideNextQuestion
  <2>1. UNCHANGED <<asked_question_ids, current_question>>
        /\ stage' \in {"NEXT_QUESTION", "NEXT_DIMENSION"}
    BY <1>3 DEF DecideNextQuestion, Decide, questionVars
  <2>2. Cardinality(asked_question_ids) < SessionQuestionLimit
    BY <1>3 DEF DecideNextQuestion, AllowNextQuestion
  <2>. QED
    BY <2>1, <2>2 DEF QuestionsCounted, SetupStages, IsFollowUp
<1>4. CASE \/ Begin \/ PublishProfile \/ PublishPlan \/ AskQuestion \/ PublishEvaluation
           \/ PublishReport \/ AgentFails
  <2>1. /\ UNCHANGED <<asked_question_ids, current_question>>
        /\ stage' \in SetupStages \cup {"QUESTION_PREPARING"} => stage \in SetupStages
        /\ stage' \notin {"NEXT_QUESTION", "NEXT_DIMENSION", "FOLLOW_UP"}
    BY <1>4 DEF Begin, PublishProfile, PublishPlan, AskQuestion, PublishEvaluation,
       PublishReport, AgentFails, questionVars, SetupStages
  <2>. QED
    BY <2>1 DEF QuestionsCounted, IsFollowUp
<1>5. CASE DecideReport \/ SubmitAnswer \/ SubmitHumanReview
  <2>1. /\ UNCHANGED <<asked_question_ids, current_question>>
        /\ stage' \in {"REPORTING", "EVALUATING", "FINISHED", "FAILED"}
    BY <1>5 DEF DecideReport, Decide, SubmitAnswer, SubmitHumanReview, questionVars
  <2>. QED
    BY <2>1 DEF QuestionsCounted, IsFollowUp, SetupStages
<1>6. CASE \/ DriverReturns \/ StepBudgetExhausted \/ ResumeInterview \/ Crash \/ TimeOut
           \/ UNCHANGED vars
  <2>1. UNCHANGED <<stage, asked_question_ids, current_question>>
    BY <1>6 DEF DriverReturns, StepBudgetExhausted, ResumeInterview, Crash, TimeOut, vars,
       sessionVars, questionVars
  <2>. QED
    BY <2>1 DEF QuestionsCounted, IsFollowUp
<1>. QED
  BY <1>1, <1>2, <1>3, <1>4, <1>5, <1>6 DEF Next, RunStep

\* A session asks at most one question more than session_question_limit, the follow-up
\* to the last main question (TransitionGuard.allow_next_question, FollowUpAgent).
THEOREM QuestionsLimited == Spec => []QuestionLimit
<1>1. Init => TypeInv /\ IdInv /\ LimitInv
  <2>1. Init => IdInv
    BY FS_EmptySet DEF Init, IdInv, IdsBelowCounters, QuestionIdsUnique
  <2>2. Init => LimitInv
    BY FS_EmptySet, SessionAssumption DEF Init, LimitInv, QuestionsCounted, QuestionLimit
  <2>. QED
    BY <2>1, <2>2, InitTypeInv
<1>2. TypeInv /\ IdInv /\ LimitInv /\ [Next]_vars => (TypeInv /\ IdInv /\ LimitInv)'
  BY NextTypeInv, NextId, NextLimit
<1>3. LimitInv => QuestionLimit
  BY DEF LimitInv
<1>. QED
  BY <1>1, <1>2, <1>3, PTL DEF Spec

-----------------------------------------------------------------------------
(* InterviewFlow *)

FlowInv == TypeInv /\ BudgetInv

\* A step of the session that moves neither phase nor credit.
LEMMA FlowStutter ==
    ASSUME PhaseOf(stage') = PhaseOf(stage), Credit' = Credit
    PROVE  UNCHANGED Flow!flowVars
  BY DEF Flow!flowVars

\* Publishing a question, main or follow-up, is the abstract Ask.
LEMMA FlowAsk ==
    ASSUME FlowInv, PublishMainQuestion \/ PublishFollowUp
    PROVE  Flow!Ask
<1>1. question_budget \in Nat /\ follow_up_budget \in Nat
  BY DEF FlowInv, TypeInv, TypeOK
<1>2. CASE PublishMainQuestion
  <2>1. PICK d \in NextDimension(plan, coverage) : Publish(<<Len(rounds) + 1, 0>>, d)
    BY <1>2 DEF PublishMainQuestion
  <2>2. plan.dims # {}
    BY NextDimensionPlanned DEF FlowInv, TypeInv, TypeOK
  <2>3. question_budget > 0
    BY <1>2, <2>2 DEF FlowInv, BudgetInv, BudgetAvailable, PublishMainQuestion, QuestionStages
  <2>4. /\ question_budget' = question_budget - 1 /\ follow_up_budget' = follow_up_budget
        /\ stage \in QuestionStages /\ stage' = "QUESTIONING"
    BY <1>1, <1>2, <2>1, <2>3 DEF PublishMainQuestion, Publish, Larger
  <2>5. Credit > 0 /\ Credit' = Credit - 1
    BY <1>1, <2>3, <2>4 DEF Credit, QuestionStages
  <2>6. PhaseOf(stage) = "ask" /\ PhaseOf(stage') = "listen"
    BY <2>4 DEF PhaseOf, QuestionStages, SetupStages
  <2>. QED
    BY <2>5, <2>6 DEF Flow!Ask
<1>3. CASE PublishFollowUp
  <2>1. /\ question_budget' = question_budget /\ follow_up_budget' = follow_up_budget
        /\ stage = "FOLLOW_UP" /\ stage' = "QUESTIONING"
    BY <1>3 DEF PublishFollowUp, Publish, planVars
  <2>2. Credit > 0 /\ Credit' = Credit - 1
    BY <1>1, <2>1 DEF Credit
  <2>3. PhaseOf(stage) = "ask" /\ PhaseOf(stage') = "listen"
    BY <2>1 DEF PhaseOf, QuestionStages, SetupStages
  <2>. QED
    BY <2>2, <2>3 DEF Flow!Ask
<1>. QED
  BY <1>2, <1>3

\* A decision continues the interview with credit for one more question, or concludes it.
LEMMA FlowDecide ==
    ASSUME FlowInv, DecideFollowUp \/ DecideNextQuestion \/ DecideReport
    PROVE  Flow!Continue \/ Flow!Conclude
<1>1. question_budget \in Nat /\ follow_up_budget \in Nat /\ question_budget' = question_budget
  BY DEF FlowInv, TypeInv, TypeOK, DecideFollowUp, DecideNextQuestion, DecideReport, Decide
<1>2. stage = "DECISION" /\ PhaseOf(stage) = "assess"
  BY DEF DecideFollowUp, DecideNextQuestion, DecideReport, Decide, PhaseOf, SetupStages,
     QuestionStages
<1>3. CASE DecideFollowUp
  <2>1. follow_up_budget > 0
    BY <1>3 DEF DecideFollowUp, AllowFollowUp
  <2>2. follow_up_budget' = follow_up_budget - 1 /\ stage' = "FOLLOW_UP"
    BY <1>3 DEF DecideFollowUp
  <2>3. Credit > 0 /\ Credit' = Credit
    BY <1>1, <1>2, <2>1, <2>2 DEF Credit
  <2>4. PhaseOf(stage') = "ask"
    BY <2>2 DEF PhaseOf, SetupStages, QuestionStages
  <2>. QED
    BY <1>2, <2>3, <2>4 DEF Flow!Continue
<1>4. CASE DecideNextQuestion
  <2>1. question_budget > 0
    BY <1>4 DEF DecideNextQuestion, AllowNextQuestion
  <2>2. follow_up_budget' = follow_up_budget /\ stage' \in {"NEXT_DIMENSION", "NEXT_QUESTION"}
    BY <1>4 DEF DecideNextQuestion
  <2>3. Credit > 0 /\ Credit' = Credit
    BY <1>1, <1>2, <2>1, <2>2 DEF Credit
  <2>4. PhaseOf(stage') = "ask"
    BY <2>2 DEF PhaseOf, SetupStages, QuestionStages
  <2>. QED
    BY <1>2, <2>3, <2>4 DEF Flow!Continue
<1>5. CASE DecideReport
  <2>1. follow_up_budget' = follow_up_budget /\ stage' = "REPORTING"
    BY <1>5 DEF DecideReport
  <2>2. Credit' = Credit
    BY <1>1, <1>2, <2>1 DEF Credit
  <2>3. PhaseOf(stage') = "report"
    BY <2>1 DEF PhaseOf, SetupStages, QuestionStages
  <2>. QED
    BY <1>2, <2>2, <2>3 DEF Flow!Conclude
<1>. QED
  BY <1>3, <1>4, <1>5

\* A failing agent is the abstract Fail.
LEMMA FlowFail == ASSUME FlowInv, AgentFails PROVE Flow!Fail
<1>1. question_budget \in Nat /\ follow_up_budget \in Nat
  BY DEF FlowInv, TypeInv, TypeOK
<1>2. /\ question_budget' = question_budget /\ follow_up_budget' = follow_up_budget
      /\ stage \in AgentStages /\ stage' = "FAILED"
  BY DEF AgentFails
<1>3. Credit \in Nat /\ Credit' \in 0..Credit
  BY <1>1, <1>2 DEF Credit
<1>4. PhaseOf(stage) \in {"setup", "ask", "assess", "report"} /\ PhaseOf(stage') = "failed"
  BY <1>2 DEF PhaseOf, AgentStages, SetupStages, QuestionStages
<1>. QED
  BY <1>3, <1>4 DEF Flow!Fail, Flow!RuntimePhases

\* Two budgets add up to a number of questions.
LEMMA CreditIsCount ==
    ASSUME NEW q \in Nat, NEW f \in Nat, NEW c \in {0, 1}
    PROVE  q + f + c \in Nat
  OBVIOUS

\* The other steps that change the stage map to an abstract step or to a stutter.
LEMMA FlowOther ==
    ASSUME FlowInv,
           \/ Begin \/ PublishProfile \/ AskQuestion \/ PublishEvaluation \/ PublishPlan
           \/ SubmitAnswer \/ PublishReport \/ SubmitHumanReview
    PROVE  [Flow!FlowNext]_(Flow!flowVars)
<1>1. CASE Begin \/ PublishProfile \/ AskQuestion \/ PublishEvaluation
  <2>1. question_budget' = question_budget /\ follow_up_budget' = follow_up_budget
    BY <1>1 DEF Begin, PublishProfile, AskQuestion, PublishEvaluation, planVars
  <2>2. \/ stage = "INIT" /\ stage' = "PROFILE_ANALYSIS"
        \/ stage = "PROFILE_ANALYSIS" /\ stage' = "INTERVIEW_PLANNING"
        \/ stage = "QUESTIONING" /\ stage' = "LISTENING"
        \/ stage = "EVALUATING" /\ stage' = "DECISION"
    BY <1>1 DEF Begin, PublishProfile, AskQuestion, PublishEvaluation
  <2>3. PhaseOf(stage') = PhaseOf(stage) /\ Credit' = Credit
    BY <2>1, <2>2 DEF PhaseOf, Credit, SetupStages, QuestionStages
  <2>. QED
    BY <2>3, FlowStutter
<1>2. CASE PublishPlan
  <2>1. TypeInv'
    BY <1>2, PublishPlanType DEF FlowInv
  <2>2. Credit' \in Nat
    <3>1. question_budget' \in Nat /\ follow_up_budget' \in Nat
      BY <2>1 DEF TypeInv, TypeOK
    <3>2. (IF stage' = "FOLLOW_UP" THEN 1 ELSE 0) \in {0, 1}
      OBVIOUS
    <3>. QED
      BY <3>1, <3>2, CreditIsCount, Zenon DEF Credit
  <2>3. PhaseOf(stage) = "setup" /\ PhaseOf(stage') = "ask"
    BY <1>2 DEF PublishPlan, PhaseOf, SetupStages, QuestionStages
  <2>. QED
    BY <2>2, <2>3 DEF Flow!FlowNext, Flow!Prepare
<1>3. CASE SubmitAnswer \/ PublishReport \/ SubmitHumanReview
  <2>1. question_budget' = question_budget /\ follow_up_budget' = follow_up_budget
    BY <1>3 DEF SubmitAnswer, PublishReport, SubmitHumanReview, planVars
  <2>2. \/ stage = "LISTENING" /\ stage' = "EVALUATING"
        \/ stage = "REPORTING" /\ stage' \in {"WAITING_HUMAN_REVIEW", "FINISHED"}
        \/ stage = "WAITING_HUMAN_REVIEW" /\ stage' \in {"FINISHED", "FAILED"}
    BY <1>3 DEF SubmitAnswer, PublishReport, SubmitHumanReview
  <2>3. Credit' = Credit
    BY <2>1, <2>2 DEF Credit
  <2>4. \/ PhaseOf(stage) = "listen" /\ PhaseOf(stage') = "assess"
        \/ PhaseOf(stage) = "report" /\ PhaseOf(stage') \in {"closed", "review"}
        \/ PhaseOf(stage) = "review" /\ PhaseOf(stage') \in {"closed", "failed"}
    BY <2>2 DEF PhaseOf, SetupStages, QuestionStages
  <2>. QED
    BY <2>3, <2>4 DEF Flow!FlowNext, Flow!Hear, Flow!Deliver, Flow!Rule
<1>. QED
  BY <1>1, <1>2, <1>3

\* Every step of a session is a step of InterviewFlow or leaves its state alone.
LEMMA FlowStep == FlowInv /\ [Next]_vars => [Flow!FlowNext]_(Flow!flowVars)
<1>. SUFFICES ASSUME FlowInv, [Next]_vars PROVE [Flow!FlowNext]_(Flow!flowVars)
  OBVIOUS
<1>1. CASE PublishMainQuestion \/ PublishFollowUp
  BY <1>1, FlowAsk DEF Flow!FlowNext
<1>2. CASE DecideFollowUp \/ DecideNextQuestion \/ DecideReport
  BY <1>2, FlowDecide DEF Flow!FlowNext
<1>3. CASE AgentFails
  BY <1>3, FlowFail DEF Flow!FlowNext
<1>4. CASE \/ Begin \/ PublishProfile \/ AskQuestion \/ PublishEvaluation \/ PublishPlan
           \/ SubmitAnswer \/ PublishReport \/ SubmitHumanReview
  BY <1>4, FlowOther
<1>5. CASE \/ DriverReturns \/ StepBudgetExhausted \/ ResumeInterview \/ Crash \/ TimeOut
           \/ UNCHANGED vars
  <2>1. UNCHANGED <<stage, question_budget, follow_up_budget>>
    BY <1>5 DEF DriverReturns, StepBudgetExhausted, ResumeInterview, Crash, TimeOut, vars,
       sessionVars, planVars
  <2>2. PhaseOf(stage') = PhaseOf(stage) /\ Credit' = Credit
    BY <2>1 DEF Credit
  <2>. QED
    BY <2>2, FlowStutter
<1>. QED
  BY <1>1, <1>2, <1>3, <1>4, <1>5 DEF Next, RunStep

\* The session implements InterviewFlow: one answer per question, an assessment
\* before the next one, and never more questions than the plan granted.
THEOREM SessionImplementsFlow == Spec => ImplementsFlow
<1>1. Init => FlowInv
  BY InitTypeInv, InitBudget DEF FlowInv
<1>2. FlowInv /\ [Next]_vars => FlowInv'
  BY NextTypeInv, NextBudget DEF FlowInv
<1>3. Init => Flow!FlowInit
  <2>. SUFFICES ASSUME Init PROVE Flow!FlowInit
    OBVIOUS
  <2>1. stage = "INIT" /\ question_budget = 0 /\ follow_up_budget = 0
    BY DEF Init
  <2>2. PhaseOf(stage) = "setup"
    BY <2>1 DEF PhaseOf, SetupStages, QuestionStages
  <2>3. Credit = 0
    BY <2>1 DEF Credit
  <2>. QED
    BY <2>2, <2>3 DEF Flow!FlowInit
<1>. QED
  BY <1>1, <1>2, <1>3, FlowStep, PTL DEF Spec, ImplementsFlow, Flow!FlowSpec
===============================================================================
