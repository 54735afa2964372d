---------------------------- MODULE InterviewPlan ----------------------------
(***************************************************************************)
(* The interview plan of domain/models.py and the policies that rewrite it *)
(* (planning/policy.py, the planner of agents/mock_agents.py).             *)
(*                                                                         *)
(* A plan is a record of functions over Dims, the positions of the         *)
(* dimensions in InterviewPlan.dimensions.  Coverage and scores are        *)
(* integer percentages: every coverage the code can compute is a multiple  *)
(* of 5%, and its floating-point comparisons agree with the integer ones.  *)
(*                                                                         *)
(* Assumed: the dimensions of a plan have distinct names.  The code looks  *)
(* a dimension up by its name and updates the first one it finds, and the  *)
(* planner does not check the names that a job description or a model      *)
(* gives it.  With two of one name the questions of the second are counted *)
(* on the first, past its budget, and next_dimension closes the second     *)
(* without handing its questions on.                                       *)
(***************************************************************************)
EXTENDS Integers, FiniteSets

CONSTANTS
    DimCount,   \* how many dimensions a planner may list
    Weight      \* Weight[d]: InterviewDimension.weight, as a percentage

ASSUME PlanAssumption ==
    /\ DimCount \in Nat \ {0}
    /\ Weight \in [1..DimCount -> Nat]

Dims == 1..DimCount

Percent == 0..100

CoverageTarget == 65           \* coverage_target the planner gives every dimension
WeakScoreThreshold == 65       \* InterviewPlanPolicy.weak_score_threshold
HighScoreThreshold == 82       \* InterviewPlanPolicy.high_score_threshold
EarlyCoverage == 55            \* coverage from which a high score closes a dimension
EarlyTarget == 75              \* coverage recorded for a dimension closed early

Larger(a, b) == IF a >= b THEN a ELSE b
Smaller(a, b) == IF a <= b THEN a ELSE b

PlanType ==
    [dims             : SUBSET Dims,
     question_budget  : [Dims -> Nat],
     asked_questions  : [Dims -> Nat],
     follow_up_budget : [Dims -> Nat],
     current_coverage : [Dims -> Percent],
     completed        : [Dims -> BOOLEAN],
     total_question_budget  : Nat,
     total_follow_up_budget : Nat]

CoverageType == [Dims -> Percent]

-----------------------------------------------------------------------------
(* PlannerAgent: two questions and one follow-up for a dimension that is   *)
(* core to the job or claimed by the candidate, one question otherwise.    *)
(* dims is a set: the names are distinct (see above).                      *)

CreatePlan(dims, core) ==
    [dims             |-> dims,
     question_budget  |-> [d \in Dims |-> IF d \notin dims THEN 0
                                          ELSE IF d \in core THEN 2 ELSE 1],
     asked_questions  |-> [d \in Dims |-> 0],
     follow_up_budget |-> [d \in Dims |-> IF d \in dims \cap core THEN 1 ELSE 0],
     current_coverage |-> [d \in Dims |-> 0],
     completed        |-> [d \in Dims |-> FALSE],
     \* the sums of the budgets above
     total_question_budget  |-> Cardinality(dims) + Cardinality(dims \cap core),
     total_follow_up_budget |-> Cardinality(dims \cap core)]

EmptyPlan == CreatePlan({}, {})

-----------------------------------------------------------------------------
(* InterviewPlan.next_dimension: first it folds the capability coverage    *)
(* into the plan (a write hidden in what reads like a query), then it      *)
(* takes the heaviest dimension that is still open.                        *)

Refresh(plan, coverage) ==
    LET seen == [d \in Dims |-> Larger(plan.current_coverage[d], coverage[d])]
    IN  [plan EXCEPT
            !.current_coverage = seen,
            !.completed = [d \in Dims |-> \/ plan.completed[d]
                                          \/ d \in plan.dims /\ seen[d] >= CoverageTarget]]

OpenDimensions(plan, coverage) ==
    {d \in plan.dims : /\ ~Refresh(plan, coverage).completed[d]
                       /\ plan.question_budget[d] > plan.asked_questions[d]}

\* The stable sort by (coverage reached, -weight).
SelectedBefore(d, e, coverage) ==
    LET reached(i) == coverage[i] >= CoverageTarget
    IN  \/ ~reached(d) /\ reached(e)
        \/ /\ reached(d) = reached(e)
           /\ \/ Weight[d] > Weight[e]
              \/ Weight[d] = Weight[e] /\ d <= e

\* The dimension next_dimension returns, as a set of at most one element.
NextDimension(plan, coverage) ==
    {d \in OpenDimensions(plan, coverage) :
        \A e \in OpenDimensions(plan, coverage) : SelectedBefore(d, e, coverage)}

MarkQuestionAsked(plan, d) == [plan EXCEPT !.asked_questions[d] = @ + 1]

-----------------------------------------------------------------------------
(* InterviewPlan.update_after_evaluation: a dimension that reaches its     *)
(* target gives its unused questions to one other dimension.               *)

RedistributedBefore(d, e, plan) ==
    \/ Weight[d] > Weight[e]
    \/ /\ Weight[d] = Weight[e]
       /\ \/ plan.asked_questions[d] < plan.asked_questions[e]
          \/ plan.asked_questions[d] = plan.asked_questions[e] /\ d <= e

\* Mutant: the loop over the candidates does not stop at the first.
RedistributeToAll(plan, released, exclude) ==
    [plan EXCEPT !.question_budget =
        [d \in Dims |-> IF d \in plan.dims \ {exclude} /\ ~plan.completed[d]
                        THEN @[d] + released ELSE @[d]]]

\* Mutant: completed dimensions are candidates too.
RedistributeToCompleted(plan, released, exclude) ==
    LET Receives(d) == /\ d \in plan.dims \ {exclude}
                       /\ \A e \in plan.dims \ {exclude} : RedistributedBefore(d, e, plan)
    IN  [plan EXCEPT !.question_budget =
            [d \in Dims |-> @[d] + (IF Receives(d) THEN released ELSE 0)]]

Redistribute(plan, released, exclude) ==
    LET targets == {d \in plan.dims \ {exclude} : ~plan.completed[d]}
        Receives(d) == d \in targets /\ \A e \in targets : RedistributedBefore(d, e, plan)
    IN  [plan EXCEPT !.question_budget =
            [d \in Dims |-> @[d] + (IF Receives(d) THEN released ELSE 0)]]

UpdateAfterEvaluation(plan, d, coverage) ==
    LET reached == Larger(plan.current_coverage[d], coverage)
        released == Larger(0, plan.question_budget[d] - plan.asked_questions[d])
    IN  IF reached >= CoverageTarget
        THEN Redistribute([plan EXCEPT !.current_coverage[d] = reached,
                                       !.completed[d] = TRUE,
                                       !.question_budget[d] = plan.asked_questions[d]],
                          released, d)
        ELSE [plan EXCEPT !.current_coverage[d] = reached]

\* InterviewPlanPolicy._increase_follow_up_budget: the dimension's budget only,
\* the session's follow_up_budget is not raised with it.
IncreaseFollowUpBudget(plan, d) ==
    IF plan.completed[d] THEN plan
    ELSE [plan EXCEPT !.follow_up_budget[d] = Larger(@, 1)]

\* Mutant: only the early completion updates the plan.
ApplyHighScoreOnly(plan, d, score, missing, coverage) ==
    IF score >= HighScoreThreshold /\ coverage[d] >= EarlyCoverage
    THEN UpdateAfterEvaluation(plan, d, Larger(coverage[d], EarlyTarget))
    ELSE plan

\* InterviewPlanPolicy.update_after_evaluation for the one scored dimension.
ApplyEvaluation(plan, d, score, missing, coverage) ==
    LET updated == UpdateAfterEvaluation(plan, d, coverage[d])
        weakened == IF score < WeakScoreThreshold /\ missing
                    THEN IncreaseFollowUpBudget(updated, d) ELSE updated
    IN  IF score >= HighScoreThreshold /\ coverage[d] >= EarlyCoverage
        THEN UpdateAfterEvaluation(weakened, d, Larger(coverage[d], EarlyTarget))
        ELSE weakened

-----------------------------------------------------------------------------
(* CapabilityProfile.update_dimension, the coverage part.                  *)

VerifiedScore == 80

CoverageGain(score, evidence) ==
    25 + Smaller(25, 10 * evidence) + (IF score >= VerifiedScore THEN 20 ELSE 0)

\* Mutant: the min(1.0, ...) is missing.
UpdateDimensionUncapped(coverage, d, score, evidence) ==
    [coverage EXCEPT ![d] = @ + CoverageGain(score, evidence)]

UpdateDimension(coverage, d, score, evidence) ==
    [coverage EXCEPT ![d] = Smaller(100, @ + CoverageGain(score, evidence))]
=============================================================================
