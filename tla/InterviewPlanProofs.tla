-------------------------- MODULE InterviewPlanProofs --------------------------
(***************************************************************************)
(* Lemmas about the operators of InterviewPlan, for every number of        *)
(* dimensions and all weights.                                             *)
(***************************************************************************)
EXTENDS InterviewPlan, Functions, FiniteSetTheorems, WellFoundedInduction, TLAPS

\* Every set of dimensions is finite, so the planner's sums are numbers.
LEMMA DimsFinite ==
    ASSUME NEW S \in SUBSET Dims
    PROVE  IsFiniteSet(S) /\ Cardinality(S) \in Nat
<1>1. IsFiniteSet(Dims)
  BY PlanAssumption, FS_Interval DEF Dims
<1>2. IsFiniteSet(S)
  BY <1>1, FS_Subset
<1>. QED
  BY <1>2, FS_CardinalityType

\* The planner builds a plan, and one that plans anything may ask something.
LEMMA CreatePlanType ==
    ASSUME NEW dims \in SUBSET Dims, NEW core \in SUBSET dims
    PROVE  /\ CreatePlan(dims, core) \in PlanType
           /\ dims # {} => CreatePlan(dims, core).total_question_budget > 0
<1>1. Cardinality(dims) \in Nat /\ Cardinality(dims \cap core) \in Nat
  <2>1. dims \cap core \in SUBSET Dims
    OBVIOUS
  <2>. QED
    BY <2>1, DimsFinite
<1>2. dims # {} => Cardinality(dims) > 0
  BY <1>1, DimsFinite, FS_EmptySet
<1>. QED
  BY <1>1, <1>2 DEF CreatePlan, PlanType, Percent

\* next_dimension's hidden writes keep the plan well formed and touch no budget.
LEMMA RefreshType ==
    ASSUME NEW plan \in PlanType, NEW coverage \in CoverageType
    PROVE  /\ Refresh(plan, coverage) \in PlanType
           /\ Refresh(plan, coverage).total_question_budget = plan.total_question_budget
           /\ Refresh(plan, coverage).total_follow_up_budget = plan.total_follow_up_budget
  BY DEF Refresh, PlanType, CoverageType, Larger, Percent

\* Counting a question keeps the plan's type and its totals.
LEMMA MarkQuestionAskedType ==
    ASSUME NEW plan \in PlanType, NEW d \in Dims
    PROVE  /\ MarkQuestionAsked(plan, d) \in PlanType
           /\ MarkQuestionAsked(plan, d).total_question_budget = plan.total_question_budget
           /\ MarkQuestionAsked(plan, d).total_follow_up_budget = plan.total_follow_up_budget
  BY DEF MarkQuestionAsked, PlanType

\* next_dimension returns a planned dimension.
LEMMA NextDimensionPlanned ==
    ASSUME NEW plan \in PlanType, NEW coverage, NEW d \in NextDimension(plan, coverage)
    PROVE  d \in plan.dims /\ d \in Dims
  BY DEF NextDimension, OpenDimensions, PlanType

\* Handing released budget on keeps the plan's type and its totals.
LEMMA RedistributeType ==
    ASSUME NEW plan \in PlanType, NEW released \in Nat, NEW d \in Dims
    PROVE  /\ Redistribute(plan, released, d) \in PlanType
           /\ Redistribute(plan, released, d).total_question_budget = plan.total_question_budget
           /\ Redistribute(plan, released, d).total_follow_up_budget = plan.total_follow_up_budget
  BY DEF Redistribute, PlanType

\* Recording coverage, closing a dimension and releasing its budget keep type and totals.
LEMMA UpdateAfterEvaluationType ==
    ASSUME NEW plan \in PlanType, NEW d \in Dims, NEW reached \in Percent
    PROVE  LET updated == UpdateAfterEvaluation(plan, d, reached)
           IN  /\ updated \in PlanType
               /\ updated.total_question_budget = plan.total_question_budget
               /\ updated.total_follow_up_budget = plan.total_follow_up_budget
<1> DEFINE cover == Larger(plan.current_coverage[d], reached)
           released == Larger(0, plan.question_budget[d] - plan.asked_questions[d])
           closed == [plan EXCEPT !.current_coverage[d] = cover,
                                  !.completed[d] = TRUE,
                                  !.question_budget[d] = plan.asked_questions[d]]
<1>1. cover \in Percent /\ released \in Nat
  BY DEF PlanType, Percent, Larger
<1>2. /\ closed \in PlanType
      /\ closed.total_question_budget = plan.total_question_budget
      /\ closed.total_follow_up_budget = plan.total_follow_up_budget
  BY <1>1 DEF PlanType
<1>3. LET open == [plan EXCEPT !.current_coverage[d] = cover]
      IN  /\ open \in PlanType
          /\ open.total_question_budget = plan.total_question_budget
          /\ open.total_follow_up_budget = plan.total_follow_up_budget
  BY <1>1 DEF PlanType
<1>4. LET shared == Redistribute(closed, released, d)
      IN  /\ shared \in PlanType
          /\ shared.total_question_budget = plan.total_question_budget
          /\ shared.total_follow_up_budget = plan.total_follow_up_budget
  <2> HIDE DEF closed, released
  <2>. QED
    BY <1>1, <1>2, RedistributeType
<1>. QED
  BY <1>3, <1>4 DEF UpdateAfterEvaluation

\* Raising a dimension's follow-up budget keeps type and totals.
LEMMA IncreaseFollowUpBudgetType ==
    ASSUME NEW plan \in PlanType, NEW d \in Dims
    PROVE  LET raised == IncreaseFollowUpBudget(plan, d)
           IN  /\ raised \in PlanType
               /\ raised.total_question_budget = plan.total_question_budget
               /\ raised.total_follow_up_budget = plan.total_follow_up_budget
  BY DEF IncreaseFollowUpBudget, PlanType, Larger

\* The policy's whole update after an evaluation.
LEMMA ApplyEvaluationType ==
    ASSUME NEW plan \in PlanType, NEW d \in Dims, NEW score \in Percent,
           NEW missing \in BOOLEAN, NEW coverage \in CoverageType
    PROVE  LET applied == ApplyEvaluation(plan, d, score, missing, coverage)
           IN  /\ applied \in PlanType
               /\ applied.total_question_budget = plan.total_question_budget
               /\ applied.total_follow_up_budget = plan.total_follow_up_budget
<1> DEFINE updated == UpdateAfterEvaluation(plan, d, coverage[d])
           weakened == IF score < WeakScoreThreshold /\ missing
                       THEN IncreaseFollowUpBudget(updated, d) ELSE updated
           target == Larger(coverage[d], EarlyTarget)
<1>1. coverage[d] \in Percent /\ target \in Percent
  BY DEF CoverageType, Percent, Larger, EarlyTarget
<1>2. /\ updated \in PlanType
      /\ updated.total_question_budget = plan.total_question_budget
      /\ updated.total_follow_up_budget = plan.total_follow_up_budget
  BY <1>1, UpdateAfterEvaluationType
<1>3. /\ weakened \in PlanType
      /\ weakened.total_question_budget = plan.total_question_budget
      /\ weakened.total_follow_up_budget = plan.total_follow_up_budget
  <2> HIDE DEF updated
  <2>. QED
    BY <1>2, IncreaseFollowUpBudgetType
<1>4. LET early == UpdateAfterEvaluation(weakened, d, target)
      IN  /\ early \in PlanType
          /\ early.total_question_budget = plan.total_question_budget
          /\ early.total_follow_up_budget = plan.total_follow_up_budget
  <2> HIDE DEF weakened, target
  <2>. QED
    BY <1>1, <1>3, UpdateAfterEvaluationType
<1>. QED
  BY <1>3, <1>4 DEF ApplyEvaluation

\* Coverage stays a percentage, however much evidence an evaluation brings.
LEMMA UpdateDimensionType ==
    ASSUME NEW coverage \in CoverageType, NEW d \in Dims,
           NEW score \in Percent, NEW evidence \in Nat
    PROVE  UpdateDimension(coverage, d, score, evidence) \in CoverageType
<1>1. CoverageGain(score, evidence) \in Nat
  BY DEF CoverageGain, Percent, Smaller, VerifiedScore
<1>2. coverage[d] \in Percent
  BY DEF CoverageType
<1>3. Smaller(100, coverage[d] + CoverageGain(score, evidence)) \in Percent
  BY <1>1, <1>2 DEF Percent, Smaller
<1>. QED
  BY <1>3 DEF UpdateDimension, CoverageType

-----------------------------------------------------------------------------
(* Induction over numbers and sets of dimensions, as the absence of a least *)
(* counterexample                                                           *)

\* A set of numbers has a least one: what an induction over a recursively defined
\* sum is made from below, by a least counterexample.
LEMMA LeastNat ==
    ASSUME NEW T \in SUBSET Nat, T # {}
    PROVE  \E n \in T : \A m \in T : n <= m
<1>. DEFINE R == OpToRel(<, Nat)
<1>1. IsWellFoundedOn(R, Nat)
  BY NatLessThanWellFounded
<1>2. R = {r \in Nat \X Nat : r[1] < r[2]}
  BY DEF OpToRel
<1>. HIDE DEF R
<1>3. PICK n \in T : \A m \in T : ~ (<<m, n>> \in R)
  BY <1>1, WFMin
<1>4. \A m \in T : ~ (m < n)
  BY <1>2, <1>3
<1>. QED
  BY <1>3, <1>4

\* The element a fold over a set takes next.
First(s) == CHOOSE d \in s : TRUE

\* Taking the chosen element out of a set of dimensions makes it smaller.
LEMMA FirstOut ==
    ASSUME NEW s \in SUBSET Dims, s # {}
    PROVE  /\ First(s) \in s /\ s \ {First(s)} \in SUBSET Dims
           /\ Cardinality(s) \in Nat /\ Cardinality(s \ {First(s)}) = Cardinality(s) - 1
           /\ Cardinality(s) > 0
<1>1. First(s) \in s
  BY DEF First
<1>2. IsFiniteSet(s) /\ Cardinality(s) \in Nat
  BY DimsFinite
<1>3. Cardinality(s \ {First(s)}) = Cardinality(s) - 1
  BY <1>1, <1>2, FS_RemoveElement
<1>4. Cardinality(s) # 0
  BY <1>2, FS_EmptySet
<1>. QED
  BY <1>1, <1>2, <1>3, <1>4

\* No set of dimensions is larger than the number of dimensions.
LEMMA DimsCount == ASSUME NEW s \in SUBSET Dims PROVE Cardinality(s) <= DimCount
<1>1. IsFiniteSet(Dims) /\ Cardinality(Dims) = DimCount
  <2>1. DimCount \in Nat /\ DimCount >= 1 /\ 1 \in Int /\ DimCount \in Int
    BY PlanAssumption
  <2>. QED
    BY <2>1, FS_Interval DEF Dims
<1>. QED
  BY <1>1, FS_Subset

\* Induction over the sets of dimensions, for a predicate given as a set of sets.
LEMMA DimsInduction ==
    ASSUME NEW P \in SUBSET (SUBSET Dims), {} \in P,
           \A s \in SUBSET Dims : s # {} /\ s \ {First(s)} \in P => s \in P
    PROVE  P = SUBSET Dims
<1>. DEFINE Sizes == {n \in Nat : \E s \in SUBSET Dims : s \notin P /\ Cardinality(s) = n}
<1>1. SUFFICES ASSUME NEW t \in SUBSET Dims, t \notin P
               PROVE  FALSE
  OBVIOUS
<1>2. Sizes # {}
  BY <1>1, DimsFinite
<1>3. PICK n \in Sizes : \A m \in Sizes : n <= m
  BY <1>2, LeastNat
<1>4. PICK s \in SUBSET Dims : s \notin P /\ Cardinality(s) = n
  BY <1>3
<1>5. s # {}
  BY <1>4
<1>6. /\ s \ {First(s)} \in SUBSET Dims
      /\ Cardinality(s) \in Nat /\ Cardinality(s \ {First(s)}) = Cardinality(s) - 1
      /\ Cardinality(s) > 0
  BY <1>5, FirstOut
<1>7. Cardinality(s \ {First(s)}) \in Nat /\ ~ (n <= Cardinality(s \ {First(s)}))
  BY <1>4, <1>6
<1>8. s \ {First(s)} \in P
  BY <1>3, <1>6, <1>7
<1>. QED
  BY <1>4, <1>5, <1>8

-----------------------------------------------------------------------------
(* Sums over the dimensions, as FoldFunction computes them *)

SumOf(f) == FoldFunction(+, 0, f)

Summand(f, g, s) == IF s = {} THEN 0 ELSE f[First(s)] + g[s \ {First(s)}]
Accumulates(f, g) == g = [s \in SUBSET Dims |-> Summand(f, g, s)]
Accumulator(f) == CHOOSE g : Accumulates(f, g)

\* The sum of the community modules is the value of a table at the set of all
\* dimensions.
LEMMA SumIsAccumulated ==
    ASSUME NEW f \in [Dims -> Int]
    PROVE  SumOf(f) = Accumulator(f)[Dims]
  BY DEF SumOf, FoldFunction, FoldFunctionOnSet, MapThenFoldSet, Accumulator, Accumulates,
         Summand, First

\* A table that is right for all sets of at most n dimensions.
RightUpTo(f, g, n) ==
    \A s \in SUBSET Dims : Cardinality(s) <= n => g[s] = Summand(f, g, s)

\* A table that is right for small sets gives one that is right for larger sets.
LEMMA RightOneMore ==
    ASSUME NEW f \in [Dims -> Int], NEW g \in [SUBSET Dims -> Int], NEW n \in Nat,
           RightUpTo(f, g, n)
    PROVE  \E h \in [SUBSET Dims -> Int] : RightUpTo(f, h, n + 1)
<1>. DEFINE h == [s \in SUBSET Dims |-> IF Cardinality(s) = n + 1 THEN Summand(f, g, s) ELSE g[s]]
<1>1. ASSUME NEW s \in SUBSET Dims
      PROVE  Summand(f, g, s) \in Int
  <2>1. CASE s = {}
    BY <2>1 DEF Summand
  <2>2. CASE s # {}
    <3>1. First(s) \in Dims /\ s \ {First(s)} \in SUBSET Dims
      BY <2>2, FirstOut
    <3>2. f[First(s)] \in Int /\ g[s \ {First(s)}] \in Int
      BY <3>1
    <3>. QED
      BY <2>2, <3>2 DEF Summand
  <2>. QED
    BY <2>1, <2>2
<1>2. h \in [SUBSET Dims -> Int]
  BY <1>1
<1>3. ASSUME NEW s \in SUBSET Dims, Cardinality(s) <= n + 1
      PROVE  h[s] = Summand(f, h, s)
  <2>1. Cardinality(s) \in Nat
    BY DimsFinite
  <2>2. Summand(f, h, s) = Summand(f, g, s)
    <3>1. CASE s = {}
      BY <3>1 DEF Summand
    <3>2. CASE s # {}
      <4>1. s \ {First(s)} \in SUBSET Dims /\ Cardinality(s \ {First(s)}) # n + 1
        BY <1>3, <2>1, <3>2, FirstOut
      <4>2. h[s \ {First(s)}] = g[s \ {First(s)}]
        BY <4>1
      <4>. QED
        BY <3>2, <4>2 DEF Summand
    <3>. QED
      BY <3>1, <3>2
  <2>3. CASE Cardinality(s) = n + 1
    BY <2>2, <2>3
  <2>4. CASE Cardinality(s) # n + 1
    <3>1. Cardinality(s) <= n
      BY <1>3, <2>1, <2>4
    <3>2. g[s] = Summand(f, g, s)
      BY <3>1 DEF RightUpTo
    <3>. QED
      BY <2>2, <2>4, <3>2
  <2>. QED
    BY <2>3, <2>4
<1>. HIDE DEF h
<1>4. RightUpTo(f, h, n + 1)
  BY <1>3 DEF RightUpTo
<1>. QED
  BY <1>2, <1>4

\* There is a right table for every size.
LEMMA RightEverywhere ==
    ASSUME NEW f \in [Dims -> Int], NEW n \in Nat
    PROVE  \E g \in [SUBSET Dims -> Int] : RightUpTo(f, g, n)
<1>. DEFINE Bad == {m \in Nat : ~ \E g \in [SUBSET Dims -> Int] : RightUpTo(f, g, m)}
<1>1. SUFFICES ASSUME Bad # {}
               PROVE  FALSE
  OBVIOUS
<1>2. PICK m \in Bad : \A k \in Bad : m <= k
  BY <1>1, LeastNat
<1>3. m # 0
  <2>. DEFINE g == [s \in SUBSET Dims |-> 0]
  <2>1. ASSUME NEW s \in SUBSET Dims, Cardinality(s) <= 0
        PROVE  s = {}
    <3>1. s # {} => Cardinality(s) \in Nat /\ Cardinality(s) > 0
      BY FirstOut
    <3>. QED
      BY <2>1, <3>1
  <2>2. RightUpTo(f, g, 0)
    BY <2>1 DEF RightUpTo, Summand
  <2>3. g \in [SUBSET Dims -> Int]
    OBVIOUS
  <2>. QED
    BY <2>2, <2>3, <1>2
<1>4. m - 1 \in Nat /\ m - 1 \notin Bad /\ m - 1 + 1 = m
  <2>. HIDE DEF Bad
  <2>1. m \in Nat
    BY <1>2 DEF Bad
  <2>2. m - 1 \in Nat /\ ~ (m <= m - 1) /\ m - 1 + 1 = m
    BY <1>3, <2>1
  <2>. QED
    BY <1>2, <2>2
<1>5. PICK g \in [SUBSET Dims -> Int] : RightUpTo(f, g, m - 1)
  BY <1>4
<1>6. \E h \in [SUBSET Dims -> Int] : RightUpTo(f, h, m)
  BY <1>4, <1>5, RightOneMore, ZenonT(60)
<1>. QED
  BY <1>2, <1>6

\* The fold's table exists, so it satisfies its recursion.
LEMMA AccumulatorIs ==
    ASSUME NEW f \in [Dims -> Int]
    PROVE  /\ \A s \in SUBSET Dims : Accumulator(f)[s] \in Int
           /\ \A s \in SUBSET Dims : Accumulator(f)[s] = Summand(f, Accumulator(f), s)
<1>1. PICK g \in [SUBSET Dims -> Int] : RightUpTo(f, g, DimCount)
  BY RightEverywhere, PlanAssumption
<1>2. \A s \in SUBSET Dims : g[s] = Summand(f, g, s)
  BY <1>1, DimsCount DEF RightUpTo
<1>3. Accumulates(f, g)
  BY <1>2 DEF Accumulates
<1>4. Accumulates(f, Accumulator(f))
  BY <1>3 DEF Accumulator
<1>5. \A s \in SUBSET Dims : Accumulator(f)[s] = Summand(f, Accumulator(f), s)
  BY <1>4 DEF Accumulates
<1>. DEFINE P == {s \in SUBSET Dims : Accumulator(f)[s] \in Int}
<1>6. {} \in P
  <2>1. {} \in SUBSET Dims
    OBVIOUS
  <2>2. Accumulator(f)[{}] = 0
    BY <1>5, <2>1 DEF Summand
  <2>. QED
    BY <2>1, <2>2
<1>7. ASSUME NEW s \in SUBSET Dims, s # {}, s \ {First(s)} \in P
      PROVE  s \in P
  <2>1. Accumulator(f)[s] = f[First(s)] + Accumulator(f)[s \ {First(s)}]
    BY <1>5, <1>7 DEF Summand
  <2>2. First(s) \in Dims
    BY <1>7, FirstOut
  <2>. QED
    BY <1>7, <2>1, <2>2
<1>8. P = SUBSET Dims
  <2>. HIDE DEF P
  <2>1. P \in SUBSET (SUBSET Dims)
    BY DEF P
  <2>. QED
    BY <1>6, <1>7, <2>1, DimsInduction
<1>. QED
  BY <1>5, <1>8

\* Sums add up.
LEMMA SumAdds ==
    ASSUME NEW f \in [Dims -> Int], NEW g \in [Dims -> Int], NEW h \in [Dims -> Int],
           \A d \in Dims : h[d] = f[d] + g[d]
    PROVE  SumOf(h) = SumOf(f) + SumOf(g)
<1>. DEFINE P == {s \in SUBSET Dims :
                    Accumulator(h)[s] = Accumulator(f)[s] + Accumulator(g)[s]}
<1>1. {} \in P
  <2>1. Accumulator(f)[{}] = 0 /\ Accumulator(g)[{}] = 0 /\ Accumulator(h)[{}] = 0
    BY AccumulatorIs DEF Summand
  <2>. QED
    BY <2>1
<1>2. ASSUME NEW s \in SUBSET Dims, s # {}, s \ {First(s)} \in P
      PROVE  s \in P
  <2>. DEFINE t == s \ {First(s)}
  <2>1. First(s) \in Dims /\ t \in SUBSET Dims
    BY <1>2, FirstOut
  <2>2. /\ Accumulator(h)[s] = h[First(s)] + Accumulator(h)[t]
        /\ Accumulator(f)[s] = f[First(s)] + Accumulator(f)[t]
        /\ Accumulator(g)[s] = g[First(s)] + Accumulator(g)[t]
    BY <1>2, AccumulatorIs DEF Summand
  <2>3. Accumulator(f)[t] \in Int /\ Accumulator(g)[t] \in Int
    BY <2>1, AccumulatorIs
  <2>4. Accumulator(h)[t] = Accumulator(f)[t] + Accumulator(g)[t]
    BY <1>2
  <2>5. /\ h[First(s)] = f[First(s)] + g[First(s)]
        /\ f[First(s)] \in Int /\ g[First(s)] \in Int
    BY <2>1
  <2>. HIDE DEF t
  <2>. QED
    BY <2>2, <2>3, <2>4, <2>5
<1>3. P = SUBSET Dims
  <2>1. P \in SUBSET (SUBSET Dims)
    OBVIOUS
  <2>. HIDE DEF P
  <2>. QED
    BY <1>1, <1>2, <2>1, DimsInduction
<1>4. Dims \in P
  BY <1>3
<1>. QED
  BY <1>4, SumIsAccumulated

\* A sum of ones counts.
LEMMA SumCounts ==
    ASSUME NEW S \in SUBSET Dims
    PROVE  SumOf([d \in Dims |-> IF d \in S THEN 1 ELSE 0]) = Cardinality(S)
<1>. DEFINE f == [d \in Dims |-> IF d \in S THEN 1 ELSE 0]
            P == {s \in SUBSET Dims : Accumulator(f)[s] = Cardinality(s \cap S)}
<1>1. f \in [Dims -> Int]
  OBVIOUS
<1>2. {} \in P
  <2>1. Accumulator(f)[{}] = 0
    BY <1>1, AccumulatorIs DEF Summand
  <2>2. {} \cap S = {} /\ Cardinality({}) = 0
    BY FS_EmptySet
  <2>. HIDE DEF f
  <2>. QED
    BY <2>1, <2>2
<1>3. ASSUME NEW s \in SUBSET Dims, s # {}, s \ {First(s)} \in P
      PROVE  s \in P
  <2>. DEFINE t == s \ {First(s)}
  <2>1. First(s) \in s /\ First(s) \in Dims /\ t \in SUBSET Dims
    BY <1>3, FirstOut
  <2>2. Accumulator(f)[s] = f[First(s)] + Accumulator(f)[t]
    <3>. HIDE DEF f
    <3>. QED
      BY <1>1, <1>3, AccumulatorIs DEF Summand
  <2>3. Accumulator(f)[t] = Cardinality(t \cap S)
    BY <1>3
  <2>4. /\ IsFiniteSet(s \cap S) /\ Cardinality(s \cap S) \in Nat
        /\ IsFiniteSet(t \cap S) /\ Cardinality(t \cap S) \in Nat
    BY DimsFinite
  <2>5. CASE First(s) \in S
    <3>1. t \cap S = (s \cap S) \ {First(s)} /\ First(s) \in s \cap S
      BY <2>1, <2>5
    <3>2. Cardinality(t \cap S) = Cardinality(s \cap S) - 1
      BY <3>1, <2>4, FS_RemoveElement
    <3>3. f[First(s)] = 1
      BY <2>1, <2>5
    <3>. HIDE DEF f, t
    <3>4. Accumulator(f)[s] = Cardinality(s \cap S)
      BY <2>2, <2>3, <2>4, <3>2, <3>3
    <3>. QED
      BY <3>4
  <2>6. CASE First(s) \notin S
    <3>1. t \cap S = s \cap S
      BY <2>6
    <3>2. f[First(s)] = 0
      BY <2>1, <2>6
    <3>. HIDE DEF f, t
    <3>3. Accumulator(f)[s] = Cardinality(s \cap S)
      BY <2>2, <2>3, <2>4, <3>1, <3>2
    <3>. QED
      BY <3>3
  <2>. QED
    BY <2>5, <2>6
<1>4. P = SUBSET Dims
  <2>1. P \in SUBSET (SUBSET Dims)
    OBVIOUS
  <2>. HIDE DEF P
  <2>. QED
    BY <1>2, <1>3, <2>1, DimsInduction
<1>5. Dims \in P /\ Dims \cap S = S
  BY <1>4
<1>. HIDE DEF f
<1>6. SumOf(f) = Cardinality(S)
  BY <1>1, <1>5, SumIsAccumulated
<1>. QED
  BY <1>6 DEF f

\* Changing one summand changes the sum by as much.
LEMMA SumChanges ==
    ASSUME NEW f \in [Dims -> Int], NEW g \in [Dims -> Int], NEW d \in Dims,
           \A e \in Dims : e # d => g[e] = f[e]
    PROVE  SumOf(g) = SumOf(f) + (g[d] - f[d]) /\ SumOf(f) \in Int
<1>. DEFINE P == {s \in SUBSET Dims :
                    /\ d \notin s => Accumulator(g)[s] = Accumulator(f)[s]
                    /\ d \in s => Accumulator(g)[s] = Accumulator(f)[s] + (g[d] - f[d])}
<1>1. {} \in P
  <2>1. Accumulator(f)[{}] = 0 /\ Accumulator(g)[{}] = 0
    BY AccumulatorIs DEF Summand
  <2>. QED
    BY <2>1
<1>2. ASSUME NEW s \in SUBSET Dims, s # {}, s \ {First(s)} \in P
      PROVE  s \in P
  <2>. DEFINE t == s \ {First(s)}
  <2>1. First(s) \in s /\ First(s) \in Dims /\ t \in SUBSET Dims
    BY <1>2, FirstOut
  <2>2. /\ Accumulator(f)[s] = f[First(s)] + Accumulator(f)[t]
        /\ Accumulator(g)[s] = g[First(s)] + Accumulator(g)[t]
    BY <1>2, AccumulatorIs DEF Summand
  <2>3. Accumulator(f)[t] \in Int /\ f[First(s)] \in Int /\ f[d] \in Int /\ g[d] \in Int
    BY <2>1, AccumulatorIs
  <2>4. /\ d \notin t => Accumulator(g)[t] = Accumulator(f)[t]
        /\ d \in t => Accumulator(g)[t] = Accumulator(f)[t] + (g[d] - f[d])
    BY <1>2
  <2>5. CASE First(s) = d
    <3>1. d \in s /\ d \notin t
      BY <2>1, <2>5
    <3>. HIDE DEF t
    <3>2. Accumulator(g)[s] = Accumulator(f)[s] + (g[d] - f[d])
      BY <2>2, <2>3, <2>4, <2>5, <3>1
    <3>. QED
      BY <3>1, <3>2
  <2>6. CASE First(s) # d
    <3>1. (d \in s <=> d \in t) /\ g[First(s)] = f[First(s)]
      BY <2>1, <2>6
    <3>. HIDE DEF t
    <3>2. d \in s => Accumulator(g)[s] = Accumulator(f)[s] + (g[d] - f[d])
      BY <2>2, <2>3, <2>4, <3>1
    <3>3. d \notin s => Accumulator(g)[s] = Accumulator(f)[s]
      BY <2>2, <2>3, <2>4, <3>1
    <3>. QED
      BY <3>2, <3>3
  <2>. QED
    BY <2>5, <2>6
<1>3. P = SUBSET Dims
  <2>1. P \in SUBSET (SUBSET Dims)
    OBVIOUS
  <2>. HIDE DEF P
  <2>. QED
    BY <1>1, <1>2, <2>1, DimsInduction
<1>4. Dims \in P
  BY <1>3
<1>. QED
  BY <1>4, SumIsAccumulated, AccumulatorIs

-----------------------------------------------------------------------------
(* The next dimension *)

\* There are finitely many weights, so they are bounded.
LEMMA WeightsBounded == \E b \in Nat : \A d \in Dims : Weight[d] <= b
<1>. DEFINE Bad == {n \in Nat : n <= DimCount /\ ~ \E b \in Nat : \A d \in 1..n : Weight[d] <= b}
<1>1. CASE Bad = {}
  <2>1. DimCount \in Nat /\ DimCount \notin Bad
    BY <1>1, PlanAssumption
  <2>. QED
    BY <2>1 DEF Dims
<1>2. CASE Bad # {}
  <2>1. PICK n \in Bad : \A m \in Bad : n <= m
    BY <1>2, LeastNat
  <2>2. n \in Nat /\ n <= DimCount /\ ~ \E b \in Nat : \A d \in 1..n : Weight[d] <= b
    BY <2>1
  <2>3. n # 0
    BY <2>2
  <2>4. n - 1 \in Nat /\ n - 1 <= DimCount /\ ~ (n <= n - 1) /\ n \in 1..DimCount
    BY <2>2, <2>3, PlanAssumption
  <2>5. n - 1 \notin Bad
    BY <2>1, <2>4
  <2>6. PICK b \in Nat : \A d \in 1..n - 1 : Weight[d] <= b
    BY <2>4, <2>5
  <2>7. Weight[n] \in Nat
    BY <2>4, PlanAssumption
  <2>8. b + Weight[n] \in Nat /\ Weight[n] <= b + Weight[n]
    BY <2>6, <2>7
  <2>9. ASSUME NEW d \in 1..n
        PROVE  Weight[d] <= b + Weight[n]
    <3>1. Weight[d] \in Nat
      BY <2>2, PlanAssumption
    <3>2. CASE d = n
      BY <2>8, <3>2
    <3>3. CASE d # n
      <4>1. d \in 1..n - 1
        BY <2>2, <3>3
      <4>2. Weight[d] <= b
        BY <2>6, <4>1
      <4>. QED
        BY <2>6, <2>7, <3>1, <4>2
    <3>. QED
      BY <3>2, <3>3
  <2>. QED
    BY <2>2, <2>8, <2>9
<1>. QED
  BY <1>1, <1>2

\* A nonempty set of dimensions has a heaviest one, the first of them in the plan.
LEMMA HeaviestFirst ==
    ASSUME NEW T \in SUBSET Dims, T # {}
    PROVE  \E d \in T : \A e \in T :
              Weight[d] > Weight[e] \/ (Weight[d] = Weight[e] /\ d <= e)
<1>1. PICK b \in Nat : \A d \in Dims : Weight[d] <= b
  BY WeightsBounded
<1>2. \A d \in Dims : Weight[d] \in Nat /\ d \in Nat
  BY PlanAssumption DEF Dims
<1>3. \A d \in T : b - Weight[d] \in Nat
  BY <1>1, <1>2
<1>. DEFINE Lightness == {b - Weight[d] : d \in T}
<1>4. Lightness \in SUBSET Nat /\ Lightness # {}
  BY <1>3
<1>5. PICK l \in Lightness : \A m \in Lightness : l <= m
  BY <1>4, LeastNat
<1>6. PICK h \in T : l = b - Weight[h]
  BY <1>5
<1>. DEFINE Heavy == {d \in T : Weight[d] = Weight[h]}
<1>7. Heavy \in SUBSET Nat /\ Heavy # {}
  BY <1>2, <1>6
<1>8. PICK d \in Heavy : \A e \in Heavy : d <= e
  BY <1>7, LeastNat
<1>9. ASSUME NEW e \in T
      PROVE  Weight[d] > Weight[e] \/ (Weight[d] = Weight[e] /\ d <= e)
  <2>1. b - Weight[h] <= b - Weight[e]
    BY <1>5, <1>6
  <2>2. Weight[e] <= Weight[h] /\ Weight[d] = Weight[h]
    BY <2>1, <1>1, <1>2, <1>8
  <2>. QED
    BY <1>2, <1>8, <2>2
<1>. QED
  BY <1>8, <1>9

\* next_dimension finds one while a dimension is open, and only one.
LEMMA NextDimensionExists ==
    ASSUME NEW plan \in PlanType, NEW coverage, OpenDimensions(plan, coverage) # {}
    PROVE  NextDimension(plan, coverage) # {}
<1>. DEFINE open == OpenDimensions(plan, coverage)
            fresh == {d \in open : ~ (coverage[d] >= CoverageTarget)}
            T == IF fresh # {} THEN fresh ELSE open
<1>1. T \in SUBSET Dims /\ T # {} /\ T \subseteq open
  BY DEF OpenDimensions, PlanType
<1>2. PICK d \in T : \A e \in T : Weight[d] > Weight[e] \/ (Weight[d] = Weight[e] /\ d <= e)
  BY <1>1, HeaviestFirst
<1>3. ASSUME NEW e \in open
      PROVE  SelectedBefore(d, e, coverage)
  <2>1. CASE e \in T
    <3>1. (coverage[d] >= CoverageTarget) = (coverage[e] >= CoverageTarget)
      BY <1>2, <2>1
    <3>. QED
      BY <1>2, <2>1, <3>1 DEF SelectedBefore
  <2>2. CASE e \notin T
    <3>1. ~ (coverage[d] >= CoverageTarget) /\ coverage[e] >= CoverageTarget
      BY <1>2, <2>2
    <3>. QED
      BY <3>1 DEF SelectedBefore
  <2>. QED
    BY <2>1, <2>2
<1>4. d \in NextDimension(plan, coverage)
  BY <1>1, <1>2, <1>3 DEF NextDimension
<1>. QED
  BY <1>4

\* next_dimension returns one dimension.
LEMMA NextDimensionUnique ==
    ASSUME NEW plan \in PlanType, NEW coverage,
           NEW d \in NextDimension(plan, coverage), NEW e \in NextDimension(plan, coverage)
    PROVE  d = e
<1>1. d \in Dims /\ e \in Dims /\ Weight[d] \in Nat /\ Weight[e] \in Nat
  BY NextDimensionPlanned, PlanAssumption DEF Dims
<1>2. SelectedBefore(d, e, coverage) /\ SelectedBefore(e, d, coverage)
  BY DEF NextDimension
<1>. QED
  BY <1>1, <1>2 DEF SelectedBefore, Dims

-----------------------------------------------------------------------------
(* A plan that agrees with the coverage *)

\* What it means, dimension by dimension, that next_dimension has nothing to write.
Tracks(plan, coverage) ==
    \A d \in Dims :
        /\ coverage[d] <= plan.current_coverage[d]
        /\ d \in plan.dims /\ plan.current_coverage[d] >= CoverageTarget => plan.completed[d]

\* Two plans that agree in every field are equal.
LEMMA SamePlan ==
    ASSUME NEW p \in PlanType, NEW q \in PlanType,
           p.dims = q.dims, p.question_budget = q.question_budget,
           p.asked_questions = q.asked_questions, p.follow_up_budget = q.follow_up_budget,
           p.total_question_budget = q.total_question_budget,
           p.total_follow_up_budget = q.total_follow_up_budget,
           \A d \in Dims : p.current_coverage[d] = q.current_coverage[d],
           \A d \in Dims : p.completed[d] <=> q.completed[d]
    PROVE  p = q
<1>1. /\ p.current_coverage \in [Dims -> Percent] /\ q.current_coverage \in [Dims -> Percent]
      /\ p.completed \in [Dims -> BOOLEAN] /\ q.completed \in [Dims -> BOOLEAN]
  BY DEF PlanType
<1>2. p.current_coverage = q.current_coverage
  BY <1>1
<1>3. p.completed = q.completed
  BY <1>1
<1>. QED
  BY <1>2, <1>3 DEF PlanType

\* What next_dimension writes.
LEMMA RefreshFields ==
    ASSUME NEW plan \in PlanType, NEW coverage \in CoverageType
    PROVE  LET refreshed == Refresh(plan, coverage)
           IN  /\ refreshed.dims = plan.dims
               /\ refreshed.question_budget = plan.question_budget
               /\ refreshed.asked_questions = plan.asked_questions
               /\ refreshed.follow_up_budget = plan.follow_up_budget
               /\ \A d \in Dims :
                     /\ refreshed.current_coverage[d]
                          = Larger(plan.current_coverage[d], coverage[d])
                     /\ refreshed.completed[d]
                          <=> \/ plan.completed[d]
                              \/ d \in plan.dims /\ refreshed.current_coverage[d] >= CoverageTarget
<1>1. /\ Refresh(plan, coverage).dims = plan.dims
      /\ Refresh(plan, coverage).question_budget = plan.question_budget
      /\ Refresh(plan, coverage).asked_questions = plan.asked_questions
      /\ Refresh(plan, coverage).follow_up_budget = plan.follow_up_budget
  BY DEF Refresh, PlanType
<1>2. ASSUME NEW d \in Dims
      PROVE  Refresh(plan, coverage).current_coverage[d]
                = Larger(plan.current_coverage[d], coverage[d])
  BY DEF Refresh, PlanType
<1>3. ASSUME NEW d \in Dims
      PROVE  Refresh(plan, coverage).completed[d]
                <=> \/ plan.completed[d]
                    \/ /\ d \in plan.dims
                       /\ Larger(plan.current_coverage[d], coverage[d]) >= CoverageTarget
  BY DEF Refresh, PlanType, Larger
<1>. QED
  BY <1>1, <1>2, <1>3

\* Refreshing a plan changes nothing exactly when it is up to date, and makes it so.
LEMMA TracksIsRefreshed ==
    ASSUME NEW plan \in PlanType, NEW coverage \in CoverageType
    PROVE  /\ Refresh(plan, coverage) = plan <=> Tracks(plan, coverage)
           /\ Tracks(Refresh(plan, coverage), coverage)
<1>. DEFINE refreshed == Refresh(plan, coverage)
<1>1. \A d \in Dims : plan.current_coverage[d] \in Nat /\ coverage[d] \in Nat
  BY DEF PlanType, CoverageType, Percent
<1>2. /\ refreshed.dims = plan.dims
      /\ \A d \in Dims :
            /\ refreshed.current_coverage[d] = Larger(plan.current_coverage[d], coverage[d])
            /\ refreshed.completed[d]
                 <=> \/ plan.completed[d]
                     \/ d \in plan.dims /\ refreshed.current_coverage[d] >= CoverageTarget
  BY RefreshFields
<1>3. refreshed \in PlanType
  BY RefreshType
<1>4. ASSUME Tracks(plan, coverage)
      PROVE  refreshed = plan
  <2>1. \A d \in Dims : refreshed.current_coverage[d] = plan.current_coverage[d]
    BY <1>1, <1>2, <1>4 DEF Tracks, Larger
  <2>2. \A d \in Dims : refreshed.completed[d] <=> plan.completed[d]
    BY <1>2, <1>4, <2>1 DEF Tracks
  <2>. QED
    BY <1>3, <2>1, <2>2, RefreshFields, RefreshType, SamePlan
<1>. HIDE DEF refreshed
<1>5. Tracks(refreshed, coverage)
  BY <1>1, <1>2 DEF Tracks, Larger
<1>6. refreshed = plan => Tracks(plan, coverage)
  BY <1>5
<1>. QED
  BY <1>4, <1>5, <1>6 DEF refreshed

\* For such a plan the open dimensions are the ones not completed with questions left.
LEMMA OpenIs ==
    ASSUME NEW plan, NEW coverage, Refresh(plan, coverage) = plan
    PROVE  OpenDimensions(plan, coverage) =
              {d \in plan.dims : ~ plan.completed[d]
                                 /\ plan.question_budget[d] > plan.asked_questions[d]}
  BY DEF OpenDimensions

-----------------------------------------------------------------------------
(* How an evaluation moves question budget *)

\* The one dimension that gets what another releases.
Receives(plan, exclude, d) ==
    /\ d \in plan.dims \ {exclude} /\ ~ plan.completed[d]
    /\ \A e \in plan.dims \ {exclude} : ~ plan.completed[e] => RedistributedBefore(d, e, plan)

\* Released questions go to one dimension.
LEMMA OneReceiver ==
    ASSUME NEW plan \in PlanType, NEW x \in Dims, NEW d \in Dims, NEW e \in Dims,
           Receives(plan, x, d), Receives(plan, x, e)
    PROVE  d = e
<1>1. Weight[d] \in Nat /\ Weight[e] \in Nat /\ d \in Nat /\ e \in Nat
  BY PlanAssumption DEF Dims
<1>2. plan.asked_questions[d] \in Nat /\ plan.asked_questions[e] \in Nat
  BY DEF PlanType
<1>3. RedistributedBefore(d, e, plan) /\ RedistributedBefore(e, d, plan)
  BY DEF Receives
<1>. QED
  BY <1>1, <1>2, <1>3 DEF RedistributedBefore

\* What handing on released questions writes.
LEMMA RedistributeFields ==
    ASSUME NEW plan \in PlanType, NEW released \in Nat, NEW x \in Dims
    PROVE  LET shared == Redistribute(plan, released, x)
           IN  /\ shared.dims = plan.dims
               /\ shared.asked_questions = plan.asked_questions
               /\ shared.current_coverage = plan.current_coverage
               /\ shared.completed = plan.completed
               /\ \A d \in Dims :
                     /\ Receives(plan, x, d)
                          => shared.question_budget[d] = plan.question_budget[d] + released
                     /\ ~ Receives(plan, x, d)
                          => shared.question_budget[d] = plan.question_budget[d]
<1>1. /\ Redistribute(plan, released, x).dims = plan.dims
      /\ Redistribute(plan, released, x).asked_questions = plan.asked_questions
      /\ Redistribute(plan, released, x).current_coverage = plan.current_coverage
      /\ Redistribute(plan, released, x).completed = plan.completed
  BY DEF Redistribute, PlanType
<1>2. ASSUME NEW d \in Dims, Receives(plan, x, d)
      PROVE  Redistribute(plan, released, x).question_budget[d] = plan.question_budget[d] + released
  BY <1>2 DEF Redistribute, PlanType, Receives
<1>3. ASSUME NEW d \in Dims, ~ Receives(plan, x, d)
      PROVE  Redistribute(plan, released, x).question_budget[d] = plan.question_budget[d]
  BY <1>3 DEF Redistribute, PlanType, Receives
<1>. QED
  BY <1>1, <1>2, <1>3

\* The questions of a plan's dimensions: never fewer than were asked, and those left.
Covers(plan) == \A d \in Dims : plan.asked_questions[d] <= plan.question_budget[d]
Remaining(plan) == [d \in Dims |-> plan.question_budget[d] - plan.asked_questions[d]]
Left(plan) == SumOf(Remaining(plan))

\* A completed dimension is closed.
KeepsClosed(p, q) ==
    \A d \in Dims : p.completed[d] =>
        /\ q.completed[d]
        /\ q.asked_questions[d] = p.asked_questions[d]
        /\ q.question_budget[d] <= p.question_budget[d]

\* What recording coverage does, field by field.
LEMMA UpdateFields ==
    ASSUME NEW plan \in PlanType, NEW d \in Dims, NEW reached \in Percent
    PROVE  LET updated == UpdateAfterEvaluation(plan, d, reached)
               cover == Larger(plan.current_coverage[d], reached)
               released == Larger(0, plan.question_budget[d] - plan.asked_questions[d])
           IN  /\ updated.dims = plan.dims
               /\ updated.asked_questions = plan.asked_questions
               /\ updated.current_coverage[d] = cover
               /\ updated.completed[d] <=> plan.completed[d] \/ cover >= CoverageTarget
               /\ \A e \in Dims : e # d =>
                     /\ updated.current_coverage[e] = plan.current_coverage[e]
                     /\ updated.completed[e] <=> plan.completed[e]
               /\ ~ (cover >= CoverageTarget) => updated.question_budget = plan.question_budget
               /\ cover >= CoverageTarget =>
                     /\ updated.question_budget[d] = plan.asked_questions[d]
                     /\ \A e \in Dims : e # d =>
                           /\ Receives(plan, d, e) =>
                                 updated.question_budget[e] = plan.question_budget[e] + released
                           /\ ~ Receives(plan, d, e) =>
                                 updated.question_budget[e] = plan.question_budget[e]
<1>. DEFINE cover == Larger(plan.current_coverage[d], reached)
            released == Larger(0, plan.question_budget[d] - plan.asked_questions[d])
            closed == [plan EXCEPT !.current_coverage[d] = cover,
                                   !.completed[d] = TRUE,
                                   !.question_budget[d] = plan.asked_questions[d]]
            open == [plan EXCEPT !.current_coverage[d] = cover]
            updated == UpdateAfterEvaluation(plan, d, reached)
<1>1. cover \in Percent /\ released \in Nat
  BY DEF PlanType, Percent, Larger
<1>2. CASE ~ (cover >= CoverageTarget)
  <2>1. updated = open
    BY <1>2 DEF UpdateAfterEvaluation
  <2>2. /\ open.dims = plan.dims /\ open.asked_questions = plan.asked_questions
        /\ open.question_budget = plan.question_budget /\ open.completed = plan.completed
        /\ open.current_coverage[d] = cover
        /\ \A e \in Dims : e # d => open.current_coverage[e] = plan.current_coverage[e]
    BY DEF PlanType
  <2>. HIDE DEF open, updated, cover, released
  <2>. QED
    BY <1>2, <2>1, <2>2 DEF updated, cover
<1>3. CASE cover >= CoverageTarget
  <2>1. updated = Redistribute(closed, released, d)
    BY <1>3 DEF UpdateAfterEvaluation
  <2>2. closed \in PlanType
    BY <1>1 DEF PlanType
  <2>3. /\ closed.dims = plan.dims /\ closed.asked_questions = plan.asked_questions
        /\ closed.current_coverage[d] = cover /\ closed.completed[d]
        /\ closed.question_budget[d] = plan.asked_questions[d]
    BY DEF PlanType
  <2>4. ASSUME NEW e \in Dims, e # d
        PROVE  /\ closed.current_coverage[e] = plan.current_coverage[e]
               /\ closed.completed[e] <=> plan.completed[e]
               /\ closed.question_budget[e] = plan.question_budget[e]
    BY <2>4 DEF PlanType
  <2>. HIDE DEF closed
  <2>5. ASSUME NEW e \in Dims
        PROVE  Receives(closed, d, e) <=> Receives(plan, d, e)
    <3>1. \A f \in plan.dims \ {d} : f \in Dims /\ (closed.completed[f] <=> plan.completed[f])
      BY <2>4 DEF PlanType
    <3>2. \A f \in plan.dims \ {d} :
             RedistributedBefore(e, f, closed) <=> RedistributedBefore(e, f, plan)
      BY <2>3 DEF RedistributedBefore
    <3>. QED
      BY <2>3, <3>1, <3>2 DEF Receives
  <2>6. ~ Receives(closed, d, d)
    BY DEF Receives
  <2>. HIDE DEF released, cover
  <2>7. /\ updated.dims = closed.dims /\ updated.asked_questions = closed.asked_questions
        /\ updated.current_coverage = closed.current_coverage
        /\ updated.completed = closed.completed
        /\ \A e \in Dims :
              /\ Receives(closed, d, e)
                   => updated.question_budget[e] = closed.question_budget[e] + released
              /\ ~ Receives(closed, d, e)
                   => updated.question_budget[e] = closed.question_budget[e]
    BY <1>1, <2>1, <2>2, RedistributeFields
  <2>. HIDE DEF updated
  <2>8. \A e \in Dims : e # d =>
            /\ Receives(plan, d, e) =>
                  updated.question_budget[e] = plan.question_budget[e] + released
            /\ ~ Receives(plan, d, e) => updated.question_budget[e] = plan.question_budget[e]
            /\ updated.current_coverage[e] = plan.current_coverage[e]
            /\ updated.completed[e] <=> plan.completed[e]
    BY <2>4, <2>5, <2>7
  <2>9. updated.question_budget[d] = plan.asked_questions[d]
    BY <2>3, <2>6, <2>7
  <2>. QED
    BY <1>3, <2>3, <2>7, <2>8, <2>9 DEF updated, cover, released
<1>. QED
  BY <1>2, <1>3

\* The questions a plan has left add up to a number.
LEMMA LeftIsANumber ==
    ASSUME NEW plan \in PlanType
    PROVE  Remaining(plan) \in [Dims -> Int] /\ Left(plan) \in Int
<1>1. Remaining(plan) \in [Dims -> Int]
  BY DEF Remaining, PlanType
<1>. QED
  BY <1>1, SumIsAccumulated, AccumulatorIs DEF Left

\* Recording coverage overdraws no dimension, hands out no new questions and leaves
\* closed dimensions alone.
LEMMA UpdateKeeps ==
    ASSUME NEW plan \in PlanType, NEW d \in Dims, NEW reached \in Percent, Covers(plan)
    PROVE  LET updated == UpdateAfterEvaluation(plan, d, reached)
           IN  /\ Covers(updated) /\ KeepsClosed(plan, updated)
               /\ Left(updated) <= Left(plan)
<1>. DEFINE cover == Larger(plan.current_coverage[d], reached)
            released == Larger(0, plan.question_budget[d] - plan.asked_questions[d])
            updated == UpdateAfterEvaluation(plan, d, reached)
<1>1. /\ \A e \in Dims : plan.asked_questions[e] \in Nat /\ plan.question_budget[e] \in Nat
      /\ \A e \in Dims : plan.asked_questions[e] <= plan.question_budget[e]
  BY DEF PlanType, Covers
<1>2. released = plan.question_budget[d] - plan.asked_questions[d] /\ released \in Nat
  BY <1>1 DEF Larger
<1>3. updated \in PlanType
  BY UpdateAfterEvaluationType
<1>4. /\ updated.asked_questions = plan.asked_questions
      /\ plan.completed[d] => updated.completed[d]
      /\ \A e \in Dims : e # d => (updated.completed[e] <=> plan.completed[e])
      /\ ~ (cover >= CoverageTarget) => updated.question_budget = plan.question_budget
      /\ cover >= CoverageTarget =>
            /\ updated.question_budget[d] = plan.asked_questions[d]
            /\ \A e \in Dims : e # d =>
                  /\ Receives(plan, d, e) =>
                        updated.question_budget[e] = plan.question_budget[e] + released
                  /\ ~ Receives(plan, d, e) =>
                        updated.question_budget[e] = plan.question_budget[e]
  BY UpdateFields
<1>5. \A e \in Dims : Receives(plan, d, e) => e # d /\ ~ plan.completed[e]
  BY DEF Receives
<1>. HIDE DEF updated, cover, released
<1>6. Covers(updated)
  <2>1. ASSUME NEW e \in Dims
        PROVE  updated.asked_questions[e] <= updated.question_budget[e]
    <3>1. CASE ~ (cover >= CoverageTarget)
      BY <1>1, <1>4, <3>1
    <3>2. CASE cover >= CoverageTarget /\ e = d
      BY <1>1, <1>4, <3>2
    <3>3. CASE cover >= CoverageTarget /\ e # d
      BY <1>1, <1>2, <1>4, <3>3
    <3>. QED
      BY <3>1, <3>2, <3>3
  <2>. QED
    BY <2>1 DEF Covers
<1>7. KeepsClosed(plan, updated)
  <2>1. ASSUME NEW e \in Dims, plan.completed[e]
        PROVE  /\ updated.completed[e]
               /\ updated.asked_questions[e] = plan.asked_questions[e]
               /\ updated.question_budget[e] <= plan.question_budget[e]
    BY <1>1, <1>4, <1>5, <2>1
  <2>. QED
    BY <2>1 DEF KeepsClosed
<1>8. Left(updated) <= Left(plan)
  <2>. DEFINE f == Remaining(plan)
              g == Remaining(updated)
              h == [f EXCEPT ![d] = 0]
  <2>1. /\ f \in [Dims -> Int] /\ g \in [Dims -> Int] /\ h \in [Dims -> Int]
        /\ Left(plan) \in Int /\ Left(updated) \in Int
    BY <1>3, LeftIsANumber
  <2>2. \A e \in Dims : /\ f[e] = plan.question_budget[e] - plan.asked_questions[e]
                        /\ g[e] = updated.question_budget[e] - updated.asked_questions[e]
    BY DEF Remaining
  <2>3. h[d] = 0 /\ \A e \in Dims : e # d => h[e] = f[e]
    BY <2>1
  <2>4. Left(plan) = SumOf(f) /\ Left(updated) = SumOf(g)
    BY DEF Left
  <2>. HIDE DEF f, g, h
  <2>5. SumOf(h) = SumOf(f) + (h[d] - f[d]) /\ SumOf(f) \in Int
    BY <2>1, <2>3, SumChanges
  <2>6. f[d] = released /\ f[d] \in Int
    BY <1>2, <2>1, <2>2
  <2>7. CASE ~ (cover >= CoverageTarget)
    <3>1. \A e \in Dims : g[e] = f[e]
      BY <1>4, <2>2, <2>7
    <3>2. g = f
      BY <2>1, <3>1
    <3>. QED
      BY <2>1, <2>4, <3>2
  <2>8. CASE cover >= CoverageTarget /\ ~ \E e \in Dims : Receives(plan, d, e)
    <3>1. g[d] = 0
      BY <1>1, <1>4, <2>2, <2>8
    <3>2. \A e \in Dims : e # d => g[e] = f[e]
      BY <1>4, <2>2, <2>8
    <3>3. g = h
      BY <2>1, <2>3, <3>1, <3>2
    <3>. QED
      BY <1>2, <2>3, <2>4, <2>5, <2>6, <3>3
  <2>9. CASE cover >= CoverageTarget /\ \E e \in Dims : Receives(plan, d, e)
    <3>1. PICK r \in Dims : Receives(plan, d, r)
      BY <2>9
    <3>2. r # d /\ \A e \in Dims : e # r => ~ Receives(plan, d, e)
      BY <1>5, <3>1, OneReceiver
    <3>3. g[d] = 0 /\ g[d] = h[d]
      BY <1>1, <1>4, <2>2, <2>3, <2>9
    <3>4. \A e \in Dims : e # r /\ e # d => g[e] = f[e]
      BY <1>4, <2>2, <2>9, <3>2
    <3>5. \A e \in Dims : e # r => g[e] = h[e]
      BY <2>3, <3>3, <3>4
    <3>6. g[r] = f[r] + released /\ f[r] \in Int
      BY <1>1, <1>2, <1>4, <2>1, <2>2, <2>9, <3>1, <3>2
    <3>7. g[r] - h[r] = released
      BY <1>2, <2>3, <3>2, <3>6
    <3>8. SumOf(g) = SumOf(h) + (g[r] - h[r]) /\ SumOf(h) \in Int
      BY <2>1, <3>5, SumChanges
    <3>. QED
      BY <1>2, <2>3, <2>4, <2>5, <2>6, <3>7, <3>8
  <2>. QED
    BY <2>7, <2>8, <2>9
<1>. QED
  BY <1>6, <1>7, <1>8 DEF updated

\* Raising a follow-up budget touches no question and no coverage.
LEMMA IncreaseFields ==
    ASSUME NEW plan \in PlanType, NEW d \in Dims
    PROVE  LET raised == IncreaseFollowUpBudget(plan, d)
           IN  /\ raised.dims = plan.dims /\ raised.question_budget = plan.question_budget
               /\ raised.asked_questions = plan.asked_questions
               /\ raised.current_coverage = plan.current_coverage
               /\ raised.completed = plan.completed
  BY DEF IncreaseFollowUpBudget, PlanType

\* Recording coverage brings one dimension up to date.
LEMMA UpdateTracks ==
    ASSUME NEW plan \in PlanType, NEW d \in Dims, NEW reached \in Percent,
           NEW coverage \in CoverageType, coverage[d] <= reached,
           \A e \in Dims : e # d =>
              /\ coverage[e] <= plan.current_coverage[e]
              /\ e \in plan.dims /\ plan.current_coverage[e] >= CoverageTarget
                   => plan.completed[e]
    PROVE  Tracks(UpdateAfterEvaluation(plan, d, reached), coverage)
<1>. DEFINE cover == Larger(plan.current_coverage[d], reached)
            updated == UpdateAfterEvaluation(plan, d, reached)
<1>1. /\ updated.dims = plan.dims
      /\ updated.current_coverage[d] = cover
      /\ updated.completed[d] <=> plan.completed[d] \/ cover >= CoverageTarget
      /\ \A e \in Dims : e # d =>
            /\ updated.current_coverage[e] = plan.current_coverage[e]
            /\ updated.completed[e] <=> plan.completed[e]
  BY UpdateFields
<1>2. plan.current_coverage[d] \in Nat /\ coverage[d] \in Nat /\ reached \in Nat
  BY DEF PlanType, CoverageType, Percent
<1>3. coverage[d] <= cover
  BY <1>2 DEF Larger
<1>. HIDE DEF updated, cover
<1>4. ASSUME NEW e \in Dims
      PROVE  /\ coverage[e] <= updated.current_coverage[e]
             /\ e \in updated.dims /\ updated.current_coverage[e] >= CoverageTarget
                  => updated.completed[e]
  BY <1>1, <1>3
<1>5. Tracks(updated, coverage)
  BY <1>4 DEF Tracks
<1>. QED
  BY <1>5 DEF updated

\* The policy's whole update after an evaluation, whose coverage differs from the one
\* the plan agreed with in the dimension that was scored.
LEMMA EvaluationKeeps ==
    ASSUME NEW plan \in PlanType, NEW d \in Dims, NEW score \in Percent,
           NEW missing \in BOOLEAN, NEW before \in CoverageType, NEW coverage \in CoverageType,
           Covers(plan), Tracks(plan, before),
           \A e \in Dims : e # d => coverage[e] = before[e]
    PROVE  LET applied == ApplyEvaluation(plan, d, score, missing, coverage)
           IN  /\ Covers(applied) /\ KeepsClosed(plan, applied) /\ Left(applied) <= Left(plan)
               /\ Tracks(applied, coverage)
<1>. DEFINE updated == UpdateAfterEvaluation(plan, d, coverage[d])
            weakened == IF score < WeakScoreThreshold /\ missing
                        THEN IncreaseFollowUpBudget(updated, d) ELSE updated
            target == Larger(coverage[d], EarlyTarget)
            early == UpdateAfterEvaluation(weakened, d, target)
<1>1. coverage[d] \in Percent /\ target \in Percent /\ coverage[d] <= target
  BY DEF CoverageType, Percent, Larger, EarlyTarget
<1>2. \A e \in Dims : e # d =>
         /\ coverage[e] <= plan.current_coverage[e]
         /\ e \in plan.dims /\ plan.current_coverage[e] >= CoverageTarget => plan.completed[e]
  BY DEF Tracks
<1>3. updated \in PlanType
  BY <1>1, UpdateAfterEvaluationType
<1>4. Covers(updated) /\ KeepsClosed(plan, updated) /\ Left(updated) <= Left(plan)
  BY <1>1, UpdateKeeps
<1>5. Tracks(updated, coverage)
  <2>1. coverage[d] <= coverage[d]
    BY <1>1 DEF Percent
  <2>. QED
    BY <1>1, <1>2, <2>1, UpdateTracks
<1>. HIDE DEF updated
<1>6. weakened \in PlanType
  BY <1>3, IncreaseFollowUpBudgetType
<1>7. /\ weakened.dims = updated.dims /\ weakened.question_budget = updated.question_budget
      /\ weakened.asked_questions = updated.asked_questions
      /\ weakened.current_coverage = updated.current_coverage
      /\ weakened.completed = updated.completed
  BY <1>3, IncreaseFields
<1>. HIDE DEF weakened
<1>8. /\ Covers(weakened) /\ KeepsClosed(plan, weakened) /\ Left(weakened) <= Left(plan)
      /\ Tracks(weakened, coverage)
  BY <1>4, <1>5, <1>7 DEF Covers, KeepsClosed, Left, Remaining, Tracks
<1>. HIDE DEF target
<1>9. Covers(early) /\ KeepsClosed(weakened, early) /\ Left(early) <= Left(weakened)
  BY <1>1, <1>6, <1>8, UpdateKeeps
<1>10. Tracks(early, coverage)
  BY <1>1, <1>6, <1>8, UpdateTracks DEF Tracks
<1>11. early \in PlanType
  BY <1>1, <1>6, UpdateAfterEvaluationType
<1>. HIDE DEF early
<1>12. KeepsClosed(plan, early)
  <2>1. ASSUME NEW e \in Dims, plan.completed[e]
        PROVE  /\ early.completed[e] /\ early.asked_questions[e] = plan.asked_questions[e]
               /\ early.question_budget[e] <= plan.question_budget[e]
    <3>1. /\ weakened.completed[e] /\ weakened.asked_questions[e] = plan.asked_questions[e]
          /\ weakened.question_budget[e] <= plan.question_budget[e]
      BY <1>8, <2>1 DEF KeepsClosed
    <3>2. /\ early.completed[e] /\ early.asked_questions[e] = weakened.asked_questions[e]
          /\ early.question_budget[e] <= weakened.question_budget[e]
      BY <1>9, <3>1 DEF KeepsClosed
    <3>3. /\ plan.question_budget[e] \in Nat /\ weakened.question_budget[e] \in Nat
          /\ early.question_budget[e] \in Nat
      BY <1>6, <1>11 DEF PlanType
    <3>. QED
      BY <3>1, <3>2, <3>3
  <2>. QED
    BY <2>1 DEF KeepsClosed
<1>13. Left(early) <= Left(plan)
  <2>1. Left(early) \in Int /\ Left(weakened) \in Int /\ Left(plan) \in Int
    BY <1>6, <1>11, LeftIsANumber
  <2>. QED
    BY <1>8, <1>9, <2>1
<1>14. ApplyEvaluation(plan, d, score, missing, coverage)
          = IF score >= HighScoreThreshold /\ coverage[d] >= EarlyCoverage THEN early ELSE weakened
  BY DEF ApplyEvaluation, early, target, weakened, updated
<1>. QED
  BY <1>8, <1>9, <1>10, <1>12, <1>13, <1>14
===============================================================================
