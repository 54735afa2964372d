------------------------- MODULE CheckpointFileProofs -------------------------
(***************************************************************************)
(* What a session keeps on its way through a file, for any number of       *)
(* tools, questions and targets, every timeout and every order of calls:   *)
(* reconstruction loses what Lossy names and nothing else, every call      *)
(* makes the same of the board and of what came back from the file, and    *)
(* the references between artifacts resolve after every restart.           *)
(***************************************************************************)
EXTENDS CheckpointFile, FiniteSetTheorems, TLAPS

-----------------------------------------------------------------------------
(* Going through the file *)

\* An array made of a finite set has the set's elements.
LEMMA SetToSeqRange ==
    ASSUME NEW S, IsFiniteSet(S)
    PROVE  Range(SetToSeq(S)) = S
<1> DEFINE n == Cardinality(S)
<1>1. n \in Nat /\ ExistsBijection(1..n, S)
  BY FS_CardinalityType
<1>2. PICK g \in [1..n -> S] : IsInjective(g)
  BY <1>1 DEF ExistsBijection, Bijection, Injection, IsInjective
<1>3. SetToSeq(S) \in [1..n -> S] /\ IsInjective(SetToSeq(S))
  BY <1>2 DEF SetToSeq
<1>4. IsFiniteSet(1..n) /\ Cardinality(1..n) = n
  BY <1>1, FS_Interval
<1>5. SetToSeq(S) \in Injection(1..n, S)
  BY <1>3 DEF Injection
<1>6. SetToSeq(S) \in Surjection(1..n, S)
  BY <1>4, <1>5, FS_Injection
<1>. QED
  BY <1>3, <1>6 DEF Surjection, Range

\* The tools a session was granted come back from the file: none is not all.
LEMMA GrantComesBack ==
    ASSUME NEW allowed \in Optional(SUBSET Tools)
    PROVE  LET written == IF allowed = None THEN None ELSE SetToSeq(allowed)
           IN  (IF written = None THEN None ELSE Range(written)) = allowed
<1>1. CASE allowed = None
  BY <1>1
<1>2. CASE allowed # None
  <2>1. allowed \in SUBSET Tools /\ IsFiniteSet(allowed)
    BY <1>2, CheckpointAssumption, FS_Subset DEF Optional
  <2>2. Range(SetToSeq(allowed)) = allowed /\ SetToSeq(allowed) # None
    BY <2>1, SetToSeqRange, CheckpointAssumption
  <2>. QED
    BY <1>2, <2>2
<1>. QED
  BY <1>1, <1>2

\* A question's text and expected points are not defaulted a second time.
LEMMA QuestionComesBack ==
    ASSUME NEW q \in Optional(Question)
    PROVE  QuestionOf(q) = q
<1>1. CASE q = None
  BY <1>1 DEF QuestionOf
<1>2. CASE q # None
  <2>1. /\ q \in [question_id : Questions, text : {"title", "text"}, target_evidence : Lists,
                  expected_points : Lists, parent_question_id : Optional(Questions)]
        /\ q.expected_points = << >> => q.target_evidence = << >>
    BY <1>2 DEF Optional, Question
  <2>2. q.text # None
    BY <2>1, CheckpointAssumption
  <2>3. NewQuestion(q.question_id, q.text, q.target_evidence, q.expected_points,
                    q.parent_question_id) = q
    BY <2>1, <2>2 DEF NewQuestion
  <2>. QED
    BY <1>2, <2>3 DEF QuestionOf
<1>. QED
  BY <1>1, <1>2

\* Plain objects come back as dataclasses, dataclasses as themselves.
LEMMA ProfileComesBack ==
    ASSUME NEW p \in Optional(Profile)
    PROVE  ProfileOf(JsonProfile(p)) = ProjectObjects(p)
<1>1. CASE p = None
  BY <1>1 DEF ProfileOf, JsonProfile, ProjectObjects
<1>2. CASE p # None
  <2> DEFINE j == [p EXCEPT !.projects = IF @ = "object" THEN "dict" ELSE @]
             o == [p EXCEPT !.projects = IF @ = "dict" THEN "object" ELSE @]
  <2>1. p \in Profile
    BY <1>2 DEF Optional
  <2>2. j # None
    BY <2>1, CheckpointAssumption DEF Profile
  <2>3. NewProfile(IF j.projects = "dict" THEN "object" ELSE j.projects, j.confidence) = o
    BY <2>1 DEF NewProfile, Profile
  <2>. QED
    BY <1>2, <2>2, <2>3 DEF ProfileOf, JsonProfile, ProjectObjects
<1>. QED
  BY <1>1, <1>2

\* The logs of the board.
Answer == [question_id : Questions, answer_id : Nat]
Evaluation ==
    {e \in [question_id : Questions, answer_id : Nat, score : Scores,
            overall_score : Scores, evidence : Seq(Evidence)] : e.overall_score = e.score}
Decision == [question_id : Questions, target : Optional(Targets),
             normalized_target : Optional(Targets)]

\* The type of every field of a board.
BoardType ==
    [session_allowed_tools |-> Optional(SUBSET Tools),
     started_at |-> Nat,
     current_stage |-> Stages,
     candidate_profile |-> Optional(Profile),
     interview_plan |-> Optional([confidence : 0..100]),
     current_question |-> Optional(Question),
     question_history |-> Seq(Question),
     answers |-> Seq(Answer),
     evaluations |-> Seq(Evaluation),
     evidence |-> Seq(Evidence),
     follow_up_decisions |-> Seq(Decision),
     asked_question_ids |-> SUBSET Questions,
     followed_targets |-> SUBSET Targets,
     question_follow_up_rounds |-> [Questions -> Nat],
     durable_tool_records |->
         [Tools -> Optional([status : {"success"}, value : {"json", "object"}])],
     report |-> Optional([overall_score : Scores, role_match_score : Scores])]

\* A board changed in fields of the right type is a board.
LEMMA BoardByField ==
    ASSUME NEW b \in Board, NEW c, DOMAIN c = DOMAIN b, c = [f \in DOMAIN b |-> c[f]],
           \A f \in DOMAIN b : c[f] = b[f] \/ c[f] \in BoardType[f]
    PROVE  c \in Board
<1>1. DOMAIN b = DOMAIN BoardType
  BY DEF Board, BoardType
<1>2. \A f \in DOMAIN b : b[f] \in BoardType[f]
  <2>1. /\ b.session_allowed_tools \in BoardType.session_allowed_tools
        /\ b.started_at \in BoardType.started_at
        /\ b.current_stage \in BoardType.current_stage
        /\ b.candidate_profile \in BoardType.candidate_profile
        /\ b.interview_plan \in BoardType.interview_plan
        /\ b.current_question \in BoardType.current_question
        /\ b.question_history \in BoardType.question_history
        /\ b.answers \in BoardType.answers
        /\ b.evaluations \in BoardType.evaluations
        /\ b.evidence \in BoardType.evidence
        /\ b.follow_up_decisions \in BoardType.follow_up_decisions
        /\ b.asked_question_ids \in BoardType.asked_question_ids
        /\ b.followed_targets \in BoardType.followed_targets
        /\ b.question_follow_up_rounds \in BoardType.question_follow_up_rounds
        /\ b.durable_tool_records \in BoardType.durable_tool_records
        /\ b.report \in BoardType.report
    BY DEF Board, BoardType, Answer, Evaluation, Decision
  <2>2. DOMAIN BoardType = {"session_allowed_tools", "started_at", "current_stage",
                            "candidate_profile", "interview_plan", "current_question",
                            "question_history", "answers", "evaluations", "evidence",
                            "follow_up_decisions", "asked_question_ids",
                            "followed_targets", "question_follow_up_rounds",
                            "durable_tool_records", "report"}
    BY DEF BoardType
  <2>. QED
    BY <1>1, <2>1, <2>2
<1>3. \A f \in DOMAIN BoardType : c[f] \in BoardType[f]
  BY <1>1, <1>2
<1>4. DOMAIN c = DOMAIN BoardType /\ c = [f \in DOMAIN BoardType |-> c[f]]
  BY <1>1
<1>. QED
  BY <1>3, <1>4, ZenonT(30) DEF Board, BoardType, Answer, Evaluation, Decision

\* The fields of a board.
LEMMA BoardNames ==
    ASSUME NEW b \in Board
    PROVE  DOMAIN b = {"session_allowed_tools", "started_at", "current_stage",
                       "candidate_profile", "interview_plan", "current_question",
                       "question_history", "answers", "evaluations", "evidence",
                       "follow_up_decisions", "asked_question_ids", "followed_targets",
                       "question_follow_up_rounds", "durable_tool_records", "report"}
  BY DEF Board

\* Every artifact keeps its id, its score and its target: what the constructor draws
\* or derives is overwritten by what was written.
LEMMA ArtifactsComeBack ==
    /\ \A a \in Answer : AnswerOf(a) = a
    /\ \A e \in Evaluation : EvaluationOf(e) = e
    /\ \A d \in Decision : DecisionOf(d) = d
<1>1. ASSUME NEW a \in Answer PROVE AnswerOf(a) = a
  BY DEF Answer, AnswerOf, NewAnswer
<1>2. ASSUME NEW e \in Evaluation PROVE EvaluationOf(e) = e
  BY DEF Evaluation, EvaluationOf, NewEvaluation
<1>3. ASSUME NEW d \in Decision PROVE DecisionOf(d) = d
  BY DEF Decision, DecisionOf, NewDecision
<1>. QED
  BY <1>1, <1>2, <1>3

\* The lists of artifacts come back entry by entry.
LEMMA LogsComeBack ==
    ASSUME NEW b \in Board
    PROVE  /\ [i \in DOMAIN b.question_history |-> QuestionOf(b.question_history[i])]
                 = b.question_history
           /\ [i \in DOMAIN b.answers |-> AnswerOf(b.answers[i])] = b.answers
           /\ [i \in DOMAIN b.evaluations |-> EvaluationOf(b.evaluations[i])] = b.evaluations
           /\ [i \in DOMAIN b.follow_up_decisions |-> DecisionOf(b.follow_up_decisions[i])]
                 = b.follow_up_decisions
<1>1. /\ b.question_history \in Seq(Question) /\ b.answers \in Seq(Answer)
      /\ b.evaluations \in Seq(Evaluation) /\ b.follow_up_decisions \in Seq(Decision)
  BY DEF Board, Answer, Evaluation, Decision
<1>2. \A q \in Question : QuestionOf(q) = q
  BY QuestionComesBack DEF Optional
<1>3. [i \in DOMAIN b.question_history |-> QuestionOf(b.question_history[i])]
        = b.question_history
  BY <1>1, <1>2
<1>4. [i \in DOMAIN b.answers |-> AnswerOf(b.answers[i])] = b.answers
  BY <1>1, ArtifactsComeBack
<1>5. [i \in DOMAIN b.evaluations |-> EvaluationOf(b.evaluations[i])] = b.evaluations
  BY <1>1, ArtifactsComeBack
<1>6. [i \in DOMAIN b.follow_up_decisions |-> DecisionOf(b.follow_up_decisions[i])]
        = b.follow_up_decisions
  BY <1>1, ArtifactsComeBack
<1>. QED
  BY <1>3, <1>4, <1>5, <1>6

\* What comes back from the file is the board, but for the losses.
LEMMA RoundTrip ==
    ASSUME NEW b \in Board
    PROVE  Decode(Encode(b)) = Lossy(b)
<1> DEFINE written == IF b.session_allowed_tools = None THEN None
                      ELSE SetToSeq(b.session_allowed_tools)
           records == [t \in Tools |-> JsonRecord(b.durable_tool_records[t])]
           report == IF b.report = None THEN None ELSE NewReport(b.report.overall_score, None)
           written_profile == JsonProfile(b.candidate_profile)
           profile == ProjectObjects(b.candidate_profile)
           plan == PlanOf(b.interview_plan)
           ids == SetToSeq(b.asked_question_ids)
           targets == SetToSeq(b.followed_targets)
           e == Encode(b)
<1>1. e = [b EXCEPT !.session_allowed_tools = written, !.asked_question_ids = ids,
                    !.followed_targets = targets, !.candidate_profile = written_profile,
                    !.durable_tool_records = records]
  BY DEF Encode
<1>2. /\ e.session_allowed_tools = written /\ e.started_at = b.started_at
      /\ e.current_stage = b.current_stage /\ e.current_question = b.current_question
      /\ e.question_history = b.question_history /\ e.answers = b.answers
      /\ e.evaluations = b.evaluations /\ e.evidence = b.evidence
      /\ e.follow_up_decisions = b.follow_up_decisions /\ e.asked_question_ids = ids
      /\ e.followed_targets = targets
      /\ e.question_follow_up_rounds = b.question_follow_up_rounds
      /\ e.durable_tool_records = records /\ e.report = b.report
      /\ e.candidate_profile = written_profile /\ e.interview_plan = b.interview_plan
  <2>. HIDE DEF written, written_profile, records, ids, targets, e
  <2>. QED
    BY <1>1 DEF Board
<1>3. (IF written = None THEN None ELSE Range(written)) = b.session_allowed_tools
  <2>1. b.session_allowed_tools \in Optional(SUBSET Tools)
    BY DEF Board
  <2>. QED
    BY <2>1, GrantComesBack
<1>4. Range(ids) = b.asked_question_ids /\ Range(targets) = b.followed_targets
  <2>1. /\ b.asked_question_ids \subseteq Questions /\ b.followed_targets \subseteq Targets
    BY DEF Board
  <2>2. IsFiniteSet(b.asked_question_ids) /\ IsFiniteSet(b.followed_targets)
    BY <2>1, CheckpointAssumption, FS_Subset
  <2>. QED
    BY <2>2, SetToSeqRange
<1>5. QuestionOf(b.current_question) = b.current_question
  BY QuestionComesBack DEF Board
<1>6. ReportOf(b.report) = report
  BY DEF ReportOf
<1>7. ProfileOf(written_profile) = profile
  <2>1. b.candidate_profile \in Optional(Profile)
    BY DEF Board
  <2>. QED
    BY <2>1, ProfileComesBack
<1>8. Decode(e) = [e EXCEPT !.session_allowed_tools = b.session_allowed_tools,
                            !.candidate_profile = profile,
                            !.interview_plan = plan,
                            !.current_question = b.current_question,
                            !.question_history = b.question_history,
                            !.answers = b.answers,
                            !.evaluations = b.evaluations,
                            !.follow_up_decisions = b.follow_up_decisions,
                            !.asked_question_ids = b.asked_question_ids,
                            !.followed_targets = b.followed_targets,
                            !.report = report]
  <2>. HIDE DEF written, written_profile, records, ids, targets, e, report, profile, plan
  <2>1. /\ (IF e.session_allowed_tools = None THEN None ELSE Range(e.session_allowed_tools))
             = b.session_allowed_tools
        /\ QuestionOf(e.current_question) = b.current_question
        /\ Range(e.asked_question_ids) = b.asked_question_ids
        /\ Range(e.followed_targets) = b.followed_targets
        /\ ReportOf(e.report) = report
        /\ ProfileOf(e.candidate_profile) = profile /\ PlanOf(e.interview_plan) = plan
    BY <1>2, <1>3, <1>4, <1>5, <1>6, <1>7 DEF plan
  <2>2. /\ [i \in DOMAIN e.question_history |-> QuestionOf(e.question_history[i])]
              = b.question_history
        /\ [i \in DOMAIN e.answers |-> AnswerOf(e.answers[i])] = b.answers
        /\ [i \in DOMAIN e.evaluations |-> EvaluationOf(e.evaluations[i])] = b.evaluations
        /\ [i \in DOMAIN e.follow_up_decisions |-> DecisionOf(e.follow_up_decisions[i])]
              = b.follow_up_decisions
    BY <1>2, LogsComeBack, Zenon
  <2>. QED
    BY <2>1, <2>2, Zenon DEF Decode
<1>9. Lossy(b) = [b EXCEPT !.durable_tool_records = records, !.candidate_profile = profile,
                           !.interview_plan = plan, !.report = report]
  BY DEF Lossy, PlanOf
<1>10. Decode(e) = [b EXCEPT !.durable_tool_records = records, !.candidate_profile = profile,
                            !.interview_plan = plan, !.report = report]
  <2> DEFINE x == Decode(e)
             y == [b EXCEPT !.durable_tool_records = records, !.candidate_profile = profile,
                          !.interview_plan = plan, !.report = report]
  <2>1. b = [f \in DOMAIN b |-> b[f]]
    BY DEF Board
  <2>2. DOMAIN e = DOMAIN b /\ DOMAIN x = DOMAIN b /\ DOMAIN y = DOMAIN b
    <3>. HIDE DEF written, written_profile, records, ids, targets, e, report, profile, plan
    <3>. QED
      BY <1>1, <1>8
  <2>3. x = [f \in DOMAIN b |-> x[f]] /\ y = [f \in DOMAIN b |-> y[f]]
    <3>. HIDE DEF written, written_profile, records, ids, targets, e, report, profile, plan
    <3>. QED
      BY <1>1, <1>8, <2>2
  <2>4. ASSUME NEW f \in DOMAIN b PROVE x[f] = y[f]
    <3>. HIDE DEF written, written_profile, records, ids, targets, e, report, profile, plan
    <3>. QED
      BY <1>1, <1>8, <2>2
  <2>. HIDE DEF x, y
  <2>5. x = y
    BY <2>3, <2>4
  <2>. QED
    BY <2>5 DEF x, y
<1>. QED
  BY <1>9, <1>10

-----------------------------------------------------------------------------
(* The losses *)

Losses == {"durable_tool_records", "candidate_profile", "interview_plan", "report"}

\* The losses leave a board, and everything else of it as it was.
LEMMA LossyFields ==
    ASSUME NEW b \in Board
    PROVE  /\ Lossy(b) \in Board
           /\ DOMAIN Lossy(b) = DOMAIN b
           /\ \A f \in DOMAIN b \ Losses : Lossy(b)[f] = b[f]
           /\ Lossy(b).durable_tool_records = [t \in Tools |-> JsonRecord(b.durable_tool_records[t])]
           /\ Lossy(b).candidate_profile = ProjectObjects(b.candidate_profile)
           /\ Lossy(b).interview_plan = PlanOf(b.interview_plan)
           /\ Lossy(b).report = ReportOf(b.report)
<1> DEFINE records == [t \in Tools |-> JsonRecord(b.durable_tool_records[t])]
           profile == ProjectObjects(b.candidate_profile)
           plan == PlanOf(b.interview_plan)
           report == ReportOf(b.report)
           R == Optional([status : {"success"}, value : {"json", "object"}])
<1>1. Lossy(b) = [b EXCEPT !.durable_tool_records = records, !.candidate_profile = profile,
                           !.interview_plan = plan, !.report = report]
  BY DEF Lossy, ReportOf, PlanOf
<1>2. records \in [Tools -> R]
  <2>1. ASSUME NEW r \in R PROVE JsonRecord(r) \in R
    BY DEF JsonRecord, Optional
  <2>2. b.durable_tool_records \in [Tools -> R]
    BY DEF Board
  <2>. HIDE DEF R
  <2>. QED
    BY <2>1, <2>2
<1>3. report \in Optional([overall_score : Scores, role_match_score : Scores])
  <2>1. b.report \in Optional([overall_score : Scores, role_match_score : Scores])
    BY DEF Board
  <2>. QED
    BY <2>1 DEF ReportOf, NewReport, Optional
<1>4. /\ profile \in Optional(Profile)
       /\ plan \in Optional([confidence : 0..100])
  <2>1. b.candidate_profile \in Optional(Profile)
    BY DEF Board
  <2>. QED
    BY <2>1 DEF ProjectObjects, PlanOf, NewPlan, DefaultConfidence, Optional, Profile
<1>. HIDE DEF records, profile, plan, report
<1>5. Lossy(b) \in Board
  <2>1. /\ records \in BoardType["durable_tool_records"]
        /\ profile \in BoardType["candidate_profile"]
        /\ plan \in BoardType["interview_plan"] /\ report \in BoardType["report"]
    BY <1>2, <1>3, <1>4 DEF BoardType
  <2>2. DOMAIN Lossy(b) = DOMAIN b /\ Lossy(b) = [f \in DOMAIN b |-> Lossy(b)[f]]
    BY <1>1
  <2>3. \A f \in DOMAIN b : Lossy(b)[f] = b[f] \/ Lossy(b)[f] \in BoardType[f]
    BY <1>1, <2>1
  <2>. QED
    BY <2>2, <2>3, BoardByField
<1>6. /\ DOMAIN Lossy(b) = DOMAIN b
      /\ \A f \in DOMAIN b \ Losses : Lossy(b)[f] = b[f]
  BY <1>1 DEF Losses
<1>7. /\ Lossy(b).durable_tool_records = records /\ Lossy(b).report = report
      /\ Lossy(b).candidate_profile = profile /\ Lossy(b).interview_plan = plan
  BY <1>1 DEF Board
<1>. QED
  BY <1>5, <1>6, <1>7 DEF records, profile, plan, report

\* Two boards with the same fields are the same.
LEMMA SameBoards ==
    ASSUME NEW b \in Board, NEW c \in Board,
           \A f \in DOMAIN b \ Losses : c[f] = b[f],
           c.durable_tool_records = b.durable_tool_records, c.report = b.report,
           c.candidate_profile = b.candidate_profile, c.interview_plan = b.interview_plan
    PROVE  b = c
<1>1. DOMAIN b = DOMAIN c /\ b = [f \in DOMAIN b |-> b[f]] /\ c = [f \in DOMAIN c |-> c[f]]
  BY DEF Board
<1>2. \A f \in DOMAIN b : c[f] = b[f]
  BY DEF Losses
<1>. QED
  BY <1>1, <1>2

\* What was lost once is not lost again.
LEMMA LostOnce ==
    /\ \A r : JsonRecord(JsonRecord(r)) = JsonRecord(r)
    /\ \A r : ReportOf(ReportOf(r)) = ReportOf(r)
    /\ \A x : PlanOf(PlanOf(x)) = PlanOf(x)
    /\ \A x \in Optional(Profile) :
          ProjectObjects(ProjectObjects(x)) = ProjectObjects(x)
<1>1. ASSUME NEW r PROVE JsonRecord(JsonRecord(r)) = JsonRecord(r)
  <2>1. CASE r = None
    BY <2>1 DEF JsonRecord
  <2>2. CASE r # None
    <3> DEFINE j == [r EXCEPT !.value = "json"]
    <3>1. JsonRecord(r) = j
      BY <2>2 DEF JsonRecord
    <3>2. [j EXCEPT !.value = "json"] = j
      OBVIOUS
    <3>3. JsonRecord(j) = j
      BY <3>2 DEF JsonRecord
    <3>. QED
      BY <3>1, <3>3
  <2>. QED
    BY <2>1, <2>2
<1>2. ASSUME NEW r PROVE ReportOf(ReportOf(r)) = ReportOf(r)
  BY DEF ReportOf, NewReport
<1>3. ASSUME NEW x PROVE PlanOf(PlanOf(x)) = PlanOf(x)
  BY DEF PlanOf
<1>4. ASSUME NEW x \in Optional(Profile)
      PROVE  ProjectObjects(ProjectObjects(x)) = ProjectObjects(x)
  BY DEF ProjectObjects, Optional
<1>. QED
  BY <1>1, <1>2, <1>3, <1>4

\* Going through the file again loses nothing more.
LEMMA LossyTwice ==
    ASSUME NEW b \in Board
    PROVE  Lossy(Lossy(b)) = Lossy(b)
<1> DEFINE c == Lossy(b)
           d == Lossy(c)
<1>1. c \in Board /\ c.report = ReportOf(b.report)
      /\ c.durable_tool_records = [t \in Tools |-> JsonRecord(b.durable_tool_records[t])]
      /\ c.candidate_profile = ProjectObjects(b.candidate_profile)
      /\ c.interview_plan = PlanOf(b.interview_plan)
  BY LossyFields
<1>. HIDE DEF c
<1>2. /\ d \in Board /\ d.report = ReportOf(c.report)
      /\ d.candidate_profile = ProjectObjects(c.candidate_profile)
      /\ d.interview_plan = PlanOf(c.interview_plan)
      /\ d.durable_tool_records = [t \in Tools |-> JsonRecord(c.durable_tool_records[t])]
      /\ \A f \in DOMAIN c \ Losses : d[f] = c[f]
  BY <1>1, LossyFields
<1>. HIDE DEF d
<1>3. d.report = c.report
  BY <1>1, <1>2, LostOnce
<1>4. d.durable_tool_records = c.durable_tool_records
  BY <1>1, <1>2, LostOnce
<1>5. d.candidate_profile = c.candidate_profile /\ d.interview_plan = c.interview_plan
  <2>1. b.candidate_profile \in Optional(Profile)
    BY DEF Board
  <2>. QED
    BY <1>1, <1>2, <2>1, LostOnce
<1>6. d = c
  BY <1>1, <1>2, <1>3, <1>4, <1>5, SameBoards
<1>. QED
  BY <1>6 DEF c, d

\* A call on what came back from the file leaves the same in the file as the call on
\* the board itself, if it makes the same of everything but the losses, and of those
\* nothing that the file would tell apart.
LEMMA SameInFile ==
    ASSUME NEW c \in Board, NEW d \in Board,
           \A f \in DOMAIN c \ Losses : d[f] = c[f],
           \A t \in Tools : JsonRecord(d.durable_tool_records[t])
                                = JsonRecord(c.durable_tool_records[t]),
           ProjectObjects(d.candidate_profile) = ProjectObjects(c.candidate_profile),
           PlanOf(d.interview_plan) = PlanOf(c.interview_plan),
           ReportOf(d.report) = ReportOf(c.report)
    PROVE  Lossy(d) = Lossy(c)
<1>1. DOMAIN c = DOMAIN d
  BY DEF Board
<1> DEFINE x == Lossy(c)
           y == Lossy(d)
<1>2. /\ x \in Board /\ DOMAIN x = DOMAIN c /\ (\A f \in DOMAIN c \ Losses : x[f] = c[f])
      /\ x.durable_tool_records = [t \in Tools |-> JsonRecord(c.durable_tool_records[t])]
      /\ x.report = ReportOf(c.report)
      /\ x.candidate_profile = ProjectObjects(c.candidate_profile)
      /\ x.interview_plan = PlanOf(c.interview_plan)
  BY LossyFields
<1>3. /\ y \in Board /\ (\A f \in DOMAIN d \ Losses : y[f] = d[f])
      /\ y.durable_tool_records = [t \in Tools |-> JsonRecord(d.durable_tool_records[t])]
      /\ y.report = ReportOf(d.report)
      /\ y.candidate_profile = ProjectObjects(d.candidate_profile)
      /\ y.interview_plan = PlanOf(d.interview_plan)
  BY LossyFields
<1>. HIDE DEF x, y
<1>4. x.durable_tool_records = y.durable_tool_records
  BY <1>2, <1>3
<1>5. \A f \in DOMAIN x \ Losses : y[f] = x[f]
  BY <1>1, <1>2, <1>3
<1>6. x = y
  BY <1>2, <1>3, <1>4, <1>5, SameBoards
<1>. QED
  BY <1>6 DEF x, y

-----------------------------------------------------------------------------
(* References between artifacts *)

AskedOf(b) == {b.question_history[i].question_id : i \in DOMAIN b.question_history}

\* Ids are positions, references name what is there, and the current question is the
\* last one asked.
Linked(b) ==
    /\ \A i \in DOMAIN b.answers : b.answers[i].answer_id = i
    /\ \A i \in DOMAIN b.evaluations : b.evaluations[i].answer_id \in DOMAIN b.answers
    /\ \A i \in DOMAIN b.evidence : b.evidence[i].source_answer_id \in DOMAIN b.answers
    /\ \A i \in DOMAIN b.question_history :
          b.question_history[i].parent_question_id \in AskedOf(b) \cup {None}
    /\ b.asked_question_ids = AskedOf(b)
    /\ b.question_history # << >> =>
          b.current_question = b.question_history[Len(b.question_history)]

\* What a stage relies on.
Staged(b) ==
    /\ b.current_stage \in {"FOLLOW_UP", "LISTENING", "EVALUATING", "DECISION"} =>
          b.question_history # << >>
    /\ b.current_stage = "EVALUATING" => b.answers # << >>

BoardSound(b) == b \in Board /\ Linked(b) /\ Staged(b)

\* What the calls read is what was there before the file.
LEMMA LossyReads ==
    ASSUME NEW b \in Board
    PROVE  LET c == Lossy(b)
           IN  /\ c.session_allowed_tools = b.session_allowed_tools
               /\ c.started_at = b.started_at
               /\ c.current_stage = b.current_stage
               /\ c.current_question = b.current_question
               /\ c.question_history = b.question_history
               /\ c.answers = b.answers /\ c.evaluations = b.evaluations
               /\ c.evidence = b.evidence /\ c.follow_up_decisions = b.follow_up_decisions
               /\ c.asked_question_ids = b.asked_question_ids
               /\ c.followed_targets = b.followed_targets
               /\ c.question_follow_up_rounds = b.question_follow_up_rounds
<1> DEFINE c == Lossy(b)
<1>1. \A f \in DOMAIN b \ Losses : c[f] = b[f]
  BY LossyFields
<1>. HIDE DEF c
<1>2. DOMAIN b = {"session_allowed_tools", "started_at", "current_stage",
                  "candidate_profile", "interview_plan", "current_question",
                  "question_history", "answers", "evaluations", "evidence",
                  "follow_up_decisions", "asked_question_ids", "followed_targets",
                  "question_follow_up_rounds", "durable_tool_records", "report"}
  BY BoardNames
<1>3. /\ c.session_allowed_tools = b.session_allowed_tools
      /\ c.started_at = b.started_at
      /\ c.current_stage = b.current_stage
      /\ c.current_question = b.current_question
      /\ c.question_history = b.question_history
      /\ c.answers = b.answers /\ c.evaluations = b.evaluations
      /\ c.evidence = b.evidence /\ c.follow_up_decisions = b.follow_up_decisions
      /\ c.asked_question_ids = b.asked_question_ids
      /\ c.followed_targets = b.followed_targets
      /\ c.question_follow_up_rounds = b.question_follow_up_rounds
  BY <1>1, <1>2 DEF Losses
<1>. QED
  BY <1>3 DEF c

\* What comes back from the file is as sound as what was written.
LEMMA LossySound ==
    ASSUME NEW b, BoardSound(b)
    PROVE  BoardSound(Lossy(b))
<1> DEFINE c == Lossy(b)
<1>0. b \in Board /\ Linked(b) /\ Staged(b)
  BY DEF BoardSound
<1>1. c \in Board
  BY <1>0, LossyFields
<1>2. /\ c.current_stage = b.current_stage
      /\ c.current_question = b.current_question
      /\ c.question_history = b.question_history
      /\ c.answers = b.answers /\ c.evaluations = b.evaluations
      /\ c.evidence = b.evidence
      /\ c.asked_question_ids = b.asked_question_ids
  BY <1>0, LossyReads
<1>. HIDE DEF c
<1>3. Linked(c) /\ Staged(c)
  BY <1>0, <1>2 DEF Linked, Staged, AskedOf
<1>4. BoardSound(c)
  BY <1>1, <1>3 DEF BoardSound
<1>. QED
  BY <1>4 DEF c

\* A board that keeps its artifacts keeps their links.
LEMMA SameLinks ==
    ASSUME NEW b, NEW c, Linked(b),
           c.current_question = b.current_question,
           c.question_history = b.question_history,
           c.answers = b.answers, c.evaluations = b.evaluations, c.evidence = b.evidence,
           c.asked_question_ids = b.asked_question_ids
    PROVE  Linked(c)
  BY DEF Linked, AskedOf

\* The current question is a question, in every stage that needs one.
LEMMA CurrentIsAsked ==
    ASSUME NEW b, BoardSound(b), b.question_history # << >>
    PROVE  /\ b.current_question \in Question
           /\ b.current_question.question_id \in Questions
           /\ b.current_question.question_id \in b.asked_question_ids
           /\ Parent(b.current_question) \in b.asked_question_ids
           /\ Parent(b.current_question) \in Questions
<1>1. b \in Board /\ Linked(b)
  BY DEF BoardSound
<1>2. b.question_history \in Seq(Question) /\ b.asked_question_ids \subseteq Questions
  BY <1>1 DEF Board
<1> DEFINE n == Len(b.question_history)
<1>3. n \in DOMAIN b.question_history /\ b.current_question = b.question_history[n]
  BY <1>1, <1>2 DEF Linked
<1>4. b.current_question \in Question /\ b.current_question.question_id \in b.asked_question_ids
  BY <1>1, <1>2, <1>3 DEF Linked, AskedOf
<1>5. b.current_question.parent_question_id \in b.asked_question_ids \cup {None}
  BY <1>1, <1>3 DEF Linked
<1>. QED
  BY <1>2, <1>4, <1>5 DEF Parent

-----------------------------------------------------------------------------
(* The calls, on the board and on what came back from the file *)

\* Two outcomes of a call that leaves records, profile, plan and report alone.
LEMMA UntouchedLosses ==
    ASSUME NEW b \in Board, NEW p \in Board, NEW q \in Board,
           \A f \in DOMAIN p \ Losses : q[f] = p[f],
           p.durable_tool_records = b.durable_tool_records, p.report = b.report,
           p.candidate_profile = b.candidate_profile, p.interview_plan = b.interview_plan,
           q.durable_tool_records = Lossy(b).durable_tool_records, q.report = Lossy(b).report,
           q.candidate_profile = Lossy(b).candidate_profile,
           q.interview_plan = Lossy(b).interview_plan
    PROVE  Lossy(q) = Lossy(p)
<1>1. /\ Lossy(b).durable_tool_records = [t \in Tools |-> JsonRecord(b.durable_tool_records[t])]
      /\ Lossy(b).report = ReportOf(b.report)
      /\ Lossy(b).candidate_profile = ProjectObjects(b.candidate_profile)
      /\ Lossy(b).interview_plan = PlanOf(b.interview_plan)
  BY LossyFields
<1>2. \A t \in Tools : JsonRecord(q.durable_tool_records[t])
                         = JsonRecord(p.durable_tool_records[t])
  BY <1>1, LostOnce
<1>3. ReportOf(q.report) = ReportOf(p.report)
  BY <1>1, LostOnce
<1>4. /\ ProjectObjects(q.candidate_profile) = ProjectObjects(p.candidate_profile)
      /\ PlanOf(q.interview_plan) = PlanOf(p.interview_plan)
  <2>1. b.candidate_profile \in Optional(Profile)
    BY DEF Board
  <2>. QED
    BY <1>1, <2>1, LostOnce
<1>. QED
  BY <1>2, <1>3, <1>4, SameInFile

\* The profile: whatever the resume lists, both boards list it.
LEMMA ProfiledCall ==
    ASSUME NEW b, BoardSound(b), NEW projects \in {"none", "dict", "object", "other"}
    PROVE  /\ BoardSound(Profiled(b, projects))
           /\ Lossy(Profiled(Lossy(b), projects)) = Lossy(Profiled(b, projects))
<1> DEFINE c == Lossy(b)
           p == Profiled(b, projects)
           q == Profiled(c, projects)
           r == NewProfile(projects, 90)
<1>1. /\ b \in Board /\ Linked(b) /\ c \in Board /\ DOMAIN c = DOMAIN b
      /\ \A f \in DOMAIN b \ Losses : c[f] = b[f]
      /\ c.durable_tool_records = [u \in Tools |-> JsonRecord(b.durable_tool_records[u])]
      /\ b.candidate_profile \in Optional(Profile)
      /\ c.candidate_profile = ProjectObjects(b.candidate_profile)
      /\ c.interview_plan = PlanOf(b.interview_plan)
      /\ c.report = ReportOf(b.report)
  BY LossyFields DEF BoardSound, Board
<1>2. r \in Profile
  BY DEF NewProfile, Profile
<1>3. /\ p = [b EXCEPT !.candidate_profile = r, !.current_stage = "INTERVIEW_PLANNING"]
      /\ q = [c EXCEPT !.candidate_profile = r, !.current_stage = "INTERVIEW_PLANNING"]
  BY DEF Profiled
<1>. HIDE DEF c, p, q, r
<1>4. p \in Board /\ q \in Board /\ DOMAIN p = DOMAIN b
  <2>1. r \in BoardType["candidate_profile"] /\ "INTERVIEW_PLANNING" \in BoardType["current_stage"]
    BY <1>2 DEF BoardType, Optional, Stages
  <2>2. /\ DOMAIN p = DOMAIN b /\ p = [f \in DOMAIN b |-> p[f]]
        /\ DOMAIN q = DOMAIN c /\ q = [f \in DOMAIN c |-> q[f]]
    BY <1>3
  <2>3. /\ \A f \in DOMAIN b : p[f] = b[f] \/ p[f] \in BoardType[f]
        /\ \A f \in DOMAIN c : q[f] = c[f] \/ q[f] \in BoardType[f]
    BY <1>3, <2>1
  <2>. QED
    BY <1>1, <2>2, <2>3, BoardByField
<1>5. /\ p.current_question = b.current_question
      /\ p.question_history = b.question_history
      /\ p.answers = b.answers /\ p.evaluations = b.evaluations /\ p.evidence = b.evidence
      /\ p.asked_question_ids = b.asked_question_ids
      /\ p.current_stage = "INTERVIEW_PLANNING"
      /\ p.durable_tool_records = b.durable_tool_records /\ p.report = b.report
      /\ p.candidate_profile = r /\ p.interview_plan = b.interview_plan
  BY <1>1, <1>3, BoardNames
<1>6. BoardSound(p)
  BY <1>1, <1>4, <1>5, SameLinks DEF BoardSound, Staged
<1>7. /\ \A f \in DOMAIN p \ Losses : q[f] = p[f]
      /\ q.durable_tool_records = c.durable_tool_records /\ q.report = c.report
      /\ q.candidate_profile = r /\ q.interview_plan = c.interview_plan
  BY <1>1, <1>3, <1>4, BoardNames DEF Losses
<1>8. \A u \in Tools : JsonRecord(q.durable_tool_records[u])
                         = JsonRecord(p.durable_tool_records[u])
  BY <1>1, <1>5, <1>7, LostOnce
<1>9. /\ ReportOf(q.report) = ReportOf(p.report)
      /\ ProjectObjects(q.candidate_profile) = ProjectObjects(p.candidate_profile)
      /\ PlanOf(q.interview_plan) = PlanOf(p.interview_plan)
  BY <1>1, <1>5, <1>7, LostOnce
<1>10. Lossy(q) = Lossy(p)
  BY <1>4, <1>7, <1>8, <1>9, SameInFile
<1>. QED
  BY <1>6, <1>10 DEF p, q, c

\* The plan: both boards have it, until the next load with its own confidence.
LEMMA PlannedCall ==
    ASSUME NEW b, BoardSound(b), NEW confidence \in 0..100
    PROVE  /\ BoardSound(Planned(b, confidence))
           /\ Lossy(Planned(Lossy(b), confidence)) = Lossy(Planned(b, confidence))
<1> DEFINE c == Lossy(b)
           p == Planned(b, confidence)
           q == Planned(c, confidence)
           r == NewPlan(confidence)
<1>1. /\ b \in Board /\ Linked(b) /\ c \in Board /\ DOMAIN c = DOMAIN b
      /\ \A f \in DOMAIN b \ Losses : c[f] = b[f]
      /\ c.durable_tool_records = [u \in Tools |-> JsonRecord(b.durable_tool_records[u])]
      /\ b.candidate_profile \in Optional(Profile)
      /\ c.candidate_profile = ProjectObjects(b.candidate_profile)
      /\ c.interview_plan = PlanOf(b.interview_plan)
      /\ c.report = ReportOf(b.report)
  BY LossyFields DEF BoardSound, Board
<1>2. r \in [confidence : 0..100]
  BY DEF NewPlan
<1>3. /\ p = [b EXCEPT !.interview_plan = r, !.current_stage = "QUESTION_PREPARING"]
      /\ q = [c EXCEPT !.interview_plan = r, !.current_stage = "QUESTION_PREPARING"]
  BY DEF Planned
<1>. HIDE DEF c, p, q, r
<1>4. p \in Board /\ q \in Board /\ DOMAIN p = DOMAIN b
  <2>1. r \in BoardType["interview_plan"] /\ "QUESTION_PREPARING" \in BoardType["current_stage"]
    BY <1>2 DEF BoardType, Optional, Stages
  <2>2. /\ DOMAIN p = DOMAIN b /\ p = [f \in DOMAIN b |-> p[f]]
        /\ DOMAIN q = DOMAIN c /\ q = [f \in DOMAIN c |-> q[f]]
    BY <1>3
  <2>3. /\ \A f \in DOMAIN b : p[f] = b[f] \/ p[f] \in BoardType[f]
        /\ \A f \in DOMAIN c : q[f] = c[f] \/ q[f] \in BoardType[f]
    BY <1>3, <2>1
  <2>. QED
    BY <1>1, <2>2, <2>3, BoardByField
<1>5. /\ p.current_question = b.current_question
      /\ p.question_history = b.question_history
      /\ p.answers = b.answers /\ p.evaluations = b.evaluations /\ p.evidence = b.evidence
      /\ p.asked_question_ids = b.asked_question_ids
      /\ p.current_stage = "QUESTION_PREPARING"
      /\ p.durable_tool_records = b.durable_tool_records /\ p.report = b.report
      /\ p.interview_plan = r /\ p.candidate_profile = b.candidate_profile
  BY <1>1, <1>3, BoardNames
<1>6. BoardSound(p)
  BY <1>1, <1>4, <1>5, SameLinks DEF BoardSound, Staged
<1>7. /\ \A f \in DOMAIN p \ Losses : q[f] = p[f]
      /\ q.durable_tool_records = c.durable_tool_records /\ q.report = c.report
      /\ q.interview_plan = r /\ q.candidate_profile = c.candidate_profile
  BY <1>1, <1>3, <1>4, BoardNames DEF Losses
<1>8. \A u \in Tools : JsonRecord(q.durable_tool_records[u])
                         = JsonRecord(p.durable_tool_records[u])
  BY <1>1, <1>5, <1>7, LostOnce
<1>9. /\ ReportOf(q.report) = ReportOf(p.report)
      /\ ProjectObjects(q.candidate_profile) = ProjectObjects(p.candidate_profile)
      /\ PlanOf(q.interview_plan) = PlanOf(p.interview_plan)
  BY <1>1, <1>5, <1>7, LostOnce
<1>10. Lossy(q) = Lossy(p)
  BY <1>4, <1>7, <1>8, <1>9, SameInFile
<1>. QED
  BY <1>6, <1>10 DEF p, q, c

\* A tool's durable record: the file keeps of the value what it kept of it before.
LEMMA RecordedCall ==
    ASSUME NEW b, BoardSound(b), NEW t \in Tools, NEW v \in {"json", "object"}
    PROVE  /\ BoardSound(Recorded(b, t, v))
           /\ Lossy(Recorded(Lossy(b), t, v)) = Lossy(Recorded(b, t, v))
<1> DEFINE c == Lossy(b)
           p == Recorded(b, t, v)
           q == Recorded(c, t, v)
<1>1. /\ b \in Board /\ Linked(b) /\ Staged(b) /\ c \in Board /\ DOMAIN c = DOMAIN b
      /\ \A f \in DOMAIN b \ Losses : c[f] = b[f]
      /\ c.durable_tool_records = [u \in Tools |-> JsonRecord(b.durable_tool_records[u])]
      /\ b.candidate_profile \in Optional(Profile)
      /\ c.candidate_profile = ProjectObjects(b.candidate_profile)
      /\ c.interview_plan = PlanOf(b.interview_plan)
      /\ c.report = ReportOf(b.report)
  BY LossyFields DEF BoardSound, Board
<1>2. Record(v) \in [status : {"success"}, value : {"json", "object"}]
  BY DEF Record
<1>3. p \in Board /\ q \in Board /\ DOMAIN p = DOMAIN b
  <2> DEFINE R == Optional([status : {"success"}, value : {"json", "object"}])
             pr == [b.durable_tool_records EXCEPT ![t] = Record(v)]
             qr == [c.durable_tool_records EXCEPT ![t] = Record(v)]
  <2>1. Record(v) \in R
    BY <1>2 DEF Optional
  <2>2. b.durable_tool_records \in [Tools -> R] /\ c.durable_tool_records \in [Tools -> R]
    BY <1>1 DEF Board
  <2>. HIDE DEF R, c
  <2>3. pr \in [Tools -> R] /\ qr \in [Tools -> R]
    BY <2>1, <2>2
  <2>4. /\ p = [b EXCEPT !.durable_tool_records = pr]
        /\ q = [c EXCEPT !.durable_tool_records = qr]
    BY DEF Recorded
  <2>. HIDE DEF p, q, pr, qr
  <2>. QED
    <3>1. pr \in BoardType["durable_tool_records"] /\ qr \in BoardType["durable_tool_records"]
      BY <2>3 DEF BoardType, R
    <3>2. /\ DOMAIN p = DOMAIN b /\ p = [f \in DOMAIN b |-> p[f]]
          /\ DOMAIN q = DOMAIN c /\ q = [f \in DOMAIN c |-> q[f]]
      BY <2>4
    <3>3. /\ \A f \in DOMAIN b : p[f] = b[f] \/ p[f] \in BoardType[f]
          /\ \A f \in DOMAIN c : q[f] = c[f] \/ q[f] \in BoardType[f]
      BY <2>4, <3>1
    <3>. QED
      BY <1>1, <3>2, <3>3, BoardByField
<1>4. /\ p.current_question = b.current_question
      /\ p.question_history = b.question_history
      /\ p.answers = b.answers /\ p.evaluations = b.evaluations /\ p.evidence = b.evidence
      /\ p.asked_question_ids = b.asked_question_ids
      /\ p.current_stage = b.current_stage /\ p.report = b.report
      /\ p.candidate_profile = b.candidate_profile /\ p.interview_plan = b.interview_plan
      /\ p.durable_tool_records = [b.durable_tool_records EXCEPT ![t] = Record(v)]
  BY <1>1, BoardNames DEF Recorded
<1>5. BoardSound(p)
  BY <1>1, <1>3, <1>4, SameLinks DEF BoardSound, Staged
<1>6. /\ \A f \in DOMAIN p \ Losses : q[f] = p[f]
      /\ q.durable_tool_records = [c.durable_tool_records EXCEPT ![t] = Record(v)]
      /\ q.report = c.report
      /\ q.candidate_profile = c.candidate_profile /\ q.interview_plan = c.interview_plan
  <2>. HIDE DEF c
  <2>. QED
    BY <1>1, <1>3, BoardNames DEF Recorded, Losses
<1>7. DOMAIN b.durable_tool_records = Tools
  BY <1>1 DEF Board
<1>. HIDE DEF c, p, q
<1>8. \A u \in Tools : JsonRecord(q.durable_tool_records[u])
                         = JsonRecord(p.durable_tool_records[u])
  <2>. SUFFICES ASSUME NEW u \in Tools
                PROVE  JsonRecord(q.durable_tool_records[u]) = JsonRecord(p.durable_tool_records[u])
    OBVIOUS
  <2>1. CASE u = t
    BY <1>1, <1>4, <1>6, <1>7, <2>1
  <2>2. CASE u # t
    BY <1>1, <1>4, <1>6, <1>7, <2>2, LostOnce
  <2>. QED
    BY <2>1, <2>2
<1>9. /\ ReportOf(q.report) = ReportOf(p.report)
      /\ ProjectObjects(q.candidate_profile) = ProjectObjects(p.candidate_profile)
      /\ PlanOf(q.interview_plan) = PlanOf(p.interview_plan)
  BY <1>1, <1>4, <1>6, LostOnce
<1>10. Lossy(q) = Lossy(p)
  BY <1>3, <1>6, <1>8, <1>9, SameInFile
<1>. QED
  BY <1>3, <1>5, <1>10 DEF p, q, c

\* The report: its own role match score is lost, its overall score is not.
LEMMA ReportedCall ==
    ASSUME NEW b, BoardSound(b), NEW overall \in Scores, NEW match \in Scores
    PROVE  /\ BoardSound(Reported(b, overall, match))
           /\ Lossy(Reported(Lossy(b), overall, match)) = Lossy(Reported(b, overall, match))
<1> DEFINE c == Lossy(b)
           p == Reported(b, overall, match)
           q == Reported(c, overall, match)
           r == NewReport(overall, match)
<1>1. /\ b \in Board /\ Linked(b) /\ c \in Board /\ DOMAIN c = DOMAIN b
      /\ \A f \in DOMAIN b \ Losses : c[f] = b[f]
      /\ c.durable_tool_records = [u \in Tools |-> JsonRecord(b.durable_tool_records[u])]
      /\ b.candidate_profile \in Optional(Profile)
      /\ c.candidate_profile = ProjectObjects(b.candidate_profile)
      /\ c.interview_plan = PlanOf(b.interview_plan)
  BY LossyFields DEF BoardSound, Board
<1>2. r \in [overall_score : Scores, role_match_score : Scores]
  BY DEF NewReport
<1>3. p \in Board /\ q \in Board /\ DOMAIN p = DOMAIN b
  <2>1. /\ p = [b EXCEPT !.report = r, !.current_stage = "FINISHED"]
        /\ q = [c EXCEPT !.report = r, !.current_stage = "FINISHED"]
    BY DEF Reported
  <2>. HIDE DEF c, p, q, r
  <2>2. r \in BoardType["report"] /\ "FINISHED" \in BoardType["current_stage"]
    BY <1>2 DEF BoardType, Optional, Stages
  <2>3. /\ DOMAIN p = DOMAIN b /\ p = [f \in DOMAIN b |-> p[f]]
        /\ DOMAIN q = DOMAIN c /\ q = [f \in DOMAIN c |-> q[f]]
    BY <2>1
  <2>4. /\ \A f \in DOMAIN b : p[f] = b[f] \/ p[f] \in BoardType[f]
        /\ \A f \in DOMAIN c : q[f] = c[f] \/ q[f] \in BoardType[f]
    BY <2>1, <2>2
  <2>. QED
    BY <1>1, <2>3, <2>4, BoardByField
<1>4. /\ p.current_question = b.current_question
      /\ p.question_history = b.question_history
      /\ p.answers = b.answers /\ p.evaluations = b.evaluations /\ p.evidence = b.evidence
      /\ p.asked_question_ids = b.asked_question_ids
      /\ p.current_stage = "FINISHED" /\ p.report = r
      /\ p.durable_tool_records = b.durable_tool_records
      /\ p.candidate_profile = b.candidate_profile /\ p.interview_plan = b.interview_plan
  BY <1>1, BoardNames DEF Reported
<1>5. BoardSound(p)
  BY <1>1, <1>3, <1>4, SameLinks DEF BoardSound, Staged
<1>6. /\ \A f \in DOMAIN p \ Losses : q[f] = p[f]
      /\ q.durable_tool_records = c.durable_tool_records /\ q.report = r
      /\ q.candidate_profile = c.candidate_profile /\ q.interview_plan = c.interview_plan
  <2>. HIDE DEF c
  <2>. QED
    BY <1>1, <1>3, BoardNames DEF Reported, Losses
<1>. HIDE DEF c, p, q, r
<1>7. \A u \in Tools : JsonRecord(q.durable_tool_records[u])
                         = JsonRecord(p.durable_tool_records[u])
  BY <1>1, <1>4, <1>6, LostOnce
<1>8. /\ ProjectObjects(q.candidate_profile) = ProjectObjects(p.candidate_profile)
       /\ PlanOf(q.interview_plan) = PlanOf(p.interview_plan)
  BY <1>1, <1>4, <1>6, LostOnce
<1>9. Lossy(q) = Lossy(p)
  BY <1>3, <1>4, <1>6, <1>7, <1>8, SameInFile
<1>. QED
  BY <1>3, <1>5, <1>9 DEF p, q, c

\* What a question asked is.
LEMMA NewQuestionType ==
    ASSUME NEW id \in Questions, NEW text \in {None, "text"}, NEW evidence \in Lists,
           NEW points \in Lists, NEW parent \in Optional(Questions)
    PROVE  LET q == NewQuestion(id, text, evidence, points, parent)
           IN  /\ q \in Question /\ q.question_id = id /\ q.parent_question_id = parent
  BY DEF NewQuestion, Question

\* A question: the current one, the history and the ids asked move together.
LEMMA AskedCall ==
    ASSUME NEW b, BoardSound(b), NEW q \in Question,
           q.parent_question_id \in b.asked_question_ids \cup {None}
    PROVE  BoardSound(Asked(b, q)) /\ Lossy(Asked(Lossy(b), q)) = Lossy(Asked(b, q))
<1> DEFINE c == Lossy(b)
           p == Asked(b, q)
           d == Asked(c, q)
           h == Append(b.question_history, q)
           ids == b.asked_question_ids \cup {q.question_id}
           counts == [i \in Questions |-> b.question_follow_up_rounds[i]
                                            + (IF i = q.parent_question_id THEN 1 ELSE 0)]
<1>1. /\ b \in Board /\ Linked(b) /\ Staged(b) /\ c \in Board /\ DOMAIN c = DOMAIN b
      /\ \A f \in DOMAIN b \ Losses : c[f] = b[f]
  BY LossyFields DEF BoardSound
<1>2. /\ c.question_history = b.question_history
      /\ c.asked_question_ids = b.asked_question_ids
      /\ c.question_follow_up_rounds = b.question_follow_up_rounds
  BY <1>1, LossyReads
<1>3. /\ p = [b EXCEPT !.current_question = q, !.question_history = h,
                       !.asked_question_ids = ids, !.question_follow_up_rounds = counts,
                       !.current_stage = "LISTENING"]
      /\ d = [c EXCEPT !.current_question = q, !.question_history = h,
                       !.asked_question_ids = ids, !.question_follow_up_rounds = counts,
                       !.current_stage = "LISTENING"]
  <2>. HIDE DEF c
  <2>. QED
    BY <1>2, Zenon DEF Asked
<1>4. /\ b.question_history \in Seq(Question) /\ b.asked_question_ids \subseteq Questions
      /\ b.question_follow_up_rounds \in [Questions -> Nat] /\ q.question_id \in Questions
  BY <1>1 DEF Board, Question
<1>5. h \in Seq(Question) /\ ids \subseteq Questions /\ counts \in [Questions -> Nat]
  <2>1. counts \in [Questions -> Nat]
    BY <1>4
  <2>. QED
    BY <1>4, <2>1
<1>6. /\ \A i \in DOMAIN h : h[i] = IF i \in DOMAIN b.question_history
                                   THEN b.question_history[i] ELSE q
      /\ DOMAIN b.question_history \subseteq DOMAIN h
      /\ Len(h) \in DOMAIN h /\ h[Len(h)] = q
  BY <1>4
<1>. HIDE DEF c, p, d, h, ids, counts
<1>7. p \in Board /\ d \in Board /\ DOMAIN p = DOMAIN b
  <2>1. /\ q \in BoardType["current_question"] /\ h \in BoardType["question_history"]
        /\ ids \in BoardType["asked_question_ids"]
        /\ counts \in BoardType["question_follow_up_rounds"]
        /\ "LISTENING" \in BoardType["current_stage"]
    BY <1>5 DEF BoardType, Optional, Stages
  <2>2. /\ DOMAIN p = DOMAIN b /\ p = [f \in DOMAIN b |-> p[f]]
        /\ DOMAIN d = DOMAIN c /\ d = [f \in DOMAIN c |-> d[f]]
    BY <1>3
  <2>3. /\ \A f \in DOMAIN b : p[f] = b[f] \/ p[f] \in BoardType[f]
        /\ \A f \in DOMAIN c : d[f] = c[f] \/ d[f] \in BoardType[f]
    BY <1>3, <2>1
  <2>. QED
    BY <1>1, <2>2, <2>3, BoardByField
<1>8. /\ p.current_question = q /\ p.question_history = h
      /\ p.answers = b.answers /\ p.evaluations = b.evaluations /\ p.evidence = b.evidence
      /\ p.asked_question_ids = ids /\ p.current_stage = "LISTENING"
      /\ p.durable_tool_records = b.durable_tool_records /\ p.report = b.report
      /\ p.candidate_profile = b.candidate_profile /\ p.interview_plan = b.interview_plan
  BY <1>1, <1>3, BoardNames
<1>9. AskedOf(p) = ids
  <2>1. AskedOf(p) = {h[i].question_id : i \in DOMAIN h}
    BY <1>8 DEF AskedOf
  <2>2. b.asked_question_ids
          = {b.question_history[i].question_id : i \in DOMAIN b.question_history}
    BY <1>1 DEF Linked, AskedOf
  <2>3. ASSUME NEW x \in AskedOf(p) PROVE x \in ids
    BY <1>6, <2>1, <2>2 DEF ids
  <2>4. ASSUME NEW x \in ids PROVE x \in AskedOf(p)
    BY <1>6, <2>1, <2>2 DEF ids
  <2>. QED
    BY <2>3, <2>4
<1>10. Linked(p)
  <2>1. \A i \in DOMAIN h : h[i].parent_question_id \in ids \cup {None}
    <3>1. \A i \in DOMAIN b.question_history :
             b.question_history[i].parent_question_id \in b.asked_question_ids \cup {None}
      BY <1>1 DEF Linked
    <3>. QED
      BY <1>6, <3>1 DEF ids
  <2>. QED
    BY <1>1, <1>6, <1>8, <1>9, <2>1 DEF Linked
<1>11. BoardSound(p)
  <2>1. h # << >>
    BY <1>6
  <2>. QED
    BY <1>7, <1>8, <1>10, <2>1 DEF BoardSound, Staged
<1>12. /\ \A f \in DOMAIN p \ Losses : d[f] = p[f]
       /\ d.durable_tool_records = c.durable_tool_records /\ d.report = c.report
       /\ d.candidate_profile = c.candidate_profile /\ d.interview_plan = c.interview_plan
  BY <1>1, <1>3, <1>7, BoardNames DEF Losses
<1>13. Lossy(d) = Lossy(p)
  BY <1>1, <1>7, <1>8, <1>12, UntouchedLosses DEF c
<1>. QED
  BY <1>11, <1>13 DEF p, d, c

\* An answer: its id is its place among the answers.
LEMMA AnsweredCall ==
    ASSUME NEW b, BoardSound(b), b.current_stage = "LISTENING"
    PROVE  BoardSound(Answered(b)) /\ Lossy(Answered(Lossy(b))) = Lossy(Answered(b))
<1> DEFINE c == Lossy(b)
           p == Answered(b)
           d == Answered(c)
           a == [NewAnswer(b.current_question.question_id) EXCEPT !.answer_id = Len(b.answers) + 1]
           all == Append(b.answers, a)
<1>1. /\ b \in Board /\ Linked(b) /\ Staged(b) /\ c \in Board /\ DOMAIN c = DOMAIN b
      /\ \A f \in DOMAIN b \ Losses : c[f] = b[f]
  BY LossyFields DEF BoardSound
<1>2. c.current_question = b.current_question /\ c.answers = b.answers
  BY <1>1, LossyReads
<1>3. /\ p = [b EXCEPT !.answers = all, !.current_stage = "EVALUATING"]
      /\ d = [c EXCEPT !.answers = all, !.current_stage = "EVALUATING"]
  <2>. HIDE DEF c
  <2>. QED
    BY <1>2, Zenon DEF Answered
<1>4. b.question_history # << >> /\ b.answers \in Seq(Answer)
  BY <1>1 DEF Staged, Board, Answer
<1>5. a \in Answer /\ a.answer_id = Len(b.answers) + 1
  <2>1. b.current_question.question_id \in Questions /\ Len(b.answers) + 1 \in Nat
    BY <1>4, CurrentIsAsked
  <2>. QED
    BY <2>1 DEF NewAnswer, Answer
<1>. HIDE DEF a
<1>6. /\ all \in Seq(Answer) /\ all # << >> /\ DOMAIN b.answers \subseteq DOMAIN all
      /\ \A i \in DOMAIN all : IF i \in DOMAIN b.answers THEN all[i] = b.answers[i]
                               ELSE all[i] = a /\ i = Len(b.answers) + 1
  BY <1>4, <1>5
<1>. HIDE DEF c, p, d, all
<1>7. p \in Board /\ d \in Board /\ DOMAIN p = DOMAIN b
  <2>1. all \in BoardType["answers"] /\ "EVALUATING" \in BoardType["current_stage"]
    BY <1>6 DEF BoardType, Stages
  <2>2. /\ DOMAIN p = DOMAIN b /\ p = [f \in DOMAIN b |-> p[f]]
        /\ DOMAIN d = DOMAIN c /\ d = [f \in DOMAIN c |-> d[f]]
    BY <1>3
  <2>3. /\ \A f \in DOMAIN b : p[f] = b[f] \/ p[f] \in BoardType[f]
        /\ \A f \in DOMAIN c : d[f] = c[f] \/ d[f] \in BoardType[f]
    BY <1>3, <2>1
  <2>. QED
    BY <1>1, <2>2, <2>3, BoardByField
<1>8. /\ p.current_question = b.current_question /\ p.question_history = b.question_history
      /\ p.answers = all /\ p.evaluations = b.evaluations /\ p.evidence = b.evidence
      /\ p.asked_question_ids = b.asked_question_ids /\ p.current_stage = "EVALUATING"
      /\ p.durable_tool_records = b.durable_tool_records /\ p.report = b.report
      /\ p.candidate_profile = b.candidate_profile /\ p.interview_plan = b.interview_plan
  BY <1>1, <1>3, BoardNames
<1>9. Linked(p)
  <2>1. \A i \in DOMAIN all : all[i].answer_id = i
    <3>1. \A i \in DOMAIN b.answers : b.answers[i].answer_id = i
      BY <1>1 DEF Linked
    <3>. QED
      BY <1>5, <1>6, <3>1
  <2>2. /\ \A i \in DOMAIN b.evaluations : b.evaluations[i].answer_id \in DOMAIN all
        /\ \A i \in DOMAIN b.evidence : b.evidence[i].source_answer_id \in DOMAIN all
    BY <1>1, <1>6 DEF Linked
  <2>. QED
    BY <1>1, <1>8, <2>1, <2>2 DEF Linked, AskedOf
<1>10. BoardSound(p)
  BY <1>4, <1>6, <1>7, <1>8, <1>9 DEF BoardSound, Staged
<1>11. /\ \A f \in DOMAIN p \ Losses : d[f] = p[f]
       /\ d.durable_tool_records = c.durable_tool_records /\ d.report = c.report
       /\ d.candidate_profile = c.candidate_profile /\ d.interview_plan = c.interview_plan
  BY <1>1, <1>3, <1>7, BoardNames DEF Losses
<1>12. Lossy(d) = Lossy(p)
  BY <1>1, <1>7, <1>8, <1>11, UntouchedLosses DEF c
<1>. QED
  BY <1>10, <1>12 DEF p, d, c

\* An evaluation and its evidence name the last answer.
LEMMA EvaluatedCall ==
    ASSUME NEW b, BoardSound(b), b.current_stage = "EVALUATING", NEW score \in Scores
    PROVE  /\ BoardSound(Evaluated(b, score))
           /\ Lossy(Evaluated(Lossy(b), score)) = Lossy(Evaluated(b, score))
<1> DEFINE c == Lossy(b)
           p == Evaluated(b, score)
           d == Evaluated(c, score)
           k == b.answers[Len(b.answers)].answer_id
           e == NewEvaluation(b.current_question.question_id, k, score)
           all == Append(b.evaluations, e)
           ev == b.evidence \o e.evidence
<1>1. /\ b \in Board /\ Linked(b) /\ Staged(b) /\ c \in Board /\ DOMAIN c = DOMAIN b
      /\ \A f \in DOMAIN b \ Losses : c[f] = b[f]
  BY LossyFields DEF BoardSound
<1>2. /\ c.current_question = b.current_question /\ c.answers = b.answers
      /\ c.evaluations = b.evaluations /\ c.evidence = b.evidence
  BY <1>1, LossyReads
<1>3. /\ p = [b EXCEPT !.evaluations = all, !.evidence = ev, !.current_stage = "DECISION"]
      /\ d = [c EXCEPT !.evaluations = all, !.evidence = ev, !.current_stage = "DECISION"]
  <2>. HIDE DEF c
  <2>. QED
    BY <1>2, Zenon DEF Evaluated
<1>4. /\ b.question_history # << >> /\ b.answers # << >> /\ b.answers \in Seq(Answer)
      /\ b.evaluations \in Seq(Evaluation) /\ b.evidence \in Seq(Evidence)
  BY <1>1 DEF Staged, Board, Answer, Evaluation
<1>5. k \in DOMAIN b.answers /\ k \in Nat
  <2>1. Len(b.answers) \in DOMAIN b.answers
    BY <1>4
  <2>2. k = Len(b.answers)
    BY <1>1, <2>1 DEF Linked
  <2>. QED
    BY <1>4, <2>1, <2>2
<1>. HIDE DEF k
<1>6. /\ e \in Evaluation /\ e.answer_id = k
      /\ e.evidence = <<[source_answer_id |-> k]>> /\ e.evidence \in Seq(Evidence)
  <2>1. b.current_question.question_id \in Questions
    BY <1>4, CurrentIsAsked
  <2>2. <<[source_answer_id |-> k]>> \in Seq(Evidence)
    BY <1>5 DEF Evidence
  <2>. QED
    BY <1>5, <2>1, <2>2 DEF NewEvaluation, Evaluation
<1>7. /\ all \in Seq(Evaluation)
      /\ \A i \in DOMAIN all : \/ i \in DOMAIN b.evaluations /\ all[i] = b.evaluations[i]
                               \/ all[i] = e
  <2>. HIDE DEF e
  <2>. QED
    BY <1>4, <1>6
<1>8. /\ ev \in Seq(Evidence)
      /\ \A i \in DOMAIN ev : \/ i \in DOMAIN b.evidence /\ ev[i] = b.evidence[i]
                              \/ ev[i].source_answer_id = k
  <2>. HIDE DEF e
  <2>1. ev \in Seq(Evidence)
    BY <1>4, <1>6
  <2>2. Len(e.evidence) = 1 /\ e.evidence[1].source_answer_id = k
    BY <1>6
  <2>3. ASSUME NEW i \in DOMAIN ev
        PROVE  (i \in DOMAIN b.evidence /\ ev[i] = b.evidence[i]) \/ ev[i].source_answer_id = k
    BY <1>4, <1>6, <2>2
  <2>. QED
    BY <2>1, <2>3
<1>. HIDE DEF c, p, d, all, ev, e
<1>9. p \in Board /\ d \in Board /\ DOMAIN p = DOMAIN b
  <2>1. /\ all \in BoardType["evaluations"] /\ ev \in BoardType["evidence"]
        /\ "DECISION" \in BoardType["current_stage"]
    BY <1>7, <1>8 DEF BoardType, Stages
  <2>2. /\ DOMAIN p = DOMAIN b /\ p = [f \in DOMAIN b |-> p[f]]
        /\ DOMAIN d = DOMAIN c /\ d = [f \in DOMAIN c |-> d[f]]
    BY <1>3
  <2>3. /\ \A f \in DOMAIN b : p[f] = b[f] \/ p[f] \in BoardType[f]
        /\ \A f \in DOMAIN c : d[f] = c[f] \/ d[f] \in BoardType[f]
    BY <1>3, <2>1
  <2>. QED
    BY <1>1, <2>2, <2>3, BoardByField
<1>10. /\ p.current_question = b.current_question /\ p.question_history = b.question_history
       /\ p.answers = b.answers /\ p.evaluations = all /\ p.evidence = ev
       /\ p.asked_question_ids = b.asked_question_ids /\ p.current_stage = "DECISION"
       /\ p.durable_tool_records = b.durable_tool_records /\ p.report = b.report
       /\ p.candidate_profile = b.candidate_profile /\ p.interview_plan = b.interview_plan
  BY <1>1, <1>3, BoardNames
<1>11. Linked(p)
  <2>1. /\ \A i \in DOMAIN b.evaluations : b.evaluations[i].answer_id \in DOMAIN b.answers
        /\ \A i \in DOMAIN b.evidence : b.evidence[i].source_answer_id \in DOMAIN b.answers
    BY <1>1 DEF Linked
  <2>2. /\ \A i \in DOMAIN all : all[i].answer_id \in DOMAIN b.answers
        /\ \A i \in DOMAIN ev : ev[i].source_answer_id \in DOMAIN b.answers
    BY <1>5, <1>6, <1>7, <1>8, <2>1
  <2>. QED
    BY <1>1, <1>10, <2>2 DEF Linked, AskedOf
<1>12. BoardSound(p)
  BY <1>4, <1>9, <1>10, <1>11 DEF BoardSound, Staged
<1>13. /\ \A f \in DOMAIN p \ Losses : d[f] = p[f]
       /\ d.durable_tool_records = c.durable_tool_records /\ d.report = c.report
       /\ d.candidate_profile = c.candidate_profile /\ d.interview_plan = c.interview_plan
  BY <1>1, <1>3, <1>9, BoardNames DEF Losses
<1>14. Lossy(d) = Lossy(p)
  BY <1>1, <1>9, <1>10, <1>13, UntouchedLosses DEF c
<1>. QED
  BY <1>12, <1>14 DEF p, d, c

\* A decision: the deadline, the targets followed and the rounds it reads are the same
\* after the file.
LEMMA DecidedCall ==
    ASSUME NEW b, BoardSound(b), b.current_stage = "DECISION", now \in Nat,
           NEW target \in {None} \cup Targets
    PROVE  BoardSound(Decided(b, target)) /\ Lossy(Decided(Lossy(b), target)) = Lossy(Decided(b, target))
<1> DEFINE c == Lossy(b)
           p == Decided(b, target)
           d == Decided(c, target)
           n == NewDecision(b.current_question.question_id, target)
           follows == /\ target # None /\ InTime(b)
                      /\ n.normalized_target \notin b.followed_targets
                      /\ b.question_follow_up_rounds[Parent(b.current_question)] < MaxFollowUpRounds
           all == Append(b.follow_up_decisions, n)
           targets == b.followed_targets \cup (IF follows THEN {target} ELSE {})
           next == IF follows THEN "FOLLOW_UP"
                   ELSE IF InTime(b) /\ b.asked_question_ids # Questions
                        THEN "NEXT_QUESTION" ELSE "REPORTING"
<1>1. /\ b \in Board /\ Linked(b) /\ Staged(b) /\ c \in Board /\ DOMAIN c = DOMAIN b
      /\ \A f \in DOMAIN b \ Losses : c[f] = b[f]
  BY LossyFields DEF BoardSound
<1>2. /\ c.current_question = b.current_question /\ c.started_at = b.started_at
      /\ c.follow_up_decisions = b.follow_up_decisions
      /\ c.followed_targets = b.followed_targets
      /\ c.asked_question_ids = b.asked_question_ids
      /\ c.question_follow_up_rounds = b.question_follow_up_rounds
  BY <1>1, LossyReads
<1>3. p = [b EXCEPT !.follow_up_decisions = all, !.followed_targets = targets,
                    !.current_stage = next]
  BY DEF Decided
<1>4. d = [c EXCEPT !.follow_up_decisions = all, !.followed_targets = targets,
                    !.current_stage = next]
  <2>1. InTime(c) = InTime(b)
    BY <1>2 DEF InTime
  <2>. HIDE DEF c
  <2>. QED
    BY <1>2, <2>1, Zenon DEF Decided
<1>5. /\ b.question_history # << >> /\ b.follow_up_decisions \in Seq(Decision)
      /\ b.followed_targets \subseteq Targets
  BY <1>1 DEF Staged, Board, Decision
<1>6. n \in Decision
  <2>1. b.current_question.question_id \in Questions /\ target \in Optional(Targets)
    BY <1>5, CurrentIsAsked DEF Optional
  <2>. QED
    BY <2>1 DEF NewDecision, Decision
<1>. HIDE DEF n
<1>7. all \in Seq(Decision)
  BY <1>5, <1>6
<1>8. targets \subseteq Targets
  BY <1>5
<1>9. next \in {"FOLLOW_UP", "NEXT_QUESTION", "REPORTING"}
  OBVIOUS
<1>. HIDE DEF c, p, d, all, targets, follows, next
<1>10. p \in Board /\ d \in Board /\ DOMAIN p = DOMAIN b
  <2>1. /\ all \in BoardType["follow_up_decisions"]
        /\ targets \in BoardType["followed_targets"] /\ next \in BoardType["current_stage"]
    BY <1>7, <1>8, <1>9 DEF BoardType, Stages
  <2>2. /\ DOMAIN p = DOMAIN b /\ p = [f \in DOMAIN b |-> p[f]]
        /\ DOMAIN d = DOMAIN c /\ d = [f \in DOMAIN c |-> d[f]]
    BY <1>3, <1>4
  <2>3. /\ \A f \in DOMAIN b : p[f] = b[f] \/ p[f] \in BoardType[f]
        /\ \A f \in DOMAIN c : d[f] = c[f] \/ d[f] \in BoardType[f]
    BY <1>3, <1>4, <2>1
  <2>. QED
    BY <1>1, <2>2, <2>3, BoardByField
<1>11. /\ p.current_question = b.current_question /\ p.question_history = b.question_history
       /\ p.answers = b.answers /\ p.evaluations = b.evaluations /\ p.evidence = b.evidence
       /\ p.asked_question_ids = b.asked_question_ids /\ p.current_stage = next
       /\ p.durable_tool_records = b.durable_tool_records /\ p.report = b.report
       /\ p.candidate_profile = b.candidate_profile /\ p.interview_plan = b.interview_plan
  BY <1>1, <1>3, BoardNames
<1>12. BoardSound(p)
  BY <1>1, <1>5, <1>9, <1>10, <1>11, SameLinks DEF BoardSound, Staged
<1>13. /\ \A f \in DOMAIN p \ Losses : d[f] = p[f]
       /\ d.durable_tool_records = c.durable_tool_records /\ d.report = c.report
       /\ d.candidate_profile = c.candidate_profile /\ d.interview_plan = c.interview_plan
  BY <1>1, <1>3, <1>4, <1>10, BoardNames DEF Losses
<1>14. Lossy(d) = Lossy(p)
  BY <1>1, <1>10, <1>11, <1>13, UntouchedLosses DEF c
<1>. QED
  BY <1>12, <1>14 DEF p, d, c

-----------------------------------------------------------------------------
(* Every order of calls *)

\* What is in the file is what is in memory, but for the losses, and both are sound;
\* the file lists the projects that cannot be loaded only if the board does.
FileInv ==
    /\ now \in 0..MaxTime
    /\ BoardSound(live)
    /\ Loaded = Lossy(live)
    /\ Readable(file) = Readable(live)

\* What a call is handed by the JSON store.
LEMMA LoadedSound ==
    ASSUME FileInv
    PROVE  /\ BoardSound(Loaded) /\ live \in Board
           /\ Loaded.current_stage = live.current_stage
           /\ Loaded.asked_question_ids = live.asked_question_ids
           /\ Loaded.current_question = live.current_question
           /\ Loaded.question_history = live.question_history
<1>1. live \in Board /\ Loaded = Lossy(live) /\ BoardSound(live)
  BY DEF FileInv, BoardSound
<1>. QED
  BY <1>1, LossySound, LossyReads

\* Writing a board makes it no more and no less readable, and so does reading it.
LEMMA WrittenReadable ==
    ASSUME NEW b \in Board
    PROVE  Readable(Encode(b)) = Readable(b) /\ Readable(Lossy(b)) = Readable(b)
<1> DEFINE x == b.candidate_profile
<1>1. x \in Optional(Profile)
  BY DEF Board
<1>2. Encode(b).candidate_profile = JsonProfile(x)
  BY DEF Encode, Board
<1>3. Lossy(b).candidate_profile = ProjectObjects(x)
  BY LossyFields
<1>. HIDE DEF x
<1>4. CASE x = None
  BY <1>2, <1>3, <1>4 DEF Readable, JsonProfile, ProjectObjects, x
<1>5. CASE x # None
  <2>1. x \in Profile
    BY <1>1, <1>5 DEF Optional
  <2> DEFINE j == JsonProfile(x)
             o == ProjectObjects(x)
  <2>2. /\ j \in Profile
        /\ j.projects = "other" <=> x.projects = "other"
    BY <1>5, <2>1 DEF JsonProfile, Profile
  <2>3. /\ o \in Profile
        /\ o.projects = "other" <=> x.projects = "other"
    BY <1>5, <2>1 DEF ProjectObjects, Profile
  <2>4. j # None /\ o # None
    BY <2>2, <2>3, CheckpointAssumption
  <2>. QED
    BY <1>2, <1>3, <1>5, <2>2, <2>3, <2>4 DEF Readable, x
<1>. QED
  BY <1>4, <1>5

\* A fresh board, in memory and in the file.
LEMMA InitFile == Init => FileInv
<1>. SUFFICES ASSUME Init PROVE FileInv
  OBVIOUS
<1>1. PICK allowed \in {None} \cup SUBSET Tools :
         live = NewBoard(allowed) /\ file = Encode(NewBoard(allowed))
  BY DEF Init
<1>2. live \in Board
  <2>1. /\ [q \in Questions |-> 0] \in [Questions -> Nat]
        /\ [t \in Tools |-> None] \in
              [Tools -> Optional([status : {"success"}, value : {"json", "object"}])]
    BY DEF Optional
  <2>2. /\ << >> \in Seq(Question) /\ << >> \in Seq(Answer) /\ << >> \in Seq(Evaluation)
        /\ << >> \in Seq(Evidence) /\ << >> \in Seq(Decision)
    OBVIOUS
  <2>3. now \in Nat
    BY DEF Init
  <2>4. /\ live.session_allowed_tools \in Optional(SUBSET Tools)
        /\ live.current_question \in Optional(Question)
        /\ live.report \in Optional([overall_score : Scores, role_match_score : Scores])
        /\ live.candidate_profile \in Optional(Profile)
        /\ live.interview_plan \in Optional([confidence : 0..100])
        /\ live.asked_question_ids \subseteq Questions /\ live.followed_targets \subseteq Targets
    BY <1>1 DEF NewBoard, Optional
  <2>. QED
    BY <1>1, <2>1, <2>2, <2>3, <2>4
       DEF NewBoard, Board, Stages, Answer, Evaluation, Decision
<1>3. Linked(live) /\ Staged(live)
  <2>1. /\ live.question_history = << >> /\ live.answers = << >> /\ live.evaluations = << >>
        /\ live.evidence = << >> /\ live.asked_question_ids = {}
        /\ live.current_stage = "PROFILE_ANALYSIS"
    BY <1>1 DEF NewBoard
  <2>. QED
    BY <2>1 DEF Linked, Staged, AskedOf
<1>4. Loaded = Lossy(live)
  BY <1>1, <1>2, RoundTrip DEF Loaded
<1>5. now \in 0..MaxTime
  BY CheckpointAssumption DEF Init
<1>6. Readable(file) = Readable(live)
  BY <1>1, <1>2, WrittenReadable
<1>. QED
  BY <1>2, <1>3, <1>4, <1>5, <1>6 DEF FileInv, BoardSound

\* A save of what a call made of the two boards.
LEMMA SaveKeeps ==
    ASSUME FileInv, NEW l, NEW d, Save(l, d), BoardSound(l), BoardSound(d), Lossy(d) = Lossy(l)
    PROVE  FileInv'
<1>1. live' = l /\ file' = Encode(d) /\ now' = now
  BY DEF Save
<1>2. Loaded' = Lossy(d)
  <2>1. Decode(Encode(d)) = Lossy(d)
    BY RoundTrip DEF BoardSound
  <2>2. Loaded' = Decode(file')
    BY DEF Loaded
  <2>. QED
    BY <1>1, <2>1, <2>2
<1>3. Readable(file') = Readable(l)
  <2>1. Readable(Encode(d)) = Readable(d) /\ Readable(Lossy(d)) = Readable(d)
    BY WrittenReadable DEF BoardSound
  <2>2. Readable(Lossy(l)) = Readable(l)
    BY WrittenReadable DEF BoardSound
  <2>. QED
    BY <1>1, <2>1, <2>2
<1>. QED
  BY <1>1, <1>2, <1>3 DEF FileInv

\* Every call, and the clock.
LEMMA NextFile == FileInv /\ [Next]_vars => FileInv'
<1>. SUFFICES ASSUME FileInv, [Next]_vars PROVE FileInv'
  OBVIOUS
<1>0. /\ BoardSound(live) /\ live \in Board /\ Loaded = Lossy(live) /\ BoardSound(Loaded)
      /\ now \in Nat
      /\ Loaded.current_stage = live.current_stage
      /\ Loaded.asked_question_ids = live.asked_question_ids
      /\ Loaded.current_question = live.current_question
      /\ Loaded.question_history = live.question_history
  BY LoadedSound, CheckpointAssumption DEF FileInv
<1>1. CASE RecordTool
  <2>1. PICK t \in Visible(Loaded), v \in {"json", "object"} :
           Save(Recorded(live, t, v), Recorded(Loaded, t, v))
    BY <1>1 DEF RecordTool
  <2>2. t \in Tools
    <3>1. Loaded.session_allowed_tools \in Optional(SUBSET Tools)
      BY <1>0 DEF BoardSound, Board
    <3>. QED
      BY <3>1 DEF Visible, Optional
  <2>. QED
    BY <1>0, <2>1, <2>2, RecordedCall, SaveKeeps
<1>2. CASE PublishProfile
  <2>1. PICK projects \in {"none", "dict", "other"} :
           Save(Profiled(live, projects), Profiled(Loaded, projects))
    BY <1>2 DEF PublishProfile
  <2>2. projects \in {"none", "dict", "object", "other"}
    OBVIOUS
  <2>. QED
    BY <1>0, <2>1, <2>2, ProfiledCall, SaveKeeps
<1>3. CASE PublishPlan
  <2>1. PICK confidence \in {88, 75} :
           Save(Planned(live, confidence), Planned(Loaded, confidence))
    BY <1>3 DEF PublishPlan
  <2>2. confidence \in 0..100
    OBVIOUS
  <2>. QED
    BY <1>0, <2>1, <2>2, PlannedCall, SaveKeeps
<1>4. CASE PublishQuestion
  <2>1. PICK id \in Questions \ Loaded.asked_question_ids, text \in {None, "text"},
             evidence \in Lists, points \in Lists :
           LET parent == IF At({"FOLLOW_UP"}) THEN Parent(Loaded.current_question) ELSE None
               q == NewQuestion(id, text, evidence, points, parent)
           IN  Save(Asked(live, q), Asked(Loaded, q))
    BY <1>4 DEF PublishQuestion
  <2> DEFINE parent == IF At({"FOLLOW_UP"}) THEN Parent(Loaded.current_question) ELSE None
             q == NewQuestion(id, text, evidence, points, parent)
  <2>2. Save(Asked(live, q), Asked(Loaded, q))
    BY <2>1
  <2>3. parent \in live.asked_question_ids \cup {None} /\ parent \in Optional(Questions)
    <3>1. CASE At({"FOLLOW_UP"})
      <4>1. live.question_history # << >>
        BY <1>0, <3>1 DEF At, BoardSound, Staged
      <4>2. /\ Parent(live.current_question) \in live.asked_question_ids
            /\ Parent(live.current_question) \in Questions
        BY <1>0, <4>1, CurrentIsAsked
      <4>. QED
        BY <1>0, <3>1, <4>2 DEF Optional
    <3>2. CASE ~At({"FOLLOW_UP"})
      BY <3>2 DEF Optional
    <3>. QED
      BY <3>1, <3>2
  <2>. HIDE DEF parent
  <2>4. q \in Question /\ q.parent_question_id = parent
    BY <2>3, NewQuestionType
  <2>. HIDE DEF q
  <2>5. /\ BoardSound(Asked(live, q))
        /\ Lossy(Asked(Loaded, q)) = Lossy(Asked(live, q))
    BY <1>0, <2>3, <2>4, AskedCall
  <2>6. BoardSound(Asked(Loaded, q))
    BY <1>0, <2>3, <2>4, AskedCall
  <2>. QED
    BY <2>2, <2>5, <2>6, SaveKeeps
<1>5. CASE ReceiveAnswer
  <2>1. Save(Answered(live), Answered(Loaded)) /\ live.current_stage = "LISTENING"
    BY <1>0, <1>5 DEF ReceiveAnswer, At
  <2>. QED
    BY <1>0, <2>1, AnsweredCall, SaveKeeps
<1>6. CASE PublishEvaluation
  <2>1. PICK s \in Scores : Save(Evaluated(live, s), Evaluated(Loaded, s))
    BY <1>6 DEF PublishEvaluation
  <2>2. live.current_stage = "EVALUATING"
    BY <1>0, <1>6 DEF PublishEvaluation, At
  <2>. QED
    BY <1>0, <2>1, <2>2, EvaluatedCall, SaveKeeps
<1>7. CASE PublishDecision
  <2>1. PICK t \in {None} \cup Targets : Save(Decided(live, t), Decided(Loaded, t))
    BY <1>7 DEF PublishDecision
  <2>2. live.current_stage = "DECISION"
    BY <1>0, <1>7 DEF PublishDecision, At
  <2>. QED
    BY <1>0, <2>1, <2>2, DecidedCall, SaveKeeps
<1>8. CASE PublishReport
  <2>1. PICK overall \in Scores, match \in Scores :
           Save(Reported(live, overall, match), Reported(Loaded, overall, match))
    BY <1>8 DEF PublishReport
  <2>. QED
    BY <1>0, <2>1, ReportedCall, SaveKeeps
<1>9. CASE Tick
  BY <1>9, CheckpointAssumption DEF Tick, FileInv, Loaded
<1>10. CASE UNCHANGED vars
  BY <1>10 DEF vars, FileInv, Loaded
<1>. QED
  BY <1>1, <1>2, <1>3, <1>4, <1>5, <1>6, <1>7, <1>8, <1>9, <1>10 DEF Next

\* At every moment of every session, the file and the memory agree but for the losses.
LEMMA FileSound == Spec => []FileInv
  BY InitFile, NextFile, PTL DEF Spec

\* What a call is handed is a board, from either store.
THEOREM CheckpointTypes == Spec => []CheckpointTypeOK
<1>1. FileInv => CheckpointTypeOK
  BY LoadedSound DEF FileInv, BoardSound, CheckpointTypeOK
<1>. QED
  BY <1>1, FileSound, PTL

\* After the same calls, in any order and over any number of restarts, the JSON store and
\* the in-memory store hold the same session, but for the four losses Lossy names; only
\* projects that are no objects of a ProjectExperience's fields make a file unreadable.
THEOREM StoresAgree == Spec => []SameSession
<1>1. FileInv => SameSession
  BY DEF FileInv, SameSession, Readable
<1>. QED
  BY <1>1, FileSound, PTL

\* Ids that are positions are as many as there are answers.
LEMMA AnswerIds ==
    ASSUME NEW b, BoardSound(b)
    PROVE  LET given == {a.answer_id : a \in Range(b.answers)}
           IN  given = DOMAIN b.answers /\ Cardinality(given) = Len(b.answers)
<1> DEFINE given == {a.answer_id : a \in Range(b.answers)}
<1>1. /\ b.answers \in Seq(Answer)
      /\ \A i \in DOMAIN b.answers : b.answers[i].answer_id = i
  BY DEF BoardSound, Board, Answer, Linked
<1>2. DOMAIN b.answers = 1..Len(b.answers) /\ Len(b.answers) \in Nat
  BY <1>1
<1>3. given = DOMAIN b.answers
  <2>1. ASSUME NEW x \in given PROVE x \in DOMAIN b.answers
    BY <1>1 DEF Range
  <2>2. ASSUME NEW x \in DOMAIN b.answers PROVE x \in given
    <3>1. b.answers[x] \in Range(b.answers) /\ b.answers[x].answer_id = x
      BY <1>1 DEF Range
    <3>. QED
      BY <3>1
  <2>. HIDE DEF given
  <2>. QED
    BY <2>1, <2>2
<1>4. Cardinality(1..Len(b.answers)) = Len(b.answers)
  BY <1>2, FS_Interval
<1>. HIDE DEF given
<1>5. given = DOMAIN b.answers /\ Cardinality(given) = Len(b.answers)
  BY <1>2, <1>3, <1>4
<1>. QED
  BY <1>5 DEF given

\* The references between artifacts resolve on every board that comes back from the
\* file, however long the interview.
THEOREM LinksHold == Spec => []LinksResolve
<1>1. FileInv => LinksResolve
  <2>. SUFFICES ASSUME FileInv PROVE LinksResolve
    OBVIOUS
  <2> DEFINE b == Loaded
             asked == {q.question_id : q \in Range(b.question_history)}
             given == {a.answer_id : a \in Range(b.answers)}
  <2>1. BoardSound(b)
    BY LoadedSound
  <2>. HIDE DEF b
  <2>2. b \in Board /\ Linked(b)
    BY <2>1 DEF BoardSound
  <2>3. given = DOMAIN b.answers /\ Cardinality(given) = Len(b.answers)
    BY <2>1, AnswerIds
  <2>4. asked = AskedOf(b)
    BY DEF AskedOf, Range
  <2>. HIDE DEF asked, given
  <2>5. /\ \A e \in Range(b.evaluations) : e.answer_id \in given
        /\ \A e \in Range(b.evidence) : e.source_answer_id \in given
    BY <2>2, <2>3 DEF Linked, Range
  <2>6. \A q \in Range(b.question_history) : q.parent_question_id \in asked \cup {None}
    BY <2>2, <2>4 DEF Linked, Range
  <2>7. /\ asked = b.asked_question_ids
        /\ b.question_history # << >> =>
              b.current_question = b.question_history[Len(b.question_history)]
    BY <2>2, <2>4 DEF Linked
  <2>. QED
    BY <2>3, <2>5, <2>6, <2>7 DEF LinksResolve, b, asked, given
<1>. QED
  BY <1>1, FileSound, PTL
=============================================================================
