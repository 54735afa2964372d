---------------------------- MODULE CheckpointFile ----------------------------
(***************************************************************************)
(* What a session keeps when it lives in a file.  JsonFileCheckpointStore  *)
(* (checkpoint/stores.py) writes the blackboard as JSON after every call   *)
(* and rebuilds it before the next one: sets become arrays, objects become *)
(* JSON objects, and every artifact goes through its constructor again     *)
(* (artifacts/models.py), which fills in defaults and draws new ids.       *)
(* InMemoryCheckpointStore hands the board itself from call to call.       *)
(*                                                                         *)
(* The same calls are made here on both: live is the board of the          *)
(* in-memory store, file the document of the JSON store.  The fields are   *)
(* those that do not come back as they were, or that a constructor sets    *)
(* and the code then copies back.  Session inputs are taken as JSON values *)
(* already.                                                                *)
(***************************************************************************)
EXTENDS Integers, Sequences, FiniteSets, SequencesExt, Functions

CONSTANTS
    None,            \* Python's None, null in the file
    Tools,           \* tools the profile agent and its skill allow
    Questions,       \* question ids
    Points,          \* expected points and target evidence, one stands for a list of them
    Targets,         \* normalized follow-up targets
    Scores,
    MaxFollowUpRounds,   \* max_follow_up_round_per_question
    Timeout,         \* session_timeout_seconds
    MaxTime          \* bound: the clock stops here

\* A candidate: what the resume lists as projects is nothing, plain objects with the
\* fields of a ProjectExperience, or something else (a text, other fields); "object"
\* stands for the dataclass.  Confidences are in percent.
Profile == [projects : {"none", "dict", "object", "other"}, confidence : 0..100]

ASSUME CheckpointAssumption ==
    /\ IsFiniteSet(Tools) /\ IsFiniteSet(Questions) /\ IsFiniteSet(Targets)
    /\ None \notin Points \cup Targets \cup Scores \cup Questions
    /\ None # "title" /\ None # "text"
    /\ \A S \in SUBSET Tools : S # None /\ SetToSeq(S) # None     \* null is no array
    /\ None \notin Profile
    /\ MaxFollowUpRounds \in Nat /\ Timeout \in Nat /\ MaxTime \in Nat

VARIABLES live, file, now

vars == <<live, file, now>>

-----------------------------------------------------------------------------
(* Artifacts and their constructors *)

\* A list is empty or holds one point.
Lists == {<< >>} \cup {<<p>> : p \in Points}

\* text or title; expected_points or list(target_evidence)
NewQuestion(id, text, evidence, points, parent) ==
    [question_id |-> id,
     text |-> IF text = None THEN "title" ELSE text,
     target_evidence |-> evidence,
     expected_points |-> IF points = << >> THEN evidence ELSE points,
     parent_question_id |-> parent]

\* Every id is drawn at random; Drawn is one no artifact of the board has.
Drawn == 0
NewAnswer(question) == [question_id |-> question, answer_id |-> Drawn]

NewEvaluation(question, answer, score) ==
    [question_id |-> question, answer_id |-> answer, score |-> score,
     overall_score |-> score, evidence |-> <<[source_answer_id |-> answer]>>]

NewDecision(question, target) ==
    [question_id |-> question, target |-> target, normalized_target |-> target]

NewProfile(projects, confidence) == [projects |-> projects, confidence |-> confidence]

\* 1.0, the default of the constructors.
DefaultConfidence == 100
NewPlan(confidence) == [confidence |-> confidence]

NewReport(overall, match) ==
    [overall_score |-> overall,
     role_match_score |-> IF match = None THEN overall ELSE match]

\* A durable record of a tool; what its handler returned is a Python object or
\* something that is already JSON.
Record(value) == [status |-> "success", value |-> value]

Stages == {"PROFILE_ANALYSIS", "INTERVIEW_PLANNING", "QUESTION_PREPARING",
           "NEXT_QUESTION", "FOLLOW_UP", "LISTENING", "EVALUATING", "DECISION",
           "REPORTING", "FINISHED"}

NewBoard(allowed) ==
    [session_allowed_tools |-> allowed,
     started_at |-> now,
     current_stage |-> "PROFILE_ANALYSIS",
     candidate_profile |-> None,
     interview_plan |-> None,
     current_question |-> None,
     question_history |-> << >>,
     answers |-> << >>,
     evaluations |-> << >>,
     evidence |-> << >>,
     follow_up_decisions |-> << >>,
     asked_question_ids |-> {},
     followed_targets |-> {},
     question_follow_up_rounds |-> [q \in Questions |-> 0],
     durable_tool_records |-> [t \in Tools |-> None],
     report |-> None]

Optional(S) == S \cup {None}

Question ==
    {q \in [question_id : Questions, text : {"title", "text"}, target_evidence : Lists,
            expected_points : Lists, parent_question_id : Optional(Questions)] :
        q.expected_points = << >> => q.target_evidence = << >>}

Evidence == [source_answer_id : Nat]

Board ==
    [session_allowed_tools : Optional(SUBSET Tools),
     started_at : Nat,
     current_stage : Stages,
     candidate_profile : Optional(Profile),
     interview_plan : Optional([confidence : 0..100]),
     current_question : Optional(Question),
     question_history : Seq(Question),
     answers : Seq([question_id : Questions, answer_id : Nat]),
     evaluations : Seq({e \in [question_id : Questions, answer_id : Nat, score : Scores,
                               overall_score : Scores, evidence : Seq(Evidence)] :
                           e.overall_score = e.score}),
     evidence : Seq(Evidence),
     follow_up_decisions : Seq([question_id : Questions, target : Optional(Targets),
                                normalized_target : Optional(Targets)]),
     asked_question_ids : SUBSET Questions,
     followed_targets : SUBSET Targets,
     question_follow_up_rounds : [Questions -> Nat],
     durable_tool_records :
         [Tools -> Optional([status : {"success"}, value : {"json", "object"}])],
     report : Optional([overall_score : Scores, role_match_score : Scores])]

-----------------------------------------------------------------------------
(* _to_json and _blackboard_from_json *)

JsonRecord(r) == IF r = None THEN None ELSE [r EXCEPT !.value = "json"]

\* asdict turns a ProjectExperience into an object of its fields.
JsonProfile(p) ==
    IF p = None THEN None
    ELSE [p EXCEPT !.projects = IF @ = "object" THEN "dict" ELSE @]

\* asdict copies every object; _to_json turns sets into arrays in the order the
\* set is iterated in, and None into null.
Encode(b) ==
    [b EXCEPT !.session_allowed_tools = IF @ = None THEN None ELSE SetToSeq(@),
              !.asked_question_ids = SetToSeq(@),
              !.followed_targets = SetToSeq(@),
              !.candidate_profile = JsonProfile(@),
              !.durable_tool_records = [t \in Tools |-> JsonRecord(@[t])]]

\* ProjectExperience(**item) for every project; where that raises, so does the load.
Readable(d) ==
    d.candidate_profile # None => d.candidate_profile.projects # "other"

ProfileOf(d) ==
    IF d = None THEN None
    ELSE NewProfile(IF d.projects = "dict" THEN "object" ELSE d.projects, d.confidence)

\* The plan artifact's confidence is not passed on.
PlanOf(d) == IF d = None THEN None ELSE NewPlan(DefaultConfidence)

QuestionOf(d) ==
    IF d = None THEN None
    ELSE NewQuestion(d.question_id, d.text, d.target_evidence, d.expected_points,
                     d.parent_question_id)

\* Mutant: the id the constructor drew is kept.
AnswerRedrawn(d) == NewAnswer(d.question_id)

AnswerOf(d) == [NewAnswer(d.question_id) EXCEPT !.answer_id = d.answer_id]

EvaluationOf(d) ==
    [NewEvaluation(d.question_id, d.answer_id, d.score) EXCEPT !.evidence = d.evidence]

DecisionOf(d) ==
    [NewDecision(d.question_id, d.target) EXCEPT !.normalized_target = d.normalized_target]

\* role_match_score is not read back.
ReportOf(d) == IF d = None THEN None ELSE NewReport(d.overall_score, None)

Decode(d) ==
    [d EXCEPT !.session_allowed_tools = IF @ = None THEN None ELSE Range(@),
              !.candidate_profile = ProfileOf(@),
              !.interview_plan = PlanOf(@),
              !.current_question = QuestionOf(@),
              !.question_history = [i \in DOMAIN @ |-> QuestionOf(@[i])],
              !.answers = [i \in DOMAIN @ |-> AnswerOf(@[i])],
              !.evaluations = [i \in DOMAIN @ |-> EvaluationOf(@[i])],
              !.follow_up_decisions = [i \in DOMAIN @ |-> DecisionOf(@[i])],
              !.asked_question_ids = Range(@),
              !.followed_targets = Range(@),
              !.report = ReportOf(@)]

\* load_context, of a file that is readable
Loaded == Decode(file)

Init ==
    /\ now = 0
    /\ \E allowed \in {None} \cup SUBSET Tools :
          live = NewBoard(allowed) /\ file = Encode(NewBoard(allowed))

-----------------------------------------------------------------------------
(* What the calls do to a board they were handed *)

InTime(b) == now - b.started_at <= Timeout

\* ToolPolicy.authorize
Visible(b) == IF b.session_allowed_tools = None THEN Tools ELSE b.session_allowed_tools

Recorded(b, tool, value) ==
    [b EXCEPT !.durable_tool_records[tool] = Record(value)]

\* publish(CandidateProfileArtifact)
Profiled(b, projects) ==
    [b EXCEPT !.candidate_profile = NewProfile(projects, 90),
              !.current_stage = "INTERVIEW_PLANNING"]

\* publish(InterviewPlanArtifact)
Planned(b, confidence) ==
    [b EXCEPT !.interview_plan = NewPlan(confidence),
              !.current_stage = "QUESTION_PREPARING"]

\* publish(QuestionArtifact)
\* Mutant: asked_question_ids is forgotten.
AskedUnrecorded(b, q) ==
    [b EXCEPT !.current_question = q,
              !.question_history = Append(@, q),
              !.current_stage = "LISTENING"]

Asked(b, q) ==
    [b EXCEPT !.current_question = q,
              !.question_history = Append(@, q),
              !.asked_question_ids = @ \cup {q.question_id},
              !.question_follow_up_rounds =
                  [p \in Questions |-> @[p] + (IF p = q.parent_question_id THEN 1 ELSE 0)],
              !.current_stage = "LISTENING"]

\* receive_answer: the id it draws is the next one.
Answered(b) ==
    [b EXCEPT !.answers = Append(@, [NewAnswer(b.current_question.question_id)
                                       EXCEPT !.answer_id = Len(b.answers) + 1]),
              !.current_stage = "EVALUATING"]

Evaluated(b, score) ==
    LET answer == b.answers[Len(b.answers)]
        e == NewEvaluation(b.current_question.question_id, answer.answer_id, score)
    IN  [b EXCEPT !.evaluations = Append(@, e),
                  !.evidence = @ \o e.evidence,
                  !.current_stage = "DECISION"]

\* The question a follow-up to q counts for.
Parent(q) == IF q.parent_question_id = None THEN q.question_id ELSE q.parent_question_id

\* allow_follow_up and allow_next_question, but for the budgets
Decided(b, target) ==
    LET d == NewDecision(b.current_question.question_id, target)
        follows == /\ target # None /\ InTime(b)
                   /\ d.normalized_target \notin b.followed_targets
                   /\ b.question_follow_up_rounds[Parent(b.current_question)] < MaxFollowUpRounds
    IN  [b EXCEPT !.follow_up_decisions = Append(@, d),
                  !.followed_targets = @ \cup (IF follows THEN {target} ELSE {}),
                  !.current_stage = IF follows THEN "FOLLOW_UP"
                                    ELSE IF InTime(b) /\ b.asked_question_ids # Questions
                                         THEN "NEXT_QUESTION" ELSE "REPORTING"]

Reported(b, overall, match) ==
    [b EXCEPT !.report = NewReport(overall, match), !.current_stage = "FINISHED"]

-----------------------------------------------------------------------------
(* The calls *)

Save(l, loaded) == live' = l /\ file' = Encode(loaded) /\ UNCHANGED now

\* Every call loads the session first.
At(stages) == Readable(file) /\ Loaded.current_stage \in stages

RecordTool ==
    /\ At({"PROFILE_ANALYSIS"})
    /\ \E t \in Visible(Loaded), v \in {"json", "object"} :
          /\ Loaded.durable_tool_records[t] = None
          /\ Save(Recorded(live, t, v), Recorded(Loaded, t, v))

PublishProfile ==
    /\ At({"PROFILE_ANALYSIS"})
    /\ \E projects \in {"none", "dict", "other"} :
          Save(Profiled(live, projects), Profiled(Loaded, projects))

\* The planner is less confident without a rubric.
PublishPlan ==
    /\ At({"INTERVIEW_PLANNING"})
    /\ \E confidence \in {88, 75} :
          Save(Planned(live, confidence), Planned(Loaded, confidence))

PublishQuestion ==
    /\ At({"QUESTION_PREPARING", "NEXT_QUESTION", "FOLLOW_UP"})
    /\ \E id \in Questions \ Loaded.asked_question_ids,
          text \in {None, "text"}, evidence, points \in Lists :
          LET parent == IF At({"FOLLOW_UP"}) THEN Parent(Loaded.current_question) ELSE None
              q == NewQuestion(id, text, evidence, points, parent)
          IN  Save(Asked(live, q), Asked(Loaded, q))

ReceiveAnswer ==
    At({"LISTENING"}) /\ Save(Answered(live), Answered(Loaded))

PublishEvaluation ==
    /\ At({"EVALUATING"})
    /\ \E s \in Scores : Save(Evaluated(live, s), Evaluated(Loaded, s))

PublishDecision ==
    /\ At({"DECISION"})
    /\ \E t \in {None} \cup Targets : Save(Decided(live, t), Decided(Loaded, t))

PublishReport ==
    /\ At({"REPORTING"})
    /\ \E overall, match \in Scores :
          Save(Reported(live, overall, match), Reported(Loaded, overall, match))

Tick == now < MaxTime /\ now' = now + 1 /\ UNCHANGED <<live, file>>

Next ==
    \/ RecordTool \/ PublishProfile \/ PublishPlan \/ PublishQuestion
    \/ ReceiveAnswer \/ PublishEvaluation \/ PublishDecision \/ PublishReport \/ Tick

Spec == Init /\ [][Next]_vars

-----------------------------------------------------------------------------
(* Properties *)

\* What a call is handed is a board, from either store.
CheckpointTypeOK ==
    live \in Board /\ (Readable(file) => Loaded \in Board) /\ now \in 0..MaxTime

\* Plain objects come back as dataclasses.
ProjectObjects(p) ==
    IF p = None THEN None
    ELSE [p EXCEPT !.projects = IF @ = "dict" THEN "object" ELSE @]

\* What a session in a file loses: the Python objects that tools returned, the plain
\* form of the candidate's projects, the planner's confidence in its plan, and a
\* report's own role match score.
Lossy(b) ==
    [b EXCEPT !.durable_tool_records = [t \in Tools |-> JsonRecord(@[t])],
              !.candidate_profile = ProjectObjects(@),
              !.interview_plan = IF @ = None THEN None ELSE NewPlan(DefaultConfidence),
              !.report = IF @ = None THEN None ELSE NewReport(@.overall_score, None)]

\* After the same calls the JSON store and the in-memory store hold the same
\* session, but for those four losses: no restart widens the tools a session was
\* granted, moves its deadline, gives an artifact another id or forgets a target
\* that was followed, and going through the file again loses nothing more.  The one
\* file that cannot be loaded is that of a candidate whose projects are not objects
\* with the fields of a ProjectExperience.
SameSession ==
    IF Readable(file) THEN Loaded = Lossy(live)
    ELSE live.candidate_profile.projects = "other"

\* The references between artifacts resolve on every loaded board: evaluations and
\* evidence name answers, follow-ups name the question they follow, the ids asked are
\* those of the questions, and the current question is the last of them.
LinksResolve ==
    LET b == Loaded
        asked == {q.question_id : q \in Range(b.question_history)}
        given == {a.answer_id : a \in Range(b.answers)}
    IN  Readable(file) =>
        /\ Cardinality(given) = Len(b.answers)
        /\ \A e \in Range(b.evaluations) : e.answer_id \in given
        /\ \A e \in Range(b.evidence) : e.source_answer_id \in given
        /\ \A q \in Range(b.question_history) :
              q.parent_question_id \in asked \cup {None}
        /\ asked = b.asked_question_ids
        /\ b.question_history # << >> =>
              b.current_question = b.question_history[Len(b.question_history)]
=============================================================================
