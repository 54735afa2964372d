----------------------- MODULE SessionConcurrencyProofs -----------------------
(***************************************************************************)
(* What several callers of one session can and cannot do to it, for any    *)
(* number of callers, questions and budgets.  The proofs go board by       *)
(* board: what publish and transition make of one board, then which boards *)
(* a step may hold.                                                        *)
(***************************************************************************)
EXTENDS SessionConcurrency, FiniteSetTheorems, TLAPS

-----------------------------------------------------------------------------
(* One board *)

\* Stages in which there is a current question.
AskedStages == {"QUESTIONING", "LISTENING", "EVALUATING", "DECISION", "FOLLOW_UP"}

HasQuestion(b) == b.stage \in AskedStages => b.questions # << >>

\* An answer is taken only for a question that has none yet.
Awaited(b) ==
    /\ Len(b.answers) <= Len(b.questions)
    /\ b.stage \in {"QUESTIONING", "LISTENING"} => Len(b.answers) < Len(b.questions)

\* The counter of follow-up rounds has counted every follow-up of the history.
RoundsCover(b) ==
    \A i \in DOMAIN b.questions : b.questions[i][2] <= b.rounds[b.questions[i][1]]

\* A main question is only promised while the budget has one.
BudgetPromised(b) == b.stage \in {"QUESTION_PREPARING", "NEXT_QUESTION"} => b.question_budget > 0

SetupStages == {"INIT", "PROFILE_ANALYSIS", "INTERVIEW_PLANNING"}

SetupEmpty(b) == b.stage \in SetupStages => b.questions = << >>

\* What a single caller leaves a board in.
BoardInv(b) ==
    /\ LogsAligned(b) /\ IdsDistinct(b) /\ BudgetsAccounted(b)
    /\ RoundsCover(b) /\ BudgetPromised(b) /\ SetupEmpty(b)

\* A question that may be published on a board.
Fresh(b, id) ==
    /\ id \notin AskedIds(b)
    /\ id[2] = IF b.stage = "FOLLOW_UP" THEN b.rounds[id[1]] + 1 ELSE 0

-----------------------------------------------------------------------------
(* Types *)

\* The current question of a board that has one is a question id.
LEMMA CurrentType ==
    ASSUME NEW b \in Board, b.questions # << >>
    PROVE  CurrentQuestion(b) \in QuestionId /\ Len(b.questions) \in DOMAIN b.questions
<1>1. b.questions \in Seq(QuestionId)
  BY DEF Board
<1>2. Len(b.questions) \in 1..Len(b.questions)
  BY <1>1
<1>. QED
  BY <1>1, <1>2 DEF CurrentQuestion

\* What publishing a question changes on a board.
LEMMA AddQuestionFields ==
    ASSUME NEW b \in Board, NEW id \in QuestionId, NEW s \in Stages
    PROVE  LET c == [AddQuestion(b, id) EXCEPT !.stage = s]
           IN  /\ c \in Board
               /\ c.stage = s
               /\ c.questions = Append(b.questions, id)
               /\ c.rounds = IF id[2] > 0 THEN [b.rounds EXCEPT ![id[1]] = @ + 1] ELSE b.rounds
               /\ c.question_budget = IF id[2] > 0 \/ b.question_budget = 0
                                      THEN b.question_budget ELSE b.question_budget - 1
               /\ c.follow_up_budget = b.follow_up_budget
               /\ c.answers = b.answers /\ c.evaluations = b.evaluations
               /\ c.decisions = b.decisions /\ c.records = b.records
<1>1. id[1] \in MainQuestions /\ id[2] \in Nat
  BY DEF QuestionId
<1>2. b.rounds \in [MainQuestions -> Nat] /\ b.question_budget \in Nat
  BY DEF Board
<1>3. Append(b.questions, id) \in Seq(QuestionId)
  BY DEF Board
<1> DEFINE r == [b.rounds EXCEPT ![id[1]] = b.rounds[id[1]] + 1]
           q == Append(b.questions, id)
           n == IF b.question_budget > 0 THEN b.question_budget - 1 ELSE 0
<1>4. r \in [MainQuestions -> Nat] /\ q \in Seq(QuestionId) /\ n \in Nat
  BY <1>1, <1>2, <1>3
<1>5. CASE id[2] > 0
  <2>1. AddQuestion(b, id) = [b EXCEPT !.questions = q, !.rounds = r]
    BY <1>5 DEF AddQuestion, Board
  <2>. HIDE DEF q, r
  <2>2. [[b EXCEPT !.questions = q, !.rounds = r] EXCEPT !.stage = s] \in Board
    BY <1>4 DEF Board
  <2>. QED
    BY <1>5, <2>1, <2>2 DEF Board, q, r
<1>6. CASE ~(id[2] > 0)
  <2>1. AddQuestion(b, id) = [b EXCEPT !.questions = q, !.question_budget = n]
    BY <1>6 DEF AddQuestion, Board
  <2>. HIDE DEF q, n
  <2>2. [[b EXCEPT !.questions = q, !.question_budget = n] EXCEPT !.stage = s] \in Board
    BY <1>4 DEF Board
  <2>. QED
    BY <1>2, <1>6, <2>1, <2>2 DEF Board, q, n
<1>. QED
  BY <1>5, <1>6

-----------------------------------------------------------------------------
(* What every call keeps of a board, with either store *)

\* What a call leaves of a board b: another board, nothing of b lost, and an answer
\* awaited only where one is due.
Keeps(b, c) ==
    /\ c \in Board
    /\ HasQuestion(c)
    /\ Awaited(b) => Awaited(c)
    /\ Extends(c, b)

\* A sequence is a prefix of itself and of what it grows into.
LEMMA PrefixAppend ==
    ASSUME NEW S, NEW seq \in Seq(S), NEW x \in S
    PROVE  IsPrefix(seq, seq) /\ IsPrefix(seq, Append(seq, x))
<1>1. Len(seq) \in Nat /\ Len(Append(seq, x)) = Len(seq) + 1
  OBVIOUS
<1>2. SubSeq(seq, 1, Len(seq)) = seq /\ SubSeq(Append(seq, x), 1, Len(seq)) = seq
  OBVIOUS
<1>. QED
  BY <1>1, <1>2 DEF IsPrefix

\* The same logs are extensions of themselves.
LEMMA ExtendsItself ==
    ASSUME NEW b \in Board
    PROVE  /\ IsPrefix(b.questions, b.questions) /\ IsPrefix(b.answers, b.answers)
           /\ IsPrefix(b.evaluations, b.evaluations) /\ IsPrefix(b.decisions, b.decisions)
<1>1. /\ b.questions \in Seq(QuestionId) /\ b.answers \in Seq(QuestionId)
      /\ b.evaluations \in Seq(QuestionId) /\ b.decisions \in Seq(QuestionId)
  BY DEF Board
<1>2. \A seq \in Seq(QuestionId) : IsPrefix(seq, seq)
  BY DEF IsPrefix
<1>. QED
  BY <1>1, <1>2

\* The logs of a board have lengths.
LEMMA LogLengths ==
    ASSUME NEW b \in Board
    PROVE  /\ Len(b.questions) \in Nat /\ Len(b.answers) \in Nat
           /\ Len(b.evaluations) \in Nat /\ Len(b.decisions) \in Nat
  BY DEF Board

\* A call that touches no log and makes no answer due.
LEMMA KeepsLogs ==
    ASSUME NEW b \in Board, NEW c \in Board,
           c.questions = b.questions, c.answers = b.answers,
           c.evaluations = b.evaluations, c.decisions = b.decisions,
           b.records \subseteq c.records,
           c.stage \in AskedStages => b.questions # << >>,
           c.stage \in {"QUESTIONING", "LISTENING"} => b.stage \in {"QUESTIONING", "LISTENING"}
    PROVE  Keeps(b, c)
<1>1. Extends(c, b)
  BY ExtendsItself DEF Extends
<1>2. HasQuestion(c)
  BY DEF HasQuestion
<1>0. Len(b.questions) \in Nat /\ Len(b.answers) \in Nat
  BY LogLengths
<1>3. Awaited(b) => Awaited(c)
  BY <1>0 DEF Awaited
<1>. QED
  BY <1>1, <1>2, <1>3 DEF Keeps

\* A published question awaits an answer, whatever the board looked like before.
LEMMA KeepsOnQuestion ==
    ASSUME NEW b \in Board, NEW id \in QuestionId
    PROVE  Keeps(b, [AddQuestion(b, id) EXCEPT !.stage = "QUESTIONING"])
<1> DEFINE c == [AddQuestion(b, id) EXCEPT !.stage = "QUESTIONING"]
<1>1. /\ c \in Board /\ c.stage = "QUESTIONING" /\ c.questions = Append(b.questions, id)
      /\ c.answers = b.answers /\ c.evaluations = b.evaluations
      /\ c.decisions = b.decisions /\ c.records = b.records
  <2>1. PICK s \in Stages : s = "QUESTIONING"
    BY DEF Stages
  <2> DEFINE d == [AddQuestion(b, id) EXCEPT !.stage = s]
  <2>2. /\ d \in Board /\ d.stage = s /\ d.questions = Append(b.questions, id)
        /\ d.answers = b.answers /\ d.evaluations = b.evaluations
        /\ d.decisions = b.decisions /\ d.records = b.records
    BY AddQuestionFields, ZenonT(60)
  <2>3. c = d
    BY <2>1
  <2>. HIDE DEF c, d
  <2>. QED
    BY <2>1, <2>2, <2>3
<1>. HIDE DEF c
<1>0. Len(b.questions) \in Nat /\ Len(b.answers) \in Nat
  BY LogLengths
<1>2. b.questions \in Seq(QuestionId)
  BY DEF Board
<1>3. IsPrefix(b.questions, c.questions) /\ Len(c.questions) = Len(b.questions) + 1
  BY <1>1, <1>2, PrefixAppend
<1>4. Extends(c, b)
  BY <1>1, <1>3, ExtendsItself DEF Extends
<1>5. HasQuestion(c)
  BY <1>0, <1>1, <1>3, SMTT(30) DEF HasQuestion
<1>6. Awaited(b) => Awaited(c)
  BY <1>0, <1>1, <1>3 DEF Awaited
<1>7. Keeps(b, c)
  BY <1>1, <1>4, <1>5, <1>6 DEF Keeps
<1>. QED
  BY <1>7 DEF c

\* An answer was awaited in the stage LISTENING, and none is afterwards.
LEMMA KeepsOnAnswer ==
    ASSUME NEW b \in Board, b.stage = "LISTENING", b.questions # << >>
    PROVE  Keeps(b, [b EXCEPT !.answers = Append(@, CurrentQuestion(b)), !.stage = "EVALUATING"])
<1> DEFINE c == [b EXCEPT !.answers = Append(@, CurrentQuestion(b)), !.stage = "EVALUATING"]
<1>1. CurrentQuestion(b) \in QuestionId /\ b.answers \in Seq(QuestionId)
  BY CurrentType DEF Board
<1>2. /\ c \in Board /\ c.stage = "EVALUATING" /\ c.questions = b.questions
      /\ c.answers = Append(b.answers, CurrentQuestion(b)) /\ c.evaluations = b.evaluations
      /\ c.decisions = b.decisions /\ c.records = b.records
  <2>1. Append(b.answers, CurrentQuestion(b)) \in Seq(QuestionId)
    BY <1>1
  <2>. QED
    BY <2>1 DEF Board, Stages, AgentStages
<1>. HIDE DEF c
<1>3. IsPrefix(b.answers, c.answers) /\ Len(c.answers) = Len(b.answers) + 1
  BY <1>1, <1>2, PrefixAppend
<1>4. Extends(c, b)
  BY <1>2, <1>3, ExtendsItself DEF Extends
<1>0. Len(b.questions) \in Nat /\ Len(b.answers) \in Nat
  BY LogLengths
<1>5. HasQuestion(c)
  BY <1>2 DEF HasQuestion
<1>6. Awaited(b) => Awaited(c)
  BY <1>0, <1>2, <1>3 DEF Awaited
<1>7. Keeps(b, c)
  BY <1>2, <1>4, <1>5, <1>6 DEF Keeps
<1>. QED
  BY <1>7 DEF c

\* An evaluation appends to its own log only.
LEMMA KeepsOnEvaluation ==
    ASSUME NEW b \in Board, NEW id \in QuestionId, b.questions # << >>
    PROVE  Keeps(b, Evaluated(b, id))
<1> DEFINE c == Evaluated(b, id)
<1>1. b.evaluations \in Seq(QuestionId)
  BY DEF Board
<1>2. /\ c \in Board /\ c.stage = "DECISION" /\ c.questions = b.questions
      /\ c.answers = b.answers /\ c.evaluations = Append(b.evaluations, id)
      /\ c.decisions = b.decisions /\ c.records = b.records
  <2>1. Append(b.evaluations, id) \in Seq(QuestionId)
    BY <1>1
  <2>. QED
    BY <2>1 DEF Board, Stages, AgentStages, Evaluated
<1>. HIDE DEF c
<1>3. IsPrefix(b.evaluations, c.evaluations)
  BY <1>1, <1>2, PrefixAppend
<1>4. Extends(c, b)
  BY <1>2, <1>3, ExtendsItself DEF Extends
<1>0. Len(b.questions) \in Nat /\ Len(b.answers) \in Nat
  BY LogLengths
<1>5. HasQuestion(c) /\ (Awaited(b) => Awaited(c))
  BY <1>0, <1>2 DEF HasQuestion, Awaited
<1>6. Keeps(b, c)
  BY <1>2, <1>4, <1>5 DEF Keeps
<1>. QED
  BY <1>6 DEF c

\* What a decision may make of a board: nothing but the stage and the follow-up
\* budget, and neither unless the guard was satisfied.
LEMMA DecidedFields ==
    ASSUME NEW b \in Board, NEW c \in Decided(b)
    PROVE  /\ c \in Board
           /\ c.questions = b.questions /\ c.answers = b.answers
           /\ c.evaluations = b.evaluations /\ c.decisions = b.decisions
           /\ c.records = b.records /\ c.rounds = b.rounds
           /\ c.question_budget = b.question_budget
           /\ c.stage \in {"REPORTING", "FOLLOW_UP", "NEXT_QUESTION"}
           /\ c.stage = "NEXT_QUESTION" => b.question_budget > 0
           /\ IF c.stage = "FOLLOW_UP"
              THEN b.follow_up_budget > 0 /\ c.follow_up_budget = b.follow_up_budget - 1
              ELSE c.follow_up_budget = b.follow_up_budget
<1>1. b.follow_up_budget \in Nat
  BY DEF Board
<1>2. CASE c = [b EXCEPT !.stage = "REPORTING"]
  BY <1>2 DEF Board, Stages, AgentStages
<1>3. CASE /\ b.follow_up_budget > 0
           /\ c = [b EXCEPT !.stage = "FOLLOW_UP", !.follow_up_budget = @ - 1]
  <2>1. b.follow_up_budget - 1 \in Nat
    BY <1>1, <1>3
  <2>. QED
    BY <1>3, <2>1 DEF Board, Stages, AgentStages, QuestionStages
<1>4. CASE b.question_budget > 0 /\ c = [b EXCEPT !.stage = "NEXT_QUESTION"]
  BY <1>4 DEF Board, Stages, AgentStages, QuestionStages
<1>. QED
  BY <1>2, <1>3, <1>4 DEF Decided

\* A decision appends to its own log only, whatever it decides.
LEMMA KeepsOnDecision ==
    ASSUME NEW b \in Board, NEW id \in QuestionId, b.questions # << >>,
           NEW c \in Decided([b EXCEPT !.decisions = Append(@, id)])
    PROVE  Keeps(b, c)
<1> DEFINE d == [b EXCEPT !.decisions = Append(@, id)]
<1>1. b.decisions \in Seq(QuestionId)
  BY DEF Board
<1>2. /\ d \in Board /\ d.questions = b.questions /\ d.answers = b.answers
      /\ d.evaluations = b.evaluations /\ d.decisions = Append(b.decisions, id)
      /\ d.records = b.records
  <2>1. Append(b.decisions, id) \in Seq(QuestionId)
    BY <1>1
  <2>. QED
    BY <2>1 DEF Board
<1>3. c \in Decided(d)
  OBVIOUS
<1>. HIDE DEF d
<1>4. /\ c \in Board /\ c.questions = b.questions /\ c.answers = b.answers
      /\ c.evaluations = b.evaluations /\ c.decisions = Append(b.decisions, id)
      /\ c.records = b.records /\ c.stage \in {"REPORTING", "FOLLOW_UP", "NEXT_QUESTION"}
  BY <1>2, <1>3, DecidedFields
<1>5. IsPrefix(b.decisions, c.decisions)
  BY <1>1, <1>4, PrefixAppend
<1>6. Extends(c, b)
  BY <1>4, <1>5, ExtendsItself DEF Extends
<1>7. HasQuestion(c) /\ (Awaited(b) => Awaited(c))
  BY <1>4 DEF HasQuestion, Awaited
<1>. QED
  BY <1>4, <1>6, <1>7 DEF Keeps

\* An artifact that fits the stage its step started from.
ArtifactFits(b, previous, artifact) ==
    /\ previous \in AgentStages
    /\ previous \in QuestionStages \cup {"EVALUATING", "DECISION"} => artifact \in QuestionId
    /\ previous \in {"EVALUATING", "DECISION"} => b.questions # << >>

\* Whatever stage the board is in by the time a step publishes, publishing loses
\* nothing and awaits no answer that was given.
LEMMA PublishedKeeps ==
    ASSUME NEW b \in Board, NEW previous, NEW artifact, ArtifactFits(b, previous, artifact),
           NEW c \in Published(b, previous, artifact)
    PROVE  Keeps(b, c)
<1>1. CASE previous = "PROFILE_ANALYSIS"
  <2>1. c = [b EXCEPT !.stage = "INTERVIEW_PLANNING"]
    BY <1>1 DEF Published, QuestionStages
  <2>2. /\ c \in Board /\ c.stage = "INTERVIEW_PLANNING" /\ c.questions = b.questions
        /\ c.answers = b.answers /\ c.evaluations = b.evaluations
        /\ c.decisions = b.decisions /\ c.records = b.records
    BY <2>1 DEF Board, Stages, AgentStages
  <2>. QED
    BY <2>2, KeepsLogs DEF AskedStages
<1>2. CASE previous = "INTERVIEW_PLANNING"
  <2>1. c = [b EXCEPT !.stage = "QUESTION_PREPARING", !.question_budget = PlannedQuestions,
                      !.follow_up_budget = PlannedFollowUps]
    BY <1>2 DEF Published, QuestionStages
  <2>2. /\ c \in Board /\ c.stage = "QUESTION_PREPARING" /\ c.questions = b.questions
        /\ c.answers = b.answers /\ c.evaluations = b.evaluations
        /\ c.decisions = b.decisions /\ c.records = b.records
    BY <2>1, ConcurrencyAssumption DEF Board, Stages, AgentStages, QuestionStages
  <2>. QED
    BY <2>2, KeepsLogs DEF AskedStages
<1>3. CASE previous \in QuestionStages
  <2>1. c = [AddQuestion(b, artifact) EXCEPT !.stage = "QUESTIONING"]
    BY <1>3 DEF Published, QuestionStages
  <2>2. artifact \in QuestionId
    BY <1>3 DEF ArtifactFits
  <2>. QED
    BY <2>1, <2>2, KeepsOnQuestion
<1>4. CASE previous = "EVALUATING"
  <2>1. c = Evaluated(b, artifact)
    BY <1>4 DEF Published, QuestionStages
  <2>2. artifact \in QuestionId /\ b.questions # << >>
    BY <1>4 DEF ArtifactFits
  <2>. QED
    BY <2>1, <2>2, KeepsOnEvaluation
<1>5. CASE previous = "DECISION"
  <2>1. c \in Decided([b EXCEPT !.decisions = Append(@, artifact)])
    BY <1>5 DEF Published, QuestionStages
  <2>2. artifact \in QuestionId /\ b.questions # << >>
    BY <1>5 DEF ArtifactFits
  <2>. QED
    BY <2>1, <2>2, KeepsOnDecision
<1>6. CASE previous = "REPORTING"
  <2>1. c \in {[b EXCEPT !.report = TRUE, !.review = "not_required", !.stage = "FINISHED"],
               [b EXCEPT !.report = TRUE, !.review = "pending", !.stage = "WAITING_HUMAN_REVIEW"]}
    BY <1>6 DEF Published, QuestionStages
  <2>2. /\ c \in Board /\ c.stage \in {"FINISHED", "WAITING_HUMAN_REVIEW"}
        /\ c.questions = b.questions
        /\ c.answers = b.answers /\ c.evaluations = b.evaluations
        /\ c.decisions = b.decisions /\ c.records = b.records
    BY <2>1, ZenonT(60) DEF Board, Stages, EndStages
  <2>. QED
    BY <2>2, KeepsLogs DEF AskedStages
<1>. QED
  BY <1>1, <1>2, <1>3, <1>4, <1>5, <1>6 DEF ArtifactFits, AgentStages

-----------------------------------------------------------------------------
(* All callers, with either store *)

\* What a step that runs relies on; held is the board it reads and writes.
StepSound(s, held) ==
    s.phase # "idle" =>
        /\ HasQuestion(s.board) /\ Awaited(s.board)
        /\ s.previous \in AgentStages
        /\ s.previous \in {"EVALUATING", "DECISION"} =>
              held.questions # << >> /\ s.artifact \in QuestionId
        /\ s.phase = "returned" /\ s.previous \in QuestionStages => s.artifact \in QuestionId

CallersInv ==
    /\ ConcurrencyTypeOK
    /\ HasQuestion(saved) /\ Awaited(saved)
    /\ \A c \in Callers : StepSound(step[c], Held(c))

\* A new session's board and a caller without a step have their types.
LEMMA NewBoardType ==
    /\ NewBoard \in Board /\ HasQuestion(NewBoard) /\ Awaited(NewBoard)
    /\ Idle \in StepType
<1>1. [q \in MainQuestions |-> 0] \in [MainQuestions -> Nat] /\ << >> \in Seq(QuestionId)
  OBVIOUS
<1>2. NewBoard \in Board
  BY <1>1, Zenon DEF NewBoard, Board, Stages
<1>3. HasQuestion(NewBoard)
  BY DEF NewBoard, HasQuestion, AskedStages
<1>4. Awaited(NewBoard)
  BY DEF NewBoard, Awaited
<1>5. Idle \in StepType
  BY <1>2 DEF Idle, StepType, Stages, NoArtifact
<1>. QED
  BY <1>2, <1>3, <1>4, <1>5

\* No caller has a step when the session starts.
LEMMA InitCallers == Init => CallersInv
<1>. SUFFICES ASSUME Init PROVE CallersInv
  OBVIOUS
<1>1. ConcurrencyTypeOK
  BY NewBoardType DEF Init, ConcurrencyTypeOK
<1>2. \A c \in Callers : step[c].phase = "idle"
  BY DEF Init, Idle
<1>. QED
  BY <1>1, <1>2, NewBoardType DEF Init, CallersInv, StepSound

\* The board a running step holds is a board with its question and its debts.
LEMMA HeldType ==
    ASSUME CallersInv, NEW c \in Callers
    PROVE  /\ Held(c) \in Board
           /\ step[c].phase # "idle" => HasQuestion(Held(c)) /\ Awaited(Held(c))
  BY DEF CallersInv, ConcurrencyTypeOK, StepType, Held, StepSound

\* A board with a question has one after every call.
LEMMA KeepsQuestions ==
    ASSUME NEW b \in Board, NEW c, Keeps(b, c), b.questions # << >>
    PROVE  c.questions # << >>
<1>1. /\ b.questions \in Seq(QuestionId) /\ c.questions \in Seq(QuestionId)
      /\ Len(b.questions) <= Len(c.questions)
  BY DEF Keeps, Extends, IsPrefix, Board
<1>. QED
  BY <1>1

\* Whoever saves, the steps of the others stay sound: with copies they hold their
\* own boards, with the live board the saved one has lost nothing.
LEMMA SaveKeeps ==
    ASSUME CallersInv, NEW c \in Callers, NEW old \in Board, NEW b, NEW s \in StepType,
           SaveBy(c, b, s), Keeps(old, b), Awaited(old), live_board => old = saved,
           StepSound(s, IF live_board THEN b ELSE s.board)
    PROVE  CallersInv'
<1>1. /\ saved' = b /\ live_board' = live_board
      /\ step' = [d \in Callers |-> IF d = c THEN s
                                    ELSE [step[d] EXCEPT !.stale = step[d].phase # "idle"]]
  BY DEF SaveBy
<1>2. b \in Board /\ HasQuestion(b) /\ Awaited(b)
  BY DEF Keeps
<1>3. ConcurrencyTypeOK'
  <2>1. \A d \in Callers : [step[d] EXCEPT !.stale = step[d].phase # "idle"] \in StepType
    BY DEF CallersInv, ConcurrencyTypeOK, StepType
  <2>. QED
    BY <1>1, <1>2, <2>1 DEF CallersInv, ConcurrencyTypeOK
<1>4. ASSUME NEW d \in Callers
      PROVE  StepSound(step[d], Held(d))'
  <2>1. CASE d = c
    <3>1. step'[d] = s /\ Held(d)' = IF live_board THEN b ELSE s.board
      BY <1>1, <2>1 DEF Held
    <3>. QED
      BY <3>1
  <2>2. CASE d # c
    <3>1. step'[d] = [step[d] EXCEPT !.stale = step[d].phase # "idle"] /\ step[d] \in StepType
      BY <1>1, <2>2 DEF CallersInv, ConcurrencyTypeOK
    <3>2. /\ step'[d].phase = step[d].phase /\ step'[d].previous = step[d].previous
          /\ step'[d].board = step[d].board /\ step'[d].artifact = step[d].artifact
      BY <3>1 DEF StepType
    <3>3. Held(d).questions # << >> => Held(d)'.questions # << >>
      <4>1. CASE live_board
        <5>1. Held(d) = old /\ Held(d)' = b
          BY <1>1, <4>1 DEF Held
        <5>. QED
          BY <5>1, KeepsQuestions
      <4>2. CASE ~live_board
        BY <1>1, <3>2, <4>2 DEF Held
      <4>. QED
        BY <4>1, <4>2
    <3>4. StepSound(step[d], Held(d))
      BY DEF CallersInv
    <3>. QED
      BY <3>2, <3>3, <3>4 DEF StepSound
  <2>. QED
    BY <2>1, <2>2
<1>. QED
  BY <1>1, <1>2, <1>3, <1>4 DEF CallersInv

\* A save that ends the step it belongs to, or belongs to none.
LEMMA SaveIdleKeeps ==
    ASSUME CallersInv, NEW c \in Callers, NEW old \in Board, NEW b,
           SaveBy(c, b, Idle), Keeps(old, b), Awaited(old), live_board => old = saved
    PROVE  CallersInv' /\ saved' = b
<1>1. Idle \in StepType
  BY NewBoardType
<1>2. \A held : StepSound(Idle, held)
  BY DEF StepSound, Idle
<1>. QED
  BY <1>1, <1>2, SaveKeeps DEF SaveBy

\* run_step in INIT and in QUESTIONING keeps the callers' steps sound.
LEMMA PassThroughCallers ==
    ASSUME CallersInv, NEW c \in Callers, PassThrough(c)
    PROVE  CallersInv' /\ Keeps(saved, saved')
<1> DEFINE b == [saved EXCEPT !.stage = IF saved.stage = "INIT" THEN "PROFILE_ANALYSIS"
                                        ELSE "LISTENING"]
<1>1. saved \in Board /\ HasQuestion(saved) /\ Awaited(saved)
  BY DEF CallersInv, ConcurrencyTypeOK
<1>2. saved.stage \in {"INIT", "QUESTIONING"} /\ SaveBy(c, b, Idle)
  BY DEF PassThrough
<1>3. Keeps(saved, b)
  <2>1. /\ b \in Board /\ b.questions = saved.questions /\ b.answers = saved.answers
        /\ b.evaluations = saved.evaluations /\ b.decisions = saved.decisions
        /\ b.records = saved.records
        /\ b.stage = IF saved.stage = "INIT" THEN "PROFILE_ANALYSIS" ELSE "LISTENING"
    BY <1>1 DEF Board, Stages, AgentStages
  <2>2. b.stage \in AskedStages => saved.questions # << >>
    BY <1>1, <1>2, <2>1 DEF HasQuestion, AskedStages
  <2>. HIDE DEF b
  <2>. QED
    BY <1>1, <1>2, <2>1, <2>2, KeepsLogs
<1>. HIDE DEF b
<1>. QED
  BY <1>1, <1>2, <1>3, SaveIdleKeeps

\* Accepting an answer keeps the callers' steps sound.
LEMMA ReceiveAnswerCallers ==
    ASSUME CallersInv, NEW c \in Callers, ReceiveAnswer(c)
    PROVE  CallersInv' /\ Keeps(saved, saved')
<1> DEFINE b == [saved EXCEPT !.answers = Append(@, CurrentQuestion(saved)),
                              !.stage = "EVALUATING"]
<1>1. saved \in Board /\ Awaited(saved)
  BY DEF CallersInv, ConcurrencyTypeOK
<1>2. saved.stage = "LISTENING" /\ saved.questions # << >> /\ SaveBy(c, b, Idle)
  BY DEF ReceiveAnswer
<1>3. Keeps(saved, b)
  BY <1>1, <1>2, KeepsOnAnswer
<1>. HIDE DEF b
<1>. QED
  BY <1>1, <1>2, <1>3, SaveIdleKeeps

\* A ruling keeps the callers' steps sound.
LEMMA SubmitHumanReviewCallers ==
    ASSUME CallersInv, NEW c \in Callers, SubmitHumanReview(c)
    PROVE  CallersInv' /\ Keeps(saved, saved')
<1>1. saved \in Board /\ Awaited(saved)
  BY DEF CallersInv, ConcurrencyTypeOK
<1>2. PICK approved \in BOOLEAN : SaveBy(c, Ruled(saved, approved), Idle)
  BY DEF SubmitHumanReview
<1> DEFINE b == Ruled(saved, approved)
<1>3. Keeps(saved, b)
  <2>1. /\ b \in Board /\ b.stage \in {"FINISHED", "FAILED"} /\ b.questions = saved.questions
        /\ b.answers = saved.answers /\ b.evaluations = saved.evaluations
        /\ b.decisions = saved.decisions /\ b.records = saved.records
    BY <1>1 DEF Board, Stages, EndStages, Ruled
  <2>. HIDE DEF b
  <2>. QED
    BY <1>1, <2>1, KeepsLogs DEF AskedStages
<1>. HIDE DEF b
<1>4. SaveBy(c, b, Idle)
  BY <1>2 DEF b
<1>. QED
  BY <1>1, <1>3, <1>4, SaveIdleKeeps

\* A step begins on the saved board, whatever the others are doing.
LEMMA BeginStepCallers ==
    ASSUME CallersInv, NEW c \in Callers, BeginStep(c) PROVE CallersInv'
<1> DEFINE s == [phase |-> "started", previous |-> saved.stage,
                 board |-> IF live_board THEN NewBoard ELSE saved,
                 artifact |-> IF saved.stage \in {"EVALUATING", "DECISION"}
                              THEN CurrentQuestion(saved) ELSE NoArtifact,
                 stale |-> FALSE]
<1>1. /\ step' = [step EXCEPT ![c] = s] /\ saved' = saved /\ live_board' = live_board
      /\ saved.stage \in AgentStages
  BY DEF BeginStep
<1>2. saved \in Board /\ HasQuestion(saved) /\ Awaited(saved) /\ step \in [Callers -> StepType]
  BY DEF CallersInv, ConcurrencyTypeOK
<1>3. saved.stage \in {"EVALUATING", "DECISION"} =>
          saved.questions # << >> /\ CurrentQuestion(saved) \in QuestionId
  BY <1>2, CurrentType DEF HasQuestion, AskedStages
<1>4. s \in StepType
  BY <1>2, <1>3, NewBoardType DEF StepType, Board
<1>5. StepSound(s, saved)
  BY <1>1, <1>2, <1>3, NewBoardType DEF StepSound, QuestionStages
<1>6. ~live_board => s.board = saved
  OBVIOUS
<1>. HIDE DEF s
<1>7. \A d \in Callers : StepSound(step[d], Held(d))'
  BY <1>1, <1>2, <1>5, <1>6 DEF CallersInv, Held
<1>8. ConcurrencyTypeOK'
  BY <1>1, <1>4 DEF CallersInv, ConcurrencyTypeOK
<1>. QED
  BY <1>1, <1>2, <1>7, <1>8 DEF CallersInv, HasQuestion, Awaited

\* The ids a search may come back with.
LEMMA QuestionIdsTyped ==
    ASSUME NEW b \in Board, HasQuestion(b)
    PROVE  FollowUpIds(b) \subseteq QuestionId /\ MainIds(b) \subseteq QuestionId
<1>1. MainIds(b) \subseteq QuestionId
  BY DEF MainIds, QuestionId
<1>2. CASE b.stage = "FOLLOW_UP"
  <2>1. CurrentQuestion(b) \in QuestionId
    BY <1>2, CurrentType DEF HasQuestion, AskedStages
  <2>2. /\ CurrentQuestion(b)[1] \in MainQuestions
        /\ b.rounds[CurrentQuestion(b)[1]] + 1 \in Nat
    BY <2>1 DEF QuestionId, Board
  <2>3. FollowUpIds(b) = {<<CurrentQuestion(b)[1], b.rounds[CurrentQuestion(b)[1]] + 1>>}
    BY <1>2 DEF FollowUpIds
  <2>. QED
    BY <1>1, <2>2, <2>3 DEF QuestionId
<1>3. CASE b.stage # "FOLLOW_UP"
  BY <1>1, <1>3 DEF FollowUpIds
<1>. QED
  BY <1>2, <1>3

\* What an agent returns fits the stage its step started from.
LEMMA AgentReturnsCallers ==
    ASSUME CallersInv, NEW c \in Callers, AgentReturns(c) PROVE CallersInv'
<1>1. PICK artifact \in Returned(c) :
         step' = [step EXCEPT ![c].phase = "returned", ![c].artifact = artifact]
  BY DEF AgentReturns
<1>2. /\ step[c].phase = "started" /\ saved' = saved /\ live_board' = live_board
      /\ step \in [Callers -> StepType] /\ step[c] \in StepType
  BY DEF AgentReturns, CallersInv, ConcurrencyTypeOK
<1>3. StepSound(step[c], Held(c))
  BY DEF CallersInv
<1>4. IF step[c].previous \in QuestionStages THEN artifact \in QuestionId
      ELSE artifact = step[c].artifact
  <2>1. CASE step[c].previous \in QuestionStages
    <3>1. Held(c) \in Board /\ HasQuestion(Held(c))
      BY <1>2, HeldType
    <3>2. FollowUpIds(Held(c)) \subseteq QuestionId /\ MainIds(Held(c)) \subseteq QuestionId
      BY <3>1, QuestionIdsTyped
    <3>. QED
      BY <2>1, <3>2 DEF Returned
  <2>2. CASE step[c].previous \notin QuestionStages
    BY <2>2 DEF Returned
  <2>. QED
    BY <2>1, <2>2
<1> DEFINE s == [step[c] EXCEPT !.phase = "returned", !.artifact = artifact]
<1>5. step' = [step EXCEPT ![c] = s]
  BY <1>1, <1>2
<1>6. /\ s.phase = "returned" /\ s.previous = step[c].previous /\ s.board = step[c].board
      /\ s.artifact = artifact
  BY <1>2 DEF StepType
<1>7. s \in StepType
  <2>1. artifact \in QuestionId \cup {NoArtifact}
    BY <1>2, <1>4 DEF StepType
  <2>. QED
    BY <1>2, <2>1 DEF StepType
<1>8. StepSound(s, Held(c))
  BY <1>2, <1>3, <1>4, <1>6 DEF StepSound, QuestionStages
<1>. HIDE DEF s
<1>9. \A d \in Callers : StepSound(step[d], Held(d))'
  BY <1>2, <1>5, <1>6, <1>8 DEF CallersInv, Held
<1>10. ConcurrencyTypeOK'
  BY <1>2, <1>5, <1>7 DEF CallersInv, ConcurrencyTypeOK
<1>. QED
  BY <1>2, <1>9, <1>10 DEF CallersInv, HasQuestion, Awaited

\* A step may publish late: the board it publishes on loses nothing.
LEMMA FinishStepCallers ==
    ASSUME CallersInv, NEW c \in Callers, FinishStep(c)
    PROVE  CallersInv' /\ Keeps(Held(c), saved')
<1>1. PICK b \in Published(Held(c), step[c].previous, step[c].artifact) : SaveBy(c, b, Idle)
  BY DEF FinishStep
<1>2. step[c].phase = "returned" /\ StepSound(step[c], Held(c))
  BY DEF FinishStep, CallersInv
<1>3. Held(c) \in Board /\ Awaited(Held(c)) /\ (live_board => Held(c) = saved)
  BY <1>2, HeldType DEF Held
<1>4. ArtifactFits(Held(c), step[c].previous, step[c].artifact)
  BY <1>2 DEF StepSound, ArtifactFits
<1>5. Keeps(Held(c), b)
  BY <1>3, <1>4, PublishedKeeps
<1>. QED
  BY <1>1, <1>3, <1>5, SaveIdleKeeps

\* A step may fail late: the board it fails on loses nothing but its stage.
LEMMA FailStepCallers ==
    ASSUME CallersInv, NEW c \in Callers, FailStep(c)
    PROVE  CallersInv' /\ Keeps(Held(c), saved')
<1> DEFINE b == [Held(c) EXCEPT !.stage = "FAILED"]
<1>1. SaveBy(c, b, Idle) /\ step[c].phase = "started"
  BY DEF FailStep
<1>2. Held(c) \in Board /\ Awaited(Held(c)) /\ (live_board => Held(c) = saved)
  BY <1>1, HeldType DEF Held
<1>3. Keeps(Held(c), b)
  <2>1. /\ b \in Board /\ b.stage = "FAILED" /\ b.questions = Held(c).questions
        /\ b.answers = Held(c).answers /\ b.evaluations = Held(c).evaluations
        /\ b.decisions = Held(c).decisions /\ b.records = Held(c).records
    BY <1>2 DEF Board, Stages, EndStages
  <2>. HIDE DEF b
  <2>. QED
    BY <1>2, <2>1, KeepsLogs DEF AskedStages
<1>. HIDE DEF b
<1>. QED
  BY <1>1, <1>2, <1>3, SaveIdleKeeps

\* A durable record is saved with everything else on the board, in the middle of a step.
LEMMA PersistRecordCallers ==
    ASSUME CallersInv, NEW c \in Callers, PersistRecord(c)
    PROVE  CallersInv' /\ Keeps(Held(c), saved')
<1>1. PICK r \in Records \ Held(c).records :
         SaveBy(c, [Held(c) EXCEPT !.records = Held(c).records \cup {r}],
                [step[c] EXCEPT !.board = IF live_board THEN step[c].board
                                          ELSE [Held(c) EXCEPT !.records = Held(c).records \cup {r}],
                                !.stale = FALSE])
  BY DEF PersistRecord
<1> DEFINE b == [Held(c) EXCEPT !.records = Held(c).records \cup {r}]
           s == [step[c] EXCEPT !.board = IF live_board THEN step[c].board ELSE b, !.stale = FALSE]
<1>2. SaveBy(c, b, s)
  BY <1>1
<1>3. /\ step[c].phase = "started" /\ step[c].previous = "PROFILE_ANALYSIS"
      /\ step[c] \in StepType /\ StepSound(step[c], Held(c))
  BY DEF PersistRecord, CallersInv, ConcurrencyTypeOK
<1>4. /\ Held(c) \in Board /\ HasQuestion(Held(c)) /\ Awaited(Held(c))
      /\ (live_board => Held(c) = saved)
  BY <1>3, HeldType DEF Held
<1>5. /\ b \in Board /\ b.stage = Held(c).stage /\ b.questions = Held(c).questions
      /\ b.answers = Held(c).answers /\ b.evaluations = Held(c).evaluations
      /\ b.decisions = Held(c).decisions /\ Held(c).records \subseteq b.records
  BY <1>4 DEF Board
<1>. HIDE DEF b
<1>6. Keeps(Held(c), b)
  BY <1>4, <1>5, KeepsLogs DEF HasQuestion
<1>7. s \in StepType /\ s.phase = "started" /\ s.previous = "PROFILE_ANALYSIS"
      /\ s.board = IF live_board THEN step[c].board ELSE b
  BY <1>3, <1>5 DEF StepType
<1>8. HasQuestion(b) /\ Awaited(b)
  BY <1>4, <1>6 DEF Keeps
<1>9. StepSound(s, IF live_board THEN b ELSE s.board)
  BY <1>3, <1>7, <1>8 DEF StepSound, AgentStages, QuestionStages
<1>. HIDE DEF s
<1>. QED
  BY <1>2, <1>4, <1>6, <1>7, <1>9, SaveKeeps DEF SaveBy

\* Steps that are given up leave the session alone.
LEMMA IdleCallers ==
    ASSUME CallersInv, UNCHANGED <<live_board, saved>>,
           step' \in [Callers -> StepType],
           \A c \in Callers : step'[c] = step[c] \/ step'[c] = Idle
    PROVE  CallersInv'
<1>1. ConcurrencyTypeOK'
  BY DEF CallersInv, ConcurrencyTypeOK
<1>2. ASSUME NEW c \in Callers PROVE StepSound(step[c], Held(c))'
  <2>1. CASE step'[c] = step[c]
    BY <2>1 DEF CallersInv, Held
  <2>2. CASE step'[c] = Idle
    BY <2>2 DEF StepSound, Idle
  <2>. QED
    BY <2>1, <2>2
<1>. QED
  BY <1>1, <1>2 DEF CallersInv, HasQuestion, Awaited

\* Every step of every caller keeps the callers' steps sound.
LEMMA NextCallers == CallersInv /\ [Next]_vars => CallersInv'
<1>. SUFFICES ASSUME CallersInv, [Next]_vars PROVE CallersInv'
  OBVIOUS
<1>0. step \in [Callers -> StepType] /\ Idle \in StepType
  BY NewBoardType DEF CallersInv, ConcurrencyTypeOK
<1>1. ASSUME NEW c \in Callers, AbandonStep(c) PROVE CallersInv'
  BY <1>0, <1>1, IdleCallers DEF AbandonStep
<1>2. CASE Crash
  BY <1>0, <1>2, IdleCallers DEF Crash
<1>3. CASE UNCHANGED vars
  BY <1>0, <1>3, IdleCallers DEF vars
<1>. QED
  BY <1>1, <1>2, <1>3, PassThroughCallers, ReceiveAnswerCallers, SubmitHumanReviewCallers,
     BeginStepCallers, AgentReturnsCallers, FinishStepCallers, FailStepCallers,
     PersistRecordCallers DEF Next

\* Over either store, every step that runs relies only on what its board has.
THEOREM CallersSound == Spec => []CallersInv
  BY InitCallers, NextCallers, PTL DEF Spec

\* However many callers use a session, over either store, its board and the boards
\* their steps hold keep their types: the budgets never go below zero.
THEOREM ConcurrencyTypes == Spec => []ConcurrencyTypeOK
<1>1. CallersInv => ConcurrencyTypeOK
  BY DEF CallersInv
<1>. QED
  BY <1>1, CallersSound, PTL

\* However many callers use a session, over either store, and however late their steps
\* publish, no answer is ever accepted for a question that has one, or for none.
THEOREM NoAnswerTwice == Spec => []AnswersAwaited
<1>1. CallersInv => AnswersAwaited
  <2>. SUFFICES ASSUME CallersInv PROVE AnswersAwaited
    OBVIOUS
  <2>1. Len(saved.answers) \in Nat /\ Len(saved.questions) \in Nat
    BY LogLengths DEF CallersInv, ConcurrencyTypeOK
  <2>2. CASE saved.stage \in {"QUESTIONING", "LISTENING"}
    BY <2>1, <2>2 DEF CallersInv, Awaited, AnswersAwaited
  <2>3. CASE saved.stage \notin {"QUESTIONING", "LISTENING"}
    BY <2>1, <2>3 DEF CallersInv, Awaited, AnswersAwaited
  <2>. QED
    BY <2>2, <2>3
<1>. QED
  BY <1>1, CallersSound, PTL

-----------------------------------------------------------------------------
(* What a single caller leaves a board in *)

AnswerStages == {"QUESTIONING", "LISTENING"}
EvaluationStages == {"QUESTIONING", "LISTENING", "EVALUATING"}
DecisionStages == {"QUESTIONING", "LISTENING", "EVALUATING", "DECISION"}

\* The entry a log owes is for the current question; appending it pays the debt.
LEMMA OwesPaid ==
    ASSUME NEW b \in Board, NEW c \in Board, NEW log \in Seq(QuestionId), NEW S,
           Owes(b, log, S), b.stage \in S, c.questions = b.questions,
           c.stage \notin S \cup {"FAILED"}, "FAILED" \notin S
    PROVE  Owes(c, Append(log, CurrentQuestion(b)), S)
<1>1. b.questions \in Seq(QuestionId) /\ Len(b.questions) = Len(log) + 1
  BY DEF Owes, Board
<1>2. CurrentQuestion(b) = b.questions[Len(log) + 1]
  BY <1>1 DEF CurrentQuestion
<1> DEFINE paid == Append(log, CurrentQuestion(b))
<1>3. Len(paid) = Len(log) + 1 /\ DOMAIN paid = 1..Len(log) + 1 /\ Len(log) \in Nat
  OBVIOUS
<1>4. \A i \in DOMAIN paid : i \in DOMAIN c.questions /\ paid[i] = c.questions[i]
  <2>. SUFFICES ASSUME NEW i \in DOMAIN paid
                PROVE  i \in DOMAIN c.questions /\ paid[i] = c.questions[i]
    OBVIOUS
  <2>1. CASE i = Len(log) + 1
    BY <1>1, <1>2, <1>3, <2>1
  <2>2. CASE i # Len(log) + 1
    <3>1. i \in DOMAIN log /\ paid[i] = log[i]
      BY <1>3, <2>2
    <3>. QED
      BY <3>1 DEF Owes
  <2>. QED
    BY <2>1, <2>2
<1>. HIDE DEF paid
<1>5. Owes(c, paid, S)
  BY <1>1, <1>3, <1>4 DEF Owes
<1>. QED
  BY <1>5 DEF paid

\* A new question puts every log one entry into debt.
LEMMA OwesQuestion ==
    ASSUME NEW b \in Board, NEW c \in Board, NEW log \in Seq(QuestionId), NEW S, NEW id \in QuestionId,
           Owes(b, log, S), b.stage \notin S \cup {"FAILED"},
           c.questions = Append(b.questions, id), c.stage \in S, "FAILED" \notin S
    PROVE  Owes(c, log, S)
<1>1. b.questions \in Seq(QuestionId) /\ Len(b.questions) = Len(log) /\ Len(log) \in Nat
  BY DEF Owes, Board
<1>2. Len(c.questions) = Len(log) + 1
  BY <1>1
<1>3. \A i \in DOMAIN log : i \in DOMAIN c.questions /\ log[i] = c.questions[i]
  BY <1>1 DEF Owes
<1>. QED
  BY <1>1, <1>2, <1>3 DEF Owes

\* Any other step leaves the debt of a log as it is.
LEMMA OwesStill ==
    ASSUME NEW b \in Board, NEW c \in Board, NEW log, NEW S, Owes(b, log, S),
           c.questions = b.questions,
           c.stage \in S => b.stage \in S,
           c.stage \notin S \cup {"FAILED"} => b.stage \notin S \cup {"FAILED"}
    PROVE  Owes(c, log, S)
  BY DEF Owes

\* How many main questions a board has, as questions are published.
LEMMA MainAskedType ==
    ASSUME NEW b \in Board
    PROVE  /\ MainAsked(b) \in Nat
           /\ IsFiniteSet({i \in DOMAIN b.questions : b.questions[i][2] = 0})
<1>1. DOMAIN b.questions = 1..Len(b.questions) /\ Len(b.questions) \in Nat
  BY DEF Board
<1>2. IsFiniteSet(DOMAIN b.questions)
  BY <1>1, FS_Interval
<1>3. IsFiniteSet({i \in DOMAIN b.questions : b.questions[i][2] = 0})
  BY <1>2, FS_Subset
<1>. QED
  BY <1>3, FS_CardinalityType DEF MainAsked

\* The number of follow-ups is an integer.
LEMMA FollowUpsInt ==
    ASSUME NEW b \in Board PROVE FollowUpsAsked(b) \in Int
<1>1. MainAsked(b) \in Nat
  BY MainAskedType
<1>2. Len(b.questions) \in Nat
  BY LogLengths
<1>. QED
  BY <1>1, <1>2 DEF FollowUpsAsked

\* A published question is counted once, as a main question or as a follow-up.
LEMMA MainAskedGrows ==
    ASSUME NEW b \in Board, NEW c \in Board, NEW id \in QuestionId,
           c.questions = Append(b.questions, id)
    PROVE  /\ MainAsked(c) = MainAsked(b) + (IF id[2] = 0 THEN 1 ELSE 0)
           /\ FollowUpsAsked(c) = FollowUpsAsked(b) + (IF id[2] = 0 THEN 0 ELSE 1)
<1> DEFINE M == {i \in DOMAIN b.questions : b.questions[i][2] = 0}
           n == Len(b.questions)
           N == {i \in DOMAIN c.questions : c.questions[i][2] = 0}
<1>1. b.questions \in Seq(QuestionId) /\ n \in Nat
  BY DEF Board
<1>2. /\ DOMAIN b.questions = 1..n /\ DOMAIN c.questions = 1..n + 1 /\ Len(c.questions) = n + 1
      /\ c.questions[n + 1] = id
      /\ \A i \in 1..n : c.questions[i] = b.questions[i]
  BY <1>1
<1>3. N = IF id[2] = 0 THEN M \cup {n + 1} ELSE M
  BY <1>1, <1>2
<1>4. n + 1 \notin M /\ IsFiniteSet(M) /\ MainAsked(b) = Cardinality(M) /\ MainAsked(b) \in Nat
      /\ MainAsked(c) = Cardinality(N)
  BY <1>1, <1>2, MainAskedType DEF MainAsked
<1>. HIDE DEF M, N
<1>5. Cardinality(M \cup {n + 1}) = Cardinality(M) + 1
  BY <1>4, FS_AddElement
<1>6. MainAsked(c) = MainAsked(b) + (IF id[2] = 0 THEN 1 ELSE 0)
  BY <1>3, <1>4, <1>5
<1>7. FollowUpsAsked(c) = FollowUpsAsked(b) + (IF id[2] = 0 THEN 0 ELSE 1)
  <2>0. Len(c.questions) = n + 1
    BY <1>2
  <2>1. FollowUpsAsked(b) = n - MainAsked(b) /\ FollowUpsAsked(c) = (n + 1) - MainAsked(c)
    BY <2>0 DEF FollowUpsAsked
  <2>. HIDE DEF n
  <2>2. CASE id[2] = 0
    BY <1>1, <1>4, <1>6, <2>1, <2>2
  <2>3. CASE id[2] # 0
    BY <1>1, <1>4, <1>6, <2>1, <2>3
  <2>. QED
    BY <2>2, <2>3
<1>. QED
  BY <1>6, <1>7

\* A step that moves the stage and nothing the invariant is about.
LEMMA StageMoves ==
    ASSUME NEW b \in Board, NEW c \in Board, BoardInv(b),
           c.questions = b.questions, c.answers = b.answers, c.evaluations = b.evaluations,
           c.decisions = b.decisions, c.rounds = b.rounds,
           c.question_budget = b.question_budget, c.follow_up_budget = b.follow_up_budget,
           c.stage \in AnswerStages <=> b.stage \in AnswerStages,
           c.stage \in EvaluationStages <=> b.stage \in EvaluationStages,
           c.stage \in DecisionStages <=> b.stage \in DecisionStages,
           c.stage \in {"QUESTION_PREPARING", "NEXT_QUESTION", "FOLLOW_UP"} \cup SetupStages
               => b.stage \in SetupStages /\ c.stage \in SetupStages,
           c.stage \notin SetupStages => b.stage \notin SetupStages \cup {"FOLLOW_UP"},
           b.stage # "FAILED"
    PROVE  BoardInv(c)
<1>1. LogsAligned(c)
  BY OwesStill DEF BoardInv, LogsAligned, AnswerStages, EvaluationStages, DecisionStages
<1>2. IdsDistinct(c) /\ RoundsCover(c)
  BY DEF BoardInv, IdsDistinct, RoundsCover
<1>3. BudgetsAccounted(c)
  <2>1. MainAsked(c) = MainAsked(b) /\ FollowUpsAsked(c) = FollowUpsAsked(b)
    BY DEF MainAsked, FollowUpsAsked
  <2>. QED
    BY <2>1 DEF BoardInv, BudgetsAccounted, SetupStages
<1>4. BudgetPromised(c) /\ SetupEmpty(c)
  BY DEF BoardInv, BudgetPromised, SetupEmpty, SetupStages
<1>. QED
  BY <1>1, <1>2, <1>3, <1>4 DEF BoardInv

\* A step that failed.
LEMMA StageFails ==
    ASSUME NEW b \in Board, BoardInv(b), NEW c \in Board, c.stage = "FAILED",
           c.questions = b.questions, c.answers = b.answers, c.evaluations = b.evaluations,
           c.decisions = b.decisions, c.rounds = b.rounds
    PROVE  BoardInv(c)
<1>1. LogsAligned(c)
  BY OwesStill DEF BoardInv, LogsAligned
<1>2. BudgetsAccounted(c) /\ BudgetPromised(c) /\ SetupEmpty(c) /\ IdsDistinct(c) /\ RoundsCover(c)
  BY DEF BoardInv, BudgetsAccounted, BudgetPromised, SetupEmpty, SetupStages, IdsDistinct,
         RoundsCover
<1>. QED
  BY <1>1, <1>2 DEF BoardInv

\* A fresh question, published in the stage it was searched in.
LEMMA QuestionPublished ==
    ASSUME NEW b \in Board, BoardInv(b), NEW id \in QuestionId, Fresh(b, id),
           b.stage \in QuestionStages
    PROVE  BoardInv([AddQuestion(b, id) EXCEPT !.stage = "QUESTIONING"])
<1> DEFINE c == [AddQuestion(b, id) EXCEPT !.stage = "QUESTIONING"]
<1>1. /\ c \in Board /\ c.stage = "QUESTIONING" /\ c.questions = Append(b.questions, id)
      /\ c.rounds = IF id[2] > 0 THEN [b.rounds EXCEPT ![id[1]] = @ + 1] ELSE b.rounds
      /\ c.question_budget = IF id[2] > 0 \/ b.question_budget = 0
                             THEN b.question_budget ELSE b.question_budget - 1
      /\ c.follow_up_budget = b.follow_up_budget
      /\ c.answers = b.answers /\ c.evaluations = b.evaluations /\ c.decisions = b.decisions
  <2>1. "QUESTIONING" \in Stages
    BY DEF Stages
  <2>. QED
    BY <2>1, AddQuestionFields, ZenonT(60)
<1>. HIDE DEF c
<1>2. /\ b.questions \in Seq(QuestionId) /\ b.rounds \in [MainQuestions -> Nat]
      /\ b.question_budget \in Nat /\ b.follow_up_budget \in Nat
      /\ id[1] \in MainQuestions /\ id[2] \in Nat
  BY DEF Board, QuestionId
<1> DEFINE n == Len(b.questions)
<1>3. /\ n \in Nat /\ DOMAIN b.questions = 1..n /\ DOMAIN c.questions = 1..n + 1
      /\ c.questions[n + 1] = id
      /\ \A i \in 1..n : c.questions[i] = b.questions[i]
  BY <1>1, <1>2
<1>4. LogsAligned(c)
  <2>1. /\ b.answers \in Seq(QuestionId) /\ b.evaluations \in Seq(QuestionId)
        /\ b.decisions \in Seq(QuestionId)
    BY DEF Board
  <2>2. Owes(c, b.answers, AnswerStages)
    BY <1>1, <2>1, OwesQuestion DEF BoardInv, LogsAligned, AnswerStages, QuestionStages
  <2>3. Owes(c, b.evaluations, EvaluationStages)
    BY <1>1, <2>1, OwesQuestion DEF BoardInv, LogsAligned, EvaluationStages, QuestionStages
  <2>4. Owes(c, b.decisions, DecisionStages)
    BY <1>1, <2>1, OwesQuestion DEF BoardInv, LogsAligned, DecisionStages, QuestionStages
  <2>. QED
    BY <1>1, <2>2, <2>3, <2>4 DEF LogsAligned, AnswerStages, EvaluationStages, DecisionStages
<1>5. IdsDistinct(c)
  <2>1. \A i \in 1..n : b.questions[i] # id
    BY <1>3 DEF Fresh, AskedIds
  <2>2. \A i, j \in 1..n : b.questions[i] = b.questions[j] => i = j
    BY <1>3 DEF BoardInv, IdsDistinct
  <2>. HIDE DEF n
  <2>. QED
    BY <1>3, <2>1, <2>2 DEF IdsDistinct
<1>6. RoundsCover(c)
  <2>1. \A i \in 1..n : b.questions[i] \in QuestionId /\ b.questions[i][2] <= b.rounds[b.questions[i][1]]
    <3>1. \A i \in 1..n : b.questions[i] \in QuestionId
      BY <1>2, <1>3
    <3>2. \A i \in DOMAIN b.questions : b.questions[i][2] <= b.rounds[b.questions[i][1]]
      BY DEF BoardInv, RoundsCover
    <3>. QED
      BY <1>3, <3>1, <3>2
  <2>2. \A m \in MainQuestions : c.rounds[m] \in Nat /\ b.rounds[m] \in Nat /\ b.rounds[m] <= c.rounds[m]
    BY <1>1, <1>2
  <2>3. id[2] <= c.rounds[id[1]]
    BY <1>1, <1>2 DEF Fresh
  <2>4. ASSUME NEW i \in 1..n PROVE c.questions[i][2] <= c.rounds[c.questions[i][1]]
    <3> DEFINE q == b.questions[i]
    <3>1. q[1] \in MainQuestions /\ q[2] \in Nat /\ q[2] <= b.rounds[q[1]] /\ c.questions[i] = q
      BY <1>3, <2>1 DEF QuestionId
    <3>. HIDE DEF q
    <3>. QED
      BY <2>2, <3>1
  <2>. HIDE DEF n
  <2>. QED
    BY <1>3, <2>3, <2>4 DEF RoundsCover
<1>7. BudgetsAccounted(c)
  <2>1. /\ MainAsked(c) = MainAsked(b) + (IF id[2] = 0 THEN 1 ELSE 0)
        /\ FollowUpsAsked(c) = FollowUpsAsked(b) + (IF id[2] = 0 THEN 0 ELSE 1)
        /\ MainAsked(b) \in Nat /\ FollowUpsAsked(b) \in Int
    <3>1. MainAsked(b) \in Nat
      BY MainAskedType
    <3>2. FollowUpsAsked(b) \in Int
      BY <1>3, <3>1 DEF FollowUpsAsked
    <3>. QED
      BY <1>1, <3>1, <3>2, MainAskedGrows
  <2>2. /\ b.question_budget + MainAsked(b) = PlannedQuestions
        /\ b.follow_up_budget + FollowUpsAsked(b) + (IF b.stage = "FOLLOW_UP" THEN 1 ELSE 0)
              = PlannedFollowUps
    BY DEF BoardInv, BudgetsAccounted, QuestionStages
  <2>3. CASE b.stage = "FOLLOW_UP"
    <3>1. id[2] > 0
      BY <1>2, <2>3 DEF Fresh
    <3>2. /\ c.question_budget = b.question_budget /\ c.follow_up_budget = b.follow_up_budget
          /\ MainAsked(c) = MainAsked(b) + 0 /\ FollowUpsAsked(c) = FollowUpsAsked(b) + 1
      BY <1>1, <1>2, <2>1, <3>1
    <3>3. b.question_budget + MainAsked(b) = PlannedQuestions
      BY <2>2
    <3>4. b.follow_up_budget + FollowUpsAsked(b) + 1 = PlannedFollowUps
      BY <2>2, <2>3
    <3>5. b.follow_up_budget \in Int /\ FollowUpsAsked(b) \in Int
      BY <1>2, FollowUpsInt
    <3>6. MainAsked(b) \in Nat
      BY MainAskedType
    <3>7. \A x, y \in Int : x + (y + 1) + 0 = x + y + 1
      OBVIOUS
    <3>8. c.question_budget + MainAsked(c) = PlannedQuestions
      BY <3>2, <3>3, <3>6
    <3>9. c.follow_up_budget + FollowUpsAsked(c) + 0 = PlannedFollowUps
      BY <3>2, <3>4, <3>5, <3>7
    <3>. QED
      BY <1>1, <3>8, <3>9 DEF BudgetsAccounted
  <2>4. CASE b.stage # "FOLLOW_UP"
    <3>1. id[2] = 0 /\ b.question_budget > 0
      BY <2>4 DEF Fresh, BoardInv, BudgetPromised, QuestionStages
    <3>2. /\ c.question_budget = b.question_budget - 1 /\ c.follow_up_budget = b.follow_up_budget
          /\ MainAsked(c) = MainAsked(b) + 1 /\ FollowUpsAsked(c) = FollowUpsAsked(b)
      BY <1>1, <1>2, <2>1, <3>1
    <3>3. /\ b.question_budget + MainAsked(b) = PlannedQuestions
          /\ b.follow_up_budget + FollowUpsAsked(b) = PlannedFollowUps
      BY <1>2, <2>1, <2>2, <2>4
    <3>4. /\ c.question_budget + MainAsked(c) = PlannedQuestions
          /\ c.follow_up_budget + FollowUpsAsked(c) = PlannedFollowUps
      <4>1. \A x, y \in Int : (x - 1) + (y + 1) = x + y
        OBVIOUS
      <4>2. b.question_budget \in Int /\ MainAsked(b) \in Int
        <5>1. MainAsked(b) \in Nat
          BY MainAskedType
        <5>. QED
          BY <1>2, <5>1
      <4>3. c.question_budget + MainAsked(c) = b.question_budget + MainAsked(b)
        BY <3>2, <4>1, <4>2
      <4>. QED
        BY <3>2, <3>3, <4>3
    <3>5. c.follow_up_budget + FollowUpsAsked(c) + 0 = PlannedFollowUps
      BY <3>4, ConcurrencyAssumption
    <3>. QED
      BY <1>1, <3>4, <3>5 DEF BudgetsAccounted
  <2>. QED
    BY <2>3, <2>4
<1>8. BudgetPromised(c) /\ SetupEmpty(c)
  BY <1>1 DEF BudgetPromised, SetupEmpty, SetupStages
<1>9. BoardInv(c)
  BY <1>4, <1>5, <1>6, <1>7, <1>8 DEF BoardInv
<1>. QED
  BY <1>9 DEF c

\* The planning step starts the accounts of the budgets.
LEMMA PlanPublished ==
    ASSUME NEW b \in Board, BoardInv(b), b.stage = "INTERVIEW_PLANNING"
    PROVE  BoardInv([b EXCEPT !.stage = "QUESTION_PREPARING",
                              !.question_budget = PlannedQuestions,
                              !.follow_up_budget = PlannedFollowUps])
<1> DEFINE c == [b EXCEPT !.stage = "QUESTION_PREPARING", !.question_budget = PlannedQuestions,
                          !.follow_up_budget = PlannedFollowUps]
<1>1. /\ c \in Board /\ c.stage = "QUESTION_PREPARING" /\ c.questions = b.questions
      /\ c.answers = b.answers /\ c.evaluations = b.evaluations /\ c.decisions = b.decisions
      /\ c.rounds = b.rounds
      /\ c.question_budget = PlannedQuestions /\ c.follow_up_budget = PlannedFollowUps
  BY ConcurrencyAssumption DEF Board, Stages, AgentStages, QuestionStages
<1>. HIDE DEF c
<1>2. LogsAligned(c)
  BY <1>1, OwesStill DEF BoardInv, LogsAligned
<1>3. IdsDistinct(c) /\ RoundsCover(c)
  BY <1>1 DEF BoardInv, IdsDistinct, RoundsCover
<1>4. c.questions = << >>
  BY <1>1 DEF BoardInv, SetupEmpty, SetupStages
<1>5. MainAsked(c) = 0 /\ FollowUpsAsked(c) = 0
  <2>1. {i \in DOMAIN c.questions : c.questions[i][2] = 0} = {} /\ Len(c.questions) = 0
    BY <1>4
  <2>2. MainAsked(c) = 0
    BY <2>1, FS_EmptySet DEF MainAsked
  <2>. QED
    BY <2>1, <2>2 DEF FollowUpsAsked
<1>6. BudgetsAccounted(c)
  BY <1>1, <1>5, ConcurrencyAssumption DEF BudgetsAccounted
<1>7. BudgetPromised(c) /\ SetupEmpty(c)
  BY <1>1, ConcurrencyAssumption DEF BudgetPromised, SetupEmpty, SetupStages
<1>8. BoardInv(c)
  BY <1>2, <1>3, <1>6, <1>7 DEF BoardInv
<1>. QED
  BY <1>8 DEF c

\* The entry a log owes is appended, and the stage moves on.
LEMMA EntryPaid ==
    ASSUME NEW b \in Board, NEW c \in Board, BoardInv(b), LogsAligned(c),
           c.questions = b.questions, c.rounds = b.rounds,
           c.question_budget = b.question_budget, c.follow_up_budget = b.follow_up_budget,
           b.stage \in {"LISTENING", "EVALUATING", "DECISION"},
           c.stage \in {"EVALUATING", "DECISION", "REPORTING", "NEXT_QUESTION"},
           c.stage = "NEXT_QUESTION" => b.question_budget > 0
    PROVE  BoardInv(c)
<1>1. IdsDistinct(c) /\ RoundsCover(c)
  BY DEF BoardInv, IdsDistinct, RoundsCover
<1>2. BudgetsAccounted(c)
  <2>1. MainAsked(c) = MainAsked(b) /\ FollowUpsAsked(c) = FollowUpsAsked(b)
    BY DEF MainAsked, FollowUpsAsked
  <2>. QED
    BY <2>1 DEF BoardInv, BudgetsAccounted
<1>3. BudgetPromised(c) /\ SetupEmpty(c)
  BY DEF BudgetPromised, SetupEmpty, SetupStages
<1>. QED
  BY <1>1, <1>2, <1>3 DEF BoardInv

\* An answer to the current question.
LEMMA AnswerPublished ==
    ASSUME NEW b \in Board, BoardInv(b), b.stage = "LISTENING", b.questions # << >>
    PROVE  BoardInv([b EXCEPT !.answers = Append(@, CurrentQuestion(b)), !.stage = "EVALUATING"])
<1> DEFINE c == [b EXCEPT !.answers = Append(b.answers, CurrentQuestion(b)),
                          !.stage = "EVALUATING"]
<1>1. Append(b.answers, CurrentQuestion(b)) \in Seq(QuestionId) /\ b.answers \in Seq(QuestionId)
  BY CurrentType DEF Board
<1>2. /\ c \in Board /\ c.stage = "EVALUATING" /\ c.questions = b.questions
      /\ c.answers = Append(b.answers, CurrentQuestion(b)) /\ c.evaluations = b.evaluations
      /\ c.decisions = b.decisions /\ c.rounds = b.rounds
      /\ c.question_budget = b.question_budget /\ c.follow_up_budget = b.follow_up_budget
  BY <1>1 DEF Board, Stages, AgentStages
<1>. HIDE DEF c
<1>3. LogsAligned(c)
  <2>1. Owes(c, c.answers, AnswerStages)
    BY <1>1, <1>2, OwesPaid DEF BoardInv, LogsAligned, AnswerStages
  <2>2. Owes(c, c.evaluations, EvaluationStages) /\ Owes(c, c.decisions, DecisionStages)
    BY <1>2, OwesStill DEF BoardInv, LogsAligned, EvaluationStages, DecisionStages
  <2>. QED
    BY <2>1, <2>2 DEF LogsAligned, AnswerStages, EvaluationStages, DecisionStages
<1>4. BoardInv(c)
  BY <1>2, <1>3, EntryPaid
<1>. QED
  BY <1>4 DEF c

\* An evaluation of the current question's answer.
LEMMA EvaluationPublished ==
    ASSUME NEW b \in Board, BoardInv(b), b.stage = "EVALUATING", b.questions # << >>
    PROVE  BoardInv(Evaluated(b, CurrentQuestion(b)))
<1> DEFINE c == Evaluated(b, CurrentQuestion(b))
<1>1. /\ Append(b.evaluations, CurrentQuestion(b)) \in Seq(QuestionId)
      /\ b.evaluations \in Seq(QuestionId)
  BY CurrentType DEF Board
<1>2. /\ c \in Board /\ c.stage = "DECISION" /\ c.questions = b.questions
      /\ c.answers = b.answers /\ c.evaluations = Append(b.evaluations, CurrentQuestion(b))
      /\ c.decisions = b.decisions /\ c.rounds = b.rounds
      /\ c.question_budget = b.question_budget /\ c.follow_up_budget = b.follow_up_budget
  BY <1>1 DEF Board, Stages, AgentStages, Evaluated
<1>. HIDE DEF c
<1>3. LogsAligned(c)
  <2>1. Owes(c, c.evaluations, EvaluationStages)
    BY <1>1, <1>2, OwesPaid DEF BoardInv, LogsAligned, EvaluationStages
  <2>2. Owes(c, c.answers, AnswerStages) /\ Owes(c, c.decisions, DecisionStages)
    BY <1>2, OwesStill DEF BoardInv, LogsAligned, AnswerStages, DecisionStages
  <2>. QED
    BY <2>1, <2>2 DEF LogsAligned, AnswerStages, EvaluationStages, DecisionStages
<1>4. BoardInv(c)
  BY <1>2, <1>3, EntryPaid
<1>. QED
  BY <1>4 DEF c

\* A decision on the current question, and what the guard makes of it.
LEMMA DecisionPublished ==
    ASSUME NEW b \in Board, BoardInv(b), b.stage = "DECISION", b.questions # << >>,
           NEW c \in Decided([b EXCEPT !.decisions = Append(@, CurrentQuestion(b))])
    PROVE  BoardInv(c)
<1> DEFINE d == [b EXCEPT !.decisions = Append(b.decisions, CurrentQuestion(b))]
<1>1. /\ Append(b.decisions, CurrentQuestion(b)) \in Seq(QuestionId)
      /\ b.decisions \in Seq(QuestionId)
  <2>1. b.decisions \in Seq(QuestionId)
    BY DEF Board
  <2>2. CurrentQuestion(b) \in QuestionId
    BY CurrentType
  <2>. QED
    BY <2>1, <2>2
<1>2. /\ d \in Board /\ d.questions = b.questions /\ d.rounds = b.rounds
      /\ d.answers = b.answers /\ d.evaluations = b.evaluations
      /\ d.decisions = Append(b.decisions, CurrentQuestion(b))
      /\ d.question_budget = b.question_budget /\ d.follow_up_budget = b.follow_up_budget
  BY <1>1 DEF Board
<1>3. c \in Decided(d)
  OBVIOUS
<1>. HIDE DEF d
<1>4. /\ c \in Board
      /\ c.questions = b.questions /\ c.answers = b.answers
      /\ c.evaluations = b.evaluations /\ c.rounds = b.rounds
      /\ c.decisions = Append(b.decisions, CurrentQuestion(b))
      /\ c.question_budget = b.question_budget
      /\ c.stage \in {"REPORTING", "FOLLOW_UP", "NEXT_QUESTION"}
      /\ c.stage = "NEXT_QUESTION" => b.question_budget > 0
      /\ IF c.stage = "FOLLOW_UP"
         THEN c.follow_up_budget = b.follow_up_budget - 1
         ELSE c.follow_up_budget = b.follow_up_budget
  BY <1>2, <1>3, DecidedFields
<1>5. LogsAligned(c)
  <2>1. Owes(c, c.decisions, DecisionStages)
    BY <1>1, <1>4, OwesPaid DEF BoardInv, LogsAligned, DecisionStages
  <2>2. Owes(c, c.answers, AnswerStages) /\ Owes(c, c.evaluations, EvaluationStages)
    BY <1>4, OwesStill DEF BoardInv, LogsAligned, AnswerStages, EvaluationStages
  <2>. QED
    BY <2>1, <2>2 DEF LogsAligned, AnswerStages, EvaluationStages, DecisionStages
<1>6. CASE c.stage # "FOLLOW_UP"
  BY <1>4, <1>5, <1>6, EntryPaid
<1>7. CASE c.stage = "FOLLOW_UP"
  <2>1. IdsDistinct(c) /\ RoundsCover(c)
    BY <1>4 DEF BoardInv, IdsDistinct, RoundsCover
  <2>2. BudgetsAccounted(c)
    <3>1. MainAsked(c) = MainAsked(b) /\ FollowUpsAsked(c) = FollowUpsAsked(b)
      BY <1>4 DEF MainAsked, FollowUpsAsked
    <3>2. /\ b.question_budget + MainAsked(b) = PlannedQuestions
          /\ b.follow_up_budget + FollowUpsAsked(b) + 0 = PlannedFollowUps
      BY DEF BoardInv, BudgetsAccounted
    <3>3. b.follow_up_budget \in Int /\ FollowUpsAsked(b) \in Int
      <4>1. b.follow_up_budget \in Int
        BY DEF Board
      <4>. QED
        BY <4>1, FollowUpsInt
    <3>4. \A x, y \in Int : (x - 1) + y + 1 = x + y + 0
      OBVIOUS
    <3>5. c.follow_up_budget + FollowUpsAsked(c) + 1 = PlannedFollowUps
      BY <1>4, <1>7, <3>1, <3>2, <3>3, <3>4
    <3>. QED
      BY <1>4, <1>7, <3>1, <3>2, <3>5 DEF BudgetsAccounted
  <2>3. BudgetPromised(c) /\ SetupEmpty(c)
    BY <1>7 DEF BudgetPromised, SetupEmpty, SetupStages
  <2>. QED
    BY <1>5, <2>1, <2>2, <2>3 DEF BoardInv
<1>. QED
  BY <1>6, <1>7

\* A step that publishes on the board it started from leaves what a single caller
\* leaves.
LEMMA PublishedInv ==
    ASSUME NEW b \in Board, BoardInv(b), NEW artifact, ArtifactFits(b, b.stage, artifact),
           b.stage \in {"EVALUATING", "DECISION"} => artifact = CurrentQuestion(b),
           b.stage \in QuestionStages => Fresh(b, artifact),
           NEW c \in Published(b, b.stage, artifact)
    PROVE  BoardInv(c)
<1>1. CASE b.stage = "PROFILE_ANALYSIS"
  <2>1. c = [b EXCEPT !.stage = "INTERVIEW_PLANNING"]
    BY <1>1 DEF Published, QuestionStages
  <2>2. /\ c \in Board /\ c.stage = "INTERVIEW_PLANNING" /\ c.questions = b.questions
        /\ c.answers = b.answers /\ c.evaluations = b.evaluations
        /\ c.decisions = b.decisions /\ c.rounds = b.rounds
        /\ c.question_budget = b.question_budget /\ c.follow_up_budget = b.follow_up_budget
    BY <2>1 DEF Board, Stages, AgentStages
  <2>. QED
    BY <1>1, <2>2, StageMoves DEF AnswerStages, EvaluationStages, DecisionStages, SetupStages
<1>2. CASE b.stage = "INTERVIEW_PLANNING"
  <2>1. c = [b EXCEPT !.stage = "QUESTION_PREPARING", !.question_budget = PlannedQuestions,
                      !.follow_up_budget = PlannedFollowUps]
    BY <1>2 DEF Published, QuestionStages
  <2>. QED
    BY <1>2, <2>1, PlanPublished
<1>3. CASE b.stage \in QuestionStages
  <2>1. c = [AddQuestion(b, artifact) EXCEPT !.stage = "QUESTIONING"]
    BY <1>3 DEF Published, QuestionStages
  <2>2. artifact \in QuestionId /\ Fresh(b, artifact)
    BY <1>3 DEF ArtifactFits
  <2>. QED
    BY <1>3, <2>1, <2>2, QuestionPublished
<1>4. CASE b.stage = "EVALUATING"
  <2>1. c = Evaluated(b, CurrentQuestion(b))
    BY <1>4 DEF Published, QuestionStages
  <2>2. b.questions # << >>
    BY <1>4 DEF ArtifactFits
  <2>. QED
    BY <1>4, <2>1, <2>2, EvaluationPublished
<1>5. CASE b.stage = "DECISION"
  <2>1. c \in Decided([b EXCEPT !.decisions = Append(@, CurrentQuestion(b))])
    BY <1>5 DEF Published, QuestionStages
  <2>2. b.questions # << >>
    BY <1>5 DEF ArtifactFits
  <2>. QED
    BY <1>5, <2>1, <2>2, DecisionPublished
<1>6. CASE b.stage = "REPORTING"
  <2>1. c \in {[b EXCEPT !.report = TRUE, !.review = "not_required", !.stage = "FINISHED"],
               [b EXCEPT !.report = TRUE, !.review = "pending", !.stage = "WAITING_HUMAN_REVIEW"]}
    BY <1>6 DEF Published, QuestionStages
  <2>2. /\ c \in Board /\ c.stage \in {"FINISHED", "WAITING_HUMAN_REVIEW"}
        /\ c.questions = b.questions
        /\ c.answers = b.answers /\ c.evaluations = b.evaluations
        /\ c.decisions = b.decisions /\ c.rounds = b.rounds
        /\ c.question_budget = b.question_budget /\ c.follow_up_budget = b.follow_up_budget
    BY <2>1, ZenonT(60) DEF Board, Stages, EndStages
  <2>. QED
    BY <1>6, <2>2, StageMoves DEF AnswerStages, EvaluationStages, DecisionStages, SetupStages
<1>. QED
  BY <1>1, <1>2, <1>3, <1>4, <1>5, <1>6 DEF ArtifactFits, AgentStages

-----------------------------------------------------------------------------
(* All callers of the JSON store *)

\* What a step over a copy relies on.
CopySound(s, stored) ==
    s.phase # "idle" =>
        /\ BoardInv(s.board)
        /\ s.board.stage = s.previous
        /\ ~s.stale => s.board = stored
        /\ s.previous \in {"EVALUATING", "DECISION"} => s.artifact = CurrentQuestion(s.board)
        /\ s.phase = "returned" /\ s.previous \in QuestionStages => Fresh(s.board, s.artifact)

CopyInv ==
    ~live_board => BoardInv(saved) /\ \A c \in Callers : CopySound(step[c], saved)

\* The board a session starts with is one a single caller could have left.
LEMMA InitCopies == Init => CopyInv
<1>. SUFFICES ASSUME Init PROVE CopyInv
  OBVIOUS
<1>1. /\ saved.stage = "INIT" /\ saved.questions = << >> /\ saved.answers = << >>
      /\ saved.evaluations = << >> /\ saved.decisions = << >>
  BY DEF Init, NewBoard
<1>2. LogsAligned(saved)
  BY <1>1 DEF LogsAligned, Owes
<1>3. BoardInv(saved)
  BY <1>1, <1>2 DEF BoardInv, IdsDistinct, BudgetsAccounted, RoundsCover, BudgetPromised, SetupEmpty
<1>4. \A c \in Callers : step[c].phase = "idle"
  BY DEF Init, Idle
<1>. QED
  BY <1>3, <1>4 DEF CopyInv, CopySound

\* A save makes every other copy in use stale.
LEMMA SaveCopies ==
    ASSUME CallersInv, CopyInv, NEW c \in Callers, NEW b, NEW s \in StepType, SaveBy(c, b, s),
           ~live_board => BoardInv(b) /\ CopySound(s, b)
    PROVE  CopyInv'
<1>. SUFFICES ASSUME ~live_board PROVE CopyInv'
  BY DEF SaveBy, CopyInv
<1>1. /\ saved' = b
      /\ step' = [d \in Callers |-> IF d = c THEN s
                                    ELSE [step[d] EXCEPT !.stale = step[d].phase # "idle"]]
  BY DEF SaveBy
<1>2. ASSUME NEW d \in Callers PROVE CopySound(step[d], saved)'
  <2>1. CASE d = c
    BY <1>1, <2>1
  <2>2. CASE d # c
    <3>1. step'[d] = [step[d] EXCEPT !.stale = step[d].phase # "idle"] /\ step[d] \in StepType
      BY <1>1, <2>2 DEF CallersInv, ConcurrencyTypeOK
    <3>2. /\ step'[d].phase = step[d].phase /\ step'[d].previous = step[d].previous
          /\ step'[d].board = step[d].board /\ step'[d].artifact = step[d].artifact
          /\ step'[d].stale = (step[d].phase # "idle")
      BY <3>1 DEF StepType
    <3>3. CopySound(step[d], saved)
      BY DEF CopyInv
    <3>. QED
      BY <3>2, <3>3 DEF CopySound
  <2>. QED
    BY <2>1, <2>2
<1>. QED
  BY <1>1, <1>2 DEF CopyInv

\* A save after which the saver's step is over.
LEMMA SaveIdleCopies ==
    ASSUME CallersInv, CopyInv, NEW c \in Callers, NEW b, SaveBy(c, b, Idle),
           ~live_board => BoardInv(b)
    PROVE  CopyInv'
<1>1. Idle \in StepType
  BY NewBoardType
<1>2. CopySound(Idle, b)
  BY DEF CopySound, Idle
<1>. QED
  BY <1>1, <1>2, SaveCopies

\* run_step in INIT and in QUESTIONING moves the stage only.
LEMMA PassThroughCopies ==
    ASSUME CallersInv, CopyInv, NEW c \in Callers, PassThrough(c) PROVE CopyInv'
<1> DEFINE b == [saved EXCEPT !.stage = IF saved.stage = "INIT" THEN "PROFILE_ANALYSIS"
                                        ELSE "LISTENING"]
<1>1. saved \in Board /\ saved.stage \in {"INIT", "QUESTIONING"} /\ SaveBy(c, b, Idle)
  BY DEF PassThrough, CallersInv, ConcurrencyTypeOK
<1>2. /\ b \in Board /\ b.questions = saved.questions /\ b.answers = saved.answers
      /\ b.evaluations = saved.evaluations /\ b.decisions = saved.decisions
      /\ b.rounds = saved.rounds /\ b.question_budget = saved.question_budget
      /\ b.follow_up_budget = saved.follow_up_budget
      /\ b.stage = IF saved.stage = "INIT" THEN "PROFILE_ANALYSIS" ELSE "LISTENING"
  BY <1>1 DEF Board, Stages, AgentStages
<1>. HIDE DEF b
<1>3. ~live_board => BoardInv(b)
  BY <1>1, <1>2, StageMoves DEF CopyInv, AnswerStages, EvaluationStages, DecisionStages, SetupStages
<1>. QED
  BY <1>1, <1>3, SaveIdleCopies

\* An answer pays what the board owes.
LEMMA ReceiveAnswerCopies ==
    ASSUME CallersInv, CopyInv, NEW c \in Callers, ReceiveAnswer(c) PROVE CopyInv'
<1> DEFINE b == [saved EXCEPT !.answers = Append(@, CurrentQuestion(saved)),
                              !.stage = "EVALUATING"]
<1>1. /\ saved \in Board /\ saved.stage = "LISTENING" /\ saved.questions # << >>
      /\ SaveBy(c, b, Idle)
  BY DEF ReceiveAnswer, CallersInv, ConcurrencyTypeOK
<1>2. ~live_board => BoardInv(b)
  BY <1>1, AnswerPublished DEF CopyInv
<1>. HIDE DEF b
<1>. QED
  BY <1>1, <1>2, SaveIdleCopies

\* A ruling ends the interview and touches no log.
LEMMA SubmitHumanReviewCopies ==
    ASSUME CallersInv, CopyInv, NEW c \in Callers, SubmitHumanReview(c) PROVE CopyInv'
<1>1. PICK approved \in BOOLEAN : SaveBy(c, Ruled(saved, approved), Idle)
  BY DEF SubmitHumanReview
<1> DEFINE b == Ruled(saved, approved)
<1>2. saved \in Board /\ saved.stage = "WAITING_HUMAN_REVIEW"
  BY DEF SubmitHumanReview, CallersInv, ConcurrencyTypeOK
<1>3. /\ b \in Board /\ b.questions = saved.questions /\ b.answers = saved.answers
      /\ b.evaluations = saved.evaluations /\ b.decisions = saved.decisions
      /\ b.rounds = saved.rounds /\ b.question_budget = saved.question_budget
      /\ b.follow_up_budget = saved.follow_up_budget
      /\ b.stage \in {"FINISHED", "FAILED"}
  BY <1>2 DEF Board, Stages, EndStages, Ruled
<1>4. SaveBy(c, b, Idle)
  BY <1>1
<1>. HIDE DEF b
<1>5. ~live_board => BoardInv(b)
  <2>. SUFFICES ASSUME BoardInv(saved) PROVE BoardInv(b)
    BY DEF CopyInv
  <2>1. CASE b.stage = "FINISHED"
    BY <1>2, <1>3, <2>1, StageMoves
       DEF AnswerStages, EvaluationStages, DecisionStages, SetupStages
  <2>2. CASE b.stage = "FAILED"
    BY <1>2, <1>3, <2>2, StageFails
  <2>. QED
    BY <1>3, <2>1, <2>2
<1>. QED
  BY <1>4, <1>5, SaveIdleCopies

\* A step begins on a copy of the stored board.
LEMMA BeginStepCopies ==
    ASSUME CallersInv, CopyInv, NEW c \in Callers, BeginStep(c) PROVE CopyInv'
<1>. SUFFICES ASSUME ~live_board PROVE CopyInv'
  BY DEF BeginStep, CopyInv
<1> DEFINE s == [phase |-> "started", previous |-> saved.stage, board |-> saved,
                 artifact |-> IF saved.stage \in {"EVALUATING", "DECISION"}
                              THEN CurrentQuestion(saved) ELSE NoArtifact,
                 stale |-> FALSE]
<1>1. /\ step' = [step EXCEPT ![c] = s] /\ saved' = saved
      /\ step \in [Callers -> StepType] /\ BoardInv(saved)
  BY DEF BeginStep, CopyInv, CallersInv, ConcurrencyTypeOK
<1>2. CopySound(s, saved)
  BY <1>1 DEF CopySound
<1>. HIDE DEF s
<1>. QED
  BY <1>1, <1>2 DEF CopyInv

\* What a search on a copy comes back with has not been asked on that copy.
LEMMA ReturnedFresh ==
    ASSUME NEW b \in Board, BoardInv(b), HasQuestion(b),
           NEW id \in QuestionId,
           IF b.stage = "FOLLOW_UP" THEN id \in FollowUpIds(b) ELSE id \in MainIds(b)
    PROVE  Fresh(b, id)
<1>1. CASE b.stage # "FOLLOW_UP"
  BY <1>1 DEF MainIds, Fresh
<1>2. CASE b.stage = "FOLLOW_UP"
  <2> DEFINE main == CurrentQuestion(b)[1]
  <2>1. id = <<main, b.rounds[main] + 1>>
    BY <1>2 DEF FollowUpIds
  <2>2. b.rounds[main] \in Nat
    BY <1>2, CurrentType DEF HasQuestion, AskedStages, QuestionId, Board
  <2>. HIDE DEF main
  <2>3. \A i \in DOMAIN b.questions : b.questions[i][2] <= b.rounds[b.questions[i][1]]
    BY DEF BoardInv, RoundsCover
  <2>4. ASSUME NEW i \in DOMAIN b.questions, b.questions[i] = id PROVE FALSE
    BY <2>1, <2>2, <2>3, <2>4
  <2>5. id \notin AskedIds(b)
    BY <2>4 DEF AskedIds
  <2>. QED
    BY <1>2, <2>1, <2>5 DEF Fresh
<1>. QED
  BY <1>1, <1>2

\* The agent of a step over a copy returns.
LEMMA AgentReturnsCopies ==
    ASSUME CallersInv, CopyInv, NEW c \in Callers, AgentReturns(c) PROVE CopyInv'
<1>. SUFFICES ASSUME ~live_board PROVE CopyInv'
  BY DEF AgentReturns, CopyInv
<1>1. PICK artifact \in Returned(c) :
         step' = [step EXCEPT ![c].phase = "returned", ![c].artifact = artifact]
  BY DEF AgentReturns
<1>2. /\ step[c].phase = "started" /\ saved' = saved /\ step \in [Callers -> StepType]
      /\ step[c] \in StepType /\ CopySound(step[c], saved) /\ Held(c) = step[c].board
  BY DEF AgentReturns, CallersInv, CopyInv, ConcurrencyTypeOK, Held
<1> DEFINE b == step[c].board
<1>3. b \in Board /\ BoardInv(b) /\ HasQuestion(b) /\ b.stage = step[c].previous
  BY <1>2, HeldType DEF CopySound
<1>4. step[c].previous \in QuestionStages => Fresh(b, artifact)
  <2>. SUFFICES ASSUME step[c].previous \in QuestionStages PROVE Fresh(b, artifact)
    OBVIOUS
  <2>1. FollowUpIds(b) \subseteq QuestionId /\ MainIds(b) \subseteq QuestionId
    BY <1>3, QuestionIdsTyped
  <2>2. IF b.stage = "FOLLOW_UP" THEN artifact \in FollowUpIds(b) ELSE artifact \in MainIds(b)
    BY <1>2, <1>3 DEF Returned, FollowUpIds
  <2>. HIDE DEF b
  <2>. QED
    BY <1>3, <2>1, <2>2, ReturnedFresh
<1>5. step[c].previous \notin QuestionStages => artifact = step[c].artifact
  BY DEF Returned
<1> DEFINE s == [step[c] EXCEPT !.phase = "returned", !.artifact = artifact]
<1>6. step' = [step EXCEPT ![c] = s]
  BY <1>1, <1>2
<1>7. /\ s.phase = "returned" /\ s.previous = step[c].previous /\ s.board = step[c].board
      /\ s.artifact = artifact /\ s.stale = step[c].stale
  BY <1>2 DEF StepType
<1>. HIDE DEF s
<1>8. CopySound(s, saved)
  BY <1>2, <1>4, <1>5, <1>7 DEF CopySound, QuestionStages
<1>. QED
  BY <1>2, <1>6, <1>8 DEF CopyInv

\* The step's result is published on the copy it started from.
LEMMA FinishStepCopies ==
    ASSUME CallersInv, CopyInv, NEW c \in Callers, FinishStep(c) PROVE CopyInv'
<1>1. PICK b \in Published(Held(c), step[c].previous, step[c].artifact) : SaveBy(c, b, Idle)
  BY DEF FinishStep
<1>2. ~live_board => BoardInv(b)
  <2>. SUFFICES ASSUME ~live_board PROVE BoardInv(b)
    OBVIOUS
  <2>1. /\ step[c].phase = "returned" /\ CopySound(step[c], saved)
        /\ StepSound(step[c], Held(c)) /\ Held(c) \in Board
    BY HeldType DEF FinishStep, CopyInv, CallersInv
  <2>2. Held(c) = step[c].board
    BY DEF Held
  <2>3. BoardInv(Held(c)) /\ Held(c).stage = step[c].previous
    BY <2>1, <2>2 DEF CopySound
  <2>4. ArtifactFits(Held(c), Held(c).stage, step[c].artifact)
    BY <2>1, <2>3 DEF StepSound, ArtifactFits
  <2>. QED
    BY <1>1, <2>1, <2>2, <2>3, <2>4, PublishedInv DEF CopySound
<1>. QED
  BY <1>1, <1>2, SaveIdleCopies

\* A step whose attempts all failed saves its copy as it was, in the stage FAILED.
LEMMA FailStepCopies ==
    ASSUME CallersInv, CopyInv, NEW c \in Callers, FailStep(c) PROVE CopyInv'
<1> DEFINE b == [Held(c) EXCEPT !.stage = "FAILED"]
<1>1. SaveBy(c, b, Idle) /\ step[c].phase = "started" /\ Held(c) \in Board
  BY HeldType DEF FailStep
<1>2. /\ b \in Board /\ b.stage = "FAILED" /\ b.questions = Held(c).questions
      /\ b.answers = Held(c).answers /\ b.evaluations = Held(c).evaluations
      /\ b.decisions = Held(c).decisions /\ b.rounds = Held(c).rounds
  BY <1>1 DEF Board, Stages, EndStages
<1>. HIDE DEF b
<1>3. ~live_board => BoardInv(b)
  <2>. SUFFICES ASSUME ~live_board PROVE BoardInv(b)
    OBVIOUS
  <2>1. BoardInv(Held(c))
    BY <1>1 DEF CopyInv, CopySound, Held
  <2>. QED
    BY <1>1, <1>2, <2>1, StageFails
<1>. QED
  BY <1>1, <1>3, SaveIdleCopies

\* A durable record is saved together with the copy the step holds.
LEMMA PersistRecordCopies ==
    ASSUME CallersInv, CopyInv, NEW c \in Callers, PersistRecord(c) PROVE CopyInv'
<1>1. PICK r \in Records \ Held(c).records :
         SaveBy(c, [Held(c) EXCEPT !.records = Held(c).records \cup {r}],
                [step[c] EXCEPT !.board = IF live_board THEN step[c].board
                                          ELSE [Held(c) EXCEPT !.records = Held(c).records \cup {r}],
                                !.stale = FALSE])
  BY DEF PersistRecord
<1> DEFINE b == [Held(c) EXCEPT !.records = Held(c).records \cup {r}]
           s == [step[c] EXCEPT !.board = IF live_board THEN step[c].board ELSE b, !.stale = FALSE]
<1>2. SaveBy(c, b, s)
  BY <1>1
<1>3. /\ step[c].phase = "started" /\ step[c].previous = "PROFILE_ANALYSIS"
      /\ step[c] \in StepType /\ Held(c) \in Board
  BY HeldType DEF PersistRecord, CallersInv, ConcurrencyTypeOK
<1>4. /\ b \in Board /\ b.stage = Held(c).stage /\ b.questions = Held(c).questions
      /\ b.answers = Held(c).answers /\ b.evaluations = Held(c).evaluations
      /\ b.decisions = Held(c).decisions /\ b.rounds = Held(c).rounds
      /\ b.question_budget = Held(c).question_budget
      /\ b.follow_up_budget = Held(c).follow_up_budget
  BY <1>3 DEF Board
<1>. HIDE DEF b
<1>5. /\ s \in StepType /\ s.phase = "started" /\ s.previous = "PROFILE_ANALYSIS"
      /\ s.stale = FALSE /\ (~live_board => s.board = b)
  BY <1>3, <1>4 DEF StepType
<1>. HIDE DEF s
<1>6. ~live_board => BoardInv(b) /\ CopySound(s, b)
  <2>. SUFFICES ASSUME ~live_board PROVE BoardInv(b) /\ CopySound(s, b)
    OBVIOUS
  <2>1. BoardInv(Held(c)) /\ Held(c).stage = "PROFILE_ANALYSIS"
    BY <1>3 DEF CopyInv, CopySound, Held
  <2>2. BoardInv(b)
    BY <1>3, <1>4, <2>1, StageMoves
       DEF AnswerStages, EvaluationStages, DecisionStages, SetupStages
  <2>. QED
    BY <1>4, <1>5, <2>1, <2>2 DEF CopySound, QuestionStages
<1>. QED
  BY <1>2, <1>5, <1>6, SaveCopies

\* Steps that are given up leave the stored board and the other copies alone.
LEMMA IdleCopies ==
    ASSUME CopyInv, UNCHANGED <<live_board, saved>>,
           \A c \in Callers : step'[c] = step[c] \/ step'[c] = Idle
    PROVE  CopyInv'
<1>. SUFFICES ASSUME ~live_board PROVE CopyInv'
  BY DEF CopyInv
<1>1. ASSUME NEW c \in Callers PROVE CopySound(step[c], saved)'
  <2>1. CASE step'[c] = step[c]
    BY <2>1 DEF CopyInv
  <2>2. CASE step'[c] = Idle
    BY <2>2 DEF CopySound, Idle
  <2>. QED
    BY <2>1, <2>2
<1>. QED
  BY <1>1 DEF CopyInv

\* One step of any caller keeps every copy one a single caller could have left.
LEMMA NextCopies == CallersInv /\ CopyInv /\ [Next]_vars => CopyInv'
<1>. SUFFICES ASSUME CallersInv, CopyInv, [Next]_vars PROVE CopyInv'
  OBVIOUS
<1>0. step \in [Callers -> StepType]
  BY DEF CallersInv, ConcurrencyTypeOK
<1>1. ASSUME NEW c \in Callers, AbandonStep(c) PROVE CopyInv'
  BY <1>0, <1>1, IdleCopies DEF AbandonStep
<1>2. CASE Crash
  BY <1>0, <1>2, IdleCopies DEF Crash
<1>3. CASE UNCHANGED vars
  BY <1>0, <1>3, IdleCopies DEF vars
<1>. QED
  BY <1>1, <1>2, <1>3, PassThroughCopies, ReceiveAnswerCopies, SubmitHumanReviewCopies,
     BeginStepCopies, AgentReturnsCopies, FinishStepCopies, FailStepCopies,
     PersistRecordCopies DEF Next

\* Over the JSON store, the stored board and every copy somebody may still save is one
\* a single caller could have left.
THEOREM CopiesSound == Spec => [](CallersInv /\ CopyInv)
<1>1. Init => CallersInv /\ CopyInv
  BY InitCallers, InitCopies
<1>2. CallersInv /\ CopyInv /\ [Next]_vars => (CallersInv /\ CopyInv)'
  BY NextCallers, NextCopies
<1>. QED
  BY <1>1, <1>2, PTL DEF Spec

\* However many callers load, run and save at once, with the JSON store answers,
\* evaluations and decisions line up with the questions on every board, no question id
\* occurs twice, and the budgets account for the questions asked.
THEOREM NothingMixed == Spec => []SnapshotsConsistent
<1>1. CallersInv /\ CopyInv => SnapshotsConsistent
  <2>. SUFFICES ASSUME CopyInv, ~live_board, NEW b \in Copies
                PROVE  LogsAligned(b) /\ IdsDistinct(b) /\ BudgetsAccounted(b)
    BY DEF SnapshotsConsistent
  <2>1. BoardInv(b)
    BY DEF Copies, CopyInv, CopySound
  <2>. QED
    BY <2>1 DEF BoardInv
<1>. QED
  BY <1>1, CopiesSound, PTL

\* A step either keeps what was saved or is a save, over the JSON store, of a caller
\* that loaded before somebody else saved.
StepUndoes ==
    \/ /\ Extends(saved', saved)
       /\ ~live_board /\ saved.stage \in EndStages => saved' = saved
    \/ ~live_board /\ \E c \in Callers : step[c].stale /\ ~step'[c].stale

\* A step that saves what it holds, and is no longer stale afterwards.
LEMMA HeldSaved ==
    ASSUME CallersInv, CopyInv, NEW c \in Callers, step[c].phase # "idle",
           Keeps(Held(c), saved'), step'[c].stale = FALSE
    PROVE  StepUndoes
<1>1. CASE live_board
  <2>1. Held(c) = saved
    BY <1>1 DEF Held
  <2>. QED
    BY <1>1, <2>1 DEF Keeps, StepUndoes
<1>2. CASE ~live_board /\ step[c].stale
  BY <1>2 DEF StepUndoes
<1>3. CASE ~live_board /\ ~step[c].stale
  <2>1. Held(c) = saved /\ saved.stage \in AgentStages
    BY <1>3 DEF Held, CopyInv, CopySound, CallersInv, StepSound
  <2>2. saved.stage \notin EndStages
    BY <2>1 DEF AgentStages, QuestionStages, EndStages
  <2>. QED
    BY <2>1, <2>2 DEF Keeps, StepUndoes
<1>. QED
  BY <1>1, <1>2, <1>3

\* One step of any caller.
LEMMA NextUndoes == CallersInv /\ CopyInv /\ [Next]_vars => StepUndoes
<1>. SUFFICES ASSUME CallersInv, CopyInv, [Next]_vars PROVE StepUndoes
  OBVIOUS
<1>0. saved \in Board /\ step \in [Callers -> StepType]
  BY DEF CallersInv, ConcurrencyTypeOK
<1>1. CASE saved' = saved
  <2>1. Extends(saved, saved)
    BY <1>0, ExtendsItself DEF Extends
  <2>. QED
    BY <1>1, <2>1 DEF StepUndoes
<1>2. ASSUME NEW c \in Callers, PassThrough(c) \/ ReceiveAnswer(c) \/ SubmitHumanReview(c)
      PROVE  StepUndoes
  <2>1. Keeps(saved, saved')
    BY <1>2, PassThroughCallers, ReceiveAnswerCallers, SubmitHumanReviewCallers
  <2>2. saved.stage \notin EndStages
    BY <1>2 DEF PassThrough, ReceiveAnswer, SubmitHumanReview, EndStages
  <2>. QED
    BY <2>1, <2>2 DEF Keeps, StepUndoes
<1>3. ASSUME NEW c \in Callers, FinishStep(c) \/ FailStep(c) PROVE StepUndoes
  <2>1. step[c].phase # "idle" /\ Keeps(Held(c), saved')
    BY <1>3, FinishStepCallers, FailStepCallers DEF FinishStep, FailStep
  <2>2. step'[c] = Idle
    BY <1>3 DEF FinishStep, FailStep, SaveBy
  <2>3. step'[c].stale = FALSE
    BY <2>2 DEF Idle
  <2>. QED
    BY <2>1, <2>3, HeldSaved
<1>4. ASSUME NEW c \in Callers, PersistRecord(c) PROVE StepUndoes
  <2>1. step[c].phase # "idle" /\ Keeps(Held(c), saved')
    BY <1>4, PersistRecordCallers DEF PersistRecord
  <2>2. step'[c].stale = FALSE
    <3>1. step[c] \in StepType
      BY <1>0
    <3>. QED
      BY <1>4, <3>1 DEF PersistRecord, SaveBy, StepType
  <2>. QED
    BY <2>1, <2>2, HeldSaved
<1>5. ASSUME NEW c \in Callers, BeginStep(c) \/ AgentReturns(c) \/ AbandonStep(c)
      PROVE  saved' = saved
  BY <1>5 DEF BeginStep, AgentReturns, AbandonStep
<1>6. Crash \/ UNCHANGED vars => saved' = saved
  BY DEF Crash, vars
<1>. QED
  BY <1>1, <1>2, <1>3, <1>4, <1>5, <1>6 DEF Next

\* Nothing that was saved is undone, but by the save of a step over the JSON store that
\* loaded before somebody else saved.
THEOREM OnlyStaleUndo == Spec => OnlyStaleStepsUndo
<1>1. CallersInv /\ CopyInv /\ [Next]_vars =>
      [\/ /\ Extends(saved', saved)
          /\ ~live_board /\ saved.stage \in EndStages => saved' = saved
       \/ ~live_board /\ \E c \in Callers : step[c].stale /\ ~step'[c].stale]_vars
  BY NextUndoes DEF StepUndoes
<1>. QED
  BY <1>1, CopiesSound, PTL DEF Spec, OnlyStaleStepsUndo

-----------------------------------------------------------------------------
(* How many evaluations *)

\* Who may still score the answer that is due, or one that was.
Pending == {c \in Callers : step[c].phase # "idle" /\ step[c].previous = "EVALUATING"}

\* With a live board every pending evaluation is already paid for, and so is one of
\* every caller while an answer is due; a copy never has more evaluations than answers.
ScoreInv ==
    /\ Callers = {} => saved = NewBoard
    /\ live_board =>
          /\ Len(saved.evaluations) + Cardinality(Pending)
                <= Cardinality(Callers) * Len(saved.answers)
          /\ saved.stage = "EVALUATING" =>
                Len(saved.evaluations) + Cardinality(Callers)
                    <= Cardinality(Callers) * Len(saved.answers)
    /\ ~live_board =>
          /\ Len(saved.evaluations) <= Len(saved.answers)
          /\ \A c \in Callers : step[c].phase # "idle" =>
                Len(step[c].board.evaluations) <= Len(step[c].board.answers)

\* Callers are counted, and so are those with an evaluation to publish.
LEMMA PendingCount ==
    /\ IsFiniteSet(Callers) /\ Cardinality(Callers) \in Nat
    /\ IsFiniteSet(Pending) /\ Cardinality(Pending) \in Nat
    /\ Cardinality(Pending) <= Cardinality(Callers)
<1>1. IsFiniteSet(Callers) /\ Pending \subseteq Callers
  BY ConcurrencyAssumption DEF Pending
<1>2. IsFiniteSet(Pending) /\ Cardinality(Pending) <= Cardinality(Callers)
  BY <1>1, FS_Subset, Zenon
<1>. QED
  BY <1>1, <1>2, FS_CardinalityType

\* The same after a step.
LEMMA PendingCountNext ==
    /\ IsFiniteSet(Pending') /\ Cardinality(Pending)' \in Nat
    /\ Cardinality(Pending)' <= Cardinality(Callers)
<1>1. IsFiniteSet(Callers) /\ Pending' \subseteq Callers
  BY ConcurrencyAssumption DEF Pending
<1>2. IsFiniteSet(Pending') /\ Cardinality(Pending') <= Cardinality(Callers)
  BY <1>1, FS_Subset, Zenon
<1>. QED
  BY <1>1, <1>2, FS_CardinalityType

\* There is no caller before one exists, and no evaluation.
LEMMA InitScores == Init => ScoreInv
<1>. SUFFICES ASSUME Init PROVE ScoreInv
  OBVIOUS
<1>1. /\ saved = NewBoard /\ saved.stage = "INIT"
      /\ Len(saved.evaluations) = 0 /\ Len(saved.answers) = 0
      /\ \A c \in Callers : step[c].phase = "idle"
  BY DEF Init, NewBoard, Idle
<1>2. Pending = {}
  BY <1>1 DEF Pending
<1>3. Cardinality(Pending) = 0
  BY <1>2, FS_EmptySet
<1>4. Cardinality(Callers) * 0 = 0
  BY PendingCount
<1>. QED
  BY <1>1, <1>3, <1>4 DEF ScoreInv

\* N callers score one answer more often by at most N.
LEMMA OneMoreAnswer ==
    ASSUME NEW n \in Nat, NEW a \in Nat, NEW b \in Nat, a <= b
    PROVE  /\ n * a \in Nat /\ n * b \in Nat /\ n * a <= n * b
           /\ a + 1 <= b => n * a + n <= n * b
           /\ n > 0 => a <= n * a
<1>1. n * a \in Nat /\ n * b \in Nat
  BY SMT
<1>2. PICK d \in Nat : b = a + d
  <2>1. b - a \in Nat /\ b = a + (b - a)
    OBVIOUS
  <2>. QED
    BY <2>1
<1>3. n * b = n * a + n * d /\ n * d \in Nat
  BY <1>2, SMT
<1>4. n * a <= n * b
  BY <1>1, <1>3
<1>5. ASSUME a + 1 <= b PROVE n * a + n <= n * b
  <2>1. PICK e \in Nat : d = e + 1
    <3>1. d - 1 \in Nat /\ d = (d - 1) + 1
      BY <1>2, <1>5
    <3>. QED
      BY <3>1
  <2>2. n * d = n * e + n /\ n * e \in Nat
    BY <2>1, SMT
  <2>. QED
    BY <1>1, <1>3, <2>2
<1>6. ASSUME n > 0 PROVE a <= n * a
  <2>1. PICK m \in Nat : n = m + 1
    <3>1. n - 1 \in Nat /\ n = (n - 1) + 1
      BY <1>6
    <3>. QED
      BY <3>1
  <2>2. n * a = m * a + a /\ m * a \in Nat
    BY <2>1, SMT
  <2>. QED
    BY <2>2
<1>. QED
  BY <1>1, <1>4, <1>5, <1>6

\* What a save by c may do to the evaluations of the board that c holds: add one if
\* it is c's own, and make an answer due only by accepting one.
ScoresOne(held, b, pending) ==
    /\ Len(held.answers) <= Len(b.answers)
    /\ \/ Len(b.evaluations) = Len(held.evaluations)
       \/ pending /\ Len(b.evaluations) = Len(held.evaluations) + 1 /\ b.stage # "EVALUATING"
    /\ b.stage = "EVALUATING" =>
          held.stage = "EVALUATING" \/ Len(held.answers) + 1 <= Len(b.answers)

\* A save takes its caller off the list of pending evaluations.
LEMMA SavePending ==
    ASSUME CallersInv, NEW c \in Callers, NEW b, NEW s, SaveBy(c, b, s),
           s.phase = "idle" \/ s.previous # "EVALUATING"
    PROVE  Cardinality(Pending)' = IF c \in Pending THEN Cardinality(Pending) - 1
                                   ELSE Cardinality(Pending)
<1>1. step \in [Callers -> StepType]
  BY DEF CallersInv, ConcurrencyTypeOK
<1>2. step' = [d \in Callers |-> IF d = c THEN s
                                 ELSE [step[d] EXCEPT !.stale = step[d].phase # "idle"]]
  BY DEF SaveBy
<1>3. ASSUME NEW d \in Callers, d # c
      PROVE  step'[d].phase = step[d].phase /\ step'[d].previous = step[d].previous
  BY <1>1, <1>2, <1>3 DEF StepType
<1>4. step'[c] = s
  BY <1>2
<1>5. Pending' = Pending \ {c}
  BY <1>3, <1>4 DEF Pending
<1>. QED
  BY <1>5, PendingCount, FS_RemoveElement

\* With a live board, a save keeps every evaluation paid for.
LEMMA LiveSaveScores ==
    ASSUME CallersInv, ScoreInv, live_board, NEW c \in Callers, NEW b \in Board, NEW s,
           SaveBy(c, b, s), s.phase = "idle" \/ s.previous # "EVALUATING",
           ScoresOne(saved, b, c \in Pending)
    PROVE  ScoreInv'
<1> DEFINE n == Cardinality(Callers)
           p == Cardinality(Pending)
           q == Cardinality(Pending)'
           e == Len(saved.evaluations)
           a == Len(saved.answers)
           f == Len(b.evaluations)
           r == Len(b.answers)
<1>1. saved \in Board
  BY DEF CallersInv, ConcurrencyTypeOK
<1>2. n \in Nat /\ p \in Nat /\ q \in Nat /\ p <= n /\ q <= n
  BY PendingCount, PendingCountNext
<1>3. e \in Nat /\ a \in Nat /\ f \in Nat /\ r \in Nat
  BY <1>1, LogLengths
<1>4. e + p <= n * a /\ (saved.stage = "EVALUATING" => e + n <= n * a)
  BY DEF ScoreInv
<1>5. q = IF c \in Pending THEN p - 1 ELSE p
  BY SavePending
<1>6. /\ a <= r
      /\ f = e \/ (c \in Pending /\ f = e + 1 /\ b.stage # "EVALUATING")
      /\ b.stage = "EVALUATING" => saved.stage = "EVALUATING" \/ a + 1 <= r
  BY DEF ScoresOne
<1>7. saved' = b /\ live_board' = live_board /\ Callers # {}
  BY DEF SaveBy
<1>. HIDE DEF n, p, q, e, a, f, r
<1>8. /\ n * a \in Nat /\ n * r \in Nat /\ n * a <= n * r
      /\ a + 1 <= r => n * a + n <= n * r
  BY <1>2, <1>3, <1>6, OneMoreAnswer
<1>9. f + q <= e + p
  BY <1>2, <1>3, <1>5, <1>6
<1>10. f + q <= n * r
  <2> DEFINE x == n * a
             y == n * r
  <2>1. x \in Nat /\ y \in Nat /\ x <= y /\ e + p <= x
    BY <1>4, <1>8
  <2>. HIDE DEF x, y
  <2>2. f + q <= y
    BY <1>2, <1>3, <1>9, <2>1
  <2>. QED
    BY <2>2 DEF y
<1>11. b.stage = "EVALUATING" => f + n <= n * r
  <2>. SUFFICES ASSUME b.stage = "EVALUATING" PROVE f + n <= n * r
    OBVIOUS
  <2> DEFINE x == n * a
             y == n * r
  <2>1. x \in Nat /\ y \in Nat /\ x <= y /\ e + p <= x
    BY <1>4, <1>8
  <2>2. f = e /\ (saved.stage = "EVALUATING" \/ a + 1 <= r)
    BY <1>6
  <2>3. (saved.stage = "EVALUATING" => e + n <= x) /\ (a + 1 <= r => x + n <= y)
    BY <1>4, <1>8
  <2>. HIDE DEF x, y
  <2>4. f + n <= y
    BY <1>2, <1>3, <2>1, <2>2, <2>3
  <2>. QED
    BY <2>4 DEF y
<1>. QED
  BY <1>7, <1>10, <1>11 DEF ScoreInv, n, q, f, r

\* Over the JSON store, a save replaces the stored board and, in the middle of a step,
\* the copy of the step.
LEMMA CopySaveScores ==
    ASSUME CallersInv, ScoreInv, ~live_board, NEW c \in Callers, NEW b, NEW s, SaveBy(c, b, s),
           Len(b.evaluations) <= Len(b.answers), s.phase = "idle" \/ s.board = b
    PROVE  ScoreInv'
<1>1. step \in [Callers -> StepType]
  BY DEF CallersInv, ConcurrencyTypeOK
<1>2. /\ saved' = b /\ live_board' = live_board /\ Callers # {}
      /\ step' = [d \in Callers |-> IF d = c THEN s
                                    ELSE [step[d] EXCEPT !.stale = step[d].phase # "idle"]]
  BY DEF SaveBy
<1>3. ASSUME NEW d \in Callers, step'[d].phase # "idle"
      PROVE  Len(step'[d].board.evaluations) <= Len(step'[d].board.answers)
  <2>1. CASE d = c
    BY <1>2, <1>3, <2>1
  <2>2. CASE d # c
    <3>1. step'[d].phase = step[d].phase /\ step'[d].board = step[d].board
      BY <1>1, <1>2, <2>2 DEF StepType
    <3>. QED
      BY <1>3, <3>1 DEF ScoreInv
  <2>. QED
    BY <2>1, <2>2
<1>. QED
  BY <1>2, <1>3 DEF ScoreInv

\* A save that scores nothing but what its step started from, over either store.
LEMMA SaveScores ==
    ASSUME CallersInv, ScoreInv, NEW c \in Callers, NEW old \in Board, NEW b \in Board, NEW s,
           SaveBy(c, b, s), ScoresOne(old, b, c \in Pending),
           s.phase = "idle" \/ (s.previous # "EVALUATING" /\ (~live_board => s.board = b)),
           live_board => old = saved,
           ~live_board => Len(b.evaluations) <= Len(b.answers)
    PROVE  ScoreInv'
  BY LiveSaveScores, CopySaveScores

\* A save that adds no evaluation and makes no answer due.
LEMMA SaveUnscored ==
    ASSUME CallersInv, ScoreInv, NEW c \in Callers, NEW old \in Board, NEW b \in Board, NEW s,
           SaveBy(c, b, s), Len(b.answers) = Len(old.answers),
           Len(b.evaluations) = Len(old.evaluations),
           b.stage = "EVALUATING" => old.stage = "EVALUATING",
           s.phase = "idle" \/ (s.previous # "EVALUATING" /\ (~live_board => s.board = b)),
           live_board => old = saved,
           ~live_board => Len(old.evaluations) <= Len(old.answers)
    PROVE  ScoreInv'
<1>1. Len(b.answers) \in Nat /\ Len(old.answers) \in Nat
  BY LogLengths
<1>2. ScoresOne(old, b, c \in Pending)
  BY <1>1 DEF ScoresOne
<1>. QED
  BY <1>2, SaveScores

\* run_step in INIT and in QUESTIONING scores nothing.
LEMMA PassThroughScores ==
    ASSUME CallersInv, ScoreInv, NEW c \in Callers, PassThrough(c)
    PROVE  ScoreInv'
<1> DEFINE b == [saved EXCEPT !.stage = IF saved.stage = "INIT" THEN "PROFILE_ANALYSIS"
                                        ELSE "LISTENING"]
<1>1. saved \in Board /\ SaveBy(c, b, Idle)
  BY DEF CallersInv, ConcurrencyTypeOK, PassThrough
<1>2. /\ b \in Board /\ b.answers = saved.answers /\ b.evaluations = saved.evaluations
      /\ b.stage # "EVALUATING"
  BY <1>1 DEF Board, Stages, AgentStages
<1>. HIDE DEF b
<1>. QED
  BY <1>1, <1>2, SaveUnscored DEF Idle, ScoreInv

\* An accepted answer may be scored once by every caller.
LEMMA ReceiveAnswerScores ==
    ASSUME CallersInv, ScoreInv, NEW c \in Callers, ReceiveAnswer(c)
    PROVE  ScoreInv'
<1> DEFINE b == [saved EXCEPT !.answers = Append(@, CurrentQuestion(saved)),
                              !.stage = "EVALUATING"]
<1>1. saved \in Board /\ saved.questions # << >> /\ SaveBy(c, b, Idle)
  BY DEF CallersInv, ConcurrencyTypeOK, ReceiveAnswer
<1>2. CurrentQuestion(saved) \in QuestionId /\ saved.answers \in Seq(QuestionId)
  BY <1>1, CurrentType DEF Board
<1>3. /\ b \in Board /\ b.answers = Append(saved.answers, CurrentQuestion(saved))
      /\ b.evaluations = saved.evaluations
  <2>1. Append(saved.answers, CurrentQuestion(saved)) \in Seq(QuestionId)
    BY <1>2
  <2>. QED
    BY <1>1, <2>1 DEF Board, Stages, AgentStages
<1>. HIDE DEF b
<1>4. Len(b.answers) = Len(saved.answers) + 1
  BY <1>2, <1>3
<1>5. /\ Len(saved.answers) \in Nat /\ Len(saved.evaluations) \in Nat
      /\ Len(b.answers) \in Nat /\ Len(b.evaluations) \in Nat
  BY <1>1, <1>3, LogLengths
<1>6. ScoresOne(saved, b, c \in Pending)
  BY <1>3, <1>4, <1>5 DEF ScoresOne
<1>7. ~live_board => Len(b.evaluations) <= Len(b.answers)
  BY <1>3, <1>4, <1>5 DEF ScoreInv
<1>8. Idle.phase = "idle"
  BY DEF Idle
<1>. QED
  BY <1>1, <1>3, <1>6, <1>7, <1>8, SaveScores

\* A ruling scores nothing.
LEMMA SubmitHumanReviewScores ==
    ASSUME CallersInv, ScoreInv, NEW c \in Callers, SubmitHumanReview(c)
    PROVE  ScoreInv'
<1>1. saved \in Board
  BY DEF CallersInv, ConcurrencyTypeOK
<1>2. PICK approved \in BOOLEAN : SaveBy(c, Ruled(saved, approved), Idle)
  BY DEF SubmitHumanReview
<1> DEFINE b == Ruled(saved, approved)
<1>3. /\ b \in Board /\ b.answers = saved.answers /\ b.evaluations = saved.evaluations
      /\ b.stage # "EVALUATING"
  BY <1>1 DEF Board, Stages, EndStages, Ruled
<1>4. SaveBy(c, b, Idle)
  BY <1>2
<1>. HIDE DEF b
<1>. QED
  BY <1>1, <1>3, <1>4, SaveUnscored DEF Idle, ScoreInv

\* Whoever begins to score an answer begins while it is due.
LEMMA BeginStepScores ==
    ASSUME CallersInv, ScoreInv, NEW c \in Callers, BeginStep(c)
    PROVE  ScoreInv'
<1>1. /\ saved' = saved /\ live_board' = live_board /\ step \in [Callers -> StepType]
      /\ saved \in Board
  BY DEF BeginStep, CallersInv, ConcurrencyTypeOK
<1>2. /\ step'[c].previous = saved.stage /\ (~live_board => step'[c].board = saved)
      /\ \A d \in Callers : d # c => step'[d] = step[d]
  BY <1>1 DEF BeginStep
<1>3. CASE ~live_board
  BY <1>1, <1>2, <1>3 DEF ScoreInv
<1>4. CASE live_board /\ saved.stage # "EVALUATING"
  <2>1. Pending' = Pending
    BY <1>1, <1>2, <1>4 DEF Pending, BeginStep, Free
  <2>. QED
    BY <1>1, <1>4, <2>1 DEF ScoreInv
<1>5. CASE live_board /\ saved.stage = "EVALUATING"
  <2> DEFINE n == Cardinality(Callers)
             q == Cardinality(Pending)'
             e == Len(saved.evaluations)
             x == n * Len(saved.answers)
  <2>1. n \in Nat /\ q \in Nat /\ q <= n /\ e \in Nat /\ Len(saved.answers) \in Nat
    BY <1>1, PendingCount, PendingCountNext, LogLengths
  <2>2. x \in Nat
    BY <2>1, OneMoreAnswer
  <2>3. e + n <= x
    BY <1>5 DEF ScoreInv
  <2>4. e + q <= x
    <3>. HIDE DEF n, q, e, x
    <3>. QED
      BY <2>1, <2>2, <2>3
  <2>. QED
    BY <1>1, <1>5, <2>3, <2>4 DEF ScoreInv
<1>. QED
  BY <1>3, <1>4, <1>5

\* The agent's answer changes no board and no list of those who score.
LEMMA AgentReturnsScores ==
    ASSUME CallersInv, ScoreInv, NEW c \in Callers, AgentReturns(c)
    PROVE  ScoreInv'
<1>1. PICK artifact \in Returned(c) :
         step' = [step EXCEPT ![c].phase = "returned", ![c].artifact = artifact]
  BY DEF AgentReturns
<1>2. /\ saved' = saved /\ live_board' = live_board /\ step[c].phase = "started"
      /\ step \in [Callers -> StepType]
  BY DEF AgentReturns, CallersInv, ConcurrencyTypeOK
<1>3. /\ \A d \in Callers : d # c => step'[d] = step[d]
      /\ step'[c].phase = "returned" /\ step'[c].previous = step[c].previous
      /\ step'[c].board = step[c].board
  BY <1>1, <1>2 DEF StepType
<1>4. Pending' = Pending
  BY <1>2, <1>3 DEF Pending
<1>. QED
  BY <1>2, <1>3, <1>4 DEF ScoreInv

\* What publishing does to the logs of answers and evaluations.
LEMMA PublishedLogs ==
    ASSUME NEW b \in Board, NEW previous, NEW artifact, ArtifactFits(b, previous, artifact),
           NEW c \in Published(b, previous, artifact)
    PROVE  /\ c \in Board /\ c.answers = b.answers /\ c.stage # "EVALUATING"
           /\ Len(c.evaluations) = IF previous = "EVALUATING" THEN Len(b.evaluations) + 1
                                   ELSE Len(b.evaluations)
<1>0. c \in Board
  BY PublishedKeeps DEF Keeps
<1>1. CASE previous = "PROFILE_ANALYSIS"
  <2>1. c = [b EXCEPT !.stage = "INTERVIEW_PLANNING"]
    BY <1>1 DEF Published, QuestionStages
  <2>. QED
    BY <1>0, <1>1, <2>1 DEF Board
<1>2. CASE previous = "INTERVIEW_PLANNING"
  <2>1. c = [b EXCEPT !.stage = "QUESTION_PREPARING", !.question_budget = PlannedQuestions,
                      !.follow_up_budget = PlannedFollowUps]
    BY <1>2 DEF Published, QuestionStages
  <2>. QED
    BY <1>0, <1>2, <2>1 DEF Board
<1>3. CASE previous \in QuestionStages
  <2>1. c = [AddQuestion(b, artifact) EXCEPT !.stage = "QUESTIONING"]
    BY <1>3 DEF Published, QuestionStages
  <2>2. artifact \in QuestionId /\ previous # "EVALUATING" /\ "QUESTIONING" \in Stages
    BY <1>3 DEF ArtifactFits, QuestionStages, Stages
  <2>3. /\ c.answers = b.answers /\ c.evaluations = b.evaluations
        /\ c.stage = "QUESTIONING"
    BY <2>1, <2>2, AddQuestionFields, ZenonT(60)
  <2>. QED
    BY <1>0, <2>2, <2>3
<1>4. CASE previous = "EVALUATING"
  <2>1. c = Evaluated(b, artifact)
    BY <1>4 DEF Published, QuestionStages
  <2>2. artifact \in QuestionId /\ b.evaluations \in Seq(QuestionId)
    BY <1>4 DEF ArtifactFits, Board
  <2>3. Len(Append(b.evaluations, artifact)) = Len(b.evaluations) + 1
    BY <2>2
  <2>. QED
    BY <1>0, <1>4, <2>1, <2>3 DEF Board, Evaluated
<1>5. CASE previous = "DECISION"
  <2> DEFINE d == [b EXCEPT !.decisions = Append(@, artifact)]
  <2>1. c \in Decided(d)
    BY <1>5 DEF Published, QuestionStages
  <2>2. d \in Board /\ d.answers = b.answers /\ d.evaluations = b.evaluations
    <3>1. artifact \in QuestionId /\ b.decisions \in Seq(QuestionId)
      BY <1>5 DEF ArtifactFits, Board
    <3>2. Append(b.decisions, artifact) \in Seq(QuestionId)
      BY <3>1
    <3>. QED
      BY <3>2 DEF Board
  <2>. HIDE DEF d
  <2>3. /\ c.answers = d.answers /\ c.evaluations = d.evaluations
        /\ c.stage \in {"REPORTING", "FOLLOW_UP", "NEXT_QUESTION"}
    BY <2>1, <2>2, DecidedFields
  <2>. QED
    BY <1>0, <1>5, <2>2, <2>3
<1>6. CASE previous = "REPORTING"
  <2>1. c \in {[b EXCEPT !.report = TRUE, !.review = "not_required", !.stage = "FINISHED"],
               [b EXCEPT !.report = TRUE, !.review = "pending", !.stage = "WAITING_HUMAN_REVIEW"]}
    BY <1>6 DEF Published, QuestionStages
  <2>. QED
    BY <1>0, <1>6, <2>1 DEF Board
<1>. QED
  BY <1>1, <1>2, <1>3, <1>4, <1>5, <1>6 DEF ArtifactFits, AgentStages

\* A board a single caller left in EVALUATING owes an evaluation.
LEMMA EvaluationOwed ==
    ASSUME NEW b \in Board, BoardInv(b), b.stage = "EVALUATING"
    PROVE  Len(b.evaluations) + 1 <= Len(b.answers)
<1>1. /\ Owes(b, b.answers, {"QUESTIONING", "LISTENING"})
      /\ Owes(b, b.evaluations, {"QUESTIONING", "LISTENING", "EVALUATING"})
  BY DEF BoardInv, LogsAligned
<1>2. Len(b.questions) = Len(b.answers) /\ Len(b.questions) = Len(b.evaluations) + 1
  BY <1>1 DEF Owes
<1>. QED
  BY <1>2, LogLengths

\* A step that publishes scores one answer if it is an evaluator's, none otherwise.
LEMMA FinishStepScores ==
    ASSUME CallersInv, CopyInv, ScoreInv, NEW c \in Callers, FinishStep(c)
    PROVE  ScoreInv'
<1>1. PICK b \in Published(Held(c), step[c].previous, step[c].artifact) : SaveBy(c, b, Idle)
  BY DEF FinishStep
<1>2. step[c].phase = "returned" /\ StepSound(step[c], Held(c))
  BY DEF FinishStep, CallersInv
<1>3. Held(c) \in Board /\ (live_board => Held(c) = saved)
      /\ (~live_board => Held(c) = step[c].board)
  BY <1>2, HeldType DEF Held
<1>4. ArtifactFits(Held(c), step[c].previous, step[c].artifact)
  BY <1>2 DEF StepSound, ArtifactFits
<1>5. /\ b \in Board /\ b.answers = Held(c).answers /\ b.stage # "EVALUATING"
      /\ Len(b.evaluations) = IF step[c].previous = "EVALUATING"
                              THEN Len(Held(c).evaluations) + 1 ELSE Len(Held(c).evaluations)
  BY <1>3, <1>4, PublishedLogs
<1>6. Len(Held(c).answers) \in Nat /\ Len(Held(c).evaluations) \in Nat
  BY <1>3, LogLengths
<1>7. c \in Pending <=> step[c].previous = "EVALUATING"
  BY <1>2 DEF Pending
<1>8. ScoresOne(Held(c), b, c \in Pending)
  BY <1>5, <1>6, <1>7 DEF ScoresOne
<1>9. ASSUME ~live_board PROVE Len(b.evaluations) <= Len(b.answers)
  <2>1. Len(Held(c).evaluations) <= Len(Held(c).answers)
    BY <1>2, <1>3, <1>9 DEF ScoreInv
  <2>2. CASE step[c].previous = "EVALUATING"
    <3>1. BoardInv(Held(c)) /\ Held(c).stage = "EVALUATING"
      BY <1>2, <1>3, <1>9, <2>2 DEF CopyInv, CopySound
    <3>. QED
      BY <1>3, <1>5, <1>6, <2>2, <3>1, EvaluationOwed
  <2>3. CASE step[c].previous # "EVALUATING"
    BY <1>5, <1>6, <2>1, <2>3
  <2>. QED
    BY <2>2, <2>3
<1>10. Idle.phase = "idle"
  BY DEF Idle
<1>. QED
  BY <1>1, <1>3, <1>5, <1>8, <1>9, <1>10, SaveScores

\* A step that fails scores nothing.
LEMMA FailStepScores ==
    ASSUME CallersInv, ScoreInv, NEW c \in Callers, FailStep(c)
    PROVE  ScoreInv'
<1> DEFINE b == [Held(c) EXCEPT !.stage = "FAILED"]
<1>1. SaveBy(c, b, Idle) /\ step[c].phase = "started"
  BY DEF FailStep
<1>2. Held(c) \in Board /\ (live_board => Held(c) = saved)
      /\ (~live_board => Held(c) = step[c].board)
  BY <1>1, HeldType DEF Held
<1>3. /\ b \in Board /\ b.answers = Held(c).answers /\ b.evaluations = Held(c).evaluations
      /\ b.stage # "EVALUATING"
  BY <1>2 DEF Board, Stages, EndStages
<1>. HIDE DEF b
<1>4. ~live_board => Len(Held(c).evaluations) <= Len(Held(c).answers)
  BY <1>1, <1>2 DEF ScoreInv
<1>5. Idle.phase = "idle"
  BY DEF Idle
<1>6. SaveBy(c, b, Idle)
  BY <1>1
<1>7. /\ Len(b.answers) = Len(Held(c).answers)
      /\ Len(b.evaluations) = Len(Held(c).evaluations)
      /\ b.stage = "EVALUATING" => Held(c).stage = "EVALUATING"
  BY <1>3
<1>8. b \in Board
  BY <1>3
<1>. QED
  BY <1>2, <1>4, <1>5, <1>6, <1>7, <1>8, SaveUnscored

\* A durable record is saved by a step that evaluates nothing.
LEMMA PersistRecordScores ==
    ASSUME CallersInv, ScoreInv, NEW c \in Callers, PersistRecord(c)
    PROVE  ScoreInv'
<1>1. PICK r \in Records \ Held(c).records :
         SaveBy(c, [Held(c) EXCEPT !.records = Held(c).records \cup {r}],
                [step[c] EXCEPT !.board = IF live_board THEN step[c].board
                                          ELSE [Held(c) EXCEPT !.records = Held(c).records \cup {r}],
                                !.stale = FALSE])
  BY DEF PersistRecord
<1> DEFINE b == [Held(c) EXCEPT !.records = Held(c).records \cup {r}]
           s == [step[c] EXCEPT !.board = IF live_board THEN step[c].board ELSE b, !.stale = FALSE]
<1>2. SaveBy(c, b, s)
  BY <1>1
<1>3. step[c].phase = "started" /\ step[c].previous = "PROFILE_ANALYSIS" /\ step[c] \in StepType
  BY DEF PersistRecord, CallersInv, ConcurrencyTypeOK
<1>4. Held(c) \in Board /\ (live_board => Held(c) = saved)
      /\ (~live_board => Held(c) = step[c].board)
  BY <1>3, HeldType DEF Held
<1>5. /\ b \in Board /\ b.stage = Held(c).stage
      /\ b.answers = Held(c).answers /\ b.evaluations = Held(c).evaluations
  BY <1>4 DEF Board
<1>. HIDE DEF b
<1>6. s.previous = "PROFILE_ANALYSIS" /\ (~live_board => s.board = b)
  BY <1>3 DEF StepType
<1>7. ~live_board => Len(Held(c).evaluations) <= Len(Held(c).answers)
  BY <1>3, <1>4 DEF ScoreInv
<1>. HIDE DEF s
<1>. QED
  BY <1>2, <1>4, <1>5, <1>6, <1>7, SaveUnscored

\* Steps that are given up score nothing any more.
LEMMA IdleScores ==
    ASSUME CallersInv, ScoreInv, UNCHANGED <<live_board, saved>>,
           \A c \in Callers : step'[c] = step[c] \/ step'[c] = Idle
    PROVE  ScoreInv'
<1>1. saved' = saved /\ live_board' = live_board /\ saved \in Board
  BY DEF CallersInv, ConcurrencyTypeOK
<1>2. \A c \in Callers : step'[c].phase # "idle" => step'[c] = step[c]
  BY DEF Idle
<1>3. Pending' \subseteq Pending
  BY <1>2 DEF Pending
<1>4. Cardinality(Pending') <= Cardinality(Pending)
  BY <1>3, PendingCount, FS_Subset, Zenon
<1>5. CASE ~live_board
  BY <1>1, <1>2, <1>5 DEF ScoreInv
<1>6. CASE live_board
  <2> DEFINE p == Cardinality(Pending)
             q == Cardinality(Pending)'
             e == Len(saved.evaluations)
             x == Cardinality(Callers) * Len(saved.answers)
  <2>1. p \in Nat /\ q \in Nat /\ q <= p /\ e \in Nat
    BY <1>1, <1>4, PendingCount, PendingCountNext, LogLengths
  <2>2. x \in Nat
    BY <1>1, PendingCount, LogLengths, OneMoreAnswer
  <2>3. e + p <= x
    BY <1>6 DEF ScoreInv
  <2>4. e + q <= x
    <3>. HIDE DEF p, q, e, x
    <3>. QED
      BY <2>1, <2>2, <2>3
  <2>. QED
    BY <1>1, <1>6, <2>4 DEF ScoreInv
<1>. QED
  BY <1>5, <1>6

\* Every step of every caller keeps the evaluations paid for.
LEMMA NextScores == CallersInv /\ CopyInv /\ ScoreInv /\ [Next]_vars => ScoreInv'
<1>. SUFFICES ASSUME CallersInv, CopyInv, ScoreInv, [Next]_vars PROVE ScoreInv'
  OBVIOUS
<1>0. step \in [Callers -> StepType]
  BY DEF CallersInv, ConcurrencyTypeOK
<1>1. ASSUME NEW c \in Callers, AbandonStep(c) PROVE ScoreInv'
  BY <1>0, <1>1, IdleScores DEF AbandonStep
<1>2. CASE Crash
  BY <1>0, <1>2, IdleScores DEF Crash
<1>3. CASE UNCHANGED vars
  BY <1>0, <1>3, IdleScores DEF vars
<1>. QED
  BY <1>1, <1>2, <1>3, PassThroughScores, ReceiveAnswerScores, SubmitHumanReviewScores,
     BeginStepScores, AgentReturnsScores, FinishStepScores, FailStepScores,
     PersistRecordScores DEF Next

\* However many callers there are, over either store, there are never more evaluations
\* than answers times callers: late evaluations (publish after the await) do not pile up.
THEOREM EvaluationsLimited == Spec => []EvaluationsBounded
<1>1. Init => ScoreInv
  BY InitScores
<1>2. (CallersInv /\ CopyInv) /\ ScoreInv /\ [Next]_vars => ScoreInv'
  BY NextScores
<1>3. CallersInv /\ ScoreInv => EvaluationsBounded
  <2>. SUFFICES ASSUME CallersInv, ScoreInv PROVE EvaluationsBounded
    OBVIOUS
  <2> DEFINE n == Cardinality(Callers)
             p == Cardinality(Pending)
             e == Len(saved.evaluations)
             a == Len(saved.answers)
             x == n * a
  <2>1. saved \in Board
    BY DEF CallersInv, ConcurrencyTypeOK
  <2>2. n \in Nat /\ p \in Nat /\ e \in Nat /\ a \in Nat
    BY <2>1, PendingCount, LogLengths
  <2>3. x \in Nat /\ (n > 0 => a <= x)
    BY <2>2, OneMoreAnswer
  <2>4. e <= x
    <3>1. CASE live_board
      <4>1. e + p <= x
        BY <3>1 DEF ScoreInv
      <4>. HIDE DEF n, p, e, a, x
      <4>. QED
        BY <2>2, <2>3, <4>1
    <3>2. CASE ~live_board /\ Callers # {}
      <4>1. n > 0
        BY <2>2, <3>2, FS_EmptySet, ConcurrencyAssumption
      <4>2. e <= a
        BY <3>2 DEF ScoreInv
      <4>. HIDE DEF n, p, e, a, x
      <4>. QED
        BY <2>2, <2>3, <4>1, <4>2
    <3>3. CASE Callers = {}
      <4>1. saved = NewBoard
        BY <3>3 DEF ScoreInv
      <4>2. e = 0
        BY <4>1 DEF NewBoard
      <4>. HIDE DEF n, p, e, a, x
      <4>. QED
        BY <2>3, <4>2
    <3>. QED
      BY <3>1, <3>2, <3>3
  <2>. QED
    BY <2>4 DEF EvaluationsBounded
<1>. QED
  BY <1>1, <1>2, <1>3, CopiesSound, PTL DEF Spec
=============================================================================
