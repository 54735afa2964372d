-------------------------- MODULE AgentAttemptsProofs --------------------------
(***************************************************************************)
(* How long a step may take and which model answer it may use, for every   *)
(* timeout, number of retries and number of threads.                       *)
(***************************************************************************)
EXTENDS AgentAttempts, TLAPS

\* What a running attempt leaves of the time of all attempts so far: elapsed counts
\* whole timeouts for the attempts before it, and for this one what its clock shows.
TimeInv ==
    /\ elapsed <= attempt * Timeout
    /\ phase \in Running => elapsed + Timeout <= attempt * Timeout + clock

\* An attempt that waits for a model or a tool was started.
AttemptStarted == phase \in Running => attempt \in Attempts

AttemptsInv == AttemptsTypeOK /\ AttemptStarted /\ TimeInv /\ DraftCurrent

-----------------------------------------------------------------------------
\* One more attempt has one more timeout.
LEMMA OneMoreTimeout == attempt \in Nat => (attempt + 1) * Timeout = attempt * Timeout + Timeout
  BY AttemptsAssumption

\* Before the first attempt nothing has been timed or drafted.
LEMMA InitAttempts == Init => AttemptsInv
  BY AttemptsAssumption, SMT
     DEF Init, AttemptsInv, AttemptsTypeOK, AttemptStarted, TimeInv, DraftCurrent, Running, Attempts

\* A new attempt starts with a clock and a draft of its own.
LEMMA StartAttemptKeeps == AttemptsInv /\ StartAttempt => AttemptsInv'
<1>. SUFFICES ASSUME AttemptsInv, StartAttempt PROVE AttemptsInv'
  OBVIOUS
<1>. USE AttemptsAssumption DEF AttemptsInv, AttemptsTypeOK, StartAttempt
<1>1. attempt \in Nat /\ attempt + 1 \in Attempts
  BY DEF Attempts
<1>2. AttemptsTypeOK' /\ AttemptStarted'
  BY <1>1 DEF AttemptStarted, Running, Attempts
<1>3. TimeInv'
  <2>1. attempt' * Timeout = attempt * Timeout + Timeout
    BY <1>1, OneMoreTimeout
  <2>2. elapsed' = elapsed /\ clock' = 0 /\ elapsed <= attempt * Timeout
    BY DEF TimeInv
  <2>3. attempt * Timeout \in Nat /\ elapsed \in Nat
    BY <1>1
  <2>. HIDE DEF AttemptsInv, AttemptsTypeOK, StartAttempt
  <2>. QED
    BY <2>1, <2>2, <2>3 DEF TimeInv
<1>4. DraftCurrent'
  BY DEF DraftCurrent
<1>. QED
  BY <1>2, <1>3, <1>4

\* A step of the executor, the agent or the pool that lets no time pass: the phase
\* stays, is left, or is entered from another one the attempt was running in.
LEMMA TimelessStep ==
    ASSUME AttemptsInv, AttemptsTypeOK',
           UNCHANGED <<attempt, clock, elapsed>>,
           phase' \in Running => phase \in Running,
           draft' \in {draft, 0, attempt}
    PROVE  AttemptsInv'
<1>1. AttemptStarted' /\ DraftCurrent'
  BY DEF AttemptsInv, AttemptStarted, DraftCurrent, Attempts
<1>2. TimeInv'
  BY DEF AttemptsInv, TimeInv
<1>. QED
  BY <1>1, <1>2 DEF AttemptsInv

\* A failed attempt takes no time and uses no draft.
LEMMA AttemptFailsKeeps == AttemptsInv /\ phase \in Running /\ AttemptFails => AttemptsInv'
<1>. SUFFICES ASSUME AttemptsInv, phase \in Running, AttemptFails PROVE AttemptsInv'
  OBVIOUS
<1>1. AttemptsTypeOK'
  BY DEF AttemptsInv, AttemptsTypeOK, AttemptFails
<1>. QED
  BY <1>1, TimelessStep DEF AttemptFails, Running

\* The answer to a request goes to the attempt that waits for it, and to no other.
LEMMA AnswerKeeps ==
    ASSUME AttemptsInv, NEW a \in Attempts, Answer(a)
    PROVE  AttemptsInv'
<1>1. AttemptsTypeOK'
  <2>1. a \in 0..Retry + 1 /\ 0 \in 0..Retry + 1
    BY AttemptsAssumption DEF Attempts
  <2>2. phase' \in Running \cup {"between", "ok", "failed"} /\ draft' \in 0..Retry + 1
    <3>1. CASE phase = "asking" /\ a = attempt
      <4>1. phase' \in AwaitedNext /\ draft' \in {0, a}
        BY <3>1 DEF Answer
      <4>. QED
        BY <2>1, <4>1 DEF AwaitedNext, Running
    <3>2. CASE ~(phase = "asking" /\ a = attempt)
      BY <3>2 DEF Answer, AttemptsInv, AttemptsTypeOK
    <3>. QED
      BY <3>1, <3>2
  <2>3. request' \in [Attempts -> {"none", "queued", "sent", "closed"}]
    BY DEF AttemptsInv, AttemptsTypeOK, Answer
  <2>4. UNCHANGED <<kind, attempt, clock, elapsed, age>>
    BY DEF Answer
  <2>. QED
    BY <2>2, <2>3, <2>4 DEF AttemptsInv, AttemptsTypeOK
<1>. QED
  BY <1>1, TimelessStep DEF Answer, AwaitedNext, Running, AttemptsInv, AttemptsTypeOK

\* A part of an answer moves no clock but its socket's.
LEMMA BytesArriveKeeps ==
    ASSUME AttemptsInv, NEW a \in Attempts, BytesArrive(a)
    PROVE  AttemptsInv'
<1>1. AttemptsTypeOK'
  BY AttemptsAssumption DEF AttemptsInv, AttemptsTypeOK, BytesArrive
<1>. QED
  BY <1>1, TimelessStep DEF BytesArrive

\* A request that ends in its thread moves no clock.
LEMMA SocketTimeoutKeeps ==
    ASSUME AttemptsInv, NEW a \in Attempts, SocketTimeout(a)
    PROVE  AttemptsInv'
<1>1. AttemptsTypeOK'
  BY DEF AttemptsInv, AttemptsTypeOK, SocketTimeout, AwaitedNext, Running
<1>. QED
  BY <1>1, TimelessStep DEF SocketTimeout, AwaitedNext, Running

\* A thread that takes a request up moves no clock.
LEMMA ThreadTakesKeeps ==
    ASSUME AttemptsInv, NEW a \in Attempts, ThreadTakes(a)
    PROVE  AttemptsInv'
<1>1. AttemptsTypeOK'
  BY DEF AttemptsInv, AttemptsTypeOK, ThreadTakes
<1>. QED
  BY <1>1, TimelessStep DEF ThreadTakes

\* While an attempt waits its clock runs with the step's.
LEMMA TickKeeps == AttemptsInv /\ Tick => AttemptsInv'
<1>. SUFFICES ASSUME AttemptsInv, Tick PROVE AttemptsInv'
  OBVIOUS
<1>1. /\ clock \in 0..Timeout /\ elapsed \in Nat /\ attempt \in Nat
      /\ phase \in Running /\ clock < Timeout /\ attempt * Timeout \in Nat
  BY AttemptsAssumption DEF AttemptsInv, AttemptsTypeOK, Tick, Running
<1>2. AttemptsTypeOK'
  <2>1. age' \in [Attempts -> 0..Timeout]
    BY AttemptsAssumption DEF AttemptsInv, AttemptsTypeOK, Tick, Busy
  <2>2. clock' \in 0..Timeout /\ elapsed' \in Nat
    BY <1>1, AttemptsAssumption DEF Tick
  <2>. QED
    BY <2>1, <2>2 DEF AttemptsInv, AttemptsTypeOK, Tick
<1>3. TimeInv'
  <2>1. elapsed' = elapsed + 1 /\ clock' = clock + 1 /\ attempt' = attempt
    BY DEF Tick
  <2>2. elapsed + Timeout <= attempt * Timeout + clock
    BY <1>1 DEF AttemptsInv, TimeInv
  <2>. QED
    BY <1>1, <2>1, <2>2, AttemptsAssumption DEF TimeInv
<1>4. AttemptStarted' /\ DraftCurrent'
  BY DEF AttemptsInv, AttemptStarted, DraftCurrent, Tick
<1>. QED
  BY <1>2, <1>3, <1>4 DEF AttemptsInv

\* Every step keeps the invariant.
LEMMA NextKeeps == AttemptsInv /\ [Next]_vars => AttemptsInv'
<1>. SUFFICES ASSUME AttemptsInv, [Next]_vars PROVE AttemptsInv'
  OBVIOUS
<1>1. CASE StartAttempt
  BY <1>1, StartAttemptKeeps
<1>2. CASE Deadline
  BY <1>2, AttemptFailsKeeps DEF Deadline
<1>3. CASE AgentRaises
  BY <1>3, AttemptFailsKeeps DEF AgentRaises, Running
<1>4. CASE AllAttemptsFailed
  <2>1. AttemptsTypeOK'
    BY <1>4 DEF AttemptsInv, AttemptsTypeOK, AllAttemptsFailed
  <2>. QED
    BY <1>4, <2>1, TimelessStep DEF AllAttemptsFailed, Running
<1>5. CASE AgentReturns
  <2>1. AttemptsTypeOK'
    BY <1>5 DEF AttemptsInv, AttemptsTypeOK, AgentReturns
  <2>. QED
    BY <1>5, <2>1, TimelessStep DEF AgentReturns, Running
<1>6. CASE ToolAnswers
  <2>1. AttemptsTypeOK'
    BY <1>6 DEF AttemptsInv, AttemptsTypeOK, ToolAnswers, Running
  <2>. QED
    BY <1>6, <2>1, TimelessStep DEF ToolAnswers, Running
<1>7. CASE Tick
  BY <1>7, TickKeeps
<1>8. CASE \E a \in Attempts :
              ThreadTakes(a) \/ Answer(a) \/ BytesArrive(a) \/ SocketTimeout(a)
  BY <1>8, ThreadTakesKeeps, AnswerKeeps, BytesArriveKeeps, SocketTimeoutKeeps
<1>9. CASE UNCHANGED vars
  <2>1. AttemptsTypeOK'
    BY <1>9 DEF vars, AttemptsInv, AttemptsTypeOK, Asks, Running
  <2>. QED
    BY <1>9, <2>1, TimelessStep DEF vars
<1>. QED
  BY <1>1, <1>2, <1>3, <1>4, <1>5, <1>6, <1>7, <1>8, <1>9 DEF Next, Executor

\* Types, clocks and drafts stay as the two properties below need them.
THEOREM AttemptsInvariant == Spec => []AttemptsInv
  BY InitAttempts, NextKeeps, PTL DEF Spec

-----------------------------------------------------------------------------
\* For every timeout, number of retries and number of threads a step takes no longer
\* than the attempts it has made are allowed together.
THEOREM StepTime == Spec => []StepTimeBounded
<1>1. AttemptsInv => StepTimeBounded
  BY DEF AttemptsInv, TimeInv, StepTimeBounded
<1>. QED
  BY <1>1, AttemptsInvariant, PTL

\* The late answer to an abandoned attempt is never used by another one.
THEOREM DraftIsCurrent == Spec => []DraftCurrent
<1>1. AttemptsInv => DraftCurrent
  BY DEF AttemptsInv
<1>. QED
  BY <1>1, AttemptsInvariant, PTL
=============================================================================
