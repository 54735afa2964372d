-------------------------- MODULE TraceRecorderProofs --------------------------
(***************************************************************************)
(* The trace of a session for any number of runs, attempts, rounds and     *)
(* calls: its spans form a tree, and their statuses say how the work       *)
(* ended, over retries, restarts and calls that bind another context.      *)
(***************************************************************************)
EXTENDS TraceRecorder, SequenceTheorems, TLAPS

Kinds == {"run", "loop", "llm", "tool"}
AnyId == UNION {Ids(k) : k \in Kinds}

\* Only the fields a span's kind needs tell it from others.
Shaped(id) ==
    /\ id.kind = "run" => id = Id("run", id.run, 0, 0, 0)
    /\ id.kind = "loop" => id = Id("loop", id.run, id.attempt, 0, 0)

\* While an agent runs, a span recorded so far is of an earlier run, attempt or round,
\* or of the part of this round that is over.
Before(id) ==
    \/ id.run < run
    \/ /\ id.run = run
       /\ \/ id.kind = "run"
          \/ id.attempt < attempt
          \/ /\ id.attempt = attempt /\ loop # "none"
             /\ \/ id.kind = "loop"
                \/ id.round < round
                \/ id.round = round /\ (id.kind = "llm" \/ loop \notin {"chatting", "responded"})

PastInv ==
    \A i \in DOMAIN spans :
        /\ Shaped(spans[i].id) /\ spans[i].id.run <= run
        /\ Working => Before(spans[i].id)

\* The observer remembers only what is recorded, and what the work in progress still
\* has to report about.
StartedInv ==
    /\ started \subseteq Recorded
    /\ Working =>
          /\ run >= 1 /\ attempt >= 1 /\ Run \in started
          /\ bound \in {Session, Run}
          /\ loop # "none" => Loop \in started
          /\ loop = "chatting" => Llm \in started
          /\ loop = "responded" => delivered = 0
          /\ loop = "batch" => calls <= MaxBatch /\ delivered < calls
                               /\ \A k \in 1..calls : Tool(k) \in started
    /\ stage = "review" => bound \in {Session, Unbound}

\* The spans of the work in progress are open, and nothing is known of its end.
OpenInv ==
    /\ \A c \in completed : c[1] <= run
    /\ \A r \in published : r <= run
    /\ Working =>
          /\ run \notin published
          /\ \A i \in DOMAIN spans :
                /\ spans[i].id = Run => spans[i].status = "running"
                /\ loop # "over" /\ spans[i].id = Loop => spans[i].status = "running"
          /\ \A c \in completed : c[1] = run =>
                c[2] < attempt \/ (c[2] = attempt /\ loop = "over")

TraceInv ==
    /\ TraceTypeOK /\ PastInv /\ StartedInv /\ OpenInv
    /\ SpansFormTree /\ StatusTruthful /\ RunSpansClosed

-----------------------------------------------------------------------------
(* Spans and their ids *)

\* Closing changes the status of one open span.
Closes(id, status) ==
    /\ spans' \in Seq(Span) /\ Len(spans') = Len(spans) /\ started' = started
    /\ \A i \in DOMAIN spans :
          /\ spans'[i].id = spans[i].id
          /\ IF spans[i].id = id /\ spans[i].status = "running"
             THEN spans'[i].status = status ELSE spans'[i].status = spans[i].status

\* Extending appends open spans, one for each of the ids.
Extends(ids) ==
    /\ spans' \in Seq(Span) /\ Len(spans) <= Len(spans') /\ started' = started \cup ids
    /\ \A i \in DOMAIN spans : spans'[i] = spans[i]
    /\ \A i \in DOMAIN spans' \ DOMAIN spans :
          /\ spans'[i].id \in ids /\ spans'[i].status = "running"
          /\ \A j \in DOMAIN spans' \ DOMAIN spans : spans'[j].id = spans'[i].id => j = i
    /\ \A id \in ids : \E i \in DOMAIN spans' : spans'[i].id = id

\* A span is its id and its status.
LEMMA SpanParts ==
    ASSUME NEW s \in Span
    PROVE  /\ s.id \in AnyId /\ s.status \in {"running", "ok", "error"}
           /\ s = [id |-> s.id, status |-> s.status]
  BY DEF Span, AnyId, Kinds

\* An id and a status make a span.
LEMMA SpanMake ==
    ASSUME NEW id \in AnyId, NEW status \in {"running", "ok", "error"}
    PROVE  [id |-> id, status |-> status] \in Span
  BY DEF Span, AnyId, Kinds

\* An id is what it was made from.
LEMMA IdParts ==
    ASSUME NEW id \in AnyId
    PROVE  /\ id.kind \in Kinds /\ id.run \in 1..MaxRuns /\ id.attempt \in 0..MaxAttempts
           /\ id.round \in 0..MaxRounds /\ id.call \in 0..MaxBatch
           /\ id = Id(id.kind, id.run, id.attempt, id.round, id.call)
  BY DEF AnyId, Ids, Id

\* Numbers within the bounds make an id.
LEMMA IdMake ==
    ASSUME NEW kind \in Kinds, NEW r \in 1..MaxRuns, NEW a \in 0..MaxAttempts,
           NEW n \in 0..MaxRounds, NEW k \in 0..MaxBatch
    PROVE  Id(kind, r, a, n, k) \in AnyId
<1>1. Id(kind, r, a, n, k) \in Ids(kind)
  BY DEF Id, Ids
<1>. QED
  BY <1>1 DEF AnyId

\* No recorded id is the session's context or the missing one.
LEMMA NotAContext ==
    ASSUME NEW id \in AnyId
    PROVE  id # Session /\ id # Unbound
  BY IdParts DEF Session, Unbound, Id, Kinds

\* What is recorded has an id.
LEMMA RecordedIds ==
    ASSUME spans \in Seq(Span)
    PROVE  /\ \A i \in DOMAIN spans : spans[i] \in Span /\ spans[i].id \in AnyId
           /\ Recorded \subseteq AnyId
  BY SpanParts, ElementOfSeq DEF Recorded

-----------------------------------------------------------------------------
(* What an observed event does to the spans *)

\* An event of the session itself records no span.
LEMMA ObserveContext ==
    ASSUME NEW id \in {Session, Unbound}, NEW finishing, Observe(id, finishing)
    PROVE  UNCHANGED <<spans, started>>
  BY DEF Observe

\* Closing a span of the tree ends that span and no other.
LEMMA CloseIs ==
    ASSUME TraceTypeOK, SpansFormTree, NEW id \in AnyId, NEW status \in {"ok", "error"},
           spans' = Close(spans, id, status), started' = started
    PROVE  Closes(id, status)
<1>1. spans \in Seq(Span) /\ DOMAIN spans = 1..Len(spans) /\ Len(spans) \in Nat
  BY DEF TraceTypeOK
<1>2. CASE Open(spans, id) = {}
  <2>1. spans' = spans
    BY <1>2 DEF Close
  <2>. QED
    BY <1>1, <1>2, <2>1 DEF Closes, Open
<1>3. CASE Open(spans, id) # {}
  <2>1. PICK i : i \in Open(spans, id)
    BY <1>3
  <2>2. i \in 1..Len(spans) /\ spans[i].id = id /\ spans[i].status = "running"
    BY <2>1, <1>1 DEF Open
  <2>3. \A j \in Open(spans, id) : j = i
    BY <2>1 DEF Open, SpansFormTree
  <2>4. (CHOOSE m \in Open(spans, id) : \A j \in Open(spans, id) : j <= m) = i
    <3>1. i \in Open(spans, id) /\ \A j \in Open(spans, id) : j <= i
      BY <2>1, <2>2, <2>3
    <3>2. (CHOOSE m \in Open(spans, id) : \A j \in Open(spans, id) : j <= m)
              \in Open(spans, id)
      BY <3>1
    <3>. QED
      BY <3>2, <2>3
  <2>5. spans' = [spans EXCEPT ![i].status = status]
    BY <1>3, <2>4 DEF Close
  <2>6. spans[i] \in Span
    BY <1>1, <2>2, ElementOfSeq
  <2>7. [spans[i] EXCEPT !.status = status] = [id |-> id, status |-> status]
    BY <2>2, <2>6, SpanParts
  <2>8. spans' = [spans EXCEPT ![i] = [id |-> id, status |-> status]]
    BY <2>5, <2>7
  <2>9. spans' \in Seq(Span) /\ Len(spans') = Len(spans)
    <3>1. [id |-> id, status |-> status] \in Span
      BY SpanMake
    <3>. QED
      BY <1>1, <2>2, <2>8, <3>1, ExceptSeq
  <2>10. spans'[i].id = id /\ spans'[i].status = status
    BY <1>1, <2>2, <2>8
  <2>11. \A j \in DOMAIN spans : j # i => spans'[j] = spans[j]
    BY <1>1, <2>8
  <2>12. \A j \in DOMAIN spans : j # i => ~ (spans[j].id = id /\ spans[j].status = "running")
    BY <2>3 DEF Open
  <2>. QED
    BY <2>2, <2>9, <2>10, <2>11, <2>12 DEF Closes
<1>. QED
  BY <1>2, <1>3

\* An event that finishes a known span closes it.
LEMMA ObserveKnown ==
    ASSUME TraceTypeOK, SpansFormTree, NEW id \in AnyId, id \in started,
           NEW status \in {"ok", "error"}, Observe(id, status)
    PROVE  Closes(id, status)
<1>1. spans' = Close(spans, id, status) /\ started' = started
  BY NotAContext DEF Observe
<1>. QED
  BY <1>1, CloseIs

\* The first event of a span opens it.
LEMMA ObserveNew ==
    ASSUME TraceTypeOK, NEW id \in AnyId, id \notin started, Observe(id, "no")
    PROVE  Extends({id})
<1>. DEFINE new == [id |-> id, status |-> "running"]
<1>1. spans' = Append(spans, new) /\ started' = started \cup {id}
  BY NotAContext DEF Observe
<1>2. new \in Span /\ spans \in Seq(Span) /\ Len(spans) \in Nat
  <2>1. new \in Span
    BY SpanMake
  <2>. QED
    BY <2>1 DEF TraceTypeOK
<1>. HIDE DEF new
<1>3. /\ spans' \in Seq(Span) /\ Len(spans') = Len(spans) + 1
      /\ \A i \in 1..Len(spans) : spans'[i] = spans[i]
      /\ spans'[Len(spans) + 1] = new
  BY <1>1, <1>2, AppendProperties
<1>4. /\ DOMAIN spans = 1..Len(spans) /\ DOMAIN spans' = 1..Len(spans) + 1
      /\ \A i \in DOMAIN spans' \ DOMAIN spans : i = Len(spans) + 1
      /\ Len(spans) + 1 \in DOMAIN spans'
  BY <1>2, <1>3
<1>5. new.id = id /\ new.status = "running"
  BY DEF new
<1>. QED
  BY <1>1, <1>2, <1>3, <1>4, <1>5 DEF Extends

-----------------------------------------------------------------------------
(* What closing and extending keep *)

SameIds ==
    /\ spans' \in Seq(Span) /\ DOMAIN spans' = DOMAIN spans
    /\ \A i \in DOMAIN spans : spans'[i].id = spans[i].id

\* Closing a span adds and removes none.
LEMMA ClosesSameIds ==
    ASSUME TraceTypeOK, NEW id, NEW status, Closes(id, status)
    PROVE  SameIds
<1>1. /\ spans \in Seq(Span) /\ spans' \in Seq(Span) /\ Len(spans') = Len(spans)
      /\ \A i \in DOMAIN spans : spans'[i].id = spans[i].id
  BY DEF TraceTypeOK, Closes
<1>2. DOMAIN spans' = DOMAIN spans
  BY <1>1
<1>. QED
  BY <1>1, <1>2 DEF SameIds

\* Nor does leaving the spans alone.
LEMMA UnchangedSameIds ==
    ASSUME TraceTypeOK, UNCHANGED spans
    PROVE  SameIds
  BY DEF SameIds, TraceTypeOK

\* The same spans have the same ids.
LEMMA SameRecorded ==
    ASSUME SameIds
    PROVE  Recorded' = Recorded
  BY DEF Recorded, SameIds

\* The tree depends on the ids of the spans only.
LEMMA TreeKept ==
    ASSUME SpansFormTree, SameIds, TraceTypeOK
    PROVE  SpansFormTree'
<1>1. DOMAIN spans = 1..Len(spans) /\ Len(spans) \in Nat
  BY DEF TraceTypeOK
<1>2. \A i, j \in DOMAIN spans' : spans'[i].id = spans'[j].id => i = j
  BY DEF SpansFormTree, SameIds
<1>3. ASSUME NEW i \in DOMAIN spans', ParentOf(spans'[i].id) # Session
      PROVE  \E j \in 1..i - 1 : spans'[j].id = ParentOf(spans'[i].id)
  <2>1. i \in DOMAIN spans /\ spans'[i].id = spans[i].id
    BY DEF SameIds
  <2>2. PICK j \in 1..i - 1 : spans[j].id = ParentOf(spans[i].id)
    BY <1>3, <2>1 DEF SpansFormTree
  <2>3. j \in DOMAIN spans
    BY <1>1, <2>1, <2>2
  <2>. QED
    BY <2>1, <2>2, <2>3 DEF SameIds
<1>. QED
  BY <1>2, <1>3 DEF SpansFormTree

\* What recording new spans leaves in place.
LEMMA ExtendsParts ==
    ASSUME TraceTypeOK, NEW ids, Extends(ids)
    PROVE  /\ DOMAIN spans = 1..Len(spans) /\ Len(spans) \in Nat
           /\ DOMAIN spans' = 1..Len(spans') /\ Len(spans') \in Nat
           /\ DOMAIN spans \subseteq DOMAIN spans'
           /\ Recorded' = Recorded \cup ids
<1>1. /\ DOMAIN spans = 1..Len(spans) /\ Len(spans) \in Nat
      /\ DOMAIN spans' = 1..Len(spans') /\ Len(spans') \in Nat
      /\ Len(spans) <= Len(spans')
  BY DEF TraceTypeOK, Extends
<1>2. DOMAIN spans \subseteq DOMAIN spans'
  BY <1>1
<1>3. Recorded' \subseteq Recorded \cup ids
  BY <1>2 DEF Extends, Recorded
<1>4. Recorded \subseteq Recorded'
  BY <1>2 DEF Extends, Recorded
<1>5. ids \subseteq Recorded'
  BY DEF Extends, Recorded
<1>. QED
  BY <1>1, <1>2, <1>3, <1>4, <1>5

\* New spans under recorded parents keep the tree.
LEMMA TreeExtends ==
    ASSUME TraceTypeOK, SpansFormTree, NEW ids, Extends(ids), ids \cap Recorded = {},
           \A id \in ids : ParentOf(id) \in Recorded \cup {Session}
    PROVE  SpansFormTree'
<1>1. /\ DOMAIN spans = 1..Len(spans) /\ Len(spans) \in Nat
      /\ DOMAIN spans' = 1..Len(spans') /\ Len(spans') \in Nat
      /\ DOMAIN spans \subseteq DOMAIN spans'
  BY ExtendsParts
<1>2. ASSUME NEW i \in DOMAIN spans', NEW j \in DOMAIN spans', spans'[i].id = spans'[j].id
      PROVE  i = j
  <2>1. CASE i \in DOMAIN spans /\ j \in DOMAIN spans
    BY <1>2, <2>1 DEF Extends, SpansFormTree
  <2>2. CASE i \in DOMAIN spans /\ j \notin DOMAIN spans
    BY <1>2, <2>2 DEF Extends, Recorded
  <2>3. CASE i \notin DOMAIN spans /\ j \in DOMAIN spans
    BY <1>2, <2>3 DEF Extends, Recorded
  <2>4. CASE i \notin DOMAIN spans /\ j \notin DOMAIN spans
    BY <1>2, <2>4 DEF Extends
  <2>. QED
    BY <2>1, <2>2, <2>3, <2>4
<1>3. ASSUME NEW i \in DOMAIN spans', ParentOf(spans'[i].id) # Session
      PROVE  \E j \in 1..i - 1 : spans'[j].id = ParentOf(spans'[i].id)
  <2>1. CASE i \in DOMAIN spans
    <3>1. spans'[i] = spans[i]
      BY <2>1 DEF Extends
    <3>2. PICK j \in 1..i - 1 : spans[j].id = ParentOf(spans[i].id)
      BY <1>3, <2>1, <3>1 DEF SpansFormTree
    <3>3. j \in DOMAIN spans
      BY <1>1, <2>1, <3>2
    <3>. QED
      BY <3>1, <3>2, <3>3 DEF Extends
  <2>2. CASE i \notin DOMAIN spans
    <3>1. spans'[i].id \in ids
      BY <2>2 DEF Extends
    <3>2. PICK j \in DOMAIN spans : spans[j].id = ParentOf(spans'[i].id)
      BY <1>3, <3>1 DEF Recorded
    <3>3. j \in 1..i - 1
      BY <1>1, <2>2, <3>2
    <3>. QED
      BY <3>2, <3>3 DEF Extends
  <2>. QED
    BY <2>1, <2>2
<1>. QED
  BY <1>2, <1>3 DEF SpansFormTree

\* A step that records nothing keeps the spans in the past.
LEMMA PastKept ==
    ASSUME TraceTypeOK, PastInv, SameIds, run' = run,
           Working' => \A id \in AnyId : id.run <= run /\ (Working => Before(id)) => Before(id)'
    PROVE  PastInv'
<1>1. \A i \in DOMAIN spans : spans[i].id \in AnyId
  BY RecordedIds DEF TraceTypeOK
<1>2. ASSUME NEW i \in DOMAIN spans'
      PROVE  /\ Shaped(spans'[i].id) /\ spans'[i].id.run <= run'
             /\ Working' => Before(spans[i].id)'
  <2>1. i \in DOMAIN spans /\ spans'[i].id = spans[i].id
    BY DEF SameIds
  <2>2. Shaped(spans[i].id) /\ spans[i].id.run <= run /\ (Working => Before(spans[i].id))
    BY <2>1 DEF PastInv
  <2>3. PICK id \in AnyId : id = spans[i].id
    BY <1>1, <2>1
  <2>4. Before(id) <=> Before(spans[i].id)
    BY <2>3 DEF Before
  <2>5. Before(id)' <=> Before(spans[i].id)'
    BY <2>1, <2>3 DEF Before
  <2>. QED
    BY <2>1, <2>2, <2>3, <2>4, <2>5
<1>. QED
  BY <1>2 DEF PastInv

\* New spans of the current run keep the spans in the past.
LEMMA PastExtends ==
    ASSUME TraceTypeOK, PastInv, NEW ids \in SUBSET AnyId, Extends(ids), run <= run',
           run' \in Nat, Working',
           \A id \in AnyId : id.run <= run /\ (Working => Before(id)) => Before(id)',
           \A id \in ids : Shaped(id) /\ id.run <= run' /\ Before(id)'
    PROVE  PastInv'
<1>1. \A i \in DOMAIN spans : spans[i].id \in AnyId
  BY RecordedIds DEF TraceTypeOK
<1>2. ASSUME NEW i \in DOMAIN spans'
      PROVE  /\ Shaped(spans'[i].id) /\ spans'[i].id.run <= run'
             /\ Before(spans[i].id)'
  <2>1. CASE i \in DOMAIN spans
    <3>1. spans'[i].id = spans[i].id
      BY <2>1 DEF Extends
    <3>2. Shaped(spans[i].id) /\ spans[i].id.run <= run /\ (Working => Before(spans[i].id))
      BY <2>1 DEF PastInv
    <3>3. PICK id \in AnyId : id = spans[i].id
      BY <1>1, <2>1
    <3>4. Before(id) <=> Before(spans[i].id)
      BY <3>3 DEF Before
    <3>5. Before(id)' <=> Before(spans[i].id)'
      BY <3>1, <3>3 DEF Before
    <3>6. id.run \in Nat /\ run \in Nat
      BY <3>3, IdParts DEF TraceTypeOK
    <3>. QED
      BY <3>1, <3>2, <3>3, <3>4, <3>5, <3>6
  <2>2. CASE i \notin DOMAIN spans
    <3>1. PICK id \in ids : id = spans'[i].id
      BY <2>2 DEF Extends
    <3>2. Before(id)' <=> Before(spans[i].id)'
      BY <3>1 DEF Before
    <3>. QED
      BY <3>1, <3>2
  <2>. QED
    BY <2>1, <2>2
<1>. QED
  BY <1>2 DEF PastInv

\* What is not behind the work in progress is not recorded yet.
LEMMA Fresh ==
    ASSUME TraceTypeOK, PastInv, StartedInv, Working, NEW id \in AnyId, ~ Before(id)
    PROVE  id \notin Recorded /\ id \notin started
<1>1. ASSUME NEW i \in DOMAIN spans, spans[i].id = id
      PROVE  FALSE
  BY <1>1 DEF PastInv, Before
<1>. QED
  BY <1>1 DEF Recorded, StartedInv

-----------------------------------------------------------------------------
(* The ids of the work in progress *)

\* Every id is the id of some span.
LEMMA SpanIds == {s.id : s \in Span} = AnyId
<1>1. {s.id : s \in Span} \subseteq AnyId
  BY SpanParts
<1>2. ASSUME NEW id \in AnyId
      PROVE  \E s \in Span : s.id = id
  <2>. DEFINE s == [id |-> id, status |-> "running"]
  <2>1. s \in Span
    BY SpanMake
  <2>. QED
    BY <2>1
<1>. QED
  BY <1>1, <1>2

\* The context of a run is an id.
LEMMA BoundIsAnId ==
    ASSUME NEW r \in 1..MaxRuns
    PROVE  Id("run", r, 0, 0, 0) \in Ids("run") /\ Id("run", r, 0, 0, 0) \in AnyId
<1>1. 0 \in 0..MaxAttempts /\ 0 \in 0..MaxRounds /\ 0 \in 0..MaxBatch
  BY TraceAssumption
<1>2. Id("run", r, 0, 0, 0) \in Ids("run")
  BY <1>1 DEF Id, Ids
<1>. QED
  BY <1>2 DEF AnyId, Kinds

\* What a working run records has an id of its kind.
LEMMA WorkIds ==
    ASSUME TraceTypeOK, run >= 1
    PROVE  /\ Run \in AnyId /\ Loop \in AnyId /\ Llm \in AnyId
           /\ \A k \in 0..MaxBatch : Tool(k) \in AnyId
           /\ Run.kind = "run" /\ Loop.kind = "loop" /\ Llm.kind = "llm"
           /\ \A k \in 0..MaxBatch : Tool(k).kind = "tool"
<1>1. /\ run \in 1..MaxRuns /\ attempt \in 0..MaxAttempts /\ round \in 0..MaxRounds
      /\ 0 \in 0..MaxAttempts /\ 0 \in 0..MaxRounds /\ 0 \in 0..MaxBatch
  BY TraceAssumption DEF TraceTypeOK
<1>2. "run" \in Kinds /\ "loop" \in Kinds /\ "llm" \in Kinds /\ "tool" \in Kinds
  BY DEF Kinds
<1>3. Run \in AnyId
  BY <1>1, <1>2, IdMake DEF Run
<1>4. Loop \in AnyId
  BY <1>1, <1>2, IdMake DEF Loop
<1>5. Llm \in AnyId
  BY <1>1, <1>2, IdMake DEF Llm
<1>6. \A k \in 0..MaxBatch : Tool(k) \in AnyId
  BY <1>1, <1>2, IdMake DEF Tool
<1>7. /\ Run.kind = "run" /\ Loop.kind = "loop" /\ Llm.kind = "llm"
      /\ \A k \in 0..MaxBatch : Tool(k).kind = "tool"
  BY DEF Run, Loop, Llm, Tool, Id
<1>. QED
  BY <1>3, <1>4, <1>5, <1>6, <1>7

\* A run's span and a loop's are told by the run and the attempt.
LEMMA WhoseSpan ==
    ASSUME TraceTypeOK, PastInv, NEW i \in DOMAIN spans
    PROVE  /\ spans[i].id.kind = "run" /\ spans[i].id.run = run <=> spans[i].id = Run
           /\ spans[i].id.kind = "loop" /\ spans[i].id.run = run /\ spans[i].id.attempt = attempt
                <=> spans[i].id = Loop
<1>1. Shaped(spans[i].id)
  BY DEF PastInv
<1>2. /\ Run.kind = "run" /\ Run.run = run
      /\ Loop.kind = "loop" /\ Loop.run = run /\ Loop.attempt = attempt
  BY DEF Run, Loop, Id
<1>3. spans[i].id.kind = "run" /\ spans[i].id.run = run => spans[i].id = Run
  BY <1>1 DEF Shaped, Run
<1>4. spans[i].id.kind = "loop" /\ spans[i].id.run = run /\ spans[i].id.attempt = attempt
        => spans[i].id = Loop
  BY <1>1 DEF Shaped, Loop
<1>. QED
  BY <1>2, <1>3, <1>4

-----------------------------------------------------------------------------
(* Steps that record nothing *)

\* A step that changes the bound context only.
LEMMA BoundOnly ==
    ASSUME TraceInv, UNCHANGED <<recordVars, stage, run, loopVars, historyVars>>,
           bound' \in {bound, Session}
    PROVE  TraceInv'
<1>. USE DEF TraceInv, recordVars, loopVars, historyVars
<1>1. TraceTypeOK'
  BY DEF TraceTypeOK
<1>2. SpansFormTree' /\ StatusTruthful' /\ RunSpansClosed'
  BY DEF SpansFormTree, StatusTruthful, RunSpansClosed
<1>3. PastInv'
  BY DEF PastInv, Working, Before
<1>4. StartedInv'
  BY DEF StartedInv, Working, Recorded, Run, Loop, Llm, Tool
<1>5. OpenInv'
  BY DEF OpenInv, Working, Run, Loop
<1>. QED
  BY <1>1, <1>2, <1>3, <1>4, <1>5

\* A step after which no agent runs.
LEMMA AtRest ==
    ASSUME TraceInv, UNCHANGED <<spans, run, published, completed>>, TraceTypeOK', ~ Working',
           trace' = "ok" => stage' = "finished",
           started' \subseteq started,
           killed \cup unnamed \subseteq killed' \cup unnamed',
           Working => run \in killed',
           stage' = "review" => bound' \in {Session, Unbound}
    PROVE  TraceInv'
<1>. USE DEF TraceInv
<1>1. SpansFormTree'
  BY DEF SpansFormTree
<1>2. StatusTruthful'
  BY DEF StatusTruthful
<1>3. RunSpansClosed'
  BY DEF RunSpansClosed, Working
<1>4. PastInv'
  BY DEF PastInv
<1>5. StartedInv'
  BY DEF StartedInv, Recorded, Working
<1>6. OpenInv'
  BY DEF OpenInv
<1>. QED
  BY <1>1, <1>2, <1>3, <1>4, <1>5, <1>6

\* Starting a session binds its context.
LEMMA StartSessionTrace ==
    ASSUME TraceInv, StartSession
    PROVE  TraceInv'
<1>1. TraceTypeOK'
  BY DEF StartSession, TraceInv, TraceTypeOK, loopVars, historyVars
<1>. QED
  BY <1>1, AtRest DEF StartSession, Working, loopVars, historyVars

\* A ruling records no span.
LEMMA SubmitHumanReviewTrace ==
    ASSUME TraceInv, SubmitHumanReview
    PROVE  TraceInv'
<1>1. UNCHANGED <<spans, started>>
  BY ObserveContext DEF SubmitHumanReview, TraceInv, StartedInv
<1>2. TraceTypeOK'
  BY <1>1 DEF SubmitHumanReview, TraceInv, TraceTypeOK, loopVars, historyVars
<1>3. stage = "review" /\ stage' \in {"finished", "failed"}
  BY DEF SubmitHumanReview
<1>4. trace' = "ok" => stage' = "finished"
  BY <1>3 DEF SubmitHumanReview, TraceInv, StatusTruthful
<1>. QED
  BY <1>1, <1>2, <1>3, <1>4, AtRest DEF SubmitHumanReview, Working, loopVars, historyVars

\* A cancelled run leaves its spans as they are and is counted.
LEMMA AbandonRunTrace ==
    ASSUME TraceInv, AbandonRun
    PROVE  TraceInv'
<1>1. stage = "working" /\ stage' = "ready" /\ run \in 1..MaxRuns
  BY DEF AbandonRun, Waiting, TraceInv, TraceTypeOK, StartedInv, Working
<1>2. TraceTypeOK'
  <2>1. 0 \in 0..MaxAttempts /\ 0 \in 0..MaxRounds /\ 0 \in 0..MaxBatch /\ 0 \in 0..MaxBatch + 1
    BY TraceAssumption
  <2>. QED
    BY <1>1, <2>1 DEF AbandonRun, NewLoop, TraceInv, TraceTypeOK, recordVars
<1>3. trace # "ok"
  BY <1>1 DEF TraceInv, StatusTruthful
<1>. QED
  BY <1>1, <1>2, <1>3, AtRest DEF AbandonRun, Working, recordVars

\* A restart leaves the spans of the process that died and counts its run.
LEMMA RestartTrace ==
    ASSUME TraceInv, Restart
    PROVE  TraceInv'
<1>1. /\ stage' # "working" /\ stage # "finished"
      /\ stage' \in {"ready", "review"}
      /\ killed' = IF stage = "working" THEN killed \cup {run} ELSE killed
  BY DEF Restart
<1>2. stage = "working" => run \in 1..MaxRuns
  BY DEF TraceInv, TraceTypeOK, StartedInv, Working
<1>3. TraceTypeOK'
  <2>1. 0 \in 0..MaxAttempts /\ 0 \in 0..MaxRounds /\ 0 \in 0..MaxBatch /\ 0 \in 0..MaxBatch + 1
    BY TraceAssumption
  <2>. QED
    BY <1>1, <1>2, <2>1 DEF Restart, NewLoop, TraceInv, TraceTypeOK
<1>4. trace # "ok"
  BY <1>1 DEF TraceInv, StatusTruthful
<1>. QED
  BY <1>1, <1>3, <1>4, AtRest DEF Restart, Working

\* A new attempt has recorded nothing.
LEMMA NextAttemptTrace ==
    ASSUME TraceInv, NextAttempt
    PROVE  TraceInv'
<1>. USE DEF TraceInv, recordVars, historyVars
<1>1. /\ Working /\ Working' /\ attempt < MaxAttempts /\ attempt' = attempt + 1
      /\ loop' = "none" /\ UNCHANGED <<trace, spans, started, bound, stage, run>>
      /\ UNCHANGED <<published, completed, unnamed, killed>>
  BY DEF NextAttempt, Waiting, NewLoop, Working
<1>2. TraceTypeOK'
  <2>1. /\ 0 \in 0..MaxRounds /\ 0 \in 0..MaxBatch /\ 0 \in 0..MaxBatch + 1
        /\ attempt + 1 \in 0..MaxAttempts
    BY <1>1, TraceAssumption DEF TraceTypeOK
  <2>. QED
    BY <1>1, <2>1 DEF NextAttempt, NewLoop, TraceTypeOK
<1>3. SpansFormTree' /\ StatusTruthful' /\ RunSpansClosed'
  BY <1>1 DEF SpansFormTree, StatusTruthful, RunSpansClosed
<1>4. PastInv'
  <2>1. ASSUME NEW id \in AnyId, Before(id)
        PROVE  Before(id)'
    BY <1>1, <2>1, IdParts DEF Before, TraceTypeOK
  <2>. QED
    BY <1>1, <2>1, PastKept, UnchangedSameIds
<1>5. StartedInv'
  BY <1>1 DEF StartedInv, Working, Recorded, Run, TraceTypeOK
<1>6. OpenInv'
  <2>1. ASSUME NEW i \in DOMAIN spans, spans[i].id = Loop'
        PROVE  FALSE
    <3>1. spans[i].id.kind = "loop" /\ spans[i].id.run = run /\ spans[i].id.attempt = attempt + 1
      BY <1>1, <2>1 DEF Loop, Id
    <3>. QED
      BY <1>1, <3>1 DEF PastInv, Before, TraceTypeOK
  <2>2. \A c \in completed : c[1] = run => c[2] < attempt + 1
    BY <1>1 DEF OpenInv, TraceTypeOK
  <2>. QED
    BY <1>1, <2>1, <2>2 DEF OpenInv, Working, Run
<1>. QED
  BY <1>2, <1>3, <1>4, <1>5, <1>6

-----------------------------------------------------------------------------
(* Steps that open spans *)

\* New spans are open; if none is of a loop that completed, the rest stays true.
LEMMA OpenedTruthful ==
    ASSUME TraceTypeOK, StatusTruthful, NEW ids, Extends(ids),
           trace' = "ok" => stage' = "finished", UNCHANGED <<published, completed>>,
           \A id \in ids : id.kind = "loop" => <<id.run, id.attempt>> \notin completed
    PROVE  StatusTruthful'
<1>1. ASSUME NEW i \in DOMAIN spans'
      PROVE  /\ spans'[i].id.kind = "run" /\ spans'[i].status = "ok"
                  => spans'[i].id.run \in published'
             /\ spans'[i].id.kind = "run" /\ spans'[i].status = "error"
                  => spans'[i].id.run \notin published'
             /\ spans'[i].id.kind = "loop"
                  => (spans'[i].status = "ok"
                        <=> <<spans'[i].id.run, spans'[i].id.attempt>> \in completed')
  <2>1. CASE i \in DOMAIN spans
    BY <2>1 DEF StatusTruthful, Extends
  <2>2. CASE i \notin DOMAIN spans
    BY <2>2 DEF Extends
  <2>. QED
    BY <2>1, <2>2
<1>. QED
  BY <1>1 DEF StatusTruthful

\* Of the runs, new spans leave only the current one open.
LEMMA OpenedRuns ==
    ASSUME TraceTypeOK, RunSpansClosed, NEW ids, Extends(ids), stage' = "working",
           UNCHANGED <<killed, unnamed>>, Working => run' = run,
           \A id \in ids : id.kind = "run" => id.run = run'
    PROVE  RunSpansClosed'
<1>1. ASSUME NEW i \in DOMAIN spans', spans'[i].id.kind = "run", spans'[i].status = "running"
      PROVE  spans'[i].id.run = run' \/ spans'[i].id.run \in killed' \cup unnamed'
  <2>1. CASE i \in DOMAIN spans
    BY <1>1, <2>1 DEF RunSpansClosed, Extends, Working
  <2>2. CASE i \notin DOMAIN spans
    BY <1>1, <2>2 DEF Extends
  <2>. QED
    BY <2>1, <2>2
<1>. QED
  BY <1>1 DEF RunSpansClosed

\* A run starts with a span of its own under the session.
LEMMA StartRunTrace ==
    ASSUME TraceInv, StartRun
    PROVE  TraceInv'
<1>. DEFINE new == Id("run", run + 1, 0, 0, 0)
<1>. USE DEF TraceInv
<1>1. /\ ~ Working /\ Working' /\ stage = "ready" /\ stage' = "working"
      /\ run' = run + 1 /\ attempt' = 1 /\ loop' = "none" /\ bound' = new
      /\ UNCHANGED <<trace, published, completed, unnamed, killed>>
      /\ run \in Nat /\ run + 1 \in 1..MaxRuns
  BY TraceAssumption DEF StartRun, NewLoop, Working, historyVars, TraceTypeOK
<1>2. new \in AnyId /\ new \in Ids("run") /\ new = Run'
  <2>1. new = Run'
    BY <1>1 DEF Run
  <2>. QED
    BY <1>1, <2>1, BoundIsAnId
<1>3. new.kind = "run" /\ new.run = run + 1 /\ Shaped(new) /\ ParentOf(new) = Session
  BY DEF Id, Shaped, ParentOf
<1>. HIDE DEF new
<1>4. new \notin Recorded /\ new \notin started
  BY <1>1, <1>3 DEF PastInv, Recorded, StartedInv
<1>5. Extends({new})
  <2>1. Observe(new, "no")
    BY <1>1 DEF StartRun, Observe
  <2>. QED
    BY <1>2, <1>4, <2>1, ObserveNew
<1>6. TraceTypeOK'
  <2>1. 1 \in 0..MaxAttempts /\ 0 \in 0..MaxRounds /\ 0 \in 0..MaxBatch /\ 0 \in 0..MaxBatch + 1
    BY TraceAssumption
  <2>2. spans' \in Seq(Span) /\ started' \subseteq {s.id : s \in Span}
    BY <1>2, <1>5, SpanIds DEF Extends, TraceTypeOK
  <2>3. run' \in 0..MaxRuns
    BY <1>1
  <2>4. bound' \in {Unbound, Session} \cup Ids("run")
    BY <1>1, <1>2
  <2>. QED
    BY <1>1, <2>1, <2>2, <2>3, <2>4 DEF StartRun, NewLoop, historyVars, TraceTypeOK
<1>7. SpansFormTree'
  BY <1>3, <1>4, <1>5, TreeExtends
<1>8. PastInv'
  <2>1. ASSUME NEW id \in AnyId, id.run <= run
        PROVE  Before(id)'
    BY <1>1, <2>1, IdParts DEF Before
  <2>2. \A id \in {new} : Shaped(id) /\ id.run <= run' /\ Before(id)'
    BY <1>1, <1>3 DEF Before
  <2>. QED
    BY <1>1, <1>2, <1>5, <2>1, <2>2, PastExtends
<1>9. StartedInv'
  <2>1. started' \subseteq Recorded'
    <3>1. Recorded' = Recorded \cup {new}
      BY <1>5, ExtendsParts
    <3>2. started' = started \cup {new}
      BY <1>5 DEF Extends
    <3>. QED
      BY <3>1, <3>2 DEF StartedInv
  <2>2. Run' \in started'
    BY <1>2, <1>5 DEF Extends
  <2>. QED
    BY <1>1, <1>2, <2>1, <2>2 DEF StartedInv, Working
<1>10. OpenInv'
  <2>1. \A c \in completed : c[1] <= run /\ c[1] \in Nat
    BY DEF OpenInv, TraceTypeOK
  <2>2. \A r \in published : r <= run /\ r \in Nat
    BY DEF OpenInv, TraceTypeOK
  <2>3. ASSUME NEW i \in DOMAIN spans', spans'[i].id = Run'
        PROVE  spans'[i].status = "running"
    BY <1>2, <1>4, <1>5, <2>3 DEF Extends, Recorded
  <2>4. ASSUME NEW i \in DOMAIN spans', spans'[i].id = Loop'
        PROVE  spans'[i].status = "running"
    <3>1. spans'[i].id.kind = "loop" /\ spans'[i].id.run = run + 1
      BY <1>1, <2>4 DEF Loop, Id
    <3>2. i \in DOMAIN spans => spans'[i].id.run <= run
      BY <1>5 DEF Extends, PastInv
    <3>. QED
      BY <1>1, <1>3, <1>5, <3>1, <3>2 DEF Extends
  <2>. QED
    BY <1>1, <2>1, <2>2, <2>3, <2>4 DEF OpenInv
<1>11. StatusTruthful'
  BY <1>1, <1>3, <1>5, OpenedTruthful DEF StatusTruthful
<1>12. RunSpansClosed'
  BY <1>1, <1>3, <1>5, OpenedRuns
<1>. QED
  BY <1>6, <1>7, <1>8, <1>9, <1>10, <1>11, <1>12

\* The loop opens spans of its own that nothing recorded yet.
LEMMA LoopOpens ==
    ASSUME TraceInv, NEW ids \in SUBSET AnyId, Extends(ids), Working,
           UNCHANGED <<trace, bound, stage, run, attempt, historyVars>>, TraceTypeOK',
           loop # "over", loop' \in {"between", "chatting", "batch"},
           \A id \in ids : ~ Before(id) /\ id.kind \in {"loop", "llm", "tool"},
           \A id \in ids : ParentOf(id) \in started,
           \A id \in AnyId : Before(id) => Before(id)',
           \A id \in ids : Shaped(id) /\ id.run = run /\ Before(id)',
           \A id \in ids : id.kind = "loop" => loop = "none" /\ id.attempt = attempt,
           Loop \in started',
           loop' = "chatting" => Llm' \in started',
           loop' = "batch" => calls' <= MaxBatch /\ delivered' < calls'
                              /\ \A k \in 1..calls' : Tool(k)' \in started'
    PROVE  TraceInv'
<1>. USE DEF TraceInv
<1>1. /\ Working' /\ run \in 1..MaxRuns /\ run >= 1 /\ attempt >= 1
      /\ UNCHANGED <<published, completed, unnamed, killed>>
      /\ Run' = Run /\ Loop' = Loop
  BY DEF Working, StartedInv, TraceTypeOK, historyVars, Run, Loop
<1>2. ids \cap Recorded = {}
  BY Fresh
<1>3. SpansFormTree'
  BY <1>2, TreeExtends DEF StartedInv
<1>4. PastInv'
  BY <1>1, PastExtends DEF PastInv, Working
<1>5. StartedInv'
  <2>1. started \subseteq started' /\ started' \subseteq Recorded'
    BY ExtendsParts DEF Extends, StartedInv
  <2>. QED
    BY <1>1, <2>1 DEF StartedInv, Working
<1>6. OpenInv'
  <2>1. ASSUME NEW i \in DOMAIN spans', spans'[i].id \in {Run, Loop}
        PROVE  spans'[i].status = "running"
    BY <2>1 DEF OpenInv, Extends
  <2>. QED
    BY <1>1, <2>1 DEF OpenInv
<1>7. StatusTruthful'
  <2>1. \A id \in ids : id.kind = "loop" => <<id.run, id.attempt>> \notin completed
    <3>1. loop = "none" => <<run, attempt>> \notin completed
      BY <1>1 DEF OpenInv, TraceTypeOK
    <3>. QED
      BY <3>1
  <2>. QED
    BY <1>1, <2>1, OpenedTruthful DEF StatusTruthful
<1>8. RunSpansClosed'
  BY <1>1, OpenedRuns DEF Working
<1>. QED
  BY <1>3, <1>4, <1>5, <1>6, <1>7, <1>8

\* The spans of a run hang below its run span.
LEMMA Parents ==
    ASSUME NEW n, NEW k
    PROVE  /\ ParentOf(Loop) = Run
           /\ ParentOf(Id("llm", run, attempt, n, 0)) = Loop
           /\ ParentOf(Tool(k)) = Loop
  BY DEF ParentOf, Loop, Run, Tool, Id

\* An agent loop starts with a span below its run.
LEMMA StartLoopTrace ==
    ASSUME TraceInv, StartLoop
    PROVE  TraceInv'
<1>. USE DEF TraceInv
<1>1. /\ Working /\ run >= 1 /\ attempt >= 1 /\ Run \in started
      /\ loop = "none" /\ loop' = "between" /\ Observe(Loop, "no")
      /\ UNCHANGED <<trace, bound, stage, run, attempt, round, calls, delivered, historyVars>>
  BY DEF StartLoop, StartedInv
<1>2. Loop \in AnyId /\ Loop.kind = "loop"
  BY <1>1, WorkIds
<1>3. Loop.run = run /\ Loop.attempt = attempt /\ Shaped(Loop)
  BY DEF Loop, Id, Shaped
<1>4. ~ Before(Loop)
  BY <1>1, <1>2, <1>3 DEF Before, TraceTypeOK
<1>5. Extends({Loop})
  BY <1>1, <1>2, <1>4, Fresh, ObserveNew
<1>6. TraceTypeOK'
  <2>1. spans' \in Seq(Span) /\ started' \subseteq {s.id : s \in Span}
    BY <1>2, <1>5, SpanIds DEF Extends, TraceTypeOK
  <2>. QED
    BY <1>1, <2>1 DEF TraceTypeOK, historyVars
<1>7. \A id \in AnyId : Before(id) => Before(id)'
  BY <1>1 DEF Before
<1>8. \A id \in {Loop} : Before(id)'
  BY <1>1, <1>2, <1>3 DEF Before
<1>9. Loop \in started'
  BY <1>5 DEF Extends
<1>10. ParentOf(Loop) = Run
  BY Parents
<1>. QED
  BY <1>1, <1>2, <1>3, <1>4, <1>5, <1>6, <1>7, <1>8, <1>9, <1>10, LoopOpens

\* A request starts with a span below its loop.
LEMMA RequestTrace ==
    ASSUME TraceInv, Request
    PROVE  TraceInv'
<1>. DEFINE new == Id("llm", run, attempt, round + 1, 0)
<1>. USE DEF TraceInv
<1>1. /\ Working /\ run >= 1 /\ run \in 1..MaxRuns /\ Loop \in started
      /\ loop = "between" /\ loop' = "chatting" /\ Observe(new, "no")
      /\ round' = round + 1 /\ round + 1 \in 0..MaxRounds /\ round \in Nat
      /\ UNCHANGED <<trace, bound, stage, run, attempt, calls, delivered, historyVars>>
  BY TraceAssumption DEF Request, StartedInv, TraceTypeOK
<1>2. new \in AnyId
  <2>1. attempt \in 0..MaxAttempts /\ 0 \in 0..MaxBatch /\ "llm" \in Kinds
    BY TraceAssumption DEF TraceTypeOK, Kinds
  <2>. QED
    BY <1>1, <2>1, IdMake
<1>3. /\ new.kind = "llm" /\ new.run = run /\ new.attempt = attempt /\ new.round = round + 1
      /\ Shaped(new) /\ new = Llm'
  <2>1. new = Llm'
    BY <1>1 DEF Llm
  <2>. QED
    BY <2>1 DEF Id, Shaped
<1>4. ParentOf(new) = Loop
  BY Parents
<1>. HIDE DEF new
<1>5. ~ Before(new)
  BY <1>1, <1>3 DEF Before, TraceTypeOK
<1>6. Extends({new})
  BY <1>1, <1>2, <1>5, Fresh, ObserveNew
<1>7. started' = started \cup {new}
  BY <1>6 DEF Extends
<1>8. TraceTypeOK'
  <2>1. spans' \in Seq(Span) /\ started' \subseteq {s.id : s \in Span}
    BY <1>2, <1>6, SpanIds DEF Extends, TraceTypeOK
  <2>. QED
    BY <1>1, <2>1 DEF TraceTypeOK, historyVars
<1>9. ASSUME NEW id \in AnyId, Before(id)
      PROVE  Before(id)'
  BY <1>1, <1>9, IdParts DEF Before
<1>10. \A id \in {new} : Before(id)'
  BY <1>1, <1>3 DEF Before
<1>. QED
  BY <1>1, <1>2, <1>3, <1>4, <1>5, <1>6, <1>7, <1>8, <1>9, <1>10, LoopOpens DEF TraceTypeOK

\* A batch records one span for each of its calls.
LEMMA CallToolsExtends ==
    ASSUME TraceInv, CallTools
    PROVE  Extends({Tool(k) : k \in 1..calls})
<1>. USE DEF TraceInv
<1>. DEFINE batch == [k \in 1..calls |-> [id |-> Tool(k), status |-> "running"]]
            ids == {Tool(k) : k \in 1..calls}
<1>1. spans' = spans \o batch /\ started' = started \cup ids
  BY DEF CallTools
<1>2. /\ calls \in 1..MaxBatch /\ calls \in Nat /\ run >= 1
      /\ \A k \in 1..calls : k \in 0..MaxBatch
  BY TraceAssumption DEF CallTools, StartedInv
<1>3. \A k \in 1..calls : [id |-> Tool(k), status |-> "running"] \in Span
  BY <1>2, WorkIds, SpanMake
<1>4. batch \in Seq(Span) /\ Len(batch) = calls
  BY <1>2, <1>3
<1>5. \A k \in 1..calls : batch[k].id = Tool(k) /\ batch[k].status = "running"
  OBVIOUS
<1>6. \A j, k \in 1..calls : Tool(j) = Tool(k) => j = k
  BY DEF Tool, Id
<1>. HIDE DEF batch
<1>7. spans \in Seq(Span) /\ Len(spans) \in Nat /\ DOMAIN spans = 1..Len(spans)
  BY DEF TraceTypeOK
<1>8. /\ spans' \in Seq(Span) /\ Len(spans') = Len(spans) + calls
      /\ DOMAIN spans' = 1..Len(spans) + calls
      /\ \A i \in 1..Len(spans) : spans'[i] = spans[i]
      /\ \A k \in 1..calls : spans'[Len(spans) + k] = batch[k]
  <2>1. /\ spans' \in Seq(Span) /\ Len(spans') = Len(spans) + calls
        /\ \A i \in 1..Len(spans) + calls :
              spans'[i] = IF i <= Len(spans) THEN spans[i] ELSE batch[i - Len(spans)]
    BY <1>1, <1>4, <1>7, ConcatProperties
  <2>2. DOMAIN spans' = 1..Len(spans) + calls
    BY <2>1
  <2>3. \A i \in 1..Len(spans) : spans'[i] = spans[i]
    BY <2>1, <1>2, <1>7
  <2>4. ASSUME NEW k \in 1..calls
        PROVE  spans'[Len(spans) + k] = batch[k]
    <3>1. /\ Len(spans) + k \in 1..Len(spans) + calls
          /\ ~ (Len(spans) + k <= Len(spans)) /\ Len(spans) + k - Len(spans) = k
      BY <1>2, <1>7
    <3>. QED
      BY <2>1, <3>1
  <2>. QED
    BY <2>1, <2>2, <2>3, <2>4
<1>9. ASSUME NEW i \in DOMAIN spans' \ DOMAIN spans
      PROVE  \E k \in 1..calls : i = Len(spans) + k
  <2>1. i - Len(spans) \in 1..calls /\ i = Len(spans) + (i - Len(spans))
    BY <1>2, <1>7, <1>8
  <2>. QED
    BY <2>1
<1>10. \A k \in 1..calls : Len(spans) + k \in DOMAIN spans'
  BY <1>2, <1>7, <1>8
<1>11. /\ Len(spans) <= Len(spans')
       /\ \A i \in DOMAIN spans : spans'[i] = spans[i]
  BY <1>2, <1>7, <1>8
<1>12. ASSUME NEW i \in DOMAIN spans' \ DOMAIN spans
       PROVE  /\ spans'[i].id \in ids /\ spans'[i].status = "running"
              /\ \A j \in DOMAIN spans' \ DOMAIN spans : spans'[j].id = spans'[i].id => j = i
  <2>1. PICK k \in 1..calls : i = Len(spans) + k
    BY <1>9
  <2>2. spans'[i].id = Tool(k) /\ spans'[i].status = "running"
    BY <1>5, <1>8, <2>1
  <2>3. ASSUME NEW j \in DOMAIN spans' \ DOMAIN spans, spans'[j].id = spans'[i].id
        PROVE  j = i
    <3>1. PICK m \in 1..calls : j = Len(spans) + m
      BY <1>9
    <3>2. spans'[j].id = Tool(m)
      BY <1>5, <1>8, <3>1
    <3>3. m = k
      BY <1>6, <2>2, <2>3, <3>2
    <3>. QED
      BY <2>1, <3>1, <3>3
  <2>. QED
    BY <2>2, <2>3
<1>13. ASSUME NEW id \in ids
       PROVE  \E i \in DOMAIN spans' : spans'[i].id = id
  <2>1. PICK k \in 1..calls : id = Tool(k)
    OBVIOUS
  <2>2. spans'[Len(spans) + k].id = id
    BY <1>5, <1>8, <2>1
  <2>. QED
    BY <1>10, <2>2
<1>. HIDE DEF ids
<1>14. Extends(ids)
  BY <1>1, <1>8, <1>11, <1>12, <1>13 DEF Extends
<1>. QED
  BY <1>14 DEF ids

\* A batch of tool calls records spans below the loop.
LEMMA CallToolsTrace ==
    ASSUME TraceInv, CallTools
    PROVE  TraceInv'
<1>. USE DEF TraceInv
<1>. DEFINE ids == {Tool(k) : k \in 1..calls}
<1>1. /\ Working /\ run >= 1 /\ Loop \in started
      /\ loop = "responded" /\ loop' = "batch" /\ calls \in 1..MaxBatch
      /\ UNCHANGED <<trace, bound, stage, run, attempt, round, calls, delivered, historyVars>>
  BY DEF CallTools, StartedInv
<1>2. \A k \in 1..calls : k \in 0..MaxBatch
  BY <1>1, TraceAssumption
<1>3. Extends(ids)
  BY CallToolsExtends
<1>4. \A k \in 1..calls : /\ Tool(k) \in AnyId /\ Tool(k).kind = "tool" /\ Tool(k).run = run
                          /\ Tool(k).attempt = attempt /\ Tool(k).round = round
                          /\ ParentOf(Tool(k)) = Loop
  BY <1>1, <1>2, WorkIds, Parents DEF Tool, Id
<1>5. /\ \A id \in ids : /\ id \in AnyId /\ id.kind = "tool" /\ id.run = run
                         /\ id.attempt = attempt /\ id.round = round /\ ParentOf(id) = Loop
      /\ \A k \in 1..calls : Tool(k) \in ids
  BY <1>4
<1>. HIDE DEF ids
<1>6. \A id \in ids : ~ Before(id) /\ Shaped(id)
  BY <1>1, <1>5 DEF Before, Shaped, TraceTypeOK
<1>7. started' = started \cup ids
  BY <1>3 DEF Extends
<1>8. TraceTypeOK'
  <2>1. spans' \in Seq(Span) /\ started' \subseteq {s.id : s \in Span}
    BY <1>3, <1>5, <1>7, SpanIds DEF Extends, TraceTypeOK
  <2>. QED
    BY <1>1, <2>1 DEF TraceTypeOK, historyVars
<1>9. \A id \in AnyId : Before(id) => Before(id)'
  BY <1>1 DEF Before
<1>10. \A id \in ids : Before(id)'
  BY <1>1, <1>5 DEF Before
<1>11. /\ calls' <= MaxBatch /\ delivered' < calls'
       /\ \A k \in 1..calls' : Tool(k)' \in started'
  BY <1>1, <1>5, <1>7, TraceAssumption DEF Tool, StartedInv
<1>12. ids \in SUBSET AnyId
  BY <1>5
<1>. QED
  BY <1>1, <1>3, <1>12, <1>5, <1>6, <1>7, <1>8, <1>9, <1>10, <1>11, LoopOpens

-----------------------------------------------------------------------------
(* Steps that close spans *)

\* A request or a tool call ends, and with it no loop and no run.
LEMMA PartEnds ==
    ASSUME TraceInv, NEW id \in AnyId, NEW status, id.kind \in {"llm", "tool"},
           Closes(id, status), TraceTypeOK', Working,
           UNCHANGED <<trace, bound, stage, run, attempt, round, historyVars>>,
           loop \in {"chatting", "batch"}, loop' \in {"responded", "between", "batch"},
           loop' = "responded" => loop = "chatting" /\ delivered' = 0,
           loop' = "batch" => calls' <= MaxBatch /\ delivered' < calls'
                              /\ \A k \in 1..calls' : Tool(k)' \in started
    PROVE  TraceInv'
<1>. USE DEF TraceInv
<1>1. /\ Working' /\ UNCHANGED <<published, completed, unnamed, killed>>
      /\ Run' = Run /\ Loop' = Loop /\ Run.kind = "run" /\ Loop.kind = "loop"
  BY DEF Working, historyVars, Run, Loop, Id
<1>2. SameIds /\ Recorded' = Recorded /\ started' = started
  <2>1. SameIds
    BY ClosesSameIds
  <2>. QED
    BY <2>1, SameRecorded DEF Closes
<1>3. \A i \in DOMAIN spans : spans[i].id.kind \in {"run", "loop"}
                                => spans'[i].status = spans[i].status
  BY DEF Closes
<1>4. SpansFormTree'
  BY <1>2, TreeKept
<1>5. PastInv'
  <2>1. ASSUME NEW x \in AnyId, Before(x)
        PROVE  Before(x)'
    BY <2>1 DEF Before
  <2>. QED
    BY <1>1, <1>2, <2>1, PastKept
<1>6. StartedInv'
  BY <1>1, <1>2 DEF StartedInv, Working
<1>7. OpenInv'
  <2>1. ASSUME NEW i \in DOMAIN spans', spans'[i].id \in {Run, Loop}
        PROVE  spans'[i].status = "running"
    BY <1>1, <1>2, <1>3, <2>1 DEF OpenInv, SameIds
  <2>. QED
    BY <1>1, <2>1 DEF OpenInv
<1>8. StatusTruthful'
  BY <1>1, <1>2, <1>3 DEF StatusTruthful, SameIds
<1>9. RunSpansClosed'
  BY <1>1, <1>2, <1>3 DEF RunSpansClosed, SameIds
<1>. QED
  BY <1>4, <1>5, <1>6, <1>7, <1>8, <1>9

\* The loop ends: its span says whether it completed.
LEMMA LoopEnds ==
    ASSUME TraceInv, NEW status \in {"ok", "error"}, Closes(Loop, status), TraceTypeOK', Working,
           UNCHANGED <<trace, bound, stage, run, attempt, round, published, unnamed, killed>>,
           loop \in {"between", "chatting", "responded", "batch"}, loop' = "over",
           completed' = IF status = "ok" THEN completed \cup {<<run, attempt>>} ELSE completed
    PROVE  TraceInv'
<1>. USE DEF TraceInv
<1>1. /\ Working' /\ Run' = Run /\ Loop' = Loop /\ Run.kind = "run" /\ Loop.kind = "loop"
      /\ run \in Nat /\ attempt \in Nat
  BY DEF Working, Run, Loop, Id, TraceTypeOK
<1>2. SameIds /\ Recorded' = Recorded /\ started' = started
  <2>1. SameIds
    BY ClosesSameIds
  <2>. QED
    BY <2>1, SameRecorded DEF Closes
<1>3. \A i \in DOMAIN spans : spans[i].id # Loop => spans'[i].status = spans[i].status
  BY DEF Closes
<1>4. \A i \in DOMAIN spans : spans[i].id = Loop => spans'[i].status = status
  BY DEF Closes, OpenInv
<1>5. SpansFormTree'
  BY <1>2, TreeKept
<1>6. PastInv'
  <2>1. ASSUME NEW x \in AnyId, Before(x)
        PROVE  Before(x)'
    BY <2>1 DEF Before
  <2>. QED
    BY <1>1, <1>2, <2>1, PastKept
<1>7. StartedInv'
  BY <1>1, <1>2 DEF StartedInv, Working
<1>8. OpenInv'
  <2>1. ASSUME NEW i \in DOMAIN spans', spans'[i].id = Run
        PROVE  spans'[i].status = "running"
    BY <1>1, <1>2, <1>3, <2>1 DEF OpenInv, SameIds
  <2>2. \A c \in completed' : c[1] <= run /\ (c[1] = run => c[2] <= attempt)
    BY <1>1 DEF OpenInv, TraceTypeOK
  <2>3. \A c \in completed' : c[2] \in Nat
    BY DEF TraceTypeOK
  <2>4. \A c \in completed' : c[1] <= run /\ (c[1] = run => c[2] < attempt \/ c[2] = attempt)
    BY <1>1, <2>2, <2>3
  <2>5. \A i \in DOMAIN spans' : /\ spans'[i].id = Run' => spans'[i].status = "running"
                                 /\ loop' = "over"
    BY <1>1, <2>1
  <2>6. run \notin published
    BY DEF OpenInv
  <2>. QED
    BY <1>1, <2>4, <2>5, <2>6 DEF OpenInv
<1>9. StatusTruthful'
  <2>1. ASSUME NEW i \in DOMAIN spans, spans[i].id.kind = "loop"
        PROVE  spans'[i].status = "ok"
                  <=> <<spans[i].id.run, spans[i].id.attempt>> \in completed'
    <3>1. spans[i].status = "ok" <=> <<spans[i].id.run, spans[i].id.attempt>> \in completed
      BY <2>1 DEF StatusTruthful
    <3>2. CASE spans[i].id = Loop
      <4>1. spans[i].status = "running" /\ spans'[i].status = status
        BY <1>4, <3>2 DEF OpenInv
      <4>2. spans[i].id.run = run /\ spans[i].id.attempt = attempt
        BY <3>2 DEF Loop, Id
      <4>. QED
        BY <3>1, <4>1, <4>2
    <3>3. CASE spans[i].id # Loop
      <4>1. <<spans[i].id.run, spans[i].id.attempt>> # <<run, attempt>>
        BY <2>1, <3>3, WhoseSpan
      <4>2. spans'[i].status = spans[i].status
        BY <1>3, <3>3
      <4>. QED
        BY <3>1, <4>1, <4>2
    <3>. QED
      BY <3>2, <3>3
  <2>2. \A i \in DOMAIN spans : spans[i].id.kind = "run" => spans'[i].status = spans[i].status
    BY <1>1, <1>3
  <2>. QED
    BY <1>2, <2>1, <2>2 DEF StatusTruthful, SameIds
<1>10. RunSpansClosed'
  BY <1>1, <1>2, <1>3 DEF RunSpansClosed, SameIds
<1>. QED
  BY <1>5, <1>6, <1>7, <1>8, <1>9, <1>10

\* The run ends: its span is closed, or its end went to another context.
LEMMA RunEnds ==
    ASSUME TraceInv, NEW status \in {"ok", "error"}, Observe(bound, status),
           TraceTypeOK', Working, ~ Working', UNCHANGED <<run, completed, killed>>, Unnamed,
           trace' = "ok" => stage' = "finished",
           published' = IF status = "ok" THEN published \cup {run} ELSE published,
           stage' = "review" => bound' \in {Session, Unbound}
    PROVE  TraceInv'
<1>. USE DEF TraceInv
<1>1. run >= 1 /\ run \in Nat /\ Run \in AnyId /\ Run \in started /\ bound \in {Session, Run}
  BY WorkIds DEF StartedInv, TraceTypeOK
<1>2. Run.kind = "run" /\ Run.run = run
  BY DEF Run, Id
<1>3. /\ SameIds /\ started' = started
      /\ \A i \in DOMAIN spans : spans[i].id # Run => spans'[i].status = spans[i].status
      /\ \A i \in DOMAIN spans : spans[i].id = Run =>
            \/ spans'[i].status = status
            \/ bound # Run /\ spans'[i].status = "running"
  <2>1. CASE bound = Run
    <3>1. Closes(Run, status)
      BY <1>1, <2>1, ObserveKnown
    <3>2. SameIds /\ started' = started
      BY <3>1, ClosesSameIds DEF Closes
    <3>. QED
      BY <3>1, <3>2 DEF Closes, OpenInv
  <2>2. CASE bound = Session
    <3>1. UNCHANGED <<spans, started>>
      BY <2>2, ObserveContext
    <3>2. Session # Run
      BY <1>1, NotAContext
    <3>. QED
      BY <2>2, <3>1, <3>2, UnchangedSameIds DEF OpenInv
  <2>. QED
    BY <1>1, <2>1, <2>2
<1>4. SpansFormTree'
  BY <1>3, TreeKept
<1>5. PastInv'
  BY <1>3, PastKept
<1>6. StartedInv'
  BY <1>3, SameRecorded DEF StartedInv
<1>7. OpenInv'
  BY <1>1 DEF OpenInv
<1>8. StatusTruthful'
  <2>1. ASSUME NEW i \in DOMAIN spans, spans[i].id.kind = "run"
        PROVE  /\ spans'[i].status = "ok" => spans[i].id.run \in published'
               /\ spans'[i].status = "error" => spans[i].id.run \notin published'
    <3>1. CASE spans[i].id = Run
      BY <1>2, <1>3, <3>1 DEF OpenInv
    <3>2. CASE spans[i].id # Run
      <4>1. spans[i].id.run # run
        BY <2>1, <3>2, WhoseSpan
      <4>2. spans'[i].status = spans[i].status
        BY <1>3, <3>2
      <4>. QED
        BY <2>1, <4>1, <4>2 DEF StatusTruthful
    <3>. QED
      BY <3>1, <3>2
  <2>2. \A i \in DOMAIN spans : spans[i].id.kind = "loop" => spans'[i].status = spans[i].status
    BY <1>2, <1>3
  <2>. QED
    BY <1>3, <2>1, <2>2 DEF StatusTruthful, SameIds
<1>9. RunSpansClosed'
  <2>1. ASSUME NEW i \in DOMAIN spans, spans[i].id.kind = "run", spans'[i].status = "running"
        PROVE  spans[i].id.run \in killed \cup unnamed'
    <3>1. CASE spans[i].id = Run
      BY <1>2, <1>3, <2>1, <3>1 DEF Unnamed
    <3>2. CASE spans[i].id # Run
      <4>1. spans[i].id.run # run
        BY <2>1, <3>2, WhoseSpan
      <4>2. spans'[i].status = spans[i].status
        BY <1>3, <3>2
      <4>. QED
        BY <2>1, <4>1, <4>2 DEF RunSpansClosed, Unnamed
    <3>. QED
      BY <3>1, <3>2
  <2>. QED
    BY <1>3, <2>1 DEF RunSpansClosed, SameIds
<1>. QED
  BY <1>4, <1>5, <1>6, <1>7, <1>8, <1>9

\* A response closes the span of its request.
LEMMA RespondTrace ==
    ASSUME TraceInv, Respond
    PROVE  TraceInv'
<1>. USE DEF TraceInv
<1>1. /\ Working /\ run >= 1 /\ Llm \in started /\ Observe(Llm, "ok")
      /\ loop = "chatting" /\ loop' = "responded" /\ delivered' = 0 /\ calls' \in 0..MaxBatch + 1
      /\ UNCHANGED <<trace, bound, stage, run, attempt, round, historyVars>>
  BY DEF Respond, StartedInv
<1>2. Llm \in AnyId /\ Llm.kind = "llm"
  BY <1>1, WorkIds
<1>3. Closes(Llm, "ok")
  BY <1>1, <1>2, ObserveKnown
<1>4. TraceTypeOK'
  <2>1. spans' \in Seq(Span) /\ started' = started /\ 0 \in 0..MaxBatch
    BY <1>3, TraceAssumption DEF Closes
  <2>. QED
    BY <1>1, <2>1 DEF TraceTypeOK, historyVars
<1>. QED
  BY <1>1, <1>2, <1>3, <1>4, PartEnds

\* A result closes the span of its call.
LEMMA DeliverResultTrace ==
    ASSUME TraceInv, DeliverResult
    PROVE  TraceInv'
<1>. DEFINE id == Tool(delivered + 1)
<1>. USE DEF TraceInv
<1>1. PICK status \in {"ok", "error"} :
        /\ Working /\ run >= 1 /\ delivered < calls /\ delivered' = delivered + 1
        /\ loop = "batch" /\ loop' = IF delivered' = calls THEN "between" ELSE "batch"
        /\ Observe(id, status)
        /\ UNCHANGED <<trace, bound, stage, run, attempt, round, calls, historyVars>>
  BY DEF DeliverResult, StartedInv, Observe, Tool, Id
<1>2. /\ calls \in Nat /\ delivered \in Nat /\ calls <= MaxBatch /\ MaxBatch \in Nat
      /\ \A k \in 1..calls : Tool(k) \in started
  BY <1>1, TraceAssumption DEF TraceTypeOK, StartedInv
<1>3. delivered + 1 \in 1..calls /\ delivered + 1 \in 0..MaxBatch
  BY <1>1, <1>2
<1>4. id \in AnyId /\ id.kind = "tool" /\ id \in started
  BY <1>1, <1>2, <1>3, WorkIds
<1>. HIDE DEF id
<1>5. Closes(id, status)
  BY <1>1, <1>4, ObserveKnown
<1>6. TraceTypeOK'
  <2>1. spans' \in Seq(Span) /\ started' = started
    BY <1>5 DEF Closes
  <2>2. loop' \in {"between", "batch"} /\ delivered' \in 0..MaxBatch
    BY <1>1, <1>3
  <2>. QED
    BY <1>1, <2>1, <2>2 DEF TraceTypeOK, historyVars
<1>7. loop' = "batch" => calls' <= MaxBatch /\ delivered' < calls'
                         /\ \A k \in 1..calls' : Tool(k)' \in started
  BY <1>1, <1>2, <1>3 DEF Tool
<1>8. loop' \in {"between", "batch"}
  BY <1>1
<1>. QED
  BY <1>1, <1>4, <1>5, <1>6, <1>7, <1>8, PartEnds

\* However a loop ends, its span is closed.
LEMMA LoopEndsTrace ==
    ASSUME TraceInv, Complete \/ RejectBatch \/ StopLoop
    PROVE  TraceInv'
<1>. USE DEF TraceInv
<1>1. PICK status \in {"ok", "error"} :
        /\ Working /\ Observe(Loop, status)
        /\ loop \in {"between", "chatting", "responded", "batch"} /\ loop' = "over"
        /\ completed' = IF status = "ok" THEN completed \cup {<<run, attempt>>} ELSE completed
        /\ UNCHANGED <<trace, bound, stage, run, attempt, round, calls, delivered>>
        /\ UNCHANGED <<published, unnamed, killed>>
  <2>1. CASE Complete
    <3>1. WITNESS "ok" \in {"ok", "error"}
    <3>. QED
      BY <2>1 DEF Complete
  <2>2. CASE RejectBatch \/ StopLoop
    <3>1. WITNESS "error" \in {"ok", "error"}
    <3>. QED
      BY <2>2 DEF RejectBatch, StopLoop, historyVars
  <2>. QED
    BY <2>1, <2>2
<1>2. /\ Loop \in AnyId /\ Loop \in started /\ run \in 1..MaxRuns
      /\ attempt \in 1..MaxAttempts
  BY <1>1, WorkIds DEF StartedInv, TraceTypeOK
<1>3. Closes(Loop, status)
  BY <1>1, <1>2, ObserveKnown
<1>4. TraceTypeOK'
  <2>1. spans' \in Seq(Span) /\ started' = started
    BY <1>3 DEF Closes
  <2>2. completed' \subseteq (1..MaxRuns) \X (1..MaxAttempts)
    BY <1>1, <1>2 DEF TraceTypeOK
  <2>. QED
    BY <1>1, <2>1, <2>2 DEF TraceTypeOK
<1>. QED
  BY <1>1, <1>3, <1>4, LoopEnds

\* However a run ends, its span is closed.
LEMMA RunEndsTrace ==
    ASSUME TraceInv, FinishRun \/ FailRun
    PROVE  TraceInv'
<1>. USE DEF TraceInv
<1>1. PICK status \in {"ok", "error"} :
        /\ Working /\ Observe(bound, status) /\ Unnamed
        /\ stage' \in {"ready", "review", "finished", "failed"}
        /\ trace' \in {trace, "ok"} /\ (trace' = "ok" => trace = "ok" \/ stage' = "finished")
        /\ bound' \in {bound, Session} /\ (stage' = "review" => bound' = Session)
        /\ published' = IF status = "ok" THEN published \cup {run} ELSE published
        /\ UNCHANGED <<run, loopVars, completed, killed>>
  <2>1. CASE FinishRun
    <3>1. WITNESS "ok" \in {"ok", "error"}
    <3>. QED
      BY <2>1 DEF FinishRun, AgentReturned, Working
  <2>2. CASE FailRun
    <3>1. WITNESS "error" \in {"ok", "error"}
    <3>. QED
      BY <2>2 DEF FailRun, Waiting, Working
  <2>. QED
    BY <2>1, <2>2
<1>2. run \in 1..MaxRuns /\ run >= 1 /\ Run \in AnyId /\ Run \in started /\ bound \in {Session, Run}
  BY <1>1, WorkIds DEF StartedInv, TraceTypeOK
<1>3. spans' \in Seq(Span) /\ started' = started
  <2>1. CASE bound = Run
    <3>1. Closes(Run, status)
      BY <1>1, <1>2, <2>1, ObserveKnown
    <3>. QED
      BY <3>1 DEF Closes
  <2>2. CASE bound = Session
    BY <1>1, <2>2, ObserveContext DEF TraceTypeOK
  <2>. QED
    BY <1>2, <2>1, <2>2
<1>4. TraceTypeOK'
  <2>1. published' \cup unnamed' \cup killed' \subseteq 1..MaxRuns
    BY <1>1, <1>2 DEF TraceTypeOK, Unnamed
  <2>. QED
    BY <1>1, <1>3, <2>1 DEF TraceTypeOK, loopVars
<1>5. ~ Working' /\ (trace' = "ok" => stage' = "finished")
  BY <1>1 DEF Working, StatusTruthful
<1>. QED
  BY <1>1, <1>4, <1>5, RunEnds

-----------------------------------------------------------------------------
(* The theorems *)

\* Nothing is recorded at first.
LEMMA InitTrace == Init => TraceInv
<1>. SUFFICES ASSUME Init PROVE TraceInv
  OBVIOUS
<1>. USE DEF Init
<1>1. TraceTypeOK
  BY TraceAssumption DEF TraceTypeOK
<1>2. DOMAIN spans = {} /\ stage = "new" /\ ~ Working
  BY DEF Working
<1>. QED
  BY <1>1, <1>2 DEF TraceInv, PastInv, StartedInv, OpenInv, SpansFormTree, StatusTruthful,
                    RunSpansClosed

\* Every step keeps the invariant.
LEMMA NextTrace == TraceInv /\ [Next]_vars => TraceInv'
<1>. SUFFICES ASSUME TraceInv, [Next]_vars PROVE TraceInv'
  OBVIOUS
<1>1. CASE StartSession
  BY <1>1, StartSessionTrace
<1>2. CASE CallWithoutAgent \/ RefuseAnswer \/ UNCHANGED vars
  BY <1>2, BoundOnly DEF CallWithoutAgent, RefuseAnswer, vars
<1>3. CASE StartRun
  BY <1>3, StartRunTrace
<1>4. CASE FinishRun \/ FailRun
  BY <1>4, RunEndsTrace
<1>5. CASE NextAttempt
  BY <1>5, NextAttemptTrace
<1>6. CASE SubmitHumanReview
  BY <1>6, SubmitHumanReviewTrace
<1>7. CASE AbandonRun
  BY <1>7, AbandonRunTrace
<1>8. CASE Restart
  BY <1>8, RestartTrace
<1>9. CASE StartLoop
  BY <1>9, StartLoopTrace
<1>10. CASE Request
  BY <1>10, RequestTrace
<1>11. CASE Respond
  BY <1>11, RespondTrace
<1>12. CASE CallTools
  BY <1>12, CallToolsTrace
<1>13. CASE DeliverResult
  BY <1>13, DeliverResultTrace
<1>14. CASE Complete \/ RejectBatch \/ StopLoop
  BY <1>14, LoopEndsTrace
<1>. QED
  BY <1>1, <1>2, <1>3, <1>4, <1>5, <1>6, <1>7, <1>8, <1>9, <1>10, <1>11, <1>12, <1>13, <1>14
  DEF Next, RuntimeStep, LoopStep

\* The invariant of the recorder holds throughout.
LEMMA TraceAlways == Spec => []TraceInv
  BY InitTrace, NextTrace, PTL DEF Spec

\* The spans of a session form a tree: every span is recorded once, over all retries
\* and restarts, after the span it belongs to (TraceObserver.on_event, _child_trace).
THEOREM TraceIsTree == Spec => []SpansFormTree
<1>1. TraceInv => SpansFormTree
  BY DEF TraceInv
<1>. QED
  BY <1>1, TraceAlways, PTL

\* A closed span says how its run or its loop ended, and the trace is finished only
\* with the interview (TraceObserver.on_event, InterviewRuntime.run_step).
THEOREM TraceTellsTruth == Spec => []StatusTruthful
<1>1. TraceInv => StatusTruthful
  BY DEF TraceInv
<1>. QED
  BY <1>1, TraceAlways, PTL

\* At rest, a run's span is open only if the run was cut off, or its end was emitted in
\* a context somebody else had bound (InterviewRuntime.run_step, EventBus.emit).
THEOREM RunsAreClosed == Spec => []RunSpansClosed
<1>1. TraceInv => RunSpansClosed
  BY DEF TraceInv
<1>. QED
  BY <1>1, TraceAlways, PTL
=============================================================================
