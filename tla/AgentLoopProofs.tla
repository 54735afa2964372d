---------------------------- MODULE AgentLoopProofs ----------------------------
(***************************************************************************)
(* The tool executor and the agent loop on top of it, for every catalogue  *)
(* of tools, every budget, all batches and any number of rounds and runs.  *)
(* First the executor alone: its types, what never runs together, what is  *)
(* recorded before what, and the effects that are accounted for.  Then the *)
(* loop: its types, the budget of a run, the tool messages it owes, and    *)
(* what the executor keeps under it.                                       *)
(***************************************************************************)
EXTENDS AgentLoop, FiniteSetTheorems, TLAPS

\* Two invocations that may be in flight together.
Apart(k, l) == Resource[k] = NoResource \/ Resource[k] # Resource[l]

\* A group is compared call by call as it grows, so any two of its calls are apart.
GroupApart == \A i, j \in group : i # j => Apart(batch[i], batch[j])

\* Executions belong to this run or to an earlier one, and only finitely many go on.
RunningSound == IsFiniteSet(running) /\ \A e \in running : e.run <= run

ToolInv == ToolTypeOK /\ RunningSound /\ GroupApart /\ ResourcesSerialized

-----------------------------------------------------------------------------
(* Types *)

\* The executor starts with nothing recorded and nothing in flight.
LEMMA InitTool == ToolInit => ToolInv
<1>. SUFFICES ASSUME ToolInit PROVE ToolInv
  OBVIOUS
<1>. USE ExecutorAssumption DEF ToolInit
<1>1. /\ run \in 1..MaxRuns /\ rounds \in 0..MaxRounds
      /\ next \in 1..Len(batch) + 1 /\ group \in SUBSET Position
      /\ results \in [Position -> ResultStatus]
  BY DEF Position
<1>2. /\ records \in [Keys -> RecordStatus] /\ counts \in [Keys -> Nat] /\ rejections \in Nat
      /\ durable \in [SideEffects -> DurableStatus] /\ saved \in [SideEffects -> DurableStatus]
      /\ effects \in [SideEffects -> Nat] /\ unseen \in [SideEffects -> Nat]
  BY DEF NewRecords, NewCounts, NoRecords, RecordStatus, DurableStatus
<1>3. ToolTypeOK
  BY <1>1, <1>2 DEF ToolTypeOK
<1>4. RunningSound
  BY FS_EmptySet DEF RunningSound
<1>5. GroupApart /\ ResourcesSerialized
  BY DEF GroupApart, ResourcesSerialized, Current
<1>. QED
  BY <1>3, <1>4, <1>5 DEF ToolInv

\* Batches and executions are made of the catalogue's keys.
LEMMA KeysOnly ==
    ASSUME ToolTypeOK
    PROVE  /\ batch \in Seq(Keys) /\ Position \subseteq Nat
           /\ \A i \in Position : batch[i] \in Keys
           /\ running \subseteq Execution
<1>1. batch \in Seq(Keys)
  <2>1. batch \in Batches \cup {<< >>}
    BY DEF ToolTypeOK
  <2>2. << >> \in Seq(Keys)
    OBVIOUS
  <2>. QED
    BY <2>1, <2>2, ExecutorAssumption
<1>2. Position \subseteq Nat /\ \A i \in Position : batch[i] \in Keys
  BY <1>1 DEF Position
<1>3. running \subseteq Execution
  BY DEF ToolTypeOK
<1>. QED
  BY <1>1, <1>2, <1>3

\* A batch starts with nothing collected.
LEMMA StartBatchKeeps ==
    ASSUME ToolInv, NEW calls \in Batches, StartBatch(calls) PROVE ToolInv'
<1>. USE DEF ToolInv, StartBatch
<1>1. Len(calls) \in Nat
  BY ExecutorAssumption
<1>2. ToolTypeOK'
  <2>0. rounds' \in 0..MaxRounds
    BY ExecutorAssumption DEF ToolTypeOK
  <2>1. executor' = "running" /\ batch' \in Batches /\ alone' \in BOOLEAN
    OBVIOUS
  <2>3. next' \in 1..Len(batch') + 1
    <3>1. next' = 1 /\ Len(batch') \in Nat
      BY <1>1
    <3>. QED
      BY <3>1
  <2>2. group' \in SUBSET Position' /\ results' \in [Position' -> ResultStatus]
    BY DEF Position, ResultStatus
  <2>. QED
    BY <2>0, <2>1, <2>2, <2>3, Zenon DEF ToolTypeOK, governanceVars
<1>3. RunningSound' /\ GroupApart'
  BY DEF RunningSound, GroupApart
<1>4. ResourcesSerialized'
  BY DEF ResourcesSerialized, Current
<1>. QED
  BY <1>2, <1>3, <1>4

\* A position answered without an execution.
LEMMA AnsweredAtOnce ==
    ASSUME ToolInv, next <= Len(batch), NEW status \in ResultStatus,
           results' = [results EXCEPT ![next] = status], next' = next + 1,
           UNCHANGED <<run, rounds, governanceVars, durable, saved, executor, batch, alone,
                       group, running, effects, unseen>>
    PROVE  ToolInv'
<1>. USE DEF ToolInv
<1>1. next' \in 1..Len(batch') + 1
  BY KeysOnly DEF ToolTypeOK
<1>2. results' \in [Position' -> ResultStatus]
  BY DEF ToolTypeOK, Position
<1>3. ToolTypeOK'
  BY <1>1, <1>2 DEF ToolTypeOK, governanceVars, Position
<1>4. RunningSound' /\ GroupApart' /\ ResourcesSerialized'
  BY DEF RunningSound, GroupApart, ResourcesSerialized, Current
<1>. QED
  BY <1>3, <1>4

\* A call that joins the group is apart from every call collected before it.
LEMMA JoinGroupKeeps == ToolInv /\ JoinGroup => ToolInv'
<1>. SUFFICES ASSUME ToolInv, JoinGroup PROVE ToolInv'
  OBVIOUS
<1>. USE DEF ToolInv, JoinGroup
<1>1. PICK k \in Registered : Reached(k) /\ Groupable(k)
  OBVIOUS
<1>2. next \in Position /\ batch[next] = k
  BY <1>1, KeysOnly DEF Reached, ToolTypeOK, Position
<1>3. ToolTypeOK'
  <2>1. next' \in 1..Len(batch') + 1 /\ group' \in SUBSET Position'
    BY <1>2, KeysOnly DEF ToolTypeOK, Position
  <2>. QED
    BY <2>1 DEF ToolTypeOK, governanceVars, Position
<1>4. GroupApart'
  <2>1. \A i \in group : Apart(batch[i], k) /\ Apart(k, batch[i])
    BY <1>1 DEF Groupable, ResourceConflict, Apart
  <2>2. group' = group \cup {next} /\ batch' = batch
    OBVIOUS
  <2>. QED
    BY <1>2, <2>1, <2>2, Zenon DEF GroupApart, Apart
<1>5. RunningSound' /\ ResourcesSerialized'
  BY DEF RunningSound, ResourcesSerialized, Current
<1>. QED
  BY <1>3, <1>4, <1>5

\* Positions that are apart may be launched when nothing of the run is in flight.
LEMMA LaunchKeeps ==
    ASSUME ToolInv, Current = {}, NEW positions \in SUBSET Position, Launch(positions),
           \A i, j \in positions : i # j => Apart(batch[i], batch[j]), UNCHANGED run
    PROVE  running' \in SUBSET Execution /\ RunningSound' /\ ResourcesSerialized'
<1> DEFINE Of(i) == [run |-> run, pos |-> i, key |-> batch[i], pc |-> "start"]
           new == {Of(i) : i \in positions}
<1>1. running' = running \cup new
  BY DEF Launch
<1>2. /\ Position \subseteq Nat /\ \A i \in Position : batch[i] \in Keys
      /\ running \subseteq Execution /\ run \in Nat
  BY KeysOnly DEF ToolInv, ToolTypeOK
<1>3. new \subseteq Execution
  BY <1>2 DEF Execution
<1>4. IsFiniteSet(new)
  <2>1. Position = 1..Len(batch) /\ Len(batch) \in Nat
    BY KeysOnly DEF ToolInv, Position
  <2>2. IsFiniteSet(Position)
    BY <2>1, FS_Interval
  <2>3. IsFiniteSet(positions)
    BY <2>2, FS_Subset
  <2> DEFINE f == [i \in positions |-> Of(i)]
  <2>4. f \in Surjection(positions, new)
    BY DEF Surjection
  <2>. QED
    BY <2>3, <2>4, FS_Surjection
<1>5. IsFiniteSet(running')
  BY <1>1, <1>4, FS_Union DEF ToolInv, RunningSound
<1>6. \A e \in new : e.run = run
  OBVIOUS
<1>7. Current' = new
  BY <1>1, <1>6 DEF Current
<1>8. RunningSound'
  BY <1>1, <1>2, <1>5, <1>6 DEF ToolInv, RunningSound
<1>9. ResourcesSerialized'
  <2>. SUFFICES ASSUME NEW i \in positions, NEW j \in positions, Of(i) # Of(j)
                PROVE  Apart(batch[i], batch[j])
    BY <1>7 DEF ResourcesSerialized, Apart
  <2>. QED
    OBVIOUS
<1>. QED
  BY <1>1, <1>2, <1>3, <1>8, <1>9

\* The whole group is launched at once, and was compared call by call.
LEMMA FlushGroupKeeps == ToolInv /\ FlushGroup => ToolInv'
<1>. SUFFICES ASSUME ToolInv, FlushGroup PROVE ToolInv'
  OBVIOUS
<1>1. /\ Current = {} /\ Launch(group) /\ group' = {} /\ alone' \in BOOLEAN
      /\ UNCHANGED <<run, rounds, governanceVars, durable, saved, executor, batch, next,
                     results, effects, unseen>>
  BY DEF FlushGroup, Turn, ToolInv, ToolTypeOK
<1>2. group \in SUBSET Position /\ \A i, j \in group : i # j => Apart(batch[i], batch[j])
  BY DEF ToolInv, ToolTypeOK, GroupApart
<1>3. running' \in SUBSET Execution /\ RunningSound' /\ ResourcesSerialized'
  BY <1>1, <1>2, LaunchKeeps
<1>4. ToolTypeOK'
  BY <1>1, <1>3 DEF ToolInv, ToolTypeOK, governanceVars, Position
<1>5. GroupApart'
  BY <1>1 DEF GroupApart
<1>. QED
  BY <1>3, <1>4, <1>5 DEF ToolInv

\* A call that runs alone is launched when nothing else of the run is in flight.
LEMMA RunAloneKeeps == ToolInv /\ RunAlone => ToolInv'
<1>. SUFFICES ASSUME ToolInv, RunAlone PROVE ToolInv'
  OBVIOUS
<1>1. /\ Current = {} /\ next <= Len(batch) /\ Launch({next}) /\ next' = next + 1
      /\ alone' = FALSE
      /\ UNCHANGED <<run, rounds, governanceVars, durable, saved, executor, batch, group,
                     results, effects, unseen>>
  BY DEF RunAlone, Reached, Turn
<1>2. next \in Position /\ next' \in 1..Len(batch') + 1
  <2>1. Len(batch) \in Nat /\ next \in 1..Len(batch) + 1 /\ batch' = batch
    BY <1>1, KeysOnly DEF ToolInv, ToolTypeOK
  <2>. QED
    BY <1>1, <2>1 DEF Position
<1>3. {next} \in SUBSET Position /\ \A i, j \in {next} : i # j => Apart(batch[i], batch[j])
  BY <1>2
<1>4. running' \in SUBSET Execution /\ RunningSound' /\ ResourcesSerialized'
  BY <1>1, <1>3, LaunchKeeps
<1>5. ToolTypeOK'
  BY <1>1, <1>2, <1>4 DEF ToolInv, ToolTypeOK, governanceVars, Position
<1>6. GroupApart'
  BY <1>1 DEF ToolInv, GroupApart
<1>. QED
  BY <1>4, <1>5, <1>6 DEF ToolInv

-----------------------------------------------------------------------------
(* Executions *)

\* What stays of the invariant when executions only end.
LEMMA FewerExecutions ==
    ASSUME ToolInv, running' \subseteq running, UNCHANGED <<run, batch, group>>
    PROVE  /\ running' \in SUBSET Execution
           /\ RunningSound' /\ GroupApart' /\ ResourcesSerialized'
<1>1. IsFiniteSet(running')
  BY FS_Subset DEF ToolInv, RunningSound
<1>2. RunningSound' /\ running' \in SUBSET Execution
  BY <1>1 DEF ToolInv, ToolTypeOK, RunningSound
<1>3. GroupApart'
  BY DEF ToolInv, GroupApart
<1>4. ResourcesSerialized'
  BY DEF ToolInv, ResourcesSerialized, Current
<1>. QED
  BY <1>2, <1>3, <1>4

\* An execution that governance answers without calling its handler.
LEMMA AnswerKeeps ==
    ASSUME ToolInv, NEW e \in running, NEW status \in ResultStatus, Answer(e, status),
           records' \in [Keys -> RecordStatus], counts' \in [Keys -> Nat], rejections' \in Nat
    PROVE  ToolInv'
<1>1. /\ running' = running \ {e} /\ results' = [results EXCEPT ![e.pos] = status]
      /\ UNCHANGED <<run, rounds, durable, saved, executor, batchVars, effects, unseen>>
  BY DEF Answer
<1>2. /\ running' \in SUBSET Execution
      /\ RunningSound' /\ GroupApart' /\ ResourcesSerialized'
  BY <1>1, FewerExecutions DEF batchVars
<1>3. ToolTypeOK'
  BY <1>1, <1>2 DEF ToolInv, ToolTypeOK, batchVars, Position
<1>. QED
  BY <1>2, <1>3 DEF ToolInv

\* A durable success, the cache or the refusal of a repetition answers the call.
LEMMA GovernanceAnswers ==
    ASSUME ToolInv, Recover \/ HitCache \/ RejectDuplicate PROVE ToolInv'
<1>0. /\ records \in [Keys -> RecordStatus] /\ counts \in [Keys -> Nat] /\ rejections \in Nat
      /\ \A e \in running : e.key \in Keys
  BY KeysOnly DEF ToolInv, ToolTypeOK, Execution
<1>1. CASE Recover
  <2>1. PICK e \in running :
            /\ records' = [records EXCEPT ![e.key] = "success"]
            /\ counts' = [counts EXCEPT ![e.key] = 1]
            /\ Answer(e, "durable_recovered") /\ UNCHANGED rejections
    BY <1>1 DEF Recover
  <2>2. /\ records' \in [Keys -> RecordStatus] /\ counts' \in [Keys -> Nat]
        /\ rejections' \in Nat /\ "durable_recovered" \in ResultStatus
    BY <1>0, <2>1 DEF RecordStatus, ResultStatus
  <2>. QED
    BY <2>1, <2>2, AnswerKeeps
<1>2. CASE HitCache
  <2>1. PICK e \in running :
            /\ counts' = [counts EXCEPT ![e.key] = counts[e.key] + 1] /\ rejections' = 0
            /\ Answer(e, "cache_hit") /\ UNCHANGED records
    BY <1>2 DEF HitCache, Repeat
  <2>2. /\ records' \in [Keys -> RecordStatus] /\ counts' \in [Keys -> Nat]
        /\ rejections' \in Nat /\ "cache_hit" \in ResultStatus
    BY <1>0, <2>1 DEF ResultStatus
  <2>. QED
    BY <2>1, <2>2, AnswerKeeps
<1>3. CASE RejectDuplicate
  <2>1. PICK e \in running :
            /\ counts' = [counts EXCEPT ![e.key] = counts[e.key] + 1]
            /\ rejections' = rejections + 1
            /\ Answer(e, "duplicate_rejected") /\ UNCHANGED records
    BY <1>3 DEF RejectDuplicate, Repeat
  <2>2. /\ records' \in [Keys -> RecordStatus] /\ counts' \in [Keys -> Nat]
        /\ rejections' \in Nat /\ "duplicate_rejected" \in ResultStatus
    BY <1>0, <2>1 DEF ResultStatus
  <2>. QED
    BY <2>1, <2>2, AnswerKeeps
<1>. QED
  BY <1>1, <1>2, <1>3

\* An execution that goes on to its handler keeps its run and its key.
LEMMA CallHandlerKeeps == ToolInv /\ CallHandler => ToolInv'
<1>. SUFFICES ASSUME ToolInv, CallHandler PROVE ToolInv'
  OBVIOUS
<1>1. PICK e \in running :
          /\ records' = [records EXCEPT ![e.key] = IF records[e.key] = "none" THEN "pending"
                                                   ELSE records[e.key]]
          /\ counts' = [counts EXCEPT ![e.key] = counts[e.key] + 1]
          /\ rejections' = IF records[e.key] = "none" THEN rejections ELSE 0
          /\ running' = (running \ {e}) \cup {[e EXCEPT !.pc = "handler"]}
  BY DEF CallHandler, Repeat
<1>2. UNCHANGED <<run, rounds, durable, saved, executor, batchVars, results, effects, unseen>>
  BY DEF CallHandler
<1>3. /\ records \in [Keys -> RecordStatus] /\ counts \in [Keys -> Nat] /\ rejections \in Nat
      /\ e \in Execution /\ running \subseteq Execution
  BY KeysOnly DEF ToolInv, ToolTypeOK
<1> DEFINE h == [e EXCEPT !.pc = "handler"]
<1>4. h \in Execution /\ h.run = e.run /\ h.key = e.key /\ e.key \in Keys
  BY <1>3 DEF Execution
<1>5. running' = (running \ {e}) \cup {h}
  BY <1>1
<1>. HIDE DEF h
<1>6. RunningSound'
  <2>1. IsFiniteSet(running \ {e})
    BY FS_RemoveElement DEF ToolInv, RunningSound
  <2>2. IsFiniteSet(running')
    BY <1>5, <2>1, FS_AddElement
  <2>. QED
    BY <1>2, <1>4, <1>5, <2>2 DEF ToolInv, RunningSound
<1>7. ResourcesSerialized'
  <2>1. \A x \in Current' : x = h \/ (x \in Current /\ x # e)
    BY <1>2, <1>5 DEF Current
  <2>2. h \in Current' => e \in Current
    BY <1>2, <1>4 DEF Current
  <2>. QED
    BY <1>4, <2>1, <2>2 DEF ToolInv, ResourcesSerialized
<1>8. ToolTypeOK'
  <2>1. records' \in [Keys -> RecordStatus]
    BY <1>1, <1>3, <1>4 DEF RecordStatus
  <2>2. counts' \in [Keys -> Nat] /\ rejections' \in Nat
    BY <1>1, <1>3, <1>4
  <2>3. running' \in SUBSET Execution
    BY <1>3, <1>4, <1>5
  <2>. QED
    BY <1>2, <2>1, <2>2, <2>3 DEF ToolInv, ToolTypeOK, batchVars, Position
<1>9. GroupApart'
  BY <1>2 DEF ToolInv, GroupApart, batchVars
<1>. QED
  BY <1>6, <1>7, <1>8, <1>9 DEF ToolInv

\* A handler's outcome is a status and whether the side effect took place.
LEMMA OutcomeTypes ==
    ASSUME NEW k, NEW outcome \in Outcomes(k)
    PROVE  /\ outcome.status \in {"success", "error", "retryable"}
           /\ outcome.effect \in BOOLEAN
<1>1. CASE k \notin Visible
  <2>1. outcome = [status |-> "error", effect |-> FALSE]
    BY <1>1 DEF Outcomes
  <2>. QED
    BY <2>1
<1>2. CASE k \in Visible
  <2>1. \/ outcome = [status |-> "success", effect |-> TRUE]
        \/ outcome \in [status : {"error", "retryable"}, effect : BOOLEAN]
    BY <1>2 DEF Outcomes
  <2>2. CASE outcome = [status |-> "success", effect |-> TRUE]
    BY <2>2
  <2>3. CASE outcome \in [status : {"error", "retryable"}, effect : BOOLEAN]
    <3>1. outcome.status \in {"error", "retryable"}
      BY <2>3
    <3>2. outcome.effect \in BOOLEAN
      BY <2>3, Zenon
    <3>. QED
      BY <3>1, <3>2
  <2>. QED
    BY <2>1, <2>2, <2>3
<1>. QED
  BY <1>1, <1>2

\* When a handler is over, the records stay records and the counts stay counts.
LEMMA FinishTypes ==
    ASSUME ToolInv, NEW e \in running, NEW outcome \in Outcomes(e.key), Finish(e, outcome)
    PROVE  /\ e.key \in Keys /\ outcome.status \in RecordStatus \cap ResultStatus
           /\ records' \in [Keys -> RecordStatus] /\ rejections' \in Nat
           /\ durable' \in [SideEffects -> DurableStatus]
           /\ effects' \in [SideEffects -> Nat] /\ unseen' \in [SideEffects -> Nat]
           /\ running' \in SUBSET Execution
           /\ RunningSound' /\ GroupApart' /\ ResourcesSerialized'
<1>1. /\ records \in [Keys -> RecordStatus] /\ rejections \in Nat
      /\ durable \in [SideEffects -> DurableStatus]
      /\ effects \in [SideEffects -> Nat] /\ unseen \in [SideEffects -> Nat]
  BY DEF ToolInv, ToolTypeOK
<1>2. e.key \in Keys
  BY KeysOnly DEF ToolInv, Execution
<1>3. outcome.status \in {"success", "error", "retryable"} /\ outcome.effect \in BOOLEAN
  BY OutcomeTypes
<1>4. outcome.status \in RecordStatus \cap ResultStatus
  BY <1>3 DEF RecordStatus, ResultStatus
<1>5. records' \in [Keys -> RecordStatus] /\ rejections' \in Nat
  BY <1>1, <1>2, <1>4 DEF Finish
<1>6. durable' \in [SideEffects -> DurableStatus]
  <2>1. durable' = Durable(e.key, outcome.status)
    BY DEF Finish
  <2>. QED
    BY <1>1, <2>1 DEF Durable, DurableStatus
<1>7. \A tally \in [SideEffects -> Nat] : \A happened \in BOOLEAN :
          Count(e.key, tally, happened) \in [SideEffects -> Nat]
  BY DEF Count
<1>8. effects' \in [SideEffects -> Nat] /\ unseen' \in [SideEffects -> Nat]
  <2>1. /\ effects' = Count(e.key, effects, outcome.effect)
        /\ unseen' = Count(e.key, unseen, outcome.effect /\ outcome.status # "success")
    BY DEF Finish
  <2>. QED
    BY <1>1, <1>3, <1>7, <2>1
<1>9. /\ running' \in SUBSET Execution
      /\ RunningSound' /\ GroupApart' /\ ResourcesSerialized'
  BY FewerExecutions DEF Finish, batchVars
<1>. QED
  BY <1>2, <1>4, <1>5, <1>6, <1>8, <1>9

\* A result is written at its position, or dropped with the run it was for.
LEMMA SettleKeeps == ToolInv /\ Settle => ToolInv'
<1>. SUFFICES ASSUME ToolInv, Settle PROVE ToolInv'
  OBVIOUS
<1>1. PICK e \in running : \E outcome \in Outcomes(e.key) :
          /\ Finish(e, outcome)
          /\ saved' = IF e.key \in SideEffects THEN durable' ELSE saved
          /\ results' = IF e.run = run /\ executor = "running"
                        THEN [results EXCEPT ![e.pos] = outcome.status] ELSE results
          /\ UNCHANGED executor
  BY DEF Settle
<1>1a. PICK outcome \in Outcomes(e.key) :
          /\ Finish(e, outcome)
          /\ saved' = IF e.key \in SideEffects THEN durable' ELSE saved
          /\ results' = IF e.run = run /\ executor = "running"
                        THEN [results EXCEPT ![e.pos] = outcome.status] ELSE results
          /\ UNCHANGED executor
  BY <1>1
<1>2. /\ outcome.status \in ResultStatus
      /\ records' \in [Keys -> RecordStatus] /\ rejections' \in Nat
      /\ durable' \in [SideEffects -> DurableStatus]
      /\ effects' \in [SideEffects -> Nat] /\ unseen' \in [SideEffects -> Nat]
      /\ running' \in SUBSET Execution
      /\ RunningSound' /\ GroupApart' /\ ResourcesSerialized'
  BY <1>1a, FinishTypes
<1>3. UNCHANGED <<run, rounds, counts, batchVars>>
  BY <1>1a DEF Finish
<1>4. saved' \in [SideEffects -> DurableStatus] /\ results' \in [Position -> ResultStatus]
  BY <1>1a, <1>2 DEF ToolInv, ToolTypeOK
<1>5. ToolTypeOK'
  BY <1>1a, <1>2, <1>3, <1>4 DEF ToolInv, ToolTypeOK, batchVars, Position
<1>. QED
  BY <1>2, <1>5 DEF ToolInv

\* A save that fails leaves the record on the live blackboard and ends the batch.
LEMMA SaveFailsKeeps == ToolInv /\ SaveFails => ToolInv'
<1>. SUFFICES ASSUME ToolInv, SaveFails PROVE ToolInv'
  OBVIOUS
<1>1. PICK e \in running : \E outcome \in Outcomes(e.key) :
          /\ Finish(e, outcome)
          /\ executor' = IF e.run = run /\ executor = "running" THEN "raising" ELSE executor
          /\ UNCHANGED <<saved, results>>
  BY DEF SaveFails
<1>1a. PICK outcome \in Outcomes(e.key) :
          /\ Finish(e, outcome)
          /\ executor' = IF e.run = run /\ executor = "running" THEN "raising" ELSE executor
          /\ UNCHANGED <<saved, results>>
  BY <1>1
<1>2. /\ records' \in [Keys -> RecordStatus] /\ rejections' \in Nat
      /\ durable' \in [SideEffects -> DurableStatus]
      /\ effects' \in [SideEffects -> Nat] /\ unseen' \in [SideEffects -> Nat]
      /\ running' \in SUBSET Execution
      /\ RunningSound' /\ GroupApart' /\ ResourcesSerialized'
  BY <1>1a, FinishTypes
<1>3. UNCHANGED <<run, rounds, counts, batchVars>>
  BY <1>1a DEF Finish
<1>4. executor' \in {"idle", "running", "raising", "returned", "ended"}
  BY <1>1a DEF ToolInv, ToolTypeOK
<1>5. ToolTypeOK'
  BY <1>1a, <1>2, <1>3, <1>4 DEF ToolInv, ToolTypeOK, batchVars, Position
<1>. QED
  BY <1>2, <1>5 DEF ToolInv

-----------------------------------------------------------------------------
(* Runs *)

\* The end of a batch, or of a run that is not interrupted, changes nothing else.
LEMMA EndsKeep == ToolInv /\ (ReturnBatch \/ EndRun) => ToolInv'
<1>. SUFFICES ASSUME ToolInv, ReturnBatch \/ EndRun PROVE ToolInv'
  OBVIOUS
<1>1. /\ executor' \in {"idle", "running", "raising", "returned", "ended"}
      /\ UNCHANGED <<run, rounds, governanceVars, durable, saved, batchVars, results, running,
                     effects, unseen>>
  BY DEF ReturnBatch, EndRun
<1>2. ToolTypeOK'
  BY <1>1 DEF ToolInv, ToolTypeOK, governanceVars, batchVars, Position
<1>3. RunningSound' /\ GroupApart' /\ ResourcesSerialized'
  BY <1>1 DEF ToolInv, RunningSound, GroupApart, ResourcesSerialized, Current, batchVars
<1>. QED
  BY <1>2, <1>3 DEF ToolInv

\* Of the finitely many executions in flight, finitely many are cut short.
LEMMA CutShortFinite ==
    ASSUME ToolInv, NEW done \in SUBSET running
    PROVE  \A k : Cardinality({e \in done : e.key = k}) \in Nat
<1>. TAKE k
<1>1. {e \in done : e.key = k} \in SUBSET running
  OBVIOUS
<1>2. IsFiniteSet({e \in done : e.key = k})
  BY <1>1, FS_Subset DEF ToolInv, RunningSound
<1>. QED
  BY <1>2, FS_CardinalityType

\* A cancellation keeps what does not run any more out of flight.
LEMMA CancelRunKeeps == ToolInv /\ CancelRun => ToolInv'
<1>. SUFFICES ASSUME ToolInv, CancelRun PROVE ToolInv'
  OBVIOUS
<1>1. /\ running' = running \ Current /\ executor' = "ended"
      /\ UNCHANGED <<run, rounds, governanceVars, durable, saved, batchVars, results>>
  BY DEF CancelRun
<1>2. PICK done \in SUBSET running :
          /\ effects' = [k \in SideEffects |-> effects[k] + Cardinality({e \in done : e.key = k})]
          /\ unseen' = [k \in SideEffects |-> unseen[k] + Cardinality({e \in done : e.key = k})]
  BY DEF CancelRun, Interrupted, Current
<1>3. effects \in [SideEffects -> Nat] /\ unseen \in [SideEffects -> Nat]
  BY DEF ToolInv, ToolTypeOK
<1>4. effects' \in [SideEffects -> Nat] /\ unseen' \in [SideEffects -> Nat]
  <2> DEFINE cut(k) == Cardinality({e \in done : e.key = k})
  <2>1. \A k : cut(k) \in Nat
    BY CutShortFinite
  <2>2. /\ effects' = [k \in SideEffects |-> effects[k] + cut(k)]
        /\ unseen' = [k \in SideEffects |-> unseen[k] + cut(k)]
    BY <1>2
  <2>. HIDE DEF cut
  <2>. QED
    BY <1>3, <2>1, <2>2
<1>5. /\ running' \in SUBSET Execution
      /\ RunningSound' /\ GroupApart' /\ ResourcesSerialized'
  BY <1>1, FewerExecutions DEF batchVars
<1>6. ToolTypeOK'
  BY <1>1, <1>4, <1>5 DEF ToolInv, ToolTypeOK, governanceVars, batchVars, Position
<1>. QED
  BY <1>5, <1>6 DEF ToolInv

\* A crash leaves nothing in flight and the records of the checkpoint.
LEMMA CrashKeeps == ToolInv /\ Crash => ToolInv'
<1>. SUFFICES ASSUME ToolInv, Crash PROVE ToolInv'
  OBVIOUS
<1>1. /\ running' = {} /\ durable' = saved /\ executor' = "ended"
      /\ UNCHANGED <<run, rounds, governanceVars, saved, batchVars, results>>
  BY DEF Crash
<1> DEFINE lost(k) == IF durable[k] = "success" /\ saved[k] # "success" THEN 1 ELSE 0
<1>2. PICK done \in SUBSET running :
          /\ effects' = [k \in SideEffects |-> effects[k] + Cardinality({e \in done : e.key = k})]
          /\ unseen' = [k \in SideEffects |->
                            unseen[k] + Cardinality({e \in done : e.key = k}) + lost(k)]
  BY DEF Crash, Interrupted
<1>3. effects \in [SideEffects -> Nat] /\ unseen \in [SideEffects -> Nat]
  BY DEF ToolInv, ToolTypeOK
<1>4. \A k : lost(k) \in Nat
  OBVIOUS
<1>5. effects' \in [SideEffects -> Nat] /\ unseen' \in [SideEffects -> Nat]
  <2> DEFINE cut(k) == Cardinality({e \in done : e.key = k})
  <2>1. \A k : cut(k) \in Nat
    BY CutShortFinite
  <2>2. /\ effects' = [k \in SideEffects |-> effects[k] + cut(k)]
        /\ unseen' = [k \in SideEffects |-> unseen[k] + cut(k) + lost(k)]
    BY <1>2
  <2>. HIDE DEF cut, lost
  <2>. QED
    BY <1>3, <1>4, <2>1, <2>2
<1>6. /\ running' \in SUBSET Execution
      /\ RunningSound' /\ GroupApart' /\ ResourcesSerialized'
  BY <1>1, FewerExecutions DEF batchVars
<1>7. durable' \in [SideEffects -> DurableStatus]
  BY <1>1 DEF ToolInv, ToolTypeOK
<1>8. ToolTypeOK'
  BY <1>1, <1>5, <1>6, <1>7 DEF ToolInv, ToolTypeOK, governanceVars, batchVars, Position
<1>. QED
  BY <1>6, <1>8 DEF ToolInv

\* What a run left in flight is not of the next run.
LEMMA StartRunKeeps == ToolInv /\ StartRun => ToolInv'
<1>. SUFFICES ASSUME ToolInv, StartRun PROVE ToolInv'
  OBVIOUS
<1>1. /\ run < MaxRuns /\ run' = run + 1 /\ rounds' = 0
      /\ records' = NewRecords /\ counts' = NewCounts /\ rejections' = 0
      /\ executor' = "idle"
      /\ batch' = << >> /\ next' = 1 /\ alone' = FALSE /\ group' = {} /\ results' = << >>
      /\ UNCHANGED <<durable, saved, running, effects, unseen>>
  BY DEF StartRun
<1>2. run \in Nat /\ running \subseteq Execution /\ \A e \in running : e.run <= run
  BY DEF ToolInv, ToolTypeOK, RunningSound
<1>3. \A e \in running : e.run \in Nat /\ e.run <= run' /\ e.run # run'
  <2>. SUFFICES ASSUME NEW e \in running
                PROVE  e.run \in Nat /\ e.run <= run' /\ e.run # run'
    OBVIOUS
  <2>1. e.run \in Nat
    BY <1>2 DEF Execution
  <2>. QED
    BY <1>1, <1>2, <2>1
<1>4. Current' = {}
  BY <1>1, <1>3 DEF Current
<1>5. RunningSound' /\ GroupApart' /\ ResourcesSerialized'
  BY <1>1, <1>3, <1>4 DEF ToolInv, RunningSound, GroupApart, ResourcesSerialized
<1>6. run' \in 1..MaxRuns /\ rounds' \in 0..MaxRounds
  BY <1>1, ExecutorAssumption DEF ToolInv, ToolTypeOK
<1>7. records' \in [Keys -> RecordStatus] /\ counts' \in [Keys -> Nat] /\ rejections' \in Nat
  BY <1>1 DEF NewRecords, NewCounts, RecordStatus
<1>8. /\ batch' \in Batches \cup {<< >>} /\ next' \in 1..Len(batch') + 1
      /\ group' \in SUBSET Position' /\ results' \in [Position' -> ResultStatus]
      /\ alone' \in BOOLEAN
  <2>1. Len(batch') = 0 /\ Position' = {}
    BY <1>1 DEF Position
  <2>2. results' \in [Position' -> ResultStatus]
    <3>1. DOMAIN results' = {}
      BY <1>1
    <3>2. results' = [i \in {} |-> "none"]
      BY <1>1, <3>1
    <3>. QED
      BY <2>1, <3>2
  <2>3. batch' \in Batches \cup {<< >>} /\ alone' \in BOOLEAN
    BY <1>1
  <2>4. next' \in 1..Len(batch') + 1 /\ group' \in SUBSET Position'
    BY <1>1, <2>1
  <2>. QED
    BY <2>2, <2>3, <2>4
<1>9. ToolTypeOK'
  BY <1>1, <1>6, <1>7, <1>8 DEF ToolInv, ToolTypeOK
<1>. QED
  BY <1>5, <1>9 DEF ToolInv

-----------------------------------------------------------------------------
(* The executor *)

\* Every step of the executor keeps the invariant.
LEMMA NextTool == ToolInv /\ [ToolNext]_toolVars => ToolInv'
<1>. SUFFICES ASSUME ToolInv, [ToolNext]_toolVars PROVE ToolInv'
  OBVIOUS
<1>1. CASE \E calls \in Batches : StartBatch(calls)
  BY <1>1, StartBatchKeeps
<1>2. CASE CallUnknown
  <2>1. next <= Len(batch) /\ "error" \in ResultStatus
    BY <1>2 DEF CallUnknown, Reached, ResultStatus
  <2>. QED
    BY <1>2, <2>1, AnsweredAtOnce DEF CallUnknown
<1>3. CASE RejectInBatch
  <2>1. next <= Len(batch) /\ "duplicate_rejected" \in ResultStatus
    BY <1>3 DEF RejectInBatch, Reached, ResultStatus
  <2>. QED
    BY <1>3, <2>1, AnsweredAtOnce DEF RejectInBatch
<1>4. CASE JoinGroup \/ FlushGroup \/ RunAlone
  BY <1>4, JoinGroupKeeps, FlushGroupKeeps, RunAloneKeeps
<1>5. CASE ReturnBatch \/ EndRun
  BY <1>5, EndsKeep
<1>6. CASE Recover \/ HitCache \/ RejectDuplicate
  BY <1>6, GovernanceAnswers
<1>7. CASE CallHandler \/ Settle \/ SaveFails
  BY <1>7, CallHandlerKeeps, SettleKeeps, SaveFailsKeeps
<1>8. CASE CancelRun \/ Crash \/ StartRun
  BY <1>8, CancelRunKeeps, CrashKeeps, StartRunKeeps
<1>9. CASE UNCHANGED toolVars
  <2>1. ToolTypeOK'
    BY <1>9 DEF ToolInv, ToolTypeOK, toolVars, governanceVars, batchVars, Position
  <2>2. RunningSound' /\ GroupApart' /\ ResourcesSerialized'
    BY <1>9 DEF ToolInv, RunningSound, GroupApart, ResourcesSerialized, Current, toolVars,
                batchVars
  <2>. QED
    BY <2>1, <2>2 DEF ToolInv
<1>. QED
  BY <1>1, <1>2, <1>3, <1>4, <1>5, <1>6, <1>7, <1>8, <1>9
  DEF ToolNext, BatchStep, ExecutionStep, RunChange

\* The executor's invariant holds through every batch, retry, cancellation and crash.
LEMMA ToolInvariant == ToolSpec => []ToolInv
<1>. QED
  BY InitTool, NextTool, PTL DEF ToolSpec

\* execute_batch, execute and their runs keep the records, counts, results and
\* executions well formed.
THEOREM ToolTypes == ToolSpec => []ToolTypeOK
<1>1. ToolInv => ToolTypeOK
  BY DEF ToolInv
<1>. QED
  BY ToolInvariant, <1>1, PTL

\* Two calls that execute_batch has in flight together never share a resource key,
\* whatever the tools, the batches and the order in which handlers finish: a group
\* is compared call by call, and a call that cannot join waits for it and runs alone.
THEOREM NoSharedResource == ToolSpec => []ResourcesSerialized
<1>1. ToolInv => ResourcesSerialized
  BY DEF ToolInv
<1>. QED
  BY ToolInvariant, <1>1, PTL
-----------------------------------------------------------------------------
(* Side effects, verdicts and answers.  They hold for catalogues that never   *)
(* run a side-effect tool in parallel; a sibling of a side effect whose save  *)
(* failed would otherwise go on beside the next run.                          *)

SerialSideEffects == SideEffects \cap ParallelSafe = {}

\* What the safe group may contain.
GroupSound ==
    /\ group # {} => ParallelMode
    /\ \A i \in group : i < next /\ batch[i] \in ParallelSafe
    /\ \A i, j \in group : i # j => batch[i] # batch[j]

\* Executions are those of calls the running batch has reached, one for each
\* invocation, and a side effect is executed alone.
InFlight ==
    /\ \A e \in running :
          /\ executor = "running" /\ e.run = run
          /\ e.pos \in Position /\ e.pos < next /\ e.key = batch[e.pos]
          /\ e.key \in SideEffects => running = {e}
    /\ \A e, f \in running : e # f => e.key # f.key

\* A handler runs for an invocation that has no verdict and no durable success.
HandlersOpen ==
    \A e \in running : e.pc = "handler" =>
        /\ records[e.key] \in {"pending", "retryable"}
        /\ e.key \in SideEffects => durable[e.key] # "success"

\* The records of this run, of the live blackboard and of the checkpoint agree.
RecordsAgree ==
    \A k \in SideEffects :
        /\ durable[k] = "success" => records[k] # "error"
        /\ saved[k] = "success" => durable[k] = "success"

\* A durable success stands for one side effect the program knows of.
EffectsKnown ==
    \A k \in SideEffects : effects[k] <= unseen[k] + (IF durable[k] = "success" THEN 1 ELSE 0)

\* A call is still to be reached, collected, executed or answered, and answered as
\* the records say.
ResultsSound ==
    executor \in {"running", "returned"} =>
        \A i \in Position :
            /\ results[i] = "none" =>
                  /\ executor = "running"
                  /\ i >= next \/ i \in group \/ \E e \in running : e.pos = i
            /\ results[i] \in OkStatus => records[batch[i]] = "success"
            /\ batch[i] \in SideEffects =>
                  /\ results[i] = "success" => saved[batch[i]] = "success"
                  /\ results[i] = "durable_recovered" => durable[batch[i]] = "success"

SerialInv ==
    /\ GroupSound /\ InFlight /\ HandlersOpen
    /\ RecordsAgree /\ EffectsKnown /\ ResultsSound

\* Nothing has been asked, so nothing is in flight and nothing recorded.
LEMMA InitSerial == ToolInit => SerialInv
<1>. SUFFICES ASSUME ToolInit PROVE SerialInv
  OBVIOUS
<1>. USE DEF ToolInit
<1>1. GroupSound /\ InFlight /\ HandlersOpen
  BY DEF GroupSound, InFlight, HandlersOpen
<1>2. RecordsAgree /\ EffectsKnown
  BY DEF RecordsAgree, EffectsKnown, NoRecords
<1>3. ResultsSound
  BY DEF ResultsSound
<1>. QED
  BY <1>1, <1>2, <1>3 DEF SerialInv

\* When it is the batch's turn, nothing at all is in flight.
LEMMA NothingInFlight ==
    ASSUME InFlight, Current = {} \/ executor # "running" PROVE running = {}
BY DEF InFlight, Current

\* A batch starts with every call still to be reached.
LEMMA StartBatchSerial ==
    ASSUME ToolInv, SerialInv, NEW calls \in Batches, StartBatch(calls) PROVE SerialInv'
<1>1. /\ executor' = "running" /\ next' = 1 /\ group' = {} /\ batch' = calls
      /\ results' = [i \in 1..Len(calls) |-> "none"]
      /\ UNCHANGED <<run, governanceVars, durable, saved, running, effects, unseen>>
  BY DEF StartBatch
<1>2. running = {} /\ running' = {}
  BY NothingInFlight, <1>1 DEF SerialInv, StartBatch
<1>3. GroupSound' /\ InFlight' /\ HandlersOpen'
  BY <1>1, <1>2 DEF GroupSound, InFlight, HandlersOpen
<1>4. RecordsAgree' /\ EffectsKnown'
  BY <1>1 DEF SerialInv, RecordsAgree, EffectsKnown, governanceVars
<1>5. ResultsSound'
  BY <1>1 DEF ResultsSound, Position, OkStatus
<1>. QED
  BY <1>3, <1>4, <1>5 DEF SerialInv

\* A call answered with an error or a refusal before it is executed.
LEMMA AnsweredSerial ==
    ASSUME ToolInv, SerialInv, Turn, next <= Len(batch),
           NEW status \in {"error", "duplicate_rejected"},
           results' = [results EXCEPT ![next] = status], next' = next + 1,
           UNCHANGED <<run, rounds, governanceVars, durable, saved, executor, batch, alone,
                       group, running, effects, unseen>>
    PROVE  SerialInv'
<1>1. running = {}
  BY NothingInFlight DEF SerialInv, Turn
<1>2. next \in Nat /\ Position \subseteq Nat /\ group \subseteq Position
  BY KeysOnly DEF ToolInv, ToolTypeOK
<1>3. GroupSound'
  <2>1. GroupSound
    BY DEF SerialInv
  <2>2. \A i \in group : i < next'
    BY <1>2, <2>1 DEF GroupSound
  <2>. QED
    BY <2>1, <2>2 DEF GroupSound
<1>4. InFlight' /\ HandlersOpen'
  BY <1>1 DEF InFlight, HandlersOpen
<1>5. RecordsAgree' /\ EffectsKnown'
  BY DEF SerialInv, RecordsAgree, EffectsKnown, governanceVars
<1>6. ResultsSound'
  <2>. SUFFICES ASSUME executor = "running", NEW i \in Position
                PROVE  /\ results'[i] = "none" => i >= next' \/ i \in group
                       /\ results'[i] \in OkStatus => records[batch[i]] = "success"
                       /\ batch[i] \in SideEffects =>
                            /\ results'[i] = "success" => saved[batch[i]] = "success"
                            /\ results'[i] = "durable_recovered" => durable[batch[i]] = "success"
    BY DEF ResultsSound, Position, governanceVars, Turn
  <2>1. results \in [Position -> ResultStatus]
    BY DEF ToolInv, ToolTypeOK
  <2>2. CASE i = next
    BY <2>1, <2>2 DEF OkStatus
  <2>3. CASE i # next
    <3>1. results'[i] = results[i]
      BY <2>1, <2>3
    <3>2. results[i] = "none" => i >= next \/ i \in group
      BY <1>1 DEF SerialInv, ResultsSound
    <3>3. i >= next => i >= next'
      BY <1>2, <2>3
    <3>. QED
      BY <3>1, <3>2, <3>3 DEF SerialInv, ResultsSound
  <2>. QED
    BY <2>2, <2>3
<1>. QED
  BY <1>3, <1>4, <1>5, <1>6 DEF SerialInv

\* A call joins the group only if the batch has not had its invocation before.
LEMMA JoinGroupSerial == ToolInv /\ SerialInv /\ JoinGroup => SerialInv'
<1>. SUFFICES ASSUME ToolInv, SerialInv, JoinGroup PROVE SerialInv'
  OBVIOUS
<1>1. PICK k \in Registered : Reached(k) /\ ~DuplicateInBatch(k) /\ Groupable(k)
  BY DEF JoinGroup
<1>2. /\ group' = group \cup {next} /\ next' = next + 1
      /\ UNCHANGED <<run, rounds, governanceVars, durable, saved, executor, batch, alone,
                     results, running, effects, unseen>>
  BY DEF JoinGroup
<1>3. running = {}
  BY <1>1, NothingInFlight DEF SerialInv, Reached, Turn
<1>4. next \in Nat /\ Position \subseteq Nat /\ group \subseteq Position
  BY KeysOnly DEF ToolInv, ToolTypeOK
<1>5. GroupSound
  BY DEF SerialInv
<1>6. GroupSound'
  <2>1. ParallelMode /\ batch[next] \in ParallelSafe
    BY <1>1 DEF Groupable, Reached
  <2>2. \A i \in group : i < next /\ i \in 1..next - 1
    BY <1>4, <1>5 DEF GroupSound, Position
  <2>3. \A i \in group : batch[i] # batch[next]
    BY <1>1, <2>1, <2>2 DEF DuplicateInBatch, Seen, Reached
  <2>4. \A i \in group' : i < next'
    BY <1>2, <1>4, <2>2
  <2>. QED
    BY <1>2, <1>5, <2>1, <2>3, <2>4 DEF GroupSound
<1>7. InFlight' /\ HandlersOpen'
  BY <1>2, <1>3 DEF InFlight, HandlersOpen
<1>8. RecordsAgree' /\ EffectsKnown'
  BY <1>2 DEF SerialInv, RecordsAgree, EffectsKnown, governanceVars
<1>9. ResultsSound'
  <2>1. \A i \in Position : i >= next \/ i \in group => i >= next' \/ i \in group'
    BY <1>2, <1>4
  <2>. QED
    BY <1>2, <1>3, <2>1 DEF SerialInv, ResultsSound, Position, governanceVars
<1>. QED
  BY <1>6, <1>7, <1>8, <1>9 DEF SerialInv

\* Calls are launched when nothing is in flight: those of a group have different
\* invocations and no side effects, any other call is launched alone.
LEMMA LaunchSerial ==
    ASSUME SerialSideEffects, ToolInv, SerialInv, Turn,
           NEW positions \in SUBSET Position, Launch(positions),
           \/ positions = group /\ group' = {} /\ next' = next
           \/ positions = {next} /\ group = {} /\ group' = {} /\ next' = next + 1,
           UNCHANGED <<run, rounds, governanceVars, durable, saved, executor, batch,
                       results, effects, unseen>>
    PROVE  SerialInv'
<1> DEFINE Of(i) == [run |-> run, pos |-> i, key |-> batch[i], pc |-> "start"]
<1>1. running = {}
  BY NothingInFlight DEF SerialInv, Turn
<1>2. running' = {Of(i) : i \in positions}
  BY <1>1 DEF Launch
<1>3. next \in Nat /\ Position \subseteq Nat /\ Position' = Position
  BY KeysOnly DEF ToolInv, ToolTypeOK, Position
<1>4. GroupSound' /\ RecordsAgree' /\ EffectsKnown'
  BY DEF SerialInv, GroupSound, RecordsAgree, EffectsKnown, governanceVars
<1>5. HandlersOpen'
  BY <1>2 DEF HandlersOpen
<1>6. /\ \A i \in positions : i < next'
      /\ \A i, j \in positions : i # j => batch[i] # batch[j]
      /\ \A i \in positions : batch[i] \in SideEffects => positions = {i}
  <2>1. CASE positions = group /\ next' = next
    BY <2>1 DEF SerialInv, GroupSound, SerialSideEffects
  <2>2. CASE positions = {next} /\ next' = next + 1
    BY <1>3, <2>2
  <2>. QED
    BY <2>1, <2>2
<1>7. InFlight'
  <2>1. \A e \in running' : /\ executor' = "running" /\ e.run = run'
                            /\ e.pos \in Position' /\ e.pos < next' /\ e.key = batch'[e.pos]
    BY <1>2, <1>3, <1>6 DEF Turn
  <2>2. ASSUME NEW i \in positions, batch[i] \in SideEffects PROVE running' = {Of(i)}
    <3>1. positions = {i}
      BY <1>6, <2>2
    <3>. QED
      BY <1>2, <3>1
  <2>3. \A e \in running' : e.key \in SideEffects => running' = {e}
    <3>. SUFFICES ASSUME NEW i \in positions, Of(i).key \in SideEffects
                  PROVE  running' = {Of(i)}
      BY <1>2
    <3>. QED
      BY <2>2
  <2>4. \A e, f \in running' : e # f => e.key # f.key
    BY <1>2, <1>6
  <2>. QED
    BY <2>1, <2>3, <2>4 DEF InFlight
<1>8. ResultsSound'
  <2>1. \A i \in Position : i >= next \/ i \in group => i >= next' \/ i \in positions
    BY <1>3
  <2>2. \A i \in positions : \E e \in running' : e.pos = i
    <3>. TAKE i \in positions
    <3>1. Of(i) \in running' /\ Of(i).pos = i
      BY <1>2
    <3>. QED
      BY <3>1, Zenon
  <2>. QED
    BY <1>1, <1>3, <2>1, <2>2 DEF SerialInv, ResultsSound, governanceVars
<1>. QED
  BY <1>4, <1>5, <1>7, <1>8 DEF SerialInv

\* The whole group, or one call alone.
LEMMA FlushOrAloneSerial ==
    ASSUME SerialSideEffects, ToolInv, SerialInv, FlushGroup \/ RunAlone PROVE SerialInv'
<1>1. CASE FlushGroup
  <2>1. /\ Turn /\ Launch(group) /\ group' = {} /\ next' = next
        /\ UNCHANGED <<run, rounds, governanceVars, durable, saved, executor, batch,
                       results, effects, unseen>>
    BY <1>1 DEF FlushGroup
  <2>2. group \in SUBSET Position
    BY DEF ToolInv, ToolTypeOK
  <2>. QED
    BY <2>1, <2>2, LaunchSerial
<1>2. CASE RunAlone
  <2>1. /\ Turn /\ next <= Len(batch) /\ Launch({next}) /\ group = {} /\ group' = {}
        /\ next' = next + 1
        /\ UNCHANGED <<run, rounds, governanceVars, durable, saved, executor, batch,
                       results, effects, unseen>>
    BY <1>2 DEF RunAlone, Reached
  <2>2. {next} \in SUBSET Position
    BY <2>1, KeysOnly DEF ToolInv, ToolTypeOK, Position
  <2>. QED
    BY <2>1, <2>2, LaunchSerial
<1>. QED
  BY <1>1, <1>2

\* A batch or a run that ends leaves nothing in flight.
LEMMA EndsSerial ==
    ASSUME ToolInv, SerialInv, ReturnBatch \/ EndRun PROVE SerialInv'
<1>1. /\ executor' \in {"returned", "ended"}
      /\ executor' = "returned" => executor = "running"
      /\ UNCHANGED <<run, rounds, governanceVars, durable, saved, batchVars, results, running,
                     effects, unseen>>
  BY DEF ReturnBatch, EndRun, Turn
<1>2. running = {}
  BY NothingInFlight DEF SerialInv, ReturnBatch, EndRun, Turn
<1>3. GroupSound' /\ RecordsAgree' /\ EffectsKnown'
  BY <1>1 DEF SerialInv, GroupSound, RecordsAgree, EffectsKnown, governanceVars, batchVars
<1>4. InFlight' /\ HandlersOpen'
  BY <1>1, <1>2 DEF InFlight, HandlersOpen
<1>5. ResultsSound'
  <2>1. CASE EndRun
    BY <2>1 DEF EndRun, ResultsSound
  <2>2. CASE ReturnBatch
    <3>1. next > Len(batch) /\ group = {} /\ Position \subseteq 1..Len(batch)
      BY <2>2 DEF ReturnBatch, Position
    <3>2. next \in Nat /\ Len(batch) \in Nat
      BY KeysOnly DEF ToolInv, ToolTypeOK
    <3>3. \A i \in Position : ~(i >= next)
      BY <3>1, <3>2
    <3>4. executor = "running" /\ \A i \in Position : results[i] # "none"
      BY <1>2, <2>2, <3>1, <3>3 DEF ReturnBatch, Turn, SerialInv, ResultsSound
    <3>. QED
      BY <1>1, <3>4 DEF SerialInv, ResultsSound, Position, governanceVars, batchVars
  <2>. QED
    BY <2>1, <2>2
<1>. QED
  BY <1>3, <1>4, <1>5 DEF SerialInv

\* What stays true of executions when one of them is over and the records of the
\* others are as they were.
LEMMA OneLessInFlight ==
    ASSUME ToolInv, SerialInv, NEW e \in running, running' = running \ {e},
           UNCHANGED <<run, batchVars>>, executor' = executor \/ running' = {},
           \A k \in Keys \ {e.key} : records'[k] = records[k],
           \A k \in SideEffects \ {e.key} : durable'[k] = durable[k]
    PROVE  GroupSound' /\ InFlight' /\ HandlersOpen'
<1>1. GroupSound'
  BY DEF SerialInv, GroupSound, batchVars
<1>2. \A f \in running' : f \in running /\ f.key # e.key /\ f.key \in Keys
  BY KeysOnly DEF SerialInv, InFlight, ToolInv, Execution
<1>3. InFlight'
  <2>1. \A f \in running' : /\ executor' = "running" /\ f.run = run'
                            /\ f.pos \in Position' /\ f.pos < next' /\ f.key = batch'[f.pos]
    BY <1>2 DEF SerialInv, InFlight, Position, batchVars
  <2>2. \A f \in running' : f.key \in SideEffects => running' = {f}
    BY <1>2 DEF SerialInv, InFlight
  <2>3. \A f, g \in running' : f # g => f.key # g.key
    BY DEF SerialInv, InFlight
  <2>. QED
    BY <2>1, <2>2, <2>3 DEF InFlight
<1>4. HandlersOpen'
  BY <1>2 DEF SerialInv, HandlersOpen
<1>. QED
  BY <1>1, <1>3, <1>4

\* A result that is written says what the records say, and no other result changes.
LEMMA ResultWritten ==
    ASSUME ToolInv, SerialInv, NEW e \in running, running' = running \ {e},
           NEW status, results' = [results EXCEPT ![e.pos] = status], status # "none",
           UNCHANGED <<batchVars, executor>>,
           status \in OkStatus => records'[e.key] = "success",
           \A k \in Keys : records[k] = "success" => records'[k] = "success",
           \A k \in SideEffects : durable[k] = "success" => durable'[k] = "success",
           \A k \in SideEffects : saved[k] = "success" => saved'[k] = "success",
           e.key \in SideEffects =>
               /\ status = "success" => saved'[e.key] = "success"
               /\ status = "durable_recovered" => durable'[e.key] = "success"
    PROVE  ResultsSound'
<1>. SUFFICES ASSUME executor = "running", NEW i \in Position
              PROVE  /\ results'[i] = "none" =>
                          i >= next \/ i \in group \/ \E f \in running' : f.pos = i
                     /\ results'[i] \in OkStatus => records'[batch[i]] = "success"
                     /\ batch[i] \in SideEffects =>
                          /\ results'[i] = "success" => saved'[batch[i]] = "success"
                          /\ results'[i] = "durable_recovered" =>
                                durable'[batch[i]] = "success"
  BY DEF ResultsSound, Position, batchVars, SerialInv, InFlight
<1>1. results \in [Position -> ResultStatus] /\ batch[i] \in Keys
  BY KeysOnly DEF ToolInv, ToolTypeOK
<1>2. e.pos \in Position /\ e.key = batch[e.pos]
  BY DEF SerialInv, InFlight
<1>3. CASE i = e.pos
  <2>1. results'[i] = status
    BY <1>1, <1>3
  <2>. QED
    BY <1>2, <1>3, <2>1
<1>4. CASE i # e.pos
  <2>1. results'[i] = results[i]
    BY <1>1, <1>4
  <2>2. /\ results[i] = "none" => i >= next \/ i \in group \/ \E f \in running : f.pos = i
        /\ results[i] \in OkStatus => records[batch[i]] = "success"
        /\ batch[i] \in SideEffects =>
             /\ results[i] = "success" => saved[batch[i]] = "success"
             /\ results[i] = "durable_recovered" => durable[batch[i]] = "success"
    BY DEF SerialInv, ResultsSound
  <2>3. \A f \in running : f.pos = i => f \in running'
    BY <1>4
  <2>. QED
    BY <1>1, <2>1, <2>2, <2>3
<1>. QED
  BY <1>3, <1>4

\* Governance answers a call without executing it.
LEMMA AnswerSerial ==
    ASSUME ToolInv, SerialInv, NEW e \in running, NEW status, Answer(e, status),
           status \in {"durable_recovered", "cache_hit", "duplicate_rejected"},
           \/ records' = records
           \/ records' = [records EXCEPT ![e.key] = "success"],
           status \in OkStatus => records'[e.key] = "success",
           status = "durable_recovered" => durable[e.key] = "success"
    PROVE  SerialInv'
<1>1. /\ running' = running \ {e} /\ results' = [results EXCEPT ![e.pos] = status]
      /\ UNCHANGED <<run, rounds, durable, saved, executor, batchVars, effects, unseen>>
  BY DEF Answer
<1>2. records \in [Keys -> RecordStatus] /\ e.key \in Keys
  BY KeysOnly DEF ToolInv, ToolTypeOK, Execution
<1>3. /\ \A k \in Keys \ {e.key} : records'[k] = records[k]
      /\ records'[e.key] \in {records[e.key], "success"}
  BY <1>2
<1>4. GroupSound' /\ InFlight' /\ HandlersOpen'
  BY <1>1, <1>3, OneLessInFlight
<1>5. RecordsAgree'
  <2>1. SideEffects \subseteq Keys
    BY ExecutorAssumption
  <2>. QED
    BY <1>1, <1>3, <2>1 DEF SerialInv, RecordsAgree
<1>6. EffectsKnown'
  BY <1>1 DEF SerialInv, EffectsKnown
<1>7. ResultsSound'
  <2>1. \A k \in Keys : records[k] = "success" => records'[k] = "success"
    BY <1>3
  <2>. QED
    BY <1>1, <2>1, ResultWritten
<1>. QED
  BY <1>4, <1>5, <1>6, <1>7 DEF SerialInv

\* A recovered, cached or refused call is answered as its record says.
LEMMA GovernanceSerial ==
    ASSUME ToolInv, SerialInv, Recover \/ HitCache \/ RejectDuplicate PROVE SerialInv'
<1>1. CASE Recover
  <2>1. PICK e \in running :
            /\ Recovered(e.key) /\ records' = [records EXCEPT ![e.key] = "success"]
            /\ Answer(e, "durable_recovered")
    BY <1>1 DEF Recover
  <2>2. records'[e.key] = "success" /\ durable[e.key] = "success"
    BY <2>1, KeysOnly DEF ToolInv, ToolTypeOK, Execution, Recovered
  <2>. QED
    BY <2>1, <2>2, AnswerSerial
<1>2. CASE HitCache
  <2>1. PICK e \in running :
            Cachable(e.key) /\ Answer(e, "cache_hit") /\ UNCHANGED records
    BY <1>2 DEF HitCache
  <2>2. records'[e.key] = "success"
    BY <2>1 DEF Cachable
  <2>. QED
    BY <2>1, <2>2, AnswerSerial
<1>3. CASE RejectDuplicate
  <2>1. PICK e \in running : Answer(e, "duplicate_rejected") /\ UNCHANGED records
    BY <1>3 DEF RejectDuplicate
  <2>2. "duplicate_rejected" \notin OkStatus
    BY DEF OkStatus
  <2>. QED
    BY <2>1, <2>2, AnswerSerial
<1>. QED
  BY <1>1, <1>2, <1>3

\* A handler is called for an invocation that may run, and no other is executed.
LEMMA CallHandlerSerial == ToolInv /\ SerialInv /\ CallHandler => SerialInv'
<1>. SUFFICES ASSUME ToolInv, SerialInv, CallHandler PROVE SerialInv'
  OBVIOUS
<1>1. PICK e \in running :
          /\ ~Recovered(e.key) /\ Retry(e.key)
          /\ records' = [records EXCEPT ![e.key] = IF records[e.key] = "none" THEN "pending"
                                                   ELSE records[e.key]]
          /\ running' = (running \ {e}) \cup {[e EXCEPT !.pc = "handler"]}
  BY DEF CallHandler
<1>2. UNCHANGED <<run, rounds, durable, saved, executor, batchVars, results, effects, unseen>>
  BY DEF CallHandler
<1>3. /\ records \in [Keys -> RecordStatus] /\ e \in Execution /\ running \subseteq Execution
      /\ SideEffects \subseteq Keys
  BY KeysOnly, ExecutorAssumption DEF ToolInv, ToolTypeOK
<1> DEFINE h == [e EXCEPT !.pc = "handler"]
<1>4. h.run = e.run /\ h.key = e.key /\ h.pos = e.pos /\ e.key \in Keys
  BY <1>3 DEF Execution
<1>5. running' = (running \ {e}) \cup {h}
  BY <1>1
<1>. HIDE DEF h
<1>6. /\ \A k \in Keys \ {e.key} : records'[k] = records[k]
      /\ records[e.key] \in {"none", "retryable"}
      /\ records'[e.key] \in {"pending", "retryable"}
  BY <1>1, <1>3, <1>4 DEF Retry
<1>7. GroupSound'
  BY <1>2 DEF SerialInv, GroupSound, batchVars
<1>8. \A f \in running' : f = h \/ (f \in running /\ f # e /\ f.key # e.key /\ f.key \in Keys)
  BY <1>3, <1>5 DEF SerialInv, InFlight, Execution
<1>9. InFlight'
  <2>1. \A f \in running' : /\ executor' = "running" /\ f.run = run'
                            /\ f.pos \in Position' /\ f.pos < next' /\ f.key = batch'[f.pos]
    BY <1>2, <1>4, <1>8 DEF SerialInv, InFlight, Position, batchVars
  <2>2. h.key \in SideEffects => running' = {h}
    BY <1>4, <1>5 DEF SerialInv, InFlight
  <2>3. \A f \in running' : f # h => f.key \notin SideEffects
    BY <1>8 DEF SerialInv, InFlight
  <2>4. \A f, g \in running' : f # g => f.key # g.key
    BY <1>4, <1>8 DEF SerialInv, InFlight
  <2>. QED
    BY <2>1, <2>2, <2>3, <2>4 DEF InFlight
<1>10. HandlersOpen'
  BY <1>1, <1>2, <1>4, <1>6, <1>8 DEF SerialInv, HandlersOpen, Recovered
<1>11. RecordsAgree' /\ EffectsKnown'
  BY <1>2, <1>3, <1>6 DEF SerialInv, RecordsAgree, EffectsKnown
<1>12. ResultsSound'
  <2>1. \A k \in Keys : records[k] = "success" => records'[k] = "success"
    BY <1>6
  <2>2. \A i : (\E f \in running : f.pos = i) => \E f \in running' : f.pos = i
    BY <1>4, <1>5
  <2>3. \A i \in Position : batch[i] \in Keys
    BY KeysOnly DEF ToolInv
  <2>. QED
    BY <1>2, <2>1, <2>2, <2>3 DEF SerialInv, ResultsSound, Position, batchVars
<1>. QED
  BY <1>7, <1>9, <1>10, <1>11, <1>12 DEF SerialInv

\* What a handler that is over makes of the records.
LEMMA FinishRecords ==
    ASSUME ToolInv, SerialInv, NEW e \in running, NEW outcome \in Outcomes(e.key),
           Finish(e, outcome)
    PROVE  /\ e.key \in Keys /\ e.pc = "handler"
           /\ running' = running \ {e} /\ UNCHANGED <<run, batchVars>>
           /\ outcome.status \in {"success", "error", "retryable"}
           /\ records'[e.key] = outcome.status
           /\ \A k \in Keys \ {e.key} : records'[k] = records[k]
           /\ \A k \in SideEffects \ {e.key} : durable'[k] = durable[k]
           /\ e.key \in SideEffects =>
                  durable'[e.key] = IF outcome.status = "success" THEN "success" ELSE "failed"
           /\ EffectsKnown'
<1>1. /\ e.pc = "handler" /\ running' = running \ {e} /\ UNCHANGED <<run, batchVars>>
      /\ durable' = Durable(e.key, outcome.status)
      /\ effects' = Count(e.key, effects, outcome.effect)
      /\ unseen' = Count(e.key, unseen, outcome.effect /\ outcome.status # "success")
  BY DEF Finish
<1>2. /\ e.key \in Keys /\ e.run = run
      /\ records \in [Keys -> RecordStatus] /\ durable \in [SideEffects -> DurableStatus]
      /\ effects \in [SideEffects -> Nat] /\ unseen \in [SideEffects -> Nat]
  BY KeysOnly DEF SerialInv, InFlight, ToolInv, ToolTypeOK, Execution
<1>3. records' = [records EXCEPT ![e.key] = outcome.status]
  BY <1>2 DEF Finish
<1>4. outcome.status \in {"success", "error", "retryable"} /\ outcome.effect \in BOOLEAN
  BY OutcomeTypes
<1>5. /\ \A k \in SideEffects \ {e.key} : durable'[k] = durable[k]
      /\ e.key \in SideEffects =>
             durable'[e.key] = IF outcome.status = "success" THEN "success" ELSE "failed"
  BY <1>1, <1>2 DEF Durable
<1>6. EffectsKnown'
  <2>. SUFFICES ASSUME NEW k \in SideEffects
                PROVE  effects'[k] <= unseen'[k] + (IF durable'[k] = "success" THEN 1 ELSE 0)
    BY DEF EffectsKnown
  <2>1. effects[k] <= unseen[k] + (IF durable[k] = "success" THEN 1 ELSE 0)
    BY DEF SerialInv, EffectsKnown
  <2>2. CASE k # e.key
    <3>1. effects'[k] = effects[k] /\ unseen'[k] = unseen[k]
      BY <1>1, <1>2, <2>2 DEF Count
    <3>. QED
      BY <1>5, <2>1, <2>2, <3>1
  <2>3. CASE k = e.key
    <3>1. durable[k] # "success"
      BY <1>1, <2>3 DEF SerialInv, HandlersOpen
    <3>2. effects[k] <= unseen[k] /\ effects[k] \in Nat /\ unseen[k] \in Nat
      BY <1>2, <2>1, <3>1
    <3>3. /\ effects'[k] = IF outcome.effect THEN effects[k] + 1 ELSE effects[k]
          /\ unseen'[k] = IF outcome.effect /\ outcome.status # "success"
                          THEN unseen[k] + 1 ELSE unseen[k]
      BY <1>1, <1>2, <2>3 DEF Count
    <3>4. durable'[k] = IF outcome.status = "success" THEN "success" ELSE "failed"
      BY <1>5, <2>3
    <3>5. CASE outcome.status = "success"
      BY <3>2, <3>3, <3>4, <3>5
    <3>6. CASE outcome.status # "success"
      BY <3>2, <3>3, <3>4, <3>6
    <3>. QED
      BY <3>5, <3>6
  <2>. QED
    BY <2>2, <2>3
<1>. QED
  BY <1>1, <1>2, <1>3, <1>4, <1>5, <1>6

\* The invocation had no verdict and no durable success before: none is lost.
LEMMA FinishKeepsSuccess ==
    ASSUME ToolInv, SerialInv, NEW e \in running, NEW outcome \in Outcomes(e.key),
           Finish(e, outcome)
    PROVE  /\ \A k \in Keys : records[k] \in {"success", "error"} => records'[k] = records[k]
           /\ \A k \in SideEffects : durable[k] = "success" => durable'[k] = "success"
           /\ \A k \in SideEffects : durable'[k] = "success" => records'[k] # "error"
<1>1. /\ records[e.key] \in {"pending", "retryable"}
      /\ e.key \in SideEffects => durable[e.key] # "success"
  BY FinishRecords DEF SerialInv, HandlersOpen
<1>2. SideEffects \subseteq Keys
  BY ExecutorAssumption
<1>. QED
  BY <1>1, <1>2, FinishRecords DEF SerialInv, RecordsAgree

\* A result that is settled: its durable record is saved before it is written.
LEMMA SettleSerial == ToolInv /\ SerialInv /\ Settle => SerialInv'
<1>. SUFFICES ASSUME ToolInv, SerialInv, Settle PROVE SerialInv'
  OBVIOUS
<1>1. PICK e \in running : \E outcome \in Outcomes(e.key) :
          /\ Finish(e, outcome)
          /\ saved' = IF e.key \in SideEffects THEN durable' ELSE saved
          /\ results' = IF e.run = run /\ executor = "running"
                        THEN [results EXCEPT ![e.pos] = outcome.status] ELSE results
          /\ UNCHANGED executor
  BY DEF Settle
<1>2. PICK outcome \in Outcomes(e.key) :
          /\ Finish(e, outcome)
          /\ saved' = IF e.key \in SideEffects THEN durable' ELSE saved
          /\ results' = IF e.run = run /\ executor = "running"
                        THEN [results EXCEPT ![e.pos] = outcome.status] ELSE results
          /\ UNCHANGED executor
  BY <1>1
<1>3. results' = [results EXCEPT ![e.pos] = outcome.status]
  BY <1>2 DEF SerialInv, InFlight
<1>4. /\ e.key \in Keys /\ running' = running \ {e} /\ UNCHANGED <<run, batchVars>>
      /\ outcome.status \in {"success", "error", "retryable"}
      /\ records'[e.key] = outcome.status
      /\ \A k \in Keys \ {e.key} : records'[k] = records[k]
      /\ \A k \in SideEffects \ {e.key} : durable'[k] = durable[k]
      /\ e.key \in SideEffects =>
             durable'[e.key] = IF outcome.status = "success" THEN "success" ELSE "failed"
      /\ EffectsKnown'
  BY <1>2, FinishRecords
<1>5. /\ \A k \in Keys : records[k] \in {"success", "error"} => records'[k] = records[k]
      /\ \A k \in SideEffects : durable[k] = "success" => durable'[k] = "success"
      /\ \A k \in SideEffects : durable'[k] = "success" => records'[k] # "error"
  BY <1>2, FinishKeepsSuccess
<1>6. \A k \in SideEffects : /\ saved[k] = "success" => saved'[k] = "success"
                             /\ saved'[k] = "success" => durable'[k] = "success"
  <2>1. \A k \in SideEffects : saved[k] = "success" => durable[k] = "success"
    BY DEF SerialInv, RecordsAgree
  <2>. QED
    BY <1>2, <1>5, <2>1
<1>7. GroupSound' /\ InFlight' /\ HandlersOpen'
  BY <1>2, <1>4, OneLessInFlight
<1>8. RecordsAgree'
  BY <1>5, <1>6 DEF RecordsAgree
<1>9. ResultsSound'
  <2>1. /\ outcome.status # "none"
        /\ outcome.status \in OkStatus => records'[e.key] = "success"
        /\ \A k \in Keys : records[k] = "success" => records'[k] = "success"
        /\ e.key \in SideEffects =>
              /\ outcome.status = "success" => saved'[e.key] = "success"
              /\ outcome.status = "durable_recovered" => durable'[e.key] = "success"
    BY <1>2, <1>4, <1>5 DEF OkStatus
  <2>2. UNCHANGED <<batchVars, executor>>
    BY <1>2, <1>4
  <2>. QED
    BY <1>3, <1>4, <1>5, <1>6, <2>1, <2>2, ResultWritten
<1>. QED
  BY <1>4, <1>7, <1>8, <1>9 DEF SerialInv

\* A save can fail only for a side effect, and that was executed alone.
LEMMA SaveFailsSerial == ToolInv /\ SerialInv /\ SaveFails => SerialInv'
<1>. SUFFICES ASSUME ToolInv, SerialInv, SaveFails PROVE SerialInv'
  OBVIOUS
<1>1. PICK e \in running : \E outcome \in Outcomes(e.key) :
          /\ e.key \in SideEffects /\ Finish(e, outcome)
          /\ executor' = IF e.run = run /\ executor = "running" THEN "raising" ELSE executor
          /\ UNCHANGED <<saved, results>>
  BY DEF SaveFails
<1>2. PICK outcome \in Outcomes(e.key) : Finish(e, outcome)
  BY <1>1
<1>3. executor' = "raising" /\ UNCHANGED saved
  BY <1>1 DEF SerialInv, InFlight
<1>4. /\ running' = running \ {e} /\ UNCHANGED <<run, batchVars>>
      /\ \A k \in Keys \ {e.key} : records'[k] = records[k]
      /\ \A k \in SideEffects \ {e.key} : durable'[k] = durable[k]
      /\ EffectsKnown'
  BY <1>2, FinishRecords
<1>5. running' = {}
  BY <1>1, <1>4 DEF SerialInv, InFlight
<1>6. GroupSound' /\ InFlight' /\ HandlersOpen'
  BY <1>4, <1>5, OneLessInFlight
<1>7. RecordsAgree'
  <2>1. /\ \A k \in SideEffects : durable[k] = "success" => durable'[k] = "success"
        /\ \A k \in SideEffects : durable'[k] = "success" => records'[k] # "error"
    BY <1>2, FinishKeepsSuccess
  <2>. QED
    BY <1>3, <2>1 DEF SerialInv, RecordsAgree
<1>8. ResultsSound'
  BY <1>3 DEF ResultsSound
<1>. QED
  BY <1>4, <1>6, <1>7, <1>8 DEF SerialInv

\* What a run leaves when it is interrupted: nothing in flight, and as many more side
\* effects as went unseen.
LEMMA InterruptedSerial ==
    ASSUME ToolInv, SerialInv, running' = {}, executor' = "ended",
           UNCHANGED <<run, rounds, governanceVars, saved, batchVars, results>>,
           durable' \in {durable, saved}, EffectsKnown'
    PROVE  SerialInv'
<1>1. GroupSound'
  BY DEF SerialInv, GroupSound, batchVars
<1>2. InFlight' /\ HandlersOpen' /\ ResultsSound'
  BY DEF InFlight, HandlersOpen, ResultsSound
<1>3. RecordsAgree'
  BY DEF SerialInv, RecordsAgree, governanceVars
<1>. QED
  BY <1>1, <1>2, <1>3 DEF SerialInv

\* A side effect that was cut short counts as unseen.
LEMMA CancelRunSerial == ToolInv /\ SerialInv /\ CancelRun => SerialInv'
<1>. SUFFICES ASSUME ToolInv, SerialInv, CancelRun PROVE SerialInv'
  OBVIOUS
<1>1. /\ running' = {} /\ executor' = "ended"
      /\ UNCHANGED <<run, rounds, governanceVars, durable, saved, batchVars, results>>
  BY DEF CancelRun, Current, SerialInv, InFlight
<1>2. PICK done \in SUBSET running :
          /\ effects' = [k \in SideEffects |-> effects[k] + Cardinality({e \in done : e.key = k})]
          /\ unseen' = [k \in SideEffects |-> unseen[k] + Cardinality({e \in done : e.key = k})]
  BY DEF CancelRun, Interrupted, Current
<1>3. EffectsKnown'
  <2> DEFINE cut(k) == Cardinality({e \in done : e.key = k})
  <2>. SUFFICES ASSUME NEW k \in SideEffects
                PROVE  effects'[k] <= unseen'[k] + (IF durable'[k] = "success" THEN 1 ELSE 0)
    BY DEF EffectsKnown
  <2>1. /\ effects[k] \in Nat /\ unseen[k] \in Nat
        /\ effects[k] <= unseen[k] + (IF durable[k] = "success" THEN 1 ELSE 0)
    BY DEF ToolInv, ToolTypeOK, SerialInv, EffectsKnown
  <2>2. cut(k) \in Nat
    BY CutShortFinite
  <2>3. effects'[k] = effects[k] + cut(k) /\ unseen'[k] = unseen[k] + cut(k)
    BY <1>2
  <2>. HIDE DEF cut
  <2>. QED
    BY <1>1, <2>1, <2>2, <2>3
<1>. QED
  BY <1>1, <1>3, InterruptedSerial

\* A durable success the checkpoint does not have is forgotten, and counts as unseen.
LEMMA CrashSerial == ToolInv /\ SerialInv /\ Crash => SerialInv'
<1>. SUFFICES ASSUME ToolInv, SerialInv, Crash PROVE SerialInv'
  OBVIOUS
<1>1. /\ running' = {} /\ durable' = saved /\ executor' = "ended"
      /\ UNCHANGED <<run, rounds, governanceVars, saved, batchVars, results>>
  BY DEF Crash
<1> DEFINE lost(k) == IF durable[k] = "success" /\ saved[k] # "success" THEN 1 ELSE 0
<1>2. PICK done \in SUBSET running :
          /\ effects' = [k \in SideEffects |-> effects[k] + Cardinality({e \in done : e.key = k})]
          /\ unseen' = [k \in SideEffects |->
                            unseen[k] + Cardinality({e \in done : e.key = k}) + lost(k)]
  BY DEF Crash, Interrupted
<1>3. EffectsKnown'
  <2> DEFINE cut(k) == Cardinality({e \in done : e.key = k})
             one(k, d) == IF d[k] = "success" THEN 1 ELSE 0
  <2>. SUFFICES ASSUME NEW k \in SideEffects PROVE effects'[k] <= unseen'[k] + one(k, durable')
    BY DEF EffectsKnown
  <2>1. /\ effects[k] \in Nat /\ unseen[k] \in Nat
        /\ effects[k] <= unseen[k] + one(k, durable)
    BY DEF ToolInv, ToolTypeOK, SerialInv, EffectsKnown
  <2>2. cut(k) \in Nat
    BY CutShortFinite
  <2>3. effects'[k] = effects[k] + cut(k) /\ unseen'[k] = unseen[k] + cut(k) + lost(k)
    BY <1>2
  <2>4. /\ one(k, durable) = lost(k) + one(k, saved)
        /\ lost(k) \in Nat /\ one(k, saved) \in Nat
    BY DEF SerialInv, RecordsAgree
  <2>5. one(k, durable') = one(k, saved)
    BY <1>1
  <2>. HIDE DEF cut, lost, one
  <2>. QED
    BY <2>1, <2>2, <2>3, <2>4, <2>5
<1>. QED
  BY <1>1, <1>3, InterruptedSerial

\* The next run has no records of its own yet.
LEMMA StartRunSerial == ToolInv /\ SerialInv /\ StartRun => SerialInv'
<1>. SUFFICES ASSUME ToolInv, SerialInv, StartRun PROVE SerialInv'
  OBVIOUS
<1>1. /\ executor = "ended" /\ executor' = "idle" /\ records' = NewRecords /\ group' = {}
      /\ UNCHANGED <<durable, saved, running, effects, unseen>>
  BY DEF StartRun
<1>2. running' = {}
  BY <1>1, NothingInFlight DEF SerialInv
<1>3. GroupSound' /\ InFlight' /\ HandlersOpen' /\ ResultsSound'
  BY <1>1, <1>2 DEF GroupSound, InFlight, HandlersOpen, ResultsSound
<1>4. RecordsAgree'
  <2>1. \A k \in SideEffects : records'[k] = "none"
    BY <1>1, ExecutorAssumption DEF NewRecords
  <2>. QED
    BY <1>1, <2>1 DEF SerialInv, RecordsAgree
<1>5. EffectsKnown'
  BY <1>1 DEF SerialInv, EffectsKnown
<1>. QED
  BY <1>3, <1>4, <1>5 DEF SerialInv

\* Every step of the executor keeps what it knows of side effects and answers.
LEMMA NextSerial ==
    ASSUME SerialSideEffects, ToolInv, SerialInv, [ToolNext]_toolVars PROVE SerialInv'
<1>1. CASE \E calls \in Batches : StartBatch(calls)
  BY <1>1, StartBatchSerial
<1>2. CASE CallUnknown
  BY <1>2, AnsweredSerial DEF CallUnknown, Reached
<1>3. CASE RejectInBatch
  BY <1>3, AnsweredSerial DEF RejectInBatch, Reached
<1>4. CASE JoinGroup
  BY <1>4, JoinGroupSerial
<1>5. CASE FlushGroup \/ RunAlone
  BY <1>5, FlushOrAloneSerial
<1>6. CASE ReturnBatch \/ EndRun
  BY <1>6, EndsSerial
<1>7. CASE Recover \/ HitCache \/ RejectDuplicate
  BY <1>7, GovernanceSerial
<1>8. CASE CallHandler \/ Settle \/ SaveFails
  BY <1>8, CallHandlerSerial, SettleSerial, SaveFailsSerial
<1>9. CASE CancelRun \/ Crash \/ StartRun
  BY <1>9, CancelRunSerial, CrashSerial, StartRunSerial
<1>10. CASE UNCHANGED toolVars
  <2>1. GroupSound' /\ InFlight'
    BY <1>10 DEF SerialInv, GroupSound, InFlight, Position, toolVars, batchVars
  <2>2. HandlersOpen' /\ RecordsAgree' /\ EffectsKnown'
    BY <1>10 DEF SerialInv, HandlersOpen, RecordsAgree, EffectsKnown, toolVars, governanceVars
  <2>3. ResultsSound'
    BY <1>10 DEF SerialInv, ResultsSound, Position, toolVars, governanceVars, batchVars
  <2>. QED
    BY <2>1, <2>2, <2>3 DEF SerialInv
<1>. QED
  BY <1>1, <1>2, <1>3, <1>4, <1>5, <1>6, <1>7, <1>8, <1>9, <1>10
  DEF ToolNext, BatchStep, ExecutionStep, RunChange

\* Within a run a verdict stays: governance never lets an invocation with one through.
LEMMA VerdictStays ==
    ASSUME ToolInv, SerialInv, [ToolNext]_toolVars, run' = run,
           NEW k \in Keys, records[k] \in {"success", "error"}
    PROVE  records'[k] = records[k]
<1>1. records \in [Keys -> RecordStatus]
  BY DEF ToolInv, ToolTypeOK
<1>2. CASE records' = records
  BY <1>2
<1>3. CASE Recover
  <2>1. PICK e \in running : Recovered(e.key) /\ records' = [records EXCEPT ![e.key] = "success"]
    BY <1>3 DEF Recover
  <2>2. records[e.key] # "error"
    BY <2>1 DEF Recovered, SerialInv, RecordsAgree
  <2>. QED
    BY <1>1, <2>1, <2>2
<1>4. CASE CallHandler
  <2>1. PICK e \in running :
            records' = [records EXCEPT ![e.key] = IF records[e.key] = "none" THEN "pending"
                                                  ELSE records[e.key]]
    BY <1>4 DEF CallHandler
  <2>. QED
    BY <1>1, <2>1
<1>5. CASE Settle \/ SaveFails
  <2>1. PICK e \in running : \E outcome \in Outcomes(e.key) : Finish(e, outcome)
    BY <1>5 DEF Settle, SaveFails
  <2>. QED
    BY <2>1, FinishKeepsSuccess
<1>6. ~StartRun
  BY DEF StartRun, ToolInv, ToolTypeOK
<1>7. \/ records' = records \/ Recover \/ CallHandler \/ Settle \/ SaveFails
  BY <1>6 DEF ToolNext, BatchStep, ExecutionStep, RunChange, StartBatch, CallUnknown,
      RejectInBatch, JoinGroup, FlushGroup, RunAlone, ReturnBatch, HitCache, RejectDuplicate,
      EndRun, CancelRun, Crash, toolVars, governanceVars
<1>. QED
  BY <1>2, <1>3, <1>4, <1>5, <1>7

\* The conjuncts of the invariant give the properties.
LEMMA SerialGives ==
    ASSUME ToolInv, SerialInv
    PROVE  EffectsAccounted /\ RecordedBeforeContinue /\ AnswersTruthful
<1>1. EffectsAccounted
  <2>. SUFFICES ASSUME NEW k \in SideEffects PROVE effects[k] <= 1 + unseen[k]
    BY DEF EffectsAccounted
  <2>1. /\ effects[k] \in Nat /\ unseen[k] \in Nat
        /\ effects[k] <= unseen[k] + (IF durable[k] = "success" THEN 1 ELSE 0)
    BY DEF ToolInv, ToolTypeOK, SerialInv, EffectsKnown
  <2>. QED
    BY <2>1
<1>2. RecordedBeforeContinue
  BY DEF SerialInv, ResultsSound, RecordedBeforeContinue
<1>3. AnswersTruthful
  BY DEF SerialInv, ResultsSound, AnswersTruthful
<1>. QED
  BY <1>1, <1>2, <1>3

\* With no side-effect tool declared parallel-safe, through retries, cancellations and
\* crashes a side effect takes place once, and once more for each time execute could
\* not know that it had.
THEOREM EffectsOnce == ASSUME SerialSideEffects PROVE ToolSpec => []EffectsAccounted
<1>1. ToolInit => ToolInv /\ SerialInv
  BY InitTool, InitSerial
<1>2. ToolInv /\ SerialInv /\ [ToolNext]_toolVars => (ToolInv /\ SerialInv)'
  BY NextTool, NextSerial
<1>3. ToolInv /\ SerialInv => EffectsAccounted
  BY SerialGives
<1>. QED
  BY <1>1, <1>2, <1>3, PTL DEF ToolSpec

\* With no side-effect tool declared parallel-safe, what execute_batch returns as done
\* is in the checkpoint or was recovered from a durable record.
THEOREM RecordedFirst == ASSUME SerialSideEffects PROVE ToolSpec => []RecordedBeforeContinue
<1>1. ToolInit => ToolInv /\ SerialInv
  BY InitTool, InitSerial
<1>2. ToolInv /\ SerialInv /\ [ToolNext]_toolVars => (ToolInv /\ SerialInv)'
  BY NextTool, NextSerial
<1>3. ToolInv /\ SerialInv => RecordedBeforeContinue
  BY SerialGives
<1>. QED
  BY <1>1, <1>2, <1>3, PTL DEF ToolSpec

\* With no side-effect tool declared parallel-safe, execute_batch answers every call,
\* and with a good result only if its invocation succeeded.
THEOREM AnswersTrue == ASSUME SerialSideEffects PROVE ToolSpec => []AnswersTruthful
<1>1. ToolInit => ToolInv /\ SerialInv
  BY InitTool, InitSerial
<1>2. ToolInv /\ SerialInv /\ [ToolNext]_toolVars => (ToolInv /\ SerialInv)'
  BY NextTool, NextSerial
<1>3. ToolInv /\ SerialInv => AnswersTruthful
  BY SerialGives
<1>. QED
  BY <1>1, <1>2, <1>3, PTL DEF ToolSpec

\* With no side-effect tool declared parallel-safe, the governance of a run never takes
\* back the verdict on an invocation.
THEOREM VerdictsStand == ASSUME SerialSideEffects PROVE ToolSpec => VerdictsFinal
<1>1. ToolInit => ToolInv /\ SerialInv
  BY InitTool, InitSerial
<1>2. ToolInv /\ SerialInv /\ [ToolNext]_toolVars => (ToolInv /\ SerialInv)'
  BY NextTool, NextSerial
<1>3. ToolInv /\ SerialInv /\ [ToolNext]_toolVars =>
          [run' = run =>
              \A k \in Keys :
                  records[k] \in {"success", "error"} => records'[k] = records[k]]_toolVars
  BY VerdictStays
<1>. QED
  BY <1>1, <1>2, <1>3, PTL DEF ToolSpec, VerdictsFinal

-----------------------------------------------------------------------------
(* The executor inside the loop *)

\* The loop goes on after a batch that came back.
GoOn ==
    /\ executor = "returned" /\ executor' = "idle"
    /\ UNCHANGED <<run, rounds, governanceVars, durable, saved, batchVars, results,
                   running, effects, unseen>>

\* Every step of the loop is one of the executor's, or lets it go on.
LEMMA LoopDrivesTools == [AgentNext]_agentVars => [ToolNext]_toolVars \/ GoOn
<1>. SUFFICES ASSUME [AgentNext]_agentVars PROVE [ToolNext]_toolVars \/ GoOn
  OBVIOUS
<1>1. CASE LoopStep
  <2>1. CASE DeliverResults
    BY <2>1 DEF DeliverResults, Stop, GoOn, ToolNext, RunChange
  <2>2. CASE RequestBatch
    BY <2>2 DEF RequestBatch, ToolNext
  <2>3. CASE StopOnBudgets \/ ChatFails \/ Complete \/ ExceedTokens \/ RejectBatch
             \/ DeliveryFails \/ BatchRaises
    <3>1. EndRun
      BY <2>3 DEF StopOnBudgets, ChatFails, Complete, ExceedTokens, RejectBatch, DeliveryFails,
                  BatchRaises, Stop
    <3>. QED
      BY <3>1 DEF ToolNext, RunChange
  <2>. QED
    BY <1>1, <2>1, <2>2, <2>3 DEF LoopStep
<1>2. CASE ExecuteBatch
  BY <1>2 DEF ExecuteBatch, ToolNext
<1>3. CASE Cancelled \/ ProcessDies \/ Restart
  BY <1>3 DEF Cancelled, ProcessDies, Restart, ToolNext, RunChange
<1>4. CASE UNCHANGED agentVars
  BY <1>4 DEF agentVars
<1>. QED
  BY <1>1, <1>2, <1>3, <1>4 DEF AgentNext

\* Going on keeps what the executor keeps.
LEMMA GoOnKeeps == ToolInv /\ GoOn => ToolInv' /\ (SerialInv => SerialInv')
<1>. SUFFICES ASSUME ToolInv, GoOn PROVE ToolInv' /\ (SerialInv => SerialInv')
  OBVIOUS
<1>. USE DEF GoOn, governanceVars, batchVars
<1>1. ToolTypeOK'
  BY DEF ToolInv, ToolTypeOK, Position
<1>2. RunningSound' /\ GroupApart' /\ ResourcesSerialized'
  BY DEF ToolInv, RunningSound, GroupApart, ResourcesSerialized, Current
<1>3. ASSUME SerialInv PROVE SerialInv'
  <2>1. running = {}
    BY <1>3, NothingInFlight DEF SerialInv
  <2>2. GroupSound' /\ InFlight' /\ HandlersOpen'
    BY <1>3, <2>1 DEF SerialInv, GroupSound, InFlight, HandlersOpen
  <2>3. RecordsAgree' /\ EffectsKnown' /\ ResultsSound'
    BY <1>3 DEF SerialInv, RecordsAgree, EffectsKnown, ResultsSound
  <2>. QED
    BY <2>2, <2>3 DEF SerialInv
<1>. QED
  BY <1>1, <1>2, <1>3 DEF ToolInv

\* Under the loop the executor keeps its invariants.
LEMMA LoopKeepsTools == ToolInv /\ [AgentNext]_agentVars => ToolInv'
BY LoopDrivesTools, NextTool, GoOnKeeps

\* Also those about side effects and answers.
LEMMA LoopKeepsSerial ==
    ASSUME SerialSideEffects, ToolInv, SerialInv, [AgentNext]_agentVars PROVE SerialInv'
BY LoopDrivesTools, NextSerial, GoOnKeeps

-----------------------------------------------------------------------------
(* The loop *)

\* The loop is over exactly when its executor is; what it has counted is what it has
\* executed, and what a batch in progress will add is still in budget and still owed.
LoopInv ==
    /\ stop \in StopReasons \cup {"none"}
    /\ tool_calls \in Nat /\ executed \in Nat /\ owed \in Nat
    /\ stop = "none" <=> executor # "ended"
    /\ executed <= MaxToolCalls
    /\ stop = "none" => tool_calls = executed
    /\ stop \in {"completed", "max_rounds", "tool_budget_exceeded"} => owed = 0
    /\ executor = "idle" => owed = 0
    /\ executor \in {"running", "raising", "returned"} =>
          /\ owed = Len(batch) /\ Len(batch) > 0
          /\ executed + Len(batch) <= MaxToolCalls

\* Nothing is counted and nothing owed before the first response.
LEMMA InitLoop == AgentInit => LoopInv
BY LoopAssumption DEF AgentInit, ToolInit, LoopInv, StopReasons

\* A loop that stops between two batches owes nothing of the last one.
LEMMA StopKeeps ==
    ASSUME ToolInv, LoopInv, executor' = "ended", stop' \in StopReasons,
           executed' \in {executed, executed + Len(batch)},
           executed' # executed => executor = "returned",
           tool_calls' \in Nat, owed' \in Nat,
           stop' \in {"completed", "max_rounds", "tool_budget_exceeded"} => owed' = 0
    PROVE  LoopInv'
<1>1. Len(batch) \in Nat
  BY KeysOnly DEF ToolInv
<1>2. executed' \in Nat /\ executed' <= MaxToolCalls
  BY <1>1 DEF LoopInv
<1>3. stop' # "none"
  BY DEF StopReasons
<1>. QED
  BY <1>2, <1>3 DEF LoopInv

\* The stops that follow no batch: a budget, the model, its last answer, a refused batch.
LEMMA StopsBetweenBatches ==
    ASSUME ToolInv, LoopInv,
           StopOnBudgets \/ ChatFails \/ Complete \/ ExceedTokens \/ RejectBatch
    PROVE  LoopInv'
<1>1. executor = "idle" /\ executor' = "ended" /\ owed = 0
  BY DEF StopOnBudgets, ChatFails, Complete, ExceedTokens, RejectBatch, Chatting, Ready, Stop,
         EndRun, LoopInv
<1>2. /\ tool_calls' \in Nat /\ executed' = executed /\ stop' \in StopReasons
      /\ owed' \in Nat
      /\ stop' \in {"completed", "max_rounds", "tool_budget_exceeded"} => owed' = 0
  <2>1. CASE StopOnBudgets \/ ChatFails \/ Complete
    BY <1>1, <2>1 DEF StopOnBudgets, ChatFails, Complete, Stop, LoopInv, StopReasons
  <2>2. CASE ExceedTokens
    <3>1. /\ UNCHANGED <<tool_calls, executed>> /\ stop' = "token_budget_exceeded"
          /\ \E calls \in Batches \cup {<< >>} : owed' = Len(calls)
      BY <2>2 DEF ExceedTokens, Stop
    <3>2. owed' \in Nat
      <4>1. \A calls \in Batches \cup {<< >>} : Len(calls) \in Nat
        BY ExecutorAssumption
      <4>. QED
        BY <3>1, <4>1
    <3>. QED
      BY <3>1, <3>2 DEF LoopInv, StopReasons
  <2>3. CASE RejectBatch
    <3>1. tool_calls' = MaxToolCalls - tool_calls /\ tool_calls < MaxToolCalls
      BY <2>3 DEF RejectBatch, Remaining, Chatting
    <3>2. tool_calls' \in Nat
      BY <3>1, LoopAssumption DEF LoopInv
    <3>. QED
      BY <1>1, <2>3, <3>2 DEF RejectBatch, Stop, LoopInv, StopReasons
  <2>. QED
    BY <2>1, <2>2, <2>3
<1>. QED
  BY <1>1, <1>2, StopKeeps

\* A batch is requested when it fits what is left of the budget.
LEMMA RequestKeeps == ToolInv /\ LoopInv /\ RequestBatch => LoopInv'
<1>. SUFFICES ASSUME ToolInv, LoopInv, RequestBatch PROVE LoopInv'
  OBVIOUS
<1>1. PICK calls \in Batches :
          ~ExceedsBudget(calls) /\ StartBatch(calls) /\ owed' = Len(calls)
  BY DEF RequestBatch
<1>2. /\ stop = "none" /\ executor = "idle"
      /\ UNCHANGED <<stop, tool_calls, executed>>
  BY DEF RequestBatch, Chatting, Ready
<1>3. executor' = "running" /\ batch' = calls
  BY <1>1 DEF StartBatch
<1>4. Len(calls) \in Nat /\ Len(calls) > 0
  BY ExecutorAssumption, LoopAssumption
<1>5. executed + Len(calls) <= MaxToolCalls
  <2>1. ~(Len(calls) > MaxToolCalls - executed)
    BY <1>1, <1>2 DEF ExceedsBudget, Remaining, LoopInv
  <2>. QED
    BY <1>4, <2>1, LoopAssumption DEF LoopInv
<1>. QED
  BY <1>1, <1>2, <1>3, <1>4, <1>5 DEF LoopInv, StopReasons

\* Delivering counts the calls of the batch that came back.
LEMMA DeliverKeeps ==
    ASSUME ToolInv, LoopInv, DeliverResults \/ DeliveryFails PROVE LoopInv'
<1>1. /\ stop = "none" /\ executor = "returned"
      /\ tool_calls' = tool_calls + Len(batch) /\ executed' = executed + Len(batch)
  BY DEF DeliverResults, DeliveryFails
<1>2. /\ Len(batch) \in Nat /\ Len(batch) > 0 /\ owed = Len(batch) /\ tool_calls = executed
      /\ executed \in Nat /\ executed + Len(batch) <= MaxToolCalls
  BY <1>1, KeysOnly DEF ToolInv, LoopInv
<1>3. tool_calls' \in Nat /\ executed' \in Nat /\ tool_calls' = executed'
  BY <1>1, <1>2
<1>4. CASE executor' = "ended"
  <2>1. stop' \in {"repeated_tool_call", "provider_error"} /\ owed' \in Nat
    BY <1>2, <1>4 DEF DeliverResults, DeliveryFails, Stop
  <2>. QED
    BY <1>1, <1>3, <1>4, <2>1, StopKeeps DEF StopReasons
<1>5. CASE executor' # "ended"
  <2>1. executor' = "idle" /\ owed' = 0 /\ stop' = stop
    BY <1>5 DEF DeliverResults, DeliveryFails, Stop, EndRun
  <2>. QED
    BY <1>1, <1>2, <1>3, <2>1 DEF LoopInv, StopReasons
<1>. QED
  BY <1>4, <1>5

\* The executor works on the batch of the running loop and neither changes it nor ends.
LEMMA ExecuteKeeps == ToolInv /\ LoopInv /\ ExecuteBatch => LoopInv'
<1>. SUFFICES ASSUME ToolInv, LoopInv, ExecuteBatch PROVE LoopInv'
  OBVIOUS
<1>1. UNCHANGED <<stop, tool_calls, executed, owed>>
  BY DEF ExecuteBatch, loopVars
<1>2. /\ batch' = batch
      /\ \/ executor' = executor
         \/ executor = "running" /\ executor' \in {"returned", "raising"}
  <2>1. CASE BatchStep
    BY <2>1 DEF BatchStep, CallUnknown, RejectInBatch, JoinGroup, FlushGroup, RunAlone,
                ReturnBatch, Turn, batchVars
  <2>2. CASE Recover \/ HitCache \/ RejectDuplicate \/ CallHandler
    BY <2>2 DEF Recover, HitCache, RejectDuplicate, Answer, CallHandler, batchVars
  <2>3. CASE Settle \/ SaveFails
    BY <2>3 DEF Settle, SaveFails, Finish, batchVars
  <2>. QED
    BY <2>1, <2>2, <2>3 DEF ExecuteBatch, ExecutionStep
<1>. QED
  BY <1>1, <1>2 DEF LoopInv

\* A run that is interrupted keeps its counts; the next one starts from zero.
LEMMA InterruptKeeps ==
    ASSUME ToolInv, LoopInv, BatchRaises \/ Cancelled \/ ProcessDies \/ Restart
    PROVE  LoopInv'
<1>1. CASE BatchRaises \/ Cancelled
  <2>1. /\ executor' = "ended" /\ stop' \in {"provider_error", "cancelled"}
        /\ UNCHANGED <<tool_calls, executed, owed>>
    BY <1>1 DEF BatchRaises, Cancelled, Stop, EndRun, CancelRun
  <2>. QED
    BY <2>1, StopKeeps DEF LoopInv, StopReasons
<1>2. CASE ProcessDies
  <2>1. /\ executor' = "ended" /\ stop' = IF stop = "none" THEN "cancelled" ELSE stop
        /\ UNCHANGED <<tool_calls, executed, owed>>
    BY <1>2 DEF ProcessDies, Crash
  <2>. QED
    BY <2>1, StopKeeps DEF LoopInv, StopReasons
<1>3. CASE Restart
  <2>1. executor' = "idle" /\ stop' = "none" /\ tool_calls' = 0 /\ executed' = 0 /\ owed' = 0
    BY <1>3 DEF Restart, StartRun
  <2>. QED
    BY <2>1, LoopAssumption DEF LoopInv
<1>. QED
  BY <1>1, <1>2, <1>3

\* Every step of the loop keeps the invariant.
LEMMA NextLoop == ToolInv /\ LoopInv /\ [AgentNext]_agentVars => LoopInv'
<1>. SUFFICES ASSUME ToolInv, LoopInv, [AgentNext]_agentVars PROVE LoopInv'
  OBVIOUS
<1>1. CASE UNCHANGED agentVars
  BY <1>1 DEF LoopInv, agentVars, toolVars, loopVars, batchVars
<1>. QED
  BY <1>1, StopsBetweenBatches, RequestKeeps, DeliverKeeps, ExecuteKeeps, InterruptKeeps
  DEF AgentNext, LoopStep

\* The executor and its loop together.
LEMMA LoopInvariant == AgentSpec => [](ToolInv /\ LoopInv)
<1>1. AgentInit => ToolInv /\ LoopInv
  BY InitTool, InitLoop DEF AgentInit
<1>2. ToolInv /\ LoopInv /\ [AgentNext]_agentVars => (ToolInv /\ LoopInv)'
  BY LoopKeepsTools, NextLoop
<1>. QED
  BY <1>1, <1>2, PTL DEF AgentSpec

\* AgentLoop.run and the executor under it keep their state well formed.
THEOREM LoopTypes == AgentSpec => []AgentTypeOK
<1>1. ToolInv /\ LoopInv => AgentTypeOK
  BY DEF ToolInv, LoopInv, AgentTypeOK
<1>. QED
  BY LoopInvariant, <1>1, PTL

\* AgentLoop.run never executes more calls than max_tool_calls, whatever the model asks
\* for and however a batch ends.
THEOREM BudgetKept == AgentSpec => []BudgetHolds
<1>1. ToolInv /\ LoopInv => BudgetHolds
  BY DEF LoopInv, BudgetHolds
<1>. QED
  BY LoopInvariant, <1>1, PTL

\* When AgentLoop.run asks the model again, or stops with the conversation whole, every
\* tool call it has in memory has its tool message.
THEOREM TranscriptWhole == AgentSpec => []TranscriptPaired
<1>1. ToolInv /\ LoopInv => TranscriptPaired
  BY DEF LoopInv, TranscriptPaired, Chatting, Ready
<1>. QED
  BY LoopInvariant, <1>1, PTL

\* What execute_batch promises of resources, side effects, records and answers holds
\* when AgentLoop.run drives it: its stops, retries and restarts lose none of it.
THEOREM LoopKeepsPromises ==
    ASSUME SerialSideEffects
    PROVE  AgentSpec => [](/\ ResourcesSerialized /\ EffectsAccounted
                           /\ RecordedBeforeContinue /\ AnswersTruthful)
<1>1. AgentInit => ToolInv /\ SerialInv
  BY InitTool, InitSerial DEF AgentInit
<1>2. ToolInv /\ SerialInv /\ [AgentNext]_agentVars => (ToolInv /\ SerialInv)'
  BY LoopKeepsTools, LoopKeepsSerial
<1>3. ToolInv /\ SerialInv => /\ ResourcesSerialized /\ EffectsAccounted
                              /\ RecordedBeforeContinue /\ AnswersTruthful
  BY SerialGives DEF ToolInv
<1>. QED
  BY <1>1, <1>2, <1>3, PTL DEF AgentSpec
===============================================================================
