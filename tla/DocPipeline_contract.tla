------------------------ MODULE DocPipeline_contract ------------------------
(***************************************************************************)
(* DocPipeline implements DeliveryContract, and a row that says completed  *)
(* tells the truth: proofs for any number of re-runs and requests, any     *)
(* options and bounds.                                                     *)
(***************************************************************************)
EXTENDS DocPipeline_proofs

-----------------------------------------------------------------------------
(* The stages behind DEV.                                                  *)

\* They are entered from DEV, or from one another; no re-run starts or ends a
\* query in them.
LEMMA BeyondDevStages ==
  /\ BeyondDev \subseteq LineStages
  /\ \A s \in ProcessingStages \cup ReviewStages :
       /\ Following[s] \in BeyondDev => s \in BeyondDev \cup {"ingesting"}
       /\ Following[s] = "completed" => s = "publishing_to_network"
       /\ Following[s] = "ingesting" => s = "ready_for_ingestion"
  /\ \A k \in WorkflowKinds :
       /\ FirstStage[k] # "completed"
       /\ FirstStage[k] \in BeyondDev => k = "promote"
       /\ FirstStage[k] = "ingesting" => k = "reingest"
  /\ \A k \in RerunKinds : DefaultStage[k] \notin BeyondDev
  /\ {"registered", "failed", "chunk_review", "ocr_review", "none", "unlisted", "purged",
      "ingesting"} \cap BeyondDev = {}
BY DEF BeyondDev, ProcessingStages, ReviewStages, LineStages, Following, WorkflowKinds,
       RerunKinds, FirstStage, DefaultStage

\* What is on record.
LEMMA RecordedPlaces ==
  /\ doc.stage \in Recorded
  /\ \A r \in Runs : run[r].stage \in Recorded
  /\ \A q \in Requests : req[q].arg \in Recorded
BY DEF Recorded

\* A stage that is newly on record behind DEV was preceded by another one
\* that already was.
Precedes(stage) ==
  stage \in BeyondDev =>
    \/ stage \in Recorded
    \/ stage # "completed" /\ Recorded \cap BeyondDev # {}

\* get_state of a workflow tells no more than what is on record.
LEMMA ReportedPrecedes ==
  ASSUME TypeOK, NEW r \in Runs
  PROVE  Precedes(Reported(r))
<1>1. run[r].stage \in Recorded
  BY RecordedPlaces
<1>2. Reported(r) = run[r].stage => Precedes(Reported(r))
  BY <1>1 DEF Precedes
<1>3. CASE run[r].kind \in RerunKinds /\ Reported(r) = DefaultStage[run[r].kind]
  BY <1>3, BeyondDevStages DEF Precedes
<1>4. CASE run[r].stage = "completed" /\ Reported(r) = "publishing_to_network"
  BY <1>1, <1>4 DEF Precedes, BeyondDev
<1>5. \/ Reported(r) = run[r].stage
      \/ run[r].kind \in RerunKinds /\ Reported(r) = DefaultStage[run[r].kind]
      \/ run[r].stage = "completed" /\ Reported(r) = "publishing_to_network"
  <2>1. run[r].kind \in RerunKinds => run[r].stage = FirstStage[run[r].kind]
          \/ Reported(r) = run[r].stage
    BY WorkflowLines DEF Reported
  <2> QED
    BY DEF Reported
<1> QED
  BY <1>2, <1>3, <1>4, <1>5

\* Nor does the reconciliation of the row with its pages and chunks.
LEMMA MaterializedPrecedes == Precedes(Materialized(doc.stage, rows))
BY RecordedPlaces, BeyondDevStages DEF Precedes, Materialized

-----------------------------------------------------------------------------
(* Before the upload.                                                      *)

\* Nothing can happen but the upload.
LEMMA BeforeUpload ==
  ASSUME NothingYet, Absent("main"), [Next]_vars
  PROVE  UNCHANGED vars \/ \E q \in Requests : Upload(q)
<1>m. Runs = {"main"} \cup Extra
  BY DEF Runs
<1>1. /\ doc.stage = "unlisted" /\ stray = {} /\ ~Listed
      /\ \A r \in Runs : ~Running(r)
      /\ \A q \in Requests : req[q].pc = "idle"
  BY <1>m, StageSets DEF NothingYet, Running, Absent, Listed, Idle
<1>2. ASSUME NEW r \in Runs, WorkerStep(r) \/ WorkerFault(r)
      PROVE  FALSE
  <2>1. ~Mirroring(r) /\ ~AtGate(r) /\ ~Processing(r)
    BY <1>1 DEF Mirroring, AtGate, Processing
  <2> QED
    BY <1>2, <2>1 DEF WorkerStep, WorkerFault, MirrorDone, PassGate, BeginAttempt,
       WriteEffect, ReconcileRow, ReturnAttempt, MirrorRepeated, MirrorExhausted, AttemptFails,
       AttemptTimesOut, PublishRejected
<1>3. ASSUME NEW q \in Requests, RequestStep(q)
      PROVE  Upload(q)
  <2>1. ~(\/ Register(q) \/ CreateJob(q) \/ Signal(q) \/ ValidateProd(q) \/ StartPromote(q)
          \/ MarkPromoting(q) \/ Hide(q) \/ DeleteFromDev(q) \/ DeleteFromProd(q)
          \/ PurgeRows(q) \/ Rewrite(q) \/ Query(q) \/ Sync(q) \/ RequestLost(q))
    BY <1>1 DEF Register, CreateJob, Signal, ValidateProd, StartPromote, MarkPromoting,
       Hide, DeleteFromDev, DeleteFromProd, PurgeRows, Rewrite, Query, Sync, RequestLost, Idle
  <2>2. ~(Approve(q) \/ ApproveProd(q) \/ (\E kind \in RerunKinds : Rerun(q, kind))
          \/ (\E op \in {"disable", "hide_only", "purge"} : Remove(q, op)) \/ Reconcile(q))
    BY <1>1 DEF Approve, ApproveProd, Rerun, Remove, Reconcile
  <2> QED
    BY <1>3, <2>1, <2>2 DEF RequestStep
<1>4. ~Restore
  BY <1>1 DEF Restore
<1> QED
  BY <1>1, <1>2, <1>3, <1>4 DEF Next

\* A workflow that is not started after a step is as it was before it.
LEMMA AbsentStays ==
  ASSUME TypeOK, [Next]_vars, NEW r \in Runs, run'[r].status = "absent"
  PROVE  run'[r] = run[r]
<1>1. ASSUME NEW o \in Runs, WorkerStep(o) \/ WorkerFault(o)
      PROVE  run'[r] = run[r]
  <2>1. Moves(o)
    BY <1>1, WorkerMoves
  <2> QED
    BY <2>1, MovedFields DEF Mirroring, AtGate, Processing, Running
<1>2. ASSUME NEW q \in Requests, RequestStep(q)
      PROVE  run'[r] = run[r]
  <2>m. "main" \in Runs /\ Extra \subseteq Runs
    BY DEF Runs
  <2>1. ASSUME NEW o \in Runs, NEW kind, Starts(o, kind)
        PROVE  run'[r] = run[r]
    BY <2>1 DEF Starts, TypeOK
  <2>2. ASSUME Running("main"), Cancelled \/ Terminated
        PROVE  run'[r] = run[r]
    BY <2>2, <2>m DEF Cancelled, Terminated, Closed, Entered, TypeOK, RunRecord, Running
  <2> QED
    BY <1>2, <2>m, <2>1, <2>2, RequestOnRuns
<1> QED
  BY <1>1, <1>2, StrayMoves DEF Next, Restore, workerVars, vars

-----------------------------------------------------------------------------
(* What a step puts on record.                                             *)

\* A request that rests is empty, one about PROD carries its gate, and the
\* stage it carries was on record.
Carries(new) ==
  /\ new.pc = "idle" => new = IdleRequest
  /\ new.op = "approve_prod" => new.arg = "approval_for_prod"
  /\ new.pc = "mark" => new.op = "approve_prod"
  /\ new.pc = "query" => new.op = "reconcile"
  /\ Precedes(new.arg)

\* Whatever a request does, its record becomes one of that kind.
LEMMA RequestCarries ==
  ASSUME TypeOK, RequestShape, CarriedStages, NEW q \in Requests, RequestStep(q)
  PROVE  \E new : req' = [req EXCEPT ![q] = new] /\ Carries(new)
<1> DEFINE Becomes == \E new : req' = [req EXCEPT ![q] = new] /\ Carries(new)
<1>c. /\ req[q].op = "approve_prod" => req[q].arg = "approval_for_prod"
      /\ req[q].pc = "mark" => req[q].op = "approve_prod"
      /\ req[q].pc = "query" => req[q].op = "reconcile"
      /\ Precedes(req[q].arg) /\ Precedes("none")
  BY RecordedPlaces, BeyondDevStages DEF CarriedStages, Precedes
<1>1. Answered(q) => Becomes
  BY <1>c DEF Answered, IdleRequest, Carries
<1>2. ASSUME NEW op, NEW pc, NEW arg, NEW r, Arrives(q, op, pc, arg, r), Precedes(arg),
             pc \notin {"idle", "mark"}, pc = "query" => op = "reconcile",
             op = "approve_prod" => arg = "approval_for_prod"
      PROVE  Becomes
  <2>1. Carries([op |-> op, pc |-> pc, arg |-> arg, run |-> r])
    BY <1>2 DEF Carries
  <2> QED
    BY <1>2, <2>1 DEF Arrives
<1>3. ASSUME NEW pc, NEW arg, NEW r, Continues(q, pc, arg, r), Precedes(arg),
             pc \notin {"idle", "query"}, pc = "mark" => req[q].op = "approve_prod",
             req[q].op = "approve_prod" => arg = "approval_for_prod"
      PROVE  Becomes
  <2>1. Carries([op |-> req[q].op, pc |-> pc, arg |-> arg, run |-> r])
    BY <1>3 DEF Carries
  <2> QED
    BY <1>3, <2>1 DEF Continues
<1>4. ASSUME NEW pc, Proceeds(q, pc), pc \notin {"idle", "query"},
             pc = "mark" => req[q].op = "approve_prod"
      PROVE  Becomes
  BY <1>c, <1>3, <1>4 DEF Proceeds
<1> SUFFICES Becomes
  OBVIOUS
<1> HIDE DEF Becomes
<1>5. CASE Upload(q)
  BY <1>c, <1>2, <1>5 DEF Upload
<1>6. CASE Register(q) \/ CreateJob(q) \/ Hide(q) \/ DeleteFromDev(q) \/ DeleteFromProd(q)
  BY <1>1, <1>4, <1>6 DEF Register, CreateJob, Hide, DeleteFromDev, DeleteFromProd
<1>7. CASE MarkPromoting(q) \/ PurgeRows(q) \/ Rewrite(q) \/ Sync(q) \/ RequestLost(q)
  BY <1>1, <1>7 DEF MarkPromoting, PurgeRows, Rewrite, Sync, RequestLost
<1>8. CASE Approve(q)
  <2>1. "main" \in Runs
    BY DEF Runs
  <2> QED
    BY <1>2, <1>8, <2>1, ReportedPrecedes DEF Approve
<1>9. CASE Signal(q)
  BY <1>1, <1>4, <1>9 DEF Signal
<1>10. CASE ApproveProd(q)
  <2>1. Precedes("approval_for_prod")
    BY <1>10, RecordedPlaces DEF ApproveProd, Precedes, BeyondDev
  <2> QED
    BY <1>2, <1>10, <2>1 DEF ApproveProd
<1>11. CASE ValidateProd(q)
  BY <1>4, <1>11 DEF ValidateProd
<1>12. CASE StartPromote(q)
  BY <1>c, <1>3, <1>12 DEF StartPromote
<1>13. CASE \E kind \in RerunKinds : Rerun(q, kind)
  BY <1>c, <1>2, <1>13 DEF Rerun, RerunKinds
<1>14. CASE \E op \in {"disable", "hide_only", "purge"} : Remove(q, op)
  BY <1>c, <1>2, <1>14 DEF Remove
<1>15. CASE Reconcile(q)
  BY <1>2, <1>15, MaterializedPrecedes DEF Reconcile
<1>16. CASE Query(q)
  <2>1. req[q].run \in Runs
    BY DEF TypeOK, RequestRecord
  <2>2. Precedes(Reported(req[q].run)) /\ Precedes("failed")
    BY <2>1, ReportedPrecedes, BeyondDevStages DEF Precedes
  <2> QED
    BY <1>1, <1>3, <1>c, <1>16, <2>2 DEF Query
<1> QED
  BY <1>5, <1>6, <1>7, <1>8, <1>9, <1>10, <1>11, <1>12, <1>13, <1>14, <1>15, <1>16
     DEF RequestStep

\* The row says no more than what was on record, whoever writes it.
LEMMA RowPrecedes ==
  ASSUME TypeOK, CarriedStages, [Next]_vars
  PROVE  Precedes(doc'.stage)
<1>1. Precedes(doc.stage) /\ (\A r \in Runs : Precedes(run[r].stage))
        /\ (\A q \in Requests : Precedes(req[q].arg))
  BY RecordedPlaces DEF Precedes
<1>2. ASSUME NEW s, Precedes(s), SetStage(s)
      PROVE  Precedes(doc'.stage)
  BY <1>1, <1>2 DEF SetStage, TypeOK
<1>3. ASSUME NEW s, Closing(s)
      PROVE  Precedes(doc'.stage)
  BY <1>1, <1>2, <1>3, MaterializedPrecedes DEF Closing, Rewritten
<1>4. ASSUME NEW r \in Runs, WorkerStep(r) \/ WorkerFault(r)
      PROVE  Precedes(doc'.stage)
  <2>1. CASE MirrorDone(r) \/ MirrorRepeated(r)
    BY <1>1, <1>2, <2>1 DEF MirrorDone, MirrorRepeated, Mirrored
  <2>2. CASE ReconcileRow(r)
    BY <1>3, <2>2 DEF ReconcileRow
  <2>3. CASE \/ MirrorExhausted(r) \/ PassGate(r) \/ BeginAttempt(r) \/ WriteEffect(r)
             \/ ReturnAttempt(r) \/ AttemptFails(r) \/ AttemptTimesOut(r)
             \/ PublishRejected(r)
    <3>1. UNCHANGED doc
      BY <2>3 DEF MirrorExhausted, PassGate, BeginAttempt, WriteEffect, ReturnAttempt,
         AttemptFails, AttemptTimesOut, PublishRejected, sqliteVars
    <3> QED
      BY <1>1, <3>1
  <2> QED
    BY <1>4, <2>1, <2>2, <2>3 DEF WorkerStep, WorkerFault
<1>5. ASSUME NEW s \in stray, StrayStep(s)
      PROVE  Precedes(doc'.stage)
  <2>1. CASE StrayReturns(s)
    BY <1>3, <2>1 DEF StrayReturns
  <2>2. CASE StrayWrites(s) \/ StrayDies(s)
    BY <1>1, <2>2 DEF StrayWrites, StrayDies, sqliteVars
  <2> QED
    BY <1>5, <2>1, <2>2 DEF StrayStep
<1>6. ASSUME NEW q \in Requests, RequestStep(q)
      PROVE  Precedes(doc'.stage)
  <2>1. CASE Register(q) \/ PurgeRows(q)
    <3>1. doc'.stage \in {"registered", "purged"}
      BY <2>1 DEF Register, PurgeRows
    <3> QED
      BY <3>1, BeyondDevStages DEF Precedes
  <2>2. CASE MarkPromoting(q)
    <3>1. req[q].arg = "approval_for_prod"
      BY <2>2 DEF MarkPromoting, CarriedStages
    <3>2. Precedes("ingesting_prod")
      BY <3>1, RecordedPlaces DEF Precedes, BeyondDev
    <3> QED
      BY <1>2, <2>2, <3>2 DEF MarkPromoting
  <2>3. CASE Hide(q)
    BY <1>1, <2>3 DEF Hide, TypeOK
  <2>4. CASE Rewrite(q) \/ Sync(q)
    BY <1>1, <1>2, <2>4 DEF Rewrite, Sync, Rewritten
  <2>5. CASE \/ Upload(q) \/ CreateJob(q) \/ Approve(q) \/ Signal(q) \/ ApproveProd(q)
             \/ ValidateProd(q) \/ StartPromote(q)
             \/ (\E kind \in RerunKinds : Rerun(q, kind))
             \/ (\E op \in {"disable", "hide_only", "purge"} : Remove(q, op))
    <3>1. UNCHANGED doc
      BY <2>5 DEF Upload, CreateJob, Approve, Signal, ApproveProd, ValidateProd,
         StartPromote, Rerun, Remove, sqliteVars
    <3> QED
      BY <1>1, <3>1
  <2>6. CASE \/ DeleteFromDev(q) \/ DeleteFromProd(q) \/ Reconcile(q) \/ Query(q)
             \/ RequestLost(q)
    <3>1. UNCHANGED doc
      BY <2>6 DEF DeleteFromDev, DeleteFromProd, Reconcile, Query, RequestLost, sqliteVars
    <3> QED
      BY <1>1, <3>1
  <2> QED
    BY <1>6, <2>1, <2>2, <2>3, <2>4, <2>5, <2>6 DEF RequestStep
<1>7. CASE Restore \/ UNCHANGED vars
  BY <1>1, <1>7 DEF Restore, vars, TypeOK
<1> QED
  BY <1>4, <1>5, <1>6, <1>7 DEF Next

\* A workflow enters a stage behind DEV from another one, or because its own
\* activity has just been at work.
LEMMA RunPrecedes ==
  ASSUME TypeOK, RequestShape, [Next]_vars, NEW r \in Runs
  PROVE  \/ Precedes(run'[r].stage)
         \/ /\ Processing(r) /\ task[r].pc = "wrote"
            /\ run'[r].stage = NextStage(r)
<1>o. run'[r].stage = run[r].stage \/ run'[r].stage = "failed" => Precedes(run'[r].stage)
  BY RecordedPlaces, BeyondDevStages DEF Precedes
<1>1. ASSUME NEW o \in Runs, WorkerStep(o) \/ WorkerFault(o)
      PROVE  \/ Precedes(run'[r].stage)
             \/ /\ Processing(r) /\ task[r].pc = "wrote"
                /\ run'[r].stage = NextStage(r)
  <2>1. Moves(o)
    BY <1>1, WorkerMoves
  <2>2. CASE run'[r].stage = run[r].stage \/ run'[r].stage = "failed"
    BY <1>o, <2>2
  <2>3. CASE AtGate(r) /\ run'[r].stage = NextStage(r)
    <3>1. run[r].stage \in ReviewStages /\ run'[r].stage = Following[run[r].stage]
      BY <2>3 DEF AtGate, NextStage, ReviewStages
    <3>2. Following[run[r].stage] \in BeyondDev =>
            run[r].stage \in BeyondDev /\ Following[run[r].stage] # "completed"
      BY <3>1, BeyondDevStages DEF ReviewStages
    <3> QED
      BY <3>1, <3>2, RecordedPlaces DEF Precedes
  <2>4. CASE /\ Processing(r) /\ task[r].pc = LastStep(run[r].stage)
             /\ run'[r].stage = NextStage(r)
    <3>1. run[r].stage = "chunking" => run'[r].stage = "chunk_review"
      BY <2>4 DEF NextStage, Following
    <3>2. Precedes("chunk_review")
      BY BeyondDevStages DEF Precedes, BeyondDev
    <3> QED
      BY <2>4, <3>1, <3>2 DEF LastStep
  <2> QED
    BY <2>1, <2>2, <2>3, <2>4, MovedFields
<1>2. ASSUME NEW q \in Requests, RequestStep(q)
      PROVE  Precedes(run'[r].stage)
  <2>m. "main" \in Runs /\ Extra \subseteq Runs
    BY DEF Runs
  <2>1. CASE StartPromote(q)
    <3>1. PICK o \in Extra : Starts(o, "promote")
      BY <2>1 DEF StartPromote
    <3>2. req[q].arg = "approval_for_prod"
      BY <2>1 DEF StartPromote, RequestShape
    <3>3. Precedes("ingesting_prod")
      BY <3>2, RecordedPlaces DEF Precedes, BeyondDev
    <3>4. run'[o].stage = "ingesting_prod" /\ (o # r => run'[r] = run[r])
      BY <2>m, <3>1, WorkflowLines DEF Starts, TypeOK
    <3> QED
      BY <1>o, <3>3, <3>4
  <2>2. CASE Upload(q)
    <3>1. run'["main"].stage = "ocr_processing" /\ ("main" # r => run'[r] = run[r])
      BY <2>m, <2>2, WorkflowLines DEF Upload, Starts, TypeOK
    <3>2. "ocr_processing" \notin BeyondDev
      BY DEF BeyondDev
    <3> QED
      BY <1>o, <3>1, <3>2 DEF Precedes
  <2>3. ASSUME NEW kind \in RerunKinds, Rerun(q, kind)
        PROVE  Precedes(run'[r].stage)
    <3>1. PICK o \in Extra : Starts(o, kind)
      BY <2>3 DEF Rerun
    <3>2. run'[o].stage = FirstStage[kind] /\ (o # r => run'[r] = run[r])
      BY <2>m, <3>1 DEF Starts, TypeOK
    <3>3. FirstStage[kind] \notin BeyondDev
      BY WorkflowLines, BeyondDevStages
    <3> QED
      BY <1>o, <3>2, <3>3 DEF Precedes
  <2>4. ASSUME NEW op \in {"disable", "hide_only", "purge"}, Remove(q, op)
        PROVE  Precedes(run'[r].stage)
    <3>1. CASE UNCHANGED run
      BY <1>o, <3>1
    <3>2. CASE Cancelled \/ Terminated
      <4>1. run'[r].stage \in {run[r].stage, "failed"}
        BY <2>m, <3>2 DEF Cancelled, Terminated, Closed, Entered, TypeOK, RunRecord
      <4> QED
        BY <1>o, <4>1
    <3> QED
      BY <2>4, <3>1, <3>2 DEF Remove
  <2>5. CASE UNCHANGED run
    BY <1>o, <2>5
  <2>6. \/ UNCHANGED run \/ Upload(q) \/ StartPromote(q)
        \/ (\E kind \in RerunKinds : Rerun(q, kind))
        \/ \E op \in {"disable", "hide_only", "purge"} : Remove(q, op)
    <3>1. CASE \/ Register(q) \/ CreateJob(q) \/ Approve(q) \/ Signal(q) \/ ApproveProd(q)
               \/ ValidateProd(q) \/ MarkPromoting(q) \/ Hide(q) \/ DeleteFromDev(q)
               \/ DeleteFromProd(q) \/ PurgeRows(q) \/ Reconcile(q) \/ Rewrite(q)
               \/ Query(q) \/ Sync(q) \/ RequestLost(q)
      BY <3>1 DEF Register, CreateJob, Approve, Signal, ApproveProd, ValidateProd,
         MarkPromoting, Hide, DeleteFromDev, DeleteFromProd, PurgeRows, Reconcile,
         Rewrite, Query, Sync, RequestLost, workerVars
    <3> QED
      BY <1>2, <3>1 DEF RequestStep
  <2> QED
    BY <2>1, <2>2, <2>3, <2>4, <2>5, <2>6
<1>3. CASE UNCHANGED run
  BY <1>o, <1>3
<1> QED
  BY <1>1, <1>2, <1>3, StrayMoves DEF Next, Restore, workerVars, vars

\* An activity that has written was at it before the step, or has just made
\* the delivery of its stage.
LEMMA WrittenRuns ==
  ASSUME TypeOK, TaskShape, [Next]_vars, NEW r \in Runs, task'[r].pc = "wrote"
  PROVE  /\ run'[r].stage = run[r].stage
         /\ \/ task[r].pc = "wrote"
            \/ did' = did \cup Delivers[run[r].stage]
<1>t. \A o \in Runs : task[o].pc # "idle" => Processing(o)
  BY DEF TaskShape
<1>1. ASSUME NEW o \in Runs, WorkerStep(o) \/ WorkerFault(o)
      PROVE  /\ run'[r].stage = run[r].stage
             /\ task[r].pc = "wrote" \/ did' = did \cup Delivers[run[r].stage]
  <2>1. Moves(o)
    BY <1>1, WorkerMoves
  <2>2. CASE o # r
    BY <2>1, <2>2, MovedFields
  <2>3. CASE o = r
    <3>1. run'[r].stage = run[r].stage
      <4>1. Processing(r) => ~Mirroring(r) /\ ~AtGate(r)
        BY NetworkStage DEF Processing, Mirroring, AtGate
      <4> QED
        BY <1>t, <2>1, <2>3, <4>1, MovedFields
    <3>2. task'[r] = task[r] \/ did' = did \cup Delivers[run[r].stage]
      BY <2>1, <2>3 DEF Moves, TypeOK, TaskRecord, IdleTask
    <3> QED
      BY <3>1, <3>2
  <2> QED
    BY <2>2, <2>3
<1>2. ASSUME NEW q \in Requests, RequestStep(q)
      PROVE  run'[r].stage = run[r].stage /\ task[r].pc = "wrote"
  <2>m. "main" \in Runs /\ Extra \subseteq Runs
    BY DEF Runs
  <2>1. ASSUME NEW o \in Runs, NEW kind, Starts(o, kind), UNCHANGED task
        PROVE  run'[r].stage = run[r].stage /\ task[r].pc = "wrote"
    <3>1. o # r
      BY <1>t, <2>1 DEF Starts, Absent, Processing, Running
    <3> QED
      BY <2>1, <3>1 DEF Starts, TypeOK
  <2>2. CASE Cancelled \/ Terminated
    BY <2>m, <2>2 DEF Cancelled, Terminated, Closed, Entered, TypeOK, TaskRecord, IdleTask
  <2>3. CASE UNCHANGED <<run, task>>
    BY <2>3
  <2> QED
    BY <1>2, <2>m, <2>1, <2>2, <2>3, RequestOnRuns
<1> QED
  BY <1>1, <1>2, StrayMoves DEF Next, Restore, workerVars, vars

-----------------------------------------------------------------------------
(* The strengthening, conjunct by conjunct.                                *)

\* A request that rests is empty, and one about PROD carries its gate.
LEMMA RequestsKept ==
  ASSUME TypeOK, RequestShape, CarriedStages, [Next]_vars
  PROVE  /\ CarriedStages'
         /\ \A p \in Requests : Precedes(req'[p].arg)
         /\ (\A p \in Requests : Idle(p) => req[p] = IdleRequest)
              => \A p \in Requests : req'[p].pc = "idle" => req'[p] = IdleRequest
<1>o. \A p \in Requests : Precedes(req[p].arg)
  BY RecordedPlaces DEF Precedes
<1>1. CASE UNCHANGED req
  BY <1>o, <1>1 DEF CarriedStages, Idle
<1>2. ASSUME NEW q \in Requests, RequestStep(q)
      PROVE  /\ CarriedStages'
             /\ \A p \in Requests : Precedes(req'[p].arg)
             /\ (\A p \in Requests : Idle(p) => req[p] = IdleRequest)
                  => \A p \in Requests : req'[p].pc = "idle" => req'[p] = IdleRequest
  <2>1. PICK new : req' = [req EXCEPT ![q] = new] /\ Carries(new)
    BY <1>2, RequestCarries
  <2>2. req'[q] = new /\ \A p \in Requests : p # q => req'[p] = req[p]
    BY <2>1 DEF TypeOK
  <2> QED
    BY <1>o, <2>1, <2>2 DEF CarriedStages, Carries, Idle
<1>3. UNCHANGED req \/ \E q \in Requests : RequestStep(q)
  BY WorkerMoves, StrayMoves DEF Next, Restore, vars
<1> QED
  BY <1>1, <1>2, <1>3

\* Before the upload nothing is there.
LEMMA NothingYetKept ==
  ASSUME TypeOK, RequestShape, CarriedStages, NothingYet, [Next]_vars
  PROVE  NothingYet'
<1>m. "main" \in Runs /\ Extra \subseteq Runs
  BY DEF Runs
<1>1. ASSUME run'["main"].status = "absent"
      PROVE  UNCHANGED vars
  <2>1. Absent("main")
    BY <1>1, <1>m, AbsentStays DEF Absent
  <2>2. ASSUME NEW q \in Requests, Upload(q)
        PROVE  FALSE
    BY <1>1, <1>m, <2>2 DEF Upload, Starts, TypeOK
  <2> QED
    BY <2>1, <2>2, BeforeUpload
<1>2. run'["main"].status = "absent" =>
        /\ doc'.stage = "unlisted"
        /\ granted' = {} /\ did' = {} /\ stray' = {}
        /\ \A r \in Extra : run'[r].status = "absent"
        /\ \A q \in Requests : req'[q].pc = "idle"
  BY <1>1 DEF vars, NothingYet, Absent, Idle
<1>3. \A r \in Runs : run'[r].status = "absent" => run'[r].stage = "registered"
  BY AbsentStays DEF NothingYet, Absent
<1>4. \A q \in Requests : req'[q].pc = "idle" => req'[q] = IdleRequest
  BY RequestsKept DEF NothingYet
<1> QED
  BY <1>2, <1>3, <1>4 DEF NothingYet, Absent, Idle

\* The options are chosen at the upload, when nothing is there yet.
LEMMA OptionsChosen ==
  ASSUME TypeOK, NothingYet, [Next]_vars, opt' # opt
  PROVE  \E q \in Requests : Upload(q) /\ Absent("main")
<1>1. ASSUME NEW q \in Requests, RequestStep(q)
      PROVE  Upload(q) /\ Absent("main")
  <2>1. CASE Upload(q)
    BY <2>1 DEF Upload, Starts
  <2>2. CASE \E op \in {"disable", "hide_only", "purge"} : Remove(q, op)
    BY <2>2 DEF Remove
  <2>3. CASE StartPromote(q) \/ Signal(q) \/ \E kind \in RerunKinds : Rerun(q, kind)
    BY <2>3 DEF StartPromote, Signal, Rerun
  <2>4. CASE \/ Register(q) \/ CreateJob(q) \/ Approve(q) \/ ApproveProd(q)
             \/ ValidateProd(q) \/ MarkPromoting(q) \/ Hide(q) \/ DeleteFromDev(q)
             \/ DeleteFromProd(q) \/ PurgeRows(q) \/ Reconcile(q) \/ Rewrite(q)
             \/ Query(q) \/ Sync(q) \/ RequestLost(q)
    BY <2>4 DEF Register, CreateJob, Approve, ApproveProd, ValidateProd,
       MarkPromoting, Hide, DeleteFromDev, DeleteFromProd, PurgeRows, Reconcile,
       Rewrite, Query, Sync, RequestLost, workerVars
  <2> QED
    BY <1>1, <2>1, <2>2, <2>3, <2>4 DEF RequestStep
<1> QED
  BY <1>1, WorkerMoves, StrayMoves DEF Next, Restore, workerVars, vars

\* A signal is sent for the gate the pipeline stands at: it has passed the
\* gates before it, which somebody decided, or nobody had to.
LEMMA SignalsInOrderKept ==
  ASSUME TypeOK, RequestShape, RunShape, GatesInOrder, ProdWritersApproved,
         NothingYet, SignalsInOrder, [Next]_vars
  PROVE  SignalsInOrder'
<1>g. granted \subseteq granted'
  BY MainMoves
<1>1. CASE opt' # opt
  <2>1. PICK q \in Requests : Upload(q) /\ Absent("main")
    BY <1>1, OptionsChosen
  <2>2. \A p \in Requests : req'[p].pc # "signal"
    BY <2>1 DEF Upload, Arrives, NothingYet, Idle, TypeOK
  <2> QED
    BY <2>2 DEF SignalsInOrder
<1>2. CASE opt' = opt
  <2> SUFFICES ASSUME NEW p \in Requests, req'[p].pc = "signal", req'[p].arg \in DevGates,
                      ~opt.auto, NEW h \in DevGates, Rank[h] < Rank[req'[p].arg]
               PROVE  h \in granted'
    BY <1>2 DEF SignalsInOrder
  <2>1. CASE req'[p] = req[p]
    BY <1>g, <2>1 DEF SignalsInOrder
  <2>2. CASE req'[p] # req[p]
    <3>1. PICK q \in Requests : RequestStep(q)
      BY <2>2, WorkerMoves, StrayMoves DEF Next, Restore, vars
    <3>2. PICK new :
            /\ req' = [req EXCEPT ![q] = new]
            /\ new.pc = "signal" => new.arg \in ReviewStages /\ new.arg = Reported("main")
      BY <3>1, RequestOnRequests
    <3>3. p = q /\ req'[p] = new
      BY <2>2, <3>2 DEF TypeOK
    <3>4. new.arg \in ReviewStages /\ new.arg = run["main"].stage
      BY <3>2, <3>3, WorkflowLines DEF Reported, RunShape
    <3>5. run["main"].stage \in LineStages /\ h \in ReviewStages /\ h # "approval_for_prod"
      BY <3>4, Ranks DEF DevGates
    <3>6. h \in approved
      BY <3>3, <3>4, <3>5 DEF GatesInOrder
    <3> QED
      BY <1>g, <3>6 DEF ProdWritersApproved
  <2> QED
    BY <2>1, <2>2
<1> QED
  BY <1>1, <1>2

\* A workflow gets to the stage of DEV by its gate or by a re-ingestion.
LEMMA IngestersGrantedKept ==
  ASSUME TypeOK, TaskShape, RunShape, ProdWritersApproved, NothingYet, IngestersGranted,
         [Next]_vars
  PROVE  IngestersGranted'
<1>g. granted \subseteq granted'
  BY MainMoves
<1>m. "main" \in Runs /\ Extra \subseteq Runs /\ Runs = {"main"} \cup Extra
  BY DEF Runs
<1>1. CASE opt' # opt
  <2>1. PICK q \in Requests : Upload(q) /\ Absent("main")
    BY <1>1, OptionsChosen
  <2>2. stray' = {}
    BY <2>1 DEF Upload, NothingYet
  <2>3. ASSUME NEW r \in Runs, run'[r].stage = "ingesting"
        PROVE  FALSE
    <3>1. r # "main" => run'[r] = run[r] /\ run[r].stage = "registered"
      BY <2>1, <1>m DEF Upload, Starts, NothingYet, TypeOK
    <3>2. run'["main"].stage = "ocr_processing"
      BY <2>1, <1>m, WorkflowLines DEF Upload, Starts, TypeOK
    <3> QED
      BY <2>3, <3>1, <3>2
  <2> QED
    BY <2>2, <2>3 DEF IngestersGranted
<1>2. CASE opt' = opt
  <2>k. MayIngest => MayIngest'
    BY <1>g, <1>2 DEF MayIngest
  <2>1. ASSUME NEW r \in Runs, run'[r].stage = "ingesting", run[r].stage # "ingesting"
        PROVE  MayIngest'
    <3>1. ASSUME NEW o \in Runs, WorkerStep(o) \/ WorkerFault(o)
          PROVE  MayIngest'
      <4>1. Moves(o)
        BY <3>1, WorkerMoves
      <4>2. o = r
        BY <2>1, <4>1, MovedFields
      <4>3. /\ run'[r].stage = NextStage(r)
            /\ (AtGate(r) /\ GateOpen(run[r].stage)) \/ Processing(r)
        BY <2>1, <4>1, <4>2, MovedFields
      <4>4. run[r].stage \in ProcessingStages \cup ReviewStages
              /\ Following[run[r].stage] = "ingesting"
        BY <2>1, <4>3 DEF NextStage, AtGate, Processing
      <4>5. run[r].stage = "ready_for_ingestion"
        BY <4>4, BeyondDevStages
      <4>6. AtGate(r) /\ GateOpen("ready_for_ingestion")
        BY <4>3, <4>5 DEF Processing, ProcessingStages
      <4> QED
        BY <2>k, <4>6 DEF GateOpen, MayIngest, ProdWritersApproved
    <3>2. ASSUME NEW q \in Requests, RequestStep(q)
          PROVE  MayIngest'
      <4>1. CASE Upload(q)
        BY <1>m, <2>1, <4>1, WorkflowLines DEF Upload, Starts, TypeOK
      <4>2. CASE StartPromote(q)
        BY <1>m, <2>1, <4>2, WorkflowLines DEF StartPromote, Starts, TypeOK
      <4>3. ASSUME NEW kind \in RerunKinds, Rerun(q, kind)
            PROVE  MayIngest'
        <5>1. PICK o \in Extra : Starts(o, kind)
          BY <4>3 DEF Rerun
        <5>2. FirstStage[kind] = "ingesting" /\ kind \in WorkflowKinds
          BY <1>m, <2>1, <5>1 DEF Starts, TypeOK, WorkflowKinds
        <5>3. kind = "reingest"
          BY <5>2, BeyondDevStages
        <5>4. "reingest" \in granted'
          BY <4>3, <5>3 DEF Rerun, Decisions
        <5> QED
          BY <5>4 DEF MayIngest
      <4>4. CASE Cancelled \/ Terminated
        BY <1>m, <2>1, <4>4 DEF Cancelled, Terminated, Closed, Entered, TypeOK, RunRecord
      <4>5. CASE UNCHANGED run
        BY <2>1, <4>5
      <4>6. \/ UNCHANGED run \/ Upload(q) \/ StartPromote(q) \/ Cancelled \/ Terminated
            \/ \E kind \in RerunKinds : Rerun(q, kind)
        <5>1. CASE \/ Register(q) \/ CreateJob(q) \/ Approve(q) \/ Signal(q) \/ ApproveProd(q)
                   \/ ValidateProd(q) \/ MarkPromoting(q) \/ Hide(q) \/ DeleteFromDev(q)
                   \/ DeleteFromProd(q) \/ PurgeRows(q) \/ Reconcile(q) \/ Rewrite(q)
                   \/ Query(q) \/ Sync(q) \/ RequestLost(q)
          BY <5>1 DEF Register, CreateJob, Approve, Signal, ApproveProd, ValidateProd,
             MarkPromoting, Hide, DeleteFromDev, DeleteFromProd, PurgeRows, Reconcile,
             Rewrite, Query, Sync, RequestLost, workerVars
        <5>2. CASE \E op \in {"disable", "hide_only", "purge"} : Remove(q, op)
          BY <5>2 DEF Remove
        <5> QED
          BY <3>2, <5>1, <5>2 DEF RequestStep
      <4> QED
        BY <4>1, <4>2, <4>3, <4>4, <4>5, <4>6
    <3> QED
      BY <2>1, <3>1, <3>2, StrayMoves DEF Next, Restore, workerVars, vars
  <2>2. ASSUME NEW s \in stray', s.stage = "ingesting"
        PROVE  MayIngest'
    BY <2>k, <2>2, StraySources DEF IngestersGranted
  <2> QED
    BY <2>k, <2>1, <2>2 DEF IngestersGranted
<1> QED
  BY <1>1, <1>2

\* A stage behind DEV is put on record only after the ingestion.
LEMMA RecordedAfterDevKept ==
  ASSUME TypeOK, TaskShape, RequestShape, CarriedStages, RecordedAfterDev, [Next]_vars
  PROVE  RecordedAfterDev'
<1>d. did \subseteq did'
  BY DeliveriesStay
<1>p. ASSUME NEW s, Precedes(s), s \in BeyondDev
      PROVE  "ingest" \in did'
  BY <1>d, <1>p DEF Precedes, RecordedAfterDev
<1>1. ASSUME NEW r \in Runs, run'[r].stage \in BeyondDev
      PROVE  "ingest" \in did'
  <2>1. CASE Precedes(run'[r].stage)
    BY <1>1, <1>p, <2>1
  <2>2. CASE Processing(r) /\ task[r].pc = "wrote" /\ run'[r].stage = NextStage(r)
    <3>1. run[r].stage \in BeyondDev \cup {"ingesting"}
      BY <1>1, <2>2, BeyondDevStages DEF NextStage, Processing
    <3> QED
      BY <1>d, <2>2, <3>1, RecordedPlaces DEF RecordedAfterDev
  <2> QED
    BY <2>1, <2>2, RunPrecedes
<1>2. ASSUME NEW s \in Recorded', s \in BeyondDev
      PROVE  "ingest" \in did'
  BY <1>1, <1>2, <1>p, RowPrecedes, RequestsKept DEF Recorded
<1>3. ASSUME NEW r \in Runs, run'[r].stage = "ingesting", task'[r].pc = "wrote"
      PROVE  "ingest" \in did'
  <2>1. Delivers["ingesting"] = {"ingest"}
    BY DEF Delivers
  <2> QED
    BY <1>3, <1>d, <2>1, WrittenRuns DEF RecordedAfterDev
<1> QED
  BY <1>2, <1>3 DEF RecordedAfterDev

\* Completion is put on record only after everything was delivered.
LEMMA RecordedWhenDoneKept ==
  ASSUME TypeOK, TaskShape, RequestShape, CarriedStages, RunShape, AnnouncersPromoted,
         NothingYet, RecordedWhenDone, [Next]_vars
  PROVE  RecordedWhenDone'
<1>d. did \subseteq did'
  BY DeliveriesStay
<1>m. Runs = {"main"} \cup Extra
  BY DEF Runs
<1>1. CASE opt' # opt
  <2>1. PICK q \in Requests : Upload(q) /\ Absent("main")
    BY <1>1, OptionsChosen
  <2>2. /\ doc'.stage = "unlisted"
        /\ \A r \in Extra : run'[r] = run[r] /\ run[r].stage = "registered"
        /\ run'["main"].stage = "ocr_processing"
    BY <1>m, <2>1, WorkflowLines, RunsAssumption
       DEF Upload, Starts, NothingYet, TypeOK, sqliteVars
  <2>3. \A p \in Requests : req'[p].arg = "none"
    BY <2>1 DEF Upload, Arrives, NothingYet, IdleRequest, TypeOK
  <2> QED
    BY <1>m, <2>2, <2>3 DEF RecordedWhenDone, Recorded
<1>2. CASE opt' = opt
  <2>k. AllDelivered => AllDelivered'
    BY <1>d, <1>2 DEF AllDelivered
  <2>p. ASSUME Precedes("completed")
        PROVE  AllDelivered'
    BY <2>k, <2>p DEF Precedes, RecordedWhenDone, BeyondDev
  <2>1. ASSUME NEW r \in Runs, run'[r].stage = "completed"
        PROVE  AllDelivered'
    <3>1. CASE Processing(r) /\ task[r].pc = "wrote" /\ run'[r].stage = NextStage(r)
      <4>1. CASE opt.skipProd
        BY <2>k, <4>1 DEF AllDelivered
      <4>2. CASE ~opt.skipProd
        <5>1. run[r].stage = "publishing_to_network"
          BY <2>1, <3>1, <4>2, BeyondDevStages DEF NextStage, Processing
        <5> QED
          BY <2>k, <3>1, <5>1 DEF RecordedWhenDone
      <4> QED
        BY <4>1, <4>2
    <3> QED
      BY <2>1, <2>p, <3>1, RunPrecedes
  <2>2. "completed" \in Recorded' => AllDelivered'
    BY <2>1, <2>p, RowPrecedes, RequestsKept DEF Recorded
  <2>3. ASSUME NEW r \in Runs, run'[r].stage = "publishing_to_network", task'[r].pc = "wrote"
        PROVE  AllDelivered'
    <3>1. run[r].stage = "publishing_to_network"
            /\ (task[r].pc = "wrote" \/ did' = did \cup Delivers["publishing_to_network"])
      BY <2>3, WrittenRuns
    <3>2. "promote" \in did
      BY <3>1 DEF AnnouncersPromoted
    <3>3. Delivers.ingesting_prod = {"promote"}
            /\ Delivers["publishing_to_network"] = Delivers.publishing_to_network
      BY DEF Delivers
    <3> QED
      BY <1>d, <2>k, <2>3, <3>1, <3>2, <3>3 DEF RecordedWhenDone, AllDelivered
  <2> QED
    BY <2>2, <2>3 DEF RecordedWhenDone
<1> QED
  BY <1>1, <1>2

-----------------------------------------------------------------------------
(* The inductive invariant.                                                *)

\* It holds before the upload.
LEMMA InitContractInv == Init => ContractInv
<1> SUFFICES ASSUME Init PROVE ContractInv
  OBVIOUS
<1>1. DeliveryInv
  BY InitInv
<1>2. /\ \A r \in Runs : run[r].stage = "registered" /\ run[r].status = "absent"
      /\ \A r \in Runs : task[r].pc = "idle"
      /\ \A q \in Requests : req[q] = IdleRequest
  BY DEF Init, IdleTask
<1>3. NothingYet
  BY <1>2 DEF Init, NothingYet, Absent, Idle, IdleRequest, Runs
<1>4. CarriedStages /\ SignalsInOrder
  BY <1>2 DEF CarriedStages, SignalsInOrder, IdleRequest
<1>5. IngestersGranted
  BY <1>2 DEF Init, IngestersGranted
<1>6. Recorded \subseteq {"unlisted", "registered", "none"}
  BY <1>2 DEF Init, Recorded, IdleRequest
<1>7. RecordedAfterDev /\ RecordedWhenDone
  BY <1>2, <1>6, BeyondDevStages DEF RecordedAfterDev, RecordedWhenDone
<1> QED
  BY <1>1, <1>3, <1>4, <1>5, <1>7 DEF ContractInv

\* And every step keeps it.
LEMMA NextContractInv == ContractInv /\ [Next]_vars => ContractInv'
<1> SUFFICES ASSUME ContractInv, [Next]_vars PROVE ContractInv'
  OBVIOUS
<1> USE DEF ContractInv
<1>1. DeliveryInv'
  BY NextInv
<1> USE DEF DeliveryInv
<1>2. NothingYet' /\ CarriedStages'
  BY NothingYetKept, RequestsKept
<1>3. SignalsInOrder' /\ IngestersGranted'
  BY SignalsInOrderKept, IngestersGrantedKept
<1>4. RecordedAfterDev' /\ RecordedWhenDone'
  BY RecordedAfterDevKept, RecordedWhenDoneKept
<1> QED
  BY <1>1, <1>2, <1>3, <1>4

\* What is on record of a document's progress is never ahead of what was
\* delivered and decided, in the row, the workflows and the requests alike.
THEOREM RecordsFollowDeliveries == Spec => []ContractInv
BY InitContractInv, NextContractInv, PTL DEF Spec

\* A row that says completed is about a document that was ingested and, unless
\* PROD was switched off for it, promoted and announced, whichever workflow,
\* retry or reconciliation wrote the row.
THEOREM CompletedIsDelivered == Spec => []CompletedMeansDelivered
<1>1. ContractInv => CompletedMeansDelivered
  BY RecordedPlaces
     DEF ContractInv, RecordedAfterDev, RecordedWhenDone, AllDelivered,
         CompletedMeansDelivered, BeyondDev
<1> QED
  BY <1>1, RecordsFollowDeliveries, PTL

-----------------------------------------------------------------------------
(* The contract, step by step.                                             *)

\* The activity of a stage, waited for or abandoned, delivers what it may.
LEMMA DeliveryAllowed ==
  ASSUME NEW s \in ProcessingStages, UNCHANGED <<opt, granted>>, did' = did \cup Delivers[s],
         s = "ingesting" => MayIngest,
         s = "ingesting_prod" => "approval_for_prod" \in granted,
         s = "publishing_to_network" => "promote" \in did
  PROVE  [Contract!Next]_(Contract!vars)
<1>1. CASE did' = did
  BY <1>1 DEF Contract!vars
<1>2. CASE s = "ingesting"
  <2>1. Contract!Ingest
    BY <1>2 DEF Contract!Ingest, MayIngest, Delivers
  <2> QED
    BY <2>1 DEF Contract!Next
<1>3. CASE s = "ingesting_prod"
  <2>1. Contract!Promote
    BY <1>3 DEF Contract!Promote, Delivers
  <2> QED
    BY <2>1 DEF Contract!Next
<1>4. CASE s = "publishing_to_network" /\ did' # did
  <2>1. Contract!Announce
    BY <1>4 DEF Contract!Announce, Delivers
  <2> QED
    BY <2>1 DEF Contract!Next
<1>5. s \notin {"ingesting", "ingesting_prod", "publishing_to_network"} => did' = did
  BY DEF Delivers, ProcessingStages
<1> QED
  BY <1>1, <1>2, <1>3, <1>4, <1>5

\* What a request decides.
LEMMA RequestDecisions ==
  ASSUME NEW q \in Requests, RequestStep(q)
  PROVE  \/ UNCHANGED granted
         \/ /\ req[q].pc = "signal" \/ req[q].pc = "start"
            /\ granted' = granted \cup {IF req[q].pc = "signal" THEN req[q].arg
                                        ELSE "approval_for_prod"}
         \/ granted' = granted \cup {"reingest"}
<1>1. CASE Signal(q)
  BY <1>1 DEF Signal, Delivered, Refused
<1>2. CASE StartPromote(q)
  BY <1>2 DEF StartPromote
<1>3. ASSUME NEW kind \in RerunKinds, Rerun(q, kind)
      PROVE  UNCHANGED granted \/ granted' = granted \cup {"reingest"}
  <2>1. kind # "reingest" => kind \notin Decisions
    BY DEF RerunKinds, Decisions, ReviewStages
  <2> QED
    BY <1>3, <2>1 DEF Rerun, Decisions
<1>4. CASE Upload(q) \/ \E op \in {"disable", "hide_only", "purge"} : Remove(q, op)
  BY <1>4 DEF Upload, Remove, outsideVars
<1>5. CASE \/ Register(q) \/ CreateJob(q) \/ Approve(q) \/ ApproveProd(q)
           \/ ValidateProd(q) \/ MarkPromoting(q) \/ Hide(q) \/ DeleteFromDev(q)
           \/ DeleteFromProd(q) \/ PurgeRows(q) \/ Reconcile(q) \/ Rewrite(q)
           \/ Query(q) \/ Sync(q) \/ RequestLost(q)
  BY <1>5 DEF Register, CreateJob, Approve, ApproveProd, ValidateProd,
     MarkPromoting, Hide, DeleteFromDev, DeleteFromProd, PurgeRows, Reconcile,
     Rewrite, Query, Sync, RequestLost, workerVars, outsideVars
<1> QED
  BY <1>1, <1>2, <1>3, <1>4, <1>5 DEF RequestStep

\* Each of these decisions is one the contract allows.
LEMMA DecisionAllowed ==
  ASSUME ContractInv, NEW q \in Requests, RequestStep(q), UNCHANGED <<opt, did>>
  PROVE  [Contract!Next]_(Contract!vars)
<1> USE DEF ContractInv, DeliveryInv
<1>1. CASE UNCHANGED granted
  BY <1>1 DEF Contract!vars
<1>2. ASSUME NEW g \in ReviewStages \cup {"reingest"}, granted' = granted \cup {g},
             g \in DevGates =>
               opt.auto \/ \A h \in DevGates : Rank[h] < Rank[g] => h \in granted,
             g = "approval_for_prod" => "ingest" \in did
      PROVE  [Contract!Next]_(Contract!vars)
  <2>1. Contract!Grant(g)
    BY <1>2 DEF Contract!Grant, Contract!DevGates, DevGates, Contract!Rank, Rank,
       Contract!ReviewStages, ReviewStages
  <2> QED
    BY <2>1 DEF Contract!Next, Contract!ReviewStages, ReviewStages
<1>3. req[q].arg = "approval_for_prod" => "ingest" \in did
  BY RecordedPlaces DEF RecordedAfterDev, BeyondDev
<1>4. CASE req[q].pc = "signal" /\ granted' = granted \cup {req[q].arg}
  <2>1. req[q].arg \in ReviewStages
    BY <1>4 DEF RequestShape
  <2> QED
    BY <1>2, <1>3, <1>4, <2>1 DEF SignalsInOrder
<1>5. CASE req[q].pc = "start" /\ granted' = granted \cup {"approval_for_prod"}
  <2>1. req[q].arg = "approval_for_prod"
    BY <1>5 DEF RequestShape
  <2> QED
    BY <1>2, <1>3, <1>5, <2>1, ProdGate
<1>6. CASE granted' = granted \cup {"reingest"}
  <2>1. "reingest" \notin DevGates
    BY DEF DevGates, ReviewStages
  <2> QED
    BY <1>2, <1>6, <2>1
<1> QED
  BY <1>1, <1>4, <1>5, <1>6, RequestDecisions

\* Every step of the pipeline is a step of the contract, or none it sees.
LEMMA NextAllowed ==
  ASSUME ContractInv, [Next]_vars
  PROVE  [Contract!Next]_(Contract!vars)
<1> USE DEF ContractInv, DeliveryInv
<1>1. CASE opt' # opt
  <2>1. PICK q \in Requests : Upload(q) /\ Absent("main")
    BY <1>1, OptionsChosen
  <2>2. granted = {} /\ did = {} /\ UNCHANGED <<granted, did>>
    BY <2>1 DEF NothingYet, Upload, outsideVars
  <2>3. opt'.auto \in BOOLEAN
    BY <2>1, OptionsAssumption DEF Upload
  <2>4. Contract!Choose
    BY <2>2, <2>3 DEF Contract!Choose
  <2> QED
    BY <2>4 DEF Contract!Next
<1>2. CASE opt' = opt
  <2>1. ASSUME NEW r \in Runs, WorkerStep(r) \/ WorkerFault(r)
        PROVE  [Contract!Next]_(Contract!vars)
    <3>1. UNCHANGED granted
      BY <2>1, WorkerMoves
    <3>2. CASE UNCHANGED did
      BY <1>2, <3>1, <3>2 DEF Contract!vars
    <3>3. CASE Processing(r) /\ did' = did \cup Delivers[run[r].stage]
      <4>1. run[r].stage \in ProcessingStages /\ Running(r)
        BY <3>3 DEF Processing
      <4>2. /\ run[r].stage = "ingesting" => MayIngest
            /\ run[r].stage = "ingesting_prod" => "approval_for_prod" \in granted
            /\ run[r].stage = "publishing_to_network" => "promote" \in did
        BY <4>1, ProdWriter DEF IngestersGranted, AnnouncersPromoted
      <4> QED
        BY <1>2, <3>1, <3>3, <4>1, <4>2, DeliveryAllowed
    <3> QED
      BY <2>1, <3>2, <3>3, WorkerMoves
  <2>2. ASSUME NEW s \in stray, StrayStep(s)
        PROVE  [Contract!Next]_(Contract!vars)
    <3>1. UNCHANGED granted
      BY <2>2, StrayMoves
    <3>2. CASE UNCHANGED did
      BY <1>2, <3>1, <3>2 DEF Contract!vars
    <3>3. CASE did' = did \cup Delivers[s.stage]
      <4>1. s.stage \in ProcessingStages
        BY DEF TypeOK, StrayRecord
      <4>2. /\ s.stage = "ingesting" => MayIngest
            /\ s.stage = "ingesting_prod" => "approval_for_prod" \in granted
            /\ s.stage = "publishing_to_network" => "promote" \in did
        BY DEF IngestersGranted, ProdWritersApproved, AnnouncersPromoted
      <4> QED
        BY <1>2, <3>1, <3>3, <4>1, <4>2, DeliveryAllowed
    <3> QED
      BY <2>2, <3>2, <3>3, StrayMoves
  <2>3. ASSUME NEW q \in Requests, RequestStep(q)
        PROVE  [Contract!Next]_(Contract!vars)
    BY <1>2, <2>3, RequestOnHistory, DecisionAllowed
  <2>4. CASE Restore \/ UNCHANGED vars
    BY <2>4 DEF Restore, workerVars, outsideVars, vars, Contract!vars
  <2> QED
    BY <2>1, <2>2, <2>3, <2>4 DEF Next
<1> QED
  BY <1>1, <1>2

\* The pipeline, its re-runs, retries, abandoned attempts and API requests
\* implement the delivery contract: gates of DEV in their order, DEV only
\* after the last of them or a re-ingestion, PROD only for what is in DEV and
\* by a superadmin, the network only after PROD.
THEOREM ImplementsContract == Spec => DeliversByContract
<1>1. Init => Contract!Init
  BY DEF Init, Contract!Init
<1>2. ContractInv /\ [Next]_vars => [Contract!Next]_(Contract!vars)
  BY NextAllowed
<1> QED
  BY <1>1, <1>2, RecordsFollowDeliveries, PTL DEF Spec, DeliversByContract, Contract!Spec
=============================================================================
