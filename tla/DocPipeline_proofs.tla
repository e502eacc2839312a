------------------------- MODULE DocPipeline_proofs -------------------------
(***************************************************************************)
(* What TLAPS proves of DocPipeline, for any number of re-runs and         *)
(* requests, any options and bounds: the order of the deliveries. Of the   *)
(* pipeline alone with its requests (the last section) also that the row   *)
(* is its mirror and that a removal lasts.                                 *)
(***************************************************************************)
EXTENDS DocPipeline, FiniteSetTheorems, TLAPS

-----------------------------------------------------------------------------
(* The line of stages.                                                     *)

\* A stage that a workflow leaves is followed by a stage.
LEMMA FollowingStage ==
  \A s \in ProcessingStages \cup ReviewStages :
    s \in DOMAIN Following /\ Following[s] \in DocumentStage
BY DEF ProcessingStages, ReviewStages, Following, DocumentStage, LineStages

\* Each workflow begins in a stage of the line.
LEMMA FirstStageType ==
  \A k \in WorkflowKinds : FirstStage[k] \in DocumentStage
BY DEF WorkflowKinds, RerunKinds, FirstStage, DocumentStage, LineStages,
       ProcessingStages, ReviewStages

\* The stages are among the stages of a document.
LEMMA StageSets ==
  /\ ProcessingStages \subseteq DocumentStage
  /\ ReviewStages \subseteq DocumentStage
  /\ DevGates \subseteq ReviewStages
  /\ {"failed", "registered", "completed"} \subseteq DocumentStage
  /\ "unlisted" \notin DocumentStage /\ "purged" \notin DocumentStage
  /\ \A k \in RerunKinds : DefaultStage[k] \in DocumentStage
BY DEF ProcessingStages, ReviewStages, DocumentStage, LineStages, DevGates,
       RerunKinds, DefaultStage

\* A workflow goes from a processing or review stage to a stage.
LEMMA NextStageType ==
  ASSUME TypeOK, NEW r \in Runs, run[r].stage \in ProcessingStages \cup ReviewStages
  PROVE  NextStage(r) \in DocumentStage
BY FollowingStage, StageSets DEF NextStage

\* get_state answers with a stage.
LEMMA ReportedType ==
  ASSUME TypeOK, NEW r \in Runs
  PROVE  Reported(r) \in DocumentStage
BY StageSets DEF Reported, TypeOK, RunRecord, ProcessingStages

\* Reconciliation reads a stage off the rows.
LEMMA MaterializedType ==
  ASSUME NEW s \in DocumentStage, NEW content
  PROVE  Materialized(s, content) \in DocumentStage
BY StageSets DEF Materialized, ReviewStages

-----------------------------------------------------------------------------
(* What the building blocks of the actions do to the types.                *)

DocRecord == [stage : DocumentStage \cup {"unlisted", "purged"}, disabled : BOOLEAN]
JobRecord == [owner : Runs \cup {"none"}, running : BOOLEAN]

\* A workflow that enters a stage, goes on or closes keeps its type.
LEMMA RunUpdates ==
  ASSUME TypeOK, NEW r \in Runs, NEW s \in DocumentStage
  PROVE  /\ Entered(r, s) \in [Runs -> RunRecord]
         /\ Closed(r) \in [Runs -> RunRecord]
         /\ [run EXCEPT ![r].part = "body"] \in [Runs -> RunRecord]
<1> USE DEF TypeOK, RunRecord
<1>1. Entered(r, s) \in [Runs -> RunRecord]
  BY DEF Entered
<1>2. Closed(r) \in [Runs -> RunRecord]
  BY DEF Closed
<1>3. [run EXCEPT ![r].part = "body"] \in [Runs -> RunRecord]
  OBVIOUS
<1> QED
  BY <1>1, <1>2, <1>3

\* A workflow that starts has its type.
LEMMA StartsType ==
  ASSUME TypeOK, NEW r \in Runs, NEW k \in WorkflowKinds, Starts(r, k)
  PROVE  run' \in [Runs -> RunRecord]
BY FirstStageType DEF TypeOK, RunRecord, Starts

\* Writing a stage to the row and the job keeps their types.
LEMMA RowUpdates ==
  ASSUME TypeOK, NEW s \in DocumentStage
  PROVE  /\ SetStage(s) => doc' \in DocRecord
         /\ Mirrored(s) => doc' \in DocRecord /\ job' \in JobRecord
         /\ Rewritten(s) => doc' \in DocRecord /\ job' \in JobRecord
<1>1. SetStage(s) => doc' \in DocRecord
  BY DEF TypeOK, SetStage, DocRecord
<1>2. Mirrored(s) => job' \in JobRecord
  <2>1. (s \in RunningStages) \in BOOLEAN
    OBVIOUS
  <2> QED
    BY <2>1 DEF TypeOK, Mirrored, JobRecord
<1>3. Rewritten(s) => job' \in JobRecord
  BY DEF TypeOK, Rewritten, JobRecord
<1> QED
  BY <1>1, <1>2, <1>3 DEF Mirrored, Rewritten

\* A request that arrives, proceeds or is answered keeps its type.
LEMMA RequestUpdates ==
  ASSUME TypeOK, NEW q \in Requests
  PROVE  /\ Answered(q) => req' \in [Requests -> RequestRecord]
         /\ \A pc, arg, r :
              Continues(q, pc, arg, r) /\ pc \in RequestSteps
                /\ arg \in DocumentStage \cup {"none"} /\ r \in Runs
                => req' \in [Requests -> RequestRecord]
         /\ \A pc \in RequestSteps : Proceeds(q, pc) => req' \in [Requests -> RequestRecord]
         /\ \A op, pc, arg, r :
              Arrives(q, op, pc, arg, r) /\ pc \in RequestSteps
                /\ arg \in DocumentStage \cup {"none"} /\ r \in Runs
                => req' \in [Requests -> RequestRecord]
<1>1. IdleRequest \in RequestRecord
  BY DEF IdleRequest, RequestRecord, RequestOps, RequestSteps, Runs
<1>2. Ops \subseteq RequestOps
  BY OpsAssumption
<1>3. Answered(q) => req' \in [Requests -> RequestRecord]
  BY <1>1 DEF TypeOK, Answered
<1>4. ASSUME NEW op \in RequestOps, NEW pc \in RequestSteps,
             NEW arg \in DocumentStage \cup {"none"}, NEW r \in Runs,
             req' = [req EXCEPT ![q] = [op |-> op, pc |-> pc, arg |-> arg, run |-> r]]
      PROVE  req' \in [Requests -> RequestRecord]
  BY <1>4 DEF TypeOK, RequestRecord
<1>5. req[q] \in RequestRecord
  BY DEF TypeOK
<1>6. req[q].op \in RequestOps /\ req[q].arg \in DocumentStage \cup {"none"} /\ req[q].run \in Runs
  BY <1>5 DEF RequestRecord
<1> QED
  BY <1>2, <1>3, <1>4, <1>6 DEF Arrives, Proceeds, Continues

\* An activity's writes keep the types of what it writes.
LEMMA EffectType ==
  ASSUME TypeOK, NEW s \in ProcessingStages, NEW saw \in BOOLEAN, Effect(s, saw)
  PROVE  /\ rows' \in [pages : BOOLEAN, chunks : BOOLEAN]
         /\ index' \subseteq {"dev", "prod"}
         /\ did' \subseteq Deliveries
<1>1. rows' \in [pages : BOOLEAN, chunks : BOOLEAN]
  BY DEF Effect, TypeOK
<1>2. Indexes[s] \subseteq {"dev", "prod"}
  BY DEF Indexes, ProcessingStages
<1>3. Delivers[s] \subseteq Deliveries
  BY DEF Delivers, Deliveries, ProcessingStages
<1> QED
  BY <1>1, <1>2, <1>3 DEF Effect, TypeOK

\* The end of an activity keeps the types of the row and the job.
LEMMA ClosingType ==
  ASSUME TypeOK, NEW s, Closing(s)
  PROVE  doc' \in DocRecord /\ job' \in JobRecord
<1>1. CASE s = "chunking" /\ Listed /\ Materialized(doc.stage, rows) # doc.stage
  <2>1. Materialized(doc.stage, rows) \in DocumentStage
    BY <1>1, MaterializedType DEF Listed
  <2> QED
    BY <1>1, <2>1, RowUpdates DEF Closing
<1>2. CASE ~(s = "chunking" /\ Listed /\ Materialized(doc.stage, rows) # doc.stage)
  BY <1>2 DEF Closing, TypeOK, DocRecord, JobRecord
<1> QED
  BY <1>1, <1>2

\* A retry, or the failure after the last one, keeps the types.
LEMMA RetriedType ==
  ASSUME TypeOK, NEW r \in Runs, Retried(r)
  PROVE  run' \in [Runs -> RunRecord] /\ task' \in [Runs -> TaskRecord]
<1>1. task[r].tries + 1 \in Nat
  BY DEF TypeOK, TaskRecord
<1>2. IdleTask \in TaskRecord
  BY DEF TaskRecord, IdleTask
<1>3. [IdleTask EXCEPT !.tries = task[r].tries + 1] \in TaskRecord
  BY <1>1, <1>2 DEF TaskRecord
<1>4. Entered(r, "failed") \in [Runs -> RunRecord]
  BY RunUpdates, StageSets
<1>5. task' \in [Runs -> TaskRecord]
  BY <1>2, <1>3 DEF Retried, TypeOK
<1> QED
  BY <1>4, <1>5 DEF Retried, TypeOK

\* An abandoned attempt is one of its workflow's stage.
LEMMA AbandonedType ==
  ASSUME TypeOK, TaskShape, NEW r \in Runs, Abandoned(r)
  PROVE  stray' \subseteq StrayRecord
BY DEF TypeOK, TaskShape, Processing, Abandoned, StrayRecord, TaskRecord, RunRecord

-----------------------------------------------------------------------------
(* Types.                                                                  *)

\* Everything a step of a workflow writes keeps its type.
LEMMA WorkerTypes ==
  ASSUME TypeOK, TaskShape, NEW r \in Runs, WorkerStep(r) \/ WorkerFault(r)
  PROVE  TypeOK'
<1> USE DEF DocRecord, JobRecord
<1>s. run[r].stage \in DocumentStage
  BY DEF TypeOK, RunRecord
<1>1. CASE MirrorDone(r)
  <2>1. doc' \in DocRecord /\ job' \in JobRecord
    BY <1>1, <1>s, RowUpdates DEF MirrorDone
  <2>2. run' \in [Runs -> RunRecord]
    BY <1>1, <1>s, RunUpdates DEF MirrorDone
  <2> QED
    BY <1>1, <2>1, <2>2 DEF MirrorDone, TypeOK, outsideVars
<1>2. CASE MirrorRepeated(r)
  <2>1. doc' \in DocRecord /\ job' \in JobRecord
    BY <1>2, <1>s, RowUpdates DEF MirrorRepeated
  <2> QED
    BY <1>2, <2>1 DEF MirrorRepeated, TypeOK, outsideVars, workerVars
<1>3. CASE MirrorExhausted(r)
  <2>1. run' \in [Runs -> RunRecord]
    BY <1>3, StageSets, RunUpdates DEF MirrorExhausted
  <2> QED
    BY <1>3, <2>1 DEF MirrorExhausted, TypeOK, outsideVars, sqliteVars
<1>4. CASE PassGate(r)
  <2>1. run' \in [Runs -> RunRecord]
    BY <1>4, NextStageType, RunUpdates DEF PassGate, AtGate
  <2> QED
    BY <1>4, <2>1 DEF PassGate, TypeOK, outsideVars, sqliteVars
<1>5. CASE BeginAttempt(r)
  <2>1. Input(run[r].stage) \in BOOLEAN
    BY DEF Input, TypeOK
  <2>2. task' \in [Runs -> TaskRecord]
    BY <1>5, <2>1 DEF BeginAttempt, TypeOK, TaskRecord, AttemptSteps
  <2> QED
    BY <1>5, <2>2 DEF BeginAttempt, TypeOK, outsideVars, sqliteVars
<1>6. CASE WriteEffect(r)
  <2>1. task[r].saw \in BOOLEAN
    BY DEF TypeOK, TaskRecord
  <2>2. /\ rows' \in [pages : BOOLEAN, chunks : BOOLEAN]
        /\ index' \subseteq {"dev", "prod"}
        /\ did' \subseteq Deliveries
    BY <1>6, <2>1, EffectType DEF WriteEffect, Processing
  <2>3. task' \in [Runs -> TaskRecord]
    BY <1>6 DEF WriteEffect, TypeOK, TaskRecord, AttemptSteps
  <2> QED
    BY <1>6, <2>2, <2>3 DEF WriteEffect, TypeOK
<1>7. CASE ReturnAttempt(r)
  <2>1. run' \in [Runs -> RunRecord]
    BY <1>7, NextStageType, RunUpdates DEF ReturnAttempt, Processing
  <2>2. task' \in [Runs -> TaskRecord]
    BY <1>7 DEF ReturnAttempt, TypeOK, TaskRecord, IdleTask
  <2> QED
    BY <1>7, <2>1, <2>2 DEF ReturnAttempt, TypeOK, sqliteVars, outsideVars
<1>8. CASE AttemptFails(r)
  <2>1. run' \in [Runs -> RunRecord] /\ task' \in [Runs -> TaskRecord]
    BY <1>8, RetriedType DEF AttemptFails
  <2> QED
    BY <1>8, <2>1 DEF AttemptFails, TypeOK, outsideVars, sqliteVars
<1>9. CASE AttemptTimesOut(r)
  <2>1. run' \in [Runs -> RunRecord] /\ task' \in [Runs -> TaskRecord]
    BY <1>9, RetriedType DEF AttemptTimesOut
  <2>2. stray' \subseteq StrayRecord
    BY <1>9, AbandonedType DEF AttemptTimesOut
  <2> QED
    BY <1>9, <2>1, <2>2 DEF AttemptTimesOut, TypeOK, outsideVars, sqliteVars
<1>10. CASE PublishRejected(r)
  <2>1. run' \in [Runs -> RunRecord]
    BY <1>10, StageSets, RunUpdates DEF PublishRejected
  <2>2. task' \in [Runs -> TaskRecord]
    BY <1>10 DEF PublishRejected, TypeOK, TaskRecord, IdleTask
  <2> QED
    BY <1>10, <2>1, <2>2 DEF PublishRejected, TypeOK, outsideVars, sqliteVars
<1>11. CASE ReconcileRow(r)
  <2>1. doc' \in DocRecord /\ job' \in JobRecord
    BY <1>11, ClosingType DEF ReconcileRow
  <2>2. task' \in [Runs -> TaskRecord]
    BY <1>11 DEF ReconcileRow, TypeOK, TaskRecord, AttemptSteps
  <2> QED
    BY <1>11, <2>1, <2>2 DEF ReconcileRow, TypeOK, outsideVars
<1> QED
  BY <1>1, <1>2, <1>3, <1>4, <1>5, <1>6, <1>7, <1>8, <1>9, <1>10, <1>11
     DEF WorkerStep, WorkerFault

\* So does everything an abandoned attempt writes.
LEMMA StrayTypes ==
  ASSUME TypeOK, NEW s \in stray, StrayStep(s)
  PROVE  TypeOK'
<1> USE DEF DocRecord, JobRecord
<1>s. s \in StrayRecord /\ s.stage \in ProcessingStages /\ s.saw \in BOOLEAN
  BY DEF TypeOK, StrayRecord
<1>1. CASE StrayWrites(s)
  <2>1. /\ rows' \in [pages : BOOLEAN, chunks : BOOLEAN]
        /\ index' \subseteq {"dev", "prod"}
        /\ did' \subseteq Deliveries
    BY <1>1, <1>s, EffectType DEF StrayWrites
  <2>2. [s EXCEPT !.pc = "wrote"] \in StrayRecord
    BY <1>s DEF StrayRecord, AttemptSteps
  <2> QED
    BY <1>1, <2>1, <2>2 DEF StrayWrites, TypeOK
<1>2. CASE StrayReturns(s)
  <2>1. doc' \in DocRecord /\ job' \in JobRecord
    BY <1>2, ClosingType DEF StrayReturns
  <2> QED
    BY <1>2, <2>1 DEF StrayReturns, TypeOK, outsideVars
<1>3. CASE StrayDies(s)
  BY <1>3 DEF StrayDies, TypeOK, outsideVars, sqliteVars
<1> QED
  BY <1>1, <1>2, <1>3 DEF StrayStep

\* And everything an API request writes.
LEMMA RequestTypes ==
  ASSUME TypeOK, TaskShape, RequestShape, NEW q \in Requests, RequestStep(q)
  PROVE  TypeOK'
<1> USE DEF DocRecord, JobRecord
<1>m. "main" \in Runs
  BY DEF Runs
<1>q. /\ req[q].op \in RequestOps /\ req[q].pc \in RequestSteps
      /\ req[q].arg \in DocumentStage \cup {"none"} /\ req[q].run \in Runs
  BY DEF TypeOK, RequestRecord
<1>p. \A pc \in {"register", "job", "signal", "validate", "start", "mark", "hide", "dev",
                 "prod", "rows", "rewrite", "recount", "query", "sync"} : pc \in RequestSteps
  BY DEF RequestSteps
<1>d. \A s \in DocumentStage : s \in DocumentStage \cup {"unlisted", "purged"}
  OBVIOUS
<1>1. CASE Upload(q)
  <2>1. run' \in [Runs -> RunRecord]
    BY <1>1, <1>m, StartsType DEF Upload, WorkflowKinds
  <2>2. req' \in [Requests -> RequestRecord]
    BY <1>1, <1>m, <1>p, RequestUpdates DEF Upload
  <2>3. opt' \in [auto : BOOLEAN, ocrOnly : BOOLEAN, skipProd : BOOLEAN]
    BY <1>1, OptionsAssumption DEF Upload
  <2> QED
    BY <1>1, <2>1, <2>2, <2>3 DEF Upload, TypeOK, sqliteVars, outsideVars
<1>2. CASE Register(q)
  <2>1. req' \in [Requests -> RequestRecord]
    BY <1>2, <1>p, RequestUpdates DEF Register
  <2>2. doc' \in DocRecord
    BY <1>2, StageSets DEF Register
  <2> QED
    BY <1>2, <2>1, <2>2 DEF Register, TypeOK, workerVars, outsideVars
<1>3. CASE CreateJob(q)
  <2>1. req' \in [Requests -> RequestRecord]
    BY <1>3, <1>p, RequestUpdates DEF CreateJob
  <2>2. job' \in JobRecord
    BY <1>3, <1>q DEF CreateJob
  <2> QED
    BY <1>3, <2>1, <2>2 DEF CreateJob, TypeOK, workerVars, outsideVars
<1>4. CASE Approve(q)
  <2>1. req' \in [Requests -> RequestRecord]
    BY <1>4, <1>m, <1>p, ReportedType, RequestUpdates DEF Approve
  <2> QED
    BY <1>4, <2>1 DEF Approve, TypeOK, workerVars, sqliteVars, outsideVars
<1>5. CASE ApproveProd(q)
  <2>1. "approval_for_prod" \in DocumentStage
    BY StageSets DEF ReviewStages
  <2>2. req' \in [Requests -> RequestRecord]
    BY <1>5, <1>m, <1>p, <2>1, RequestUpdates DEF ApproveProd
  <2> QED
    BY <1>5, <2>2 DEF ApproveProd, TypeOK, workerVars, sqliteVars, outsideVars
<1>6. CASE ValidateProd(q)
  <2>1. req' \in [Requests -> RequestRecord]
    BY <1>6, <1>p, RequestUpdates DEF ValidateProd
  <2> QED
    BY <1>6, <2>1 DEF ValidateProd, TypeOK, workerVars, sqliteVars, outsideVars
<1>7. CASE StartPromote(q)
  <2>1. PICK r \in Extra : Starts(r, "promote") /\ Continues(q, "job", req[q].arg, r)
    BY <1>7 DEF StartPromote
  <2>2. r \in Runs
    BY DEF Runs
  <2>3. run' \in [Runs -> RunRecord]
    BY <2>1, <2>2, StartsType DEF WorkflowKinds
  <2>4. req' \in [Requests -> RequestRecord]
    BY <1>p, <1>q, <2>1, <2>2, RequestUpdates
  <2>5. granted' \subseteq Decisions
    BY <1>7 DEF StartPromote, TypeOK, Decisions, ReviewStages
  <2> QED
    BY <1>7, <2>3, <2>4, <2>5 DEF StartPromote, TypeOK, sqliteVars
<1>8. CASE MarkPromoting(q)
  <2>1. "ingesting_prod" \in DocumentStage
    BY StageSets DEF ProcessingStages
  <2>2. req' \in [Requests -> RequestRecord]
    BY <1>8, RequestUpdates DEF MarkPromoting
  <2>3. doc' \in DocRecord
    BY <1>8, <2>1, RowUpdates DEF MarkPromoting
  <2> QED
    BY <1>8, <2>2, <2>3 DEF MarkPromoting, TypeOK, workerVars, outsideVars
<1>9. ASSUME NEW kind \in RerunKinds, Rerun(q, kind)
      PROVE  TypeOK'
  <2>1. PICK r \in Extra : Starts(r, kind) /\ Arrives(q, kind, "job", "none", r)
    BY <1>9 DEF Rerun
  <2>2. r \in Runs /\ kind \in WorkflowKinds
    BY DEF Runs, WorkflowKinds
  <2>3. run' \in [Runs -> RunRecord]
    BY <2>1, <2>2, StartsType
  <2>4. req' \in [Requests -> RequestRecord]
    BY <1>p, <2>1, <2>2, RequestUpdates
  <2>5. granted' \subseteq Decisions
    BY <1>9 DEF Rerun, TypeOK
  <2> QED
    BY <1>9, <2>3, <2>4, <2>5 DEF Rerun, TypeOK, sqliteVars
<1>10. ASSUME NEW op \in {"disable", "hide_only", "purge"}, Remove(q, op)
       PROVE  TypeOK'
  <2>1. req' \in [Requests -> RequestRecord]
    BY <1>10, <1>m, <1>p, RequestUpdates DEF Remove
  <2>2. CASE UNCHANGED <<run, task, stray>>
    BY <1>10, <2>1, <2>2 DEF Remove, TypeOK, sqliteVars, outsideVars
  <2>3. CASE Terminated \/ Cancelled
    <3>1. Closed("main") \in [Runs -> RunRecord] /\ Entered("main", "failed") \in [Runs -> RunRecord]
      BY <1>m, RunUpdates, StageSets
    <3>2. run' \in [Runs -> RunRecord]
      BY <2>3, <3>1 DEF Terminated, Cancelled
    <3>3. IdleTask \in TaskRecord
      BY DEF IdleTask, TaskRecord
    <3>4. task' \in [Runs -> TaskRecord]
      BY <1>m, <2>3, <3>3 DEF Terminated, Cancelled, TypeOK
    <3>5. stray' \subseteq StrayRecord
      BY <1>m, <2>3, AbandonedType DEF Terminated, Cancelled
    <3> QED
      BY <1>10, <2>1, <3>2, <3>4, <3>5 DEF Remove, TypeOK, sqliteVars, outsideVars
  <2> QED
    BY <1>10, <2>2, <2>3 DEF Remove
<1>11. CASE Signal(q)
  <2>1. req' \in [Requests -> RequestRecord]
    BY <1>11, <1>p, RequestUpdates DEF Signal
  <2>2. req[q].arg \in ReviewStages
    BY <1>11 DEF Signal, RequestShape
  <2>3. approved' \subseteq ReviewStages /\ granted' \subseteq Decisions
    BY <1>11, <2>2 DEF Signal, Delivered, Refused, TypeOK, Decisions
  <2> QED
    BY <1>11, <2>1, <2>3 DEF Signal, TypeOK, sqliteVars
<1>12. CASE Hide(q)
  <2>1. req' \in [Requests -> RequestRecord]
    BY <1>12, <1>p, RequestUpdates DEF Hide
  <2>2. doc' \in DocRecord
    BY <1>12 DEF Hide, TypeOK
  <2> QED
    BY <1>12, <2>1, <2>2 DEF Hide, TypeOK, workerVars, outsideVars
<1>13. CASE DeleteFromDev(q) \/ DeleteFromProd(q)
  <2>1. req' \in [Requests -> RequestRecord]
    BY <1>13, <1>p, RequestUpdates DEF DeleteFromDev, DeleteFromProd
  <2>2. index' \subseteq {"dev", "prod"}
    BY <1>13 DEF DeleteFromDev, DeleteFromProd, DeletePoints, TypeOK
  <2> QED
    BY <1>13, <2>1, <2>2
       DEF DeleteFromDev, DeleteFromProd, TypeOK, workerVars, sqliteVars
<1>14. CASE PurgeRows(q)
  <2>1. req' \in [Requests -> RequestRecord]
    BY <1>14, RequestUpdates DEF PurgeRows
  <2> QED
    BY <1>14, <2>1 DEF PurgeRows, TypeOK, workerVars, outsideVars
<1>15. CASE Reconcile(q)
  <2> DEFINE seen == Materialized(doc.stage, rows)
             runtime == IF job.owner # "none" /\ job.running THEN job.owner ELSE "main"
  <2>1. seen \in DocumentStage /\ runtime \in Runs
    BY <1>15, <1>m, MaterializedType DEF Reconcile, Listed, TypeOK
  <2>2. \E pc \in {"rewrite", "recount", "query"}, r \in {"main", runtime} :
          Arrives(q, "reconcile", pc, seen, r)
    BY <1>15 DEF Reconcile
  <2>3. req' \in [Requests -> RequestRecord]
    BY <1>m, <1>p, <2>1, <2>2, RequestUpdates
  <2> QED
    BY <1>15, <2>3 DEF Reconcile, TypeOK, workerVars, sqliteVars, outsideVars
<1>16. CASE Rewrite(q)
  <2>1. req' \in [Requests -> RequestRecord]
    BY <1>16, RequestUpdates DEF Rewrite
  <2>2. req[q].arg \in DocumentStage
    BY <1>16 DEF Rewrite, RequestShape
  <2>3. doc' \in DocRecord /\ job' \in JobRecord
    BY <1>16, <2>2, RowUpdates DEF Rewrite, TypeOK
  <2> QED
    BY <1>16, <2>1, <2>3 DEF Rewrite, TypeOK, workerVars, outsideVars
<1>17. CASE Query(q)
  <2>1. Reported(req[q].run) \in DocumentStage /\ "failed" \in DocumentStage
    BY <1>q, ReportedType, StageSets
  <2>2. req' \in [Requests -> RequestRecord]
    BY <1>17, <1>p, <1>q, <2>1, RequestUpdates DEF Query
  <2> QED
    BY <1>17, <2>2 DEF Query, TypeOK, workerVars, sqliteVars, outsideVars
<1>18. CASE Sync(q)
  <2>1. req' \in [Requests -> RequestRecord]
    BY <1>18, RequestUpdates DEF Sync
  <2>2. doc' \in DocRecord
    BY <1>18, RowUpdates DEF Sync, RequestShape
  <2> QED
    BY <1>18, <2>1, <2>2 DEF Sync, TypeOK, workerVars, outsideVars
<1>19. CASE RequestLost(q)
  <2>1. req' \in [Requests -> RequestRecord]
    BY <1>19, RequestUpdates DEF RequestLost
  <2> QED
    BY <1>19, <2>1 DEF RequestLost, TypeOK, workerVars, sqliteVars, outsideVars
<1> QED
  BY <1>1, <1>2, <1>3, <1>4, <1>5, <1>6, <1>7, <1>8, <1>9, <1>10, <1>11, <1>12,
     <1>13, <1>14, <1>15, <1>16, <1>17, <1>18, <1>19
     DEF RequestStep

-----------------------------------------------------------------------------
(* What a step does to the workflows.                                      *)

\* A request starts one workflow, stops the pipeline, or leaves all alone.
LEMMA RequestOnRuns ==
  ASSUME NEW q \in Requests, RequestStep(q)
  PROVE  \/ UNCHANGED <<run, opt, task, stray>>
         \/ Starts("main", "pipeline") /\ UNCHANGED <<task, stray>>
         \/ /\ UNCHANGED <<opt, task, stray>>
            /\ \E r \in Extra, kind \in {"promote"} \cup RerunKinds :
                 /\ Starts(r, kind)
                 /\ kind = "promote" => "approval_for_prod" \in granted'
         \/ Running("main") /\ (Cancelled \/ Terminated) /\ UNCHANGED opt
<1>1. CASE Upload(q)
  BY <1>1 DEF Upload
<1>2. CASE StartPromote(q)
  BY <1>2 DEF StartPromote
<1>3. CASE \E kind \in RerunKinds : Rerun(q, kind)
  BY <1>3 DEF Rerun, RerunKinds
<1>4. CASE \E op \in {"disable", "hide_only", "purge"} : Remove(q, op)
  BY <1>4 DEF Remove
<1>5. CASE \/ Register(q) \/ CreateJob(q) \/ Approve(q) \/ Signal(q) \/ ApproveProd(q)
           \/ ValidateProd(q) \/ MarkPromoting(q) \/ Hide(q) \/ DeleteFromDev(q)
           \/ DeleteFromProd(q) \/ PurgeRows(q) \/ Reconcile(q) \/ Rewrite(q)
           \/ Query(q) \/ Sync(q) \/ RequestLost(q)
  BY <1>5 DEF Register, CreateJob, Approve, Signal, ApproveProd, ValidateProd,
     MarkPromoting, Hide, DeleteFromDev, DeleteFromProd, PurgeRows, Reconcile,
     Rewrite, Query, Sync, RequestLost, workerVars
<1> QED
  BY <1>1, <1>2, <1>3, <1>4, <1>5 DEF RequestStep

\* A request delivers nothing, and takes back no decision.
LEMMA RequestOnHistory ==
  ASSUME NEW q \in Requests, RequestStep(q)
  PROVE  /\ UNCHANGED did
         /\ granted \subseteq granted'
         /\ \/ UNCHANGED approved
            \/ /\ req[q].pc = "signal"
               /\ approved' = approved \cup {req[q].arg}
               /\ granted' = granted \cup {req[q].arg}
<1>1. CASE Signal(q)
  BY <1>1 DEF Signal, Delivered, Refused
<1>2. CASE StartPromote(q) \/ \E kind \in RerunKinds : Rerun(q, kind)
  BY <1>2 DEF StartPromote, Rerun
<1>3. CASE Upload(q) \/ \E op \in {"disable", "hide_only", "purge"} : Remove(q, op)
  BY <1>3 DEF Upload, Remove, outsideVars
<1>4. CASE \/ Register(q) \/ CreateJob(q) \/ Approve(q) \/ ApproveProd(q)
           \/ ValidateProd(q) \/ MarkPromoting(q) \/ Hide(q) \/ DeleteFromDev(q)
           \/ DeleteFromProd(q) \/ PurgeRows(q) \/ Reconcile(q) \/ Rewrite(q)
           \/ Query(q) \/ Sync(q) \/ RequestLost(q)
  BY <1>4 DEF Register, CreateJob, Approve, ApproveProd, ValidateProd,
     MarkPromoting, Hide, DeleteFromDev, DeleteFromProd, PurgeRows, Reconcile,
     Rewrite, Query, Sync, RequestLost, workerVars, outsideVars
<1> QED
  BY <1>1, <1>2, <1>3, <1>4 DEF RequestStep

\* How a workflow's own step moves it.
Moves(r) ==
  \/ UNCHANGED <<run, task>> /\ stray' \subseteq stray
  \/ run' = Closed(r) /\ Mirroring(r) /\ UNCHANGED <<task, stray>>
  \/ run' = [run EXCEPT ![r].part = "body"] /\ Mirroring(r) /\ ~Finished(r)
       /\ UNCHANGED <<task, stray>>
  \/ run' = Entered(r, "failed") /\ Mirroring(r) /\ UNCHANGED <<task, stray>>
  \/ /\ AtGate(r) /\ GateOpen(run[r].stage)
     /\ run' = Entered(r, NextStage(r)) /\ UNCHANGED <<task, stray>>
  \/ /\ Processing(r) /\ task[r].pc = "idle" /\ UNCHANGED <<run, stray>>
     /\ \E saw : task' = [task EXCEPT ![r] = [pc |-> "began", saw |-> saw,
                                              tries |-> task[r].tries]]
  \/ /\ Processing(r) /\ task[r].pc = "began" /\ UNCHANGED <<run, stray>>
     /\ task' = [task EXCEPT ![r].pc = "wrote"]
     /\ did' = did \cup Delivers[run[r].stage]
  \/ /\ Processing(r) /\ run[r].stage = "chunking" /\ UNCHANGED <<run, stray>>
     /\ task' = [task EXCEPT ![r].pc = "reconciled"]
  \/ /\ Processing(r) /\ task[r].pc = LastStep(run[r].stage) /\ UNCHANGED stray
     /\ task' = [task EXCEPT ![r] = IdleTask]
     /\ run' = Entered(r, NextStage(r))
  \/ /\ Processing(r) /\ Abandoned(r)
     /\ run' \in {run, Entered(r, "failed")}
     /\ \E n : task' = [task EXCEPT ![r] = [pc |-> "idle", saw |-> FALSE, tries |-> n]]

\* It moves only as long as it runs, and a delivery is made only by an attempt
\* of the stage it is in.
LEMMA WorkerMoves ==
  ASSUME TypeOK, NEW r \in Runs, WorkerStep(r) \/ WorkerFault(r)
  PROVE  /\ Moves(r)
         /\ UNCHANGED <<opt, approved, req, granted>>
         /\ \/ UNCHANGED did
            \/ /\ Processing(r) /\ task[r].pc = "began"
               /\ UNCHANGED <<run, stray>>
               /\ task' = [task EXCEPT ![r].pc = "wrote"]
               /\ did' = did \cup Delivers[run[r].stage]
<1>1. CASE MirrorDone(r)
  BY <1>1 DEF MirrorDone, Moves, outsideVars
<1>2. CASE MirrorRepeated(r)
  BY <1>2 DEF MirrorRepeated, Moves, outsideVars, workerVars
<1>3. CASE MirrorExhausted(r)
  BY <1>3 DEF MirrorExhausted, Moves, outsideVars
<1>4. CASE PassGate(r)
  BY <1>4 DEF PassGate, Moves, outsideVars
<1>5. CASE BeginAttempt(r)
  BY <1>5 DEF BeginAttempt, Moves, outsideVars
<1>6. CASE WriteEffect(r)
  <2>1. did' = did \cup Delivers[run[r].stage]
    BY <1>6 DEF WriteEffect, Effect
  <2> QED
    BY <1>6, <2>1 DEF WriteEffect, Moves
<1>7. CASE ReturnAttempt(r)
  BY <1>7 DEF ReturnAttempt, Moves, outsideVars
<1>8. CASE AttemptFails(r)
  BY <1>8 DEF AttemptFails, Retried, Moves, outsideVars, IdleTask, Abandoned
<1>9. CASE AttemptTimesOut(r)
  BY <1>9 DEF AttemptTimesOut, Retried, Moves, outsideVars, IdleTask
<1>10. CASE PublishRejected(r)
  BY <1>10 DEF PublishRejected, Moves, outsideVars, IdleTask, Abandoned
<1>11. CASE ReconcileRow(r)
  BY <1>11 DEF ReconcileRow, Moves, outsideVars
<1> QED
  BY <1>1, <1>2, <1>3, <1>4, <1>5, <1>6, <1>7, <1>8, <1>9, <1>10, <1>11
     DEF WorkerStep, WorkerFault

\* Field by field: what such a move makes of the workflow that takes it.
LEMMA MovedFields ==
  ASSUME TypeOK, NEW r \in Runs, Moves(r)
  PROVE  /\ \A o \in Runs : o # r => run'[o] = run[o] /\ task'[o] = task[o]
         /\ run'[r].kind = run[r].kind
         /\ \/ /\ run'[r] = run[r]
               /\ task'[r] = task[r] \/ Processing(r)
            \/ /\ Mirroring(r) /\ task'[r] = task[r]
               /\ run'[r].status = "closed"
               /\ run'[r].stage = run[r].stage /\ run'[r].part = run[r].part
            \/ /\ Mirroring(r) /\ ~Finished(r) /\ task'[r] = task[r]
               /\ run'[r].stage = run[r].stage /\ run'[r].part = "body"
               /\ run'[r].status = run[r].status
            \/ /\ run'[r].stage = "failed" /\ run'[r].part = "mirror"
               /\ run'[r].status = run[r].status
               /\ \/ Mirroring(r) /\ task'[r] = task[r]
                  \/ Processing(r) /\ task'[r].pc = "idle"
            \/ /\ run'[r].stage = NextStage(r) /\ run'[r].part = "mirror"
               /\ run'[r].status = run[r].status
               /\ \/ AtGate(r) /\ GateOpen(run[r].stage) /\ task'[r] = task[r]
                  \/ /\ Processing(r) /\ task[r].pc = LastStep(run[r].stage)
                     /\ task'[r].pc = "idle"
<1> USE DEF TypeOK, RunRecord, TaskRecord
<1>1. CASE UNCHANGED <<run, task>>
  BY <1>1
<1>2. CASE run' = Closed(r) /\ Mirroring(r) /\ UNCHANGED task
  BY <1>2 DEF Closed
<1>3. CASE /\ run' = [run EXCEPT ![r].part = "body"]
           /\ Mirroring(r) /\ ~Finished(r) /\ UNCHANGED task
  BY <1>3
<1>4. CASE run' = Entered(r, "failed") /\ Mirroring(r) /\ UNCHANGED task
  BY <1>4 DEF Entered
<1>5. CASE /\ AtGate(r) /\ GateOpen(run[r].stage)
           /\ run' = Entered(r, NextStage(r)) /\ UNCHANGED task
  BY <1>5 DEF Entered
<1>6. CASE /\ Processing(r) /\ UNCHANGED run
           /\ \E new : task' = [task EXCEPT ![r] = new]
  BY <1>6
<1>7. CASE /\ Processing(r) /\ task[r].pc = LastStep(run[r].stage)
           /\ task' = [task EXCEPT ![r] = IdleTask]
           /\ run' = Entered(r, NextStage(r))
  BY <1>7 DEF Entered, IdleTask
<1>8. CASE /\ Processing(r) /\ run' = Entered(r, "failed")
           /\ \E n : task' = [task EXCEPT ![r] = [pc |-> "idle", saw |-> FALSE, tries |-> n]]
  BY <1>8 DEF Entered
<1> QED
  <2>1. ASSUME NEW pc, task' = [task EXCEPT ![r].pc = pc]
        PROVE  \E new : task' = [task EXCEPT ![r] = new]
    BY <2>1
  <2> QED
    BY <1>1, <1>2, <1>3, <1>4, <1>5, <1>6, <1>7, <1>8, <2>1 DEF Moves

\* An abandoned attempt goes on, delivers what its stage delivers, or ends.
LEMMA StrayMoves ==
  ASSUME TypeOK, NEW s \in stray, StrayStep(s)
  PROVE  /\ UNCHANGED <<run, opt, approved, task, req, granted>>
         /\ \/ UNCHANGED did /\ stray' \subseteq stray
            \/ /\ did' = did \cup Delivers[s.stage]
               /\ stray' \subseteq stray
                    \cup {[stage |-> s.stage, saw |-> s.saw, pc |-> "wrote"]}
<1>1. CASE StrayWrites(s)
  <2>1. [s EXCEPT !.pc = "wrote"] = [stage |-> s.stage, saw |-> s.saw, pc |-> "wrote"]
    BY DEF TypeOK, StrayRecord
  <2> QED
    BY <1>1, <2>1 DEF StrayWrites, Effect
<1>2. CASE StrayReturns(s)
  BY <1>2 DEF StrayReturns, outsideVars
<1>3. CASE StrayDies(s)
  BY <1>3 DEF StrayDies, outsideVars
<1> QED
  BY <1>1, <1>2, <1>3 DEF StrayStep

\* A request changes its own record only. An approval is on its way only to
\* the gate that the pipeline has just reported.
LEMMA RequestOnRequests ==
  ASSUME TypeOK, RequestShape, NEW q \in Requests, RequestStep(q)
  PROVE  \E new :
           /\ req' = [req EXCEPT ![q] = new]
           /\ new.pc = "signal" =>
                /\ new.arg \in ReviewStages /\ new.arg = Reported("main")
                /\ new.op = "approve_prod" => new.arg = "approval_for_prod"
           /\ new.pc \in {"validate", "start"} => new.arg = "approval_for_prod"
           /\ new.pc \in {"rewrite", "recount", "query", "sync"} => new.arg \in DocumentStage
<1> DEFINE Fits(new) ==
             /\ new.pc = "signal" =>
                /\ new.arg \in ReviewStages /\ new.arg = Reported("main")
                /\ new.op = "approve_prod" => new.arg = "approval_for_prod"
             /\ new.pc \in {"validate", "start"} => new.arg = "approval_for_prod"
             /\ new.pc \in {"rewrite", "recount", "query", "sync"} => new.arg \in DocumentStage
           Becomes == \E new : req' = [req EXCEPT ![q] = new] /\ Fits(new)
<1>1. Answered(q) => Becomes
  <2>1. Fits(IdleRequest)
    BY DEF IdleRequest
  <2> QED
    BY <2>1 DEF Answered
<1>2. ASSUME NEW op, NEW pc, NEW arg, NEW r, Fits([op |-> op, pc |-> pc, arg |-> arg, run |-> r]),
             Arrives(q, op, pc, arg, r)
      PROVE  Becomes
  BY <1>2 DEF Arrives
<1>3. ASSUME NEW pc, NEW arg, NEW r,
             Fits([op |-> req[q].op, pc |-> pc, arg |-> arg, run |-> r]),
             Continues(q, pc, arg, r)
      PROVE  Becomes
  BY <1>3 DEF Continues
<1>4. ASSUME NEW pc, Proceeds(q, pc),
             pc \notin {"signal", "validate", "start", "rewrite", "recount", "query", "sync"}
      PROVE  Becomes
  BY <1>3, <1>4 DEF Proceeds
<1>5. CASE Upload(q)
  BY <1>2, <1>5 DEF Upload
<1>6. CASE Register(q) \/ CreateJob(q) \/ Hide(q) \/ DeleteFromDev(q) \/ DeleteFromProd(q)
  BY <1>1, <1>4, <1>6 DEF Register, CreateJob, Hide, DeleteFromDev, DeleteFromProd
<1>7. CASE MarkPromoting(q) \/ PurgeRows(q) \/ Rewrite(q) \/ Sync(q) \/ RequestLost(q)
  BY <1>1, <1>7 DEF MarkPromoting, PurgeRows, Rewrite, Sync, RequestLost
<1>8. CASE Approve(q)
  BY <1>2, <1>8, StageSets DEF Approve
<1>9. CASE Signal(q)
  <2>1. CASE Answered(q)
    BY <1>1, <2>1
  <2>2. CASE Proceeds(q, "start") /\ req[q].op = "approve_prod"
    <3>1. req[q].arg = "approval_for_prod"
      BY <1>9, <2>2 DEF Signal, RequestShape
    <3> QED
      BY <1>3, <2>2, <3>1 DEF Proceeds
  <2> QED
    BY <1>9, <2>1, <2>2 DEF Signal
<1>10. CASE ApproveProd(q)
  BY <1>2, <1>10 DEF ApproveProd
<1>11. CASE ValidateProd(q)
  <2>1. req[q].arg = "approval_for_prod"
    BY <1>11 DEF ValidateProd, RequestShape
  <2>2. "approval_for_prod" \in ReviewStages
    BY DEF ReviewStages
  <2> QED
    BY <1>3, <1>11, <2>1, <2>2 DEF ValidateProd, Proceeds
<1>12. CASE StartPromote(q)
  BY <1>3, <1>12 DEF StartPromote
<1>13. CASE \E kind \in RerunKinds : Rerun(q, kind)
  BY <1>2, <1>13 DEF Rerun
<1>14. CASE \E op \in {"disable", "hide_only", "purge"} : Remove(q, op)
  BY <1>2, <1>14 DEF Remove
<1>15. CASE Reconcile(q)
  <2>1. Listed => Materialized(doc.stage, rows) \in DocumentStage
    BY MaterializedType DEF Listed
  <2> QED
    BY <1>2, <1>15, <2>1 DEF Reconcile
<1>16. CASE Query(q)
  <2>1. req[q].run \in Runs
    BY DEF TypeOK, RequestRecord
  <2>2. Reported(req[q].run) \in DocumentStage /\ "failed" \in DocumentStage
    BY <2>1, ReportedType, StageSets
  <2> QED
    BY <1>1, <1>3, <1>16, <2>2 DEF Query
<1> QED
  BY <1>5, <1>6, <1>7, <1>8, <1>9, <1>10, <1>11, <1>12, <1>13, <1>14, <1>15, <1>16
     DEF RequestStep

-----------------------------------------------------------------------------
(* The line of stages, once more: the gates and their order.               *)

\* Leaving a stage leaves behind no gate but that stage itself, and never
\* goes back.
LEMMA LineSteps ==
  \A s \in ProcessingStages \cup ReviewStages :
    /\ s \in LineStages /\ Following[s] \in LineStages
    /\ Rank[s] \in Nat /\ Rank[Following[s]] \in Nat
    /\ Rank[s] <= Rank[Following[s]]
    /\ \A g \in ReviewStages :
         Rank[g] < Rank[Following[s]] => g = s \/ Rank[g] < Rank[s]
BY DEF ProcessingStages, ReviewStages, LineStages, Following, Rank

\* skip_prod goes from the DEV index to the end, past the gate of PROD alone.
LEMMA SkipSteps ==
  /\ "completed" \in LineStages /\ Rank["ingesting"] <= Rank["completed"]
  /\ \A g \in ReviewStages \ {"approval_for_prod"} : Rank[g] < Rank["ingesting"]
BY DEF ReviewStages, LineStages, Rank

\* Positions are numbers, and a pipeline starts before every gate.
LEMMA Ranks ==
  /\ \A s \in LineStages : Rank[s] \in Nat
  /\ ReviewStages \subseteq LineStages
  /\ FirstStage["pipeline"] \in LineStages
  /\ Rank["registered"] = 0
  /\ \A g \in ReviewStages : Rank[g] > Rank[FirstStage["pipeline"]]
  /\ "registered" \in LineStages /\ "failed" \notin LineStages
BY DEF ProcessingStages, ReviewStages, LineStages, FirstStage, Rank

\* The stage at which a document enters PROD lies behind the gate of PROD.
LEMMA ProdGate ==
  /\ "ingesting_prod" \in LineStages /\ "ingesting_prod" \in PROD_ONLY_STAGES
  /\ "approval_for_prod" \in ReviewStages \ DevGates
  /\ Rank["approval_for_prod"] < Rank["ingesting_prod"]
BY DEF ProcessingStages, ReviewStages, LineStages, DevGates, PROD_ONLY_STAGES, Rank

-----------------------------------------------------------------------------
(* The strengthening, conjunct by conjunct.                                *)

\* Whoever does not run an activity has no attempt of one.
LEMMA TaskShapeKept ==
  ASSUME TypeOK, TaskShape, [Next]_vars
  PROVE  TaskShape'
<1> USE DEF TaskShape
<1>1. ASSUME NEW r \in Runs, WorkerStep(r) \/ WorkerFault(r)
      PROVE  TaskShape'
  <2>1. Moves(r)
    BY <1>1, WorkerMoves
  <2>2. /\ \A o \in Runs : o # r => run'[o] = run[o] /\ task'[o] = task[o]
        /\ \/ run'[r] = run[r] /\ (task'[r] = task[r] \/ Processing(r))
           \/ ~Processing(r) /\ task'[r] = task[r]
           \/ task'[r].pc = "idle"
    <3>1. ~(AtGate(r) /\ Processing(r)) /\ ~(Mirroring(r) /\ Processing(r))
      BY DEF AtGate, Processing, Mirroring, ReviewStages, ProcessingStages
    <3> QED
      BY <2>1, <3>1, MovedFields
  <2>3. \A o \in Runs : o # r => (task'[o].pc # "idle" => Processing(o)')
    BY <2>2 DEF Processing, Running
  <2>4. task'[r].pc # "idle" => Processing(r)'
    BY <2>2 DEF Processing, Running
  <2> QED
    BY <2>3, <2>4
<1>2. ASSUME NEW s \in stray, StrayStep(s)
      PROVE  TaskShape'
  BY <1>2, StrayMoves DEF Processing, Running
<1>3. ASSUME NEW q \in Requests, RequestStep(q)
      PROVE  TaskShape'
  <2>1. CASE UNCHANGED <<run, task>>
    BY <2>1 DEF Processing, Running
  <2>2. ASSUME NEW r \in Runs, NEW kind, Starts(r, kind), UNCHANGED task
        PROVE  TaskShape'
    <3>1. task[r].pc = "idle"
      BY <2>2 DEF Starts, Absent, Processing, Running
    <3>2. \A o \in Runs : o # r => run'[o] = run[o]
      BY <2>2 DEF Starts, TypeOK
    <3> QED
      BY <2>2, <3>1, <3>2 DEF Processing, Running
  <2>3. CASE Cancelled \/ Terminated
    <3>1. \A o \in Runs : o # "main" => run'[o] = run[o] /\ task'[o] = task[o]
      BY <2>3 DEF Cancelled, Terminated, Closed, Entered, TypeOK
    <3>2. "main" \in Runs => task'["main"].pc = "idle"
      BY <2>3 DEF Cancelled, Terminated, TypeOK, IdleTask
    <3> QED
      BY <3>1, <3>2 DEF Processing, Running
  <2> QED
    BY <1>3, <2>1, <2>2, <2>3, RequestOnRuns DEF Runs
<1>4. CASE Restore \/ UNCHANGED vars
  BY <1>4 DEF Restore, workerVars, vars, Processing, Running
<1> QED
  BY <1>1, <1>2, <1>3, <1>4 DEF Next

\* A request keeps to what it was asked for.
LEMMA RequestShapeKept ==
  ASSUME TypeOK, RequestShape, [Next]_vars
  PROVE  RequestShape'
<1>1. CASE UNCHANGED req
  BY <1>1 DEF RequestShape
<1>2. ASSUME NEW q \in Requests, RequestStep(q)
      PROVE  RequestShape'
  <2>1. PICK new :
          /\ req' = [req EXCEPT ![q] = new]
          /\ new.pc = "signal" =>
               /\ new.arg \in ReviewStages
               /\ new.op = "approve_prod" => new.arg = "approval_for_prod"
          /\ new.pc \in {"validate", "start"} => new.arg = "approval_for_prod"
          /\ new.pc \in {"rewrite", "recount", "query", "sync"} => new.arg \in DocumentStage
    BY <1>2, RequestOnRequests
  <2>2. req'[q] = new /\ \A p \in Requests : p # q => req'[p] = req[p]
    BY <2>1 DEF TypeOK
  <2> QED
    BY <2>1, <2>2 DEF RequestShape
<1>3. UNCHANGED req \/ \E q \in Requests : RequestStep(q)
  BY WorkerMoves, StrayMoves DEF Next, Restore, vars
<1> QED
  BY <1>1, <1>2, <1>3

\* A re-run has one stage of work and one it ends in; the promotion has two
\* of work; the pipeline without PROD stays clear of the stages of PROD.
LEMMA WorkflowLines ==
  /\ \A k \in RerunKinds :
       /\ k # "pipeline" /\ k # "promote" /\ k \in WorkflowKinds
       /\ FirstStage[k] \in ProcessingStages \ {"ingesting_prod", "publishing_to_network"}
       /\ FinalStage[k] \in ReviewStages
       /\ Following[FirstStage[k]] = FinalStage[k]
  /\ FirstStage["promote"] = "ingesting_prod"
  /\ FirstStage["pipeline"] = "ocr_processing"
  /\ Following["ingesting_prod"] = "publishing_to_network"
  /\ Following["publishing_to_network"] = "completed"
  /\ \A s \in (ProcessingStages \cup ReviewStages) \ (PROD_ONLY_STAGES \cup {"ingesting"}) :
       Following[s] \notin PROD_ONLY_STAGES
  /\ \A s \in {"ocr_processing", "registered", "completed", "failed"} :
       s \notin PROD_ONLY_STAGES
BY DEF RerunKinds, WorkflowKinds, FirstStage, FinalStage, Following, ProcessingStages,
       ReviewStages, PROD_ONLY_STAGES

\* A workflow's own step leaves it on its stretch of the line.
LEMMA RunShapeByWorker ==
  ASSUME TypeOK, RunShape, NEW r \in Runs, Moves(r), UNCHANGED opt
  PROVE  RunShape'
<1>m. "main" \in Runs /\ Runs = {"main"} \cup Extra /\ "main" \notin Extra
  BY RunsAssumption DEF Runs
<1>1. /\ \A o \in Runs : o # r => run'[o] = run[o]
      /\ run'[r].kind = run[r].kind
      /\ \/ run'[r] = run[r]
         \/ /\ Running(r) /\ run'[r].stage = run[r].stage
            /\ run'[r].part = run[r].part \/ (run'[r].part = "body" /\ ~Finished(r))
            /\ run'[r].status \in {"running", "closed"}
         \/ /\ Running(r) /\ run'[r].stage = "failed" /\ run'[r].part = "mirror"
            /\ run'[r].status = "running"
         \/ /\ Running(r) /\ run'[r].stage = NextStage(r) /\ run'[r].part = "mirror"
            /\ run'[r].status = "running" /\ run[r].part = "body"
            /\ run[r].stage \in ProcessingStages \cup ReviewStages
  <2>1. Mirroring(r) \/ Processing(r) \/ AtGate(r) => Running(r)
    BY DEF Mirroring, Processing, AtGate
  <2>2. Processing(r) \/ AtGate(r) =>
           run[r].part = "body" /\ run[r].stage \in ProcessingStages \cup ReviewStages
    BY DEF Processing, AtGate
  <2>3. Running(r) => run[r].status = "running"
    BY DEF Running
  <2> QED
    BY <2>1, <2>2, <2>3, MovedFields
<1>2. CASE r = "main"
  <2>1. \A o \in Extra : run'[o] = run[o]
    BY <1>1, <1>2, <1>m
  <2>2. run'["main"].kind = "pipeline"
    BY <1>1, <1>2 DEF RunShape
  <2>3. Absent("main")' => run'["main"].stage = "registered"
    BY <1>1, <1>2 DEF RunShape, Absent
  <2>4. opt.skipProd => run'["main"].stage \notin PROD_ONLY_STAGES
    <3> SUFFICES ASSUME opt.skipProd PROVE run'["main"].stage \notin PROD_ONLY_STAGES
      OBVIOUS
    <3>1. run["main"].stage \notin PROD_ONLY_STAGES
      BY DEF RunShape
    <3>2. run["main"].stage \in ProcessingStages \cup ReviewStages
            => NextStage("main") \notin PROD_ONLY_STAGES
      BY <3>1, WorkflowLines DEF NextStage, RunShape
    <3> QED
      BY <1>1, <1>2, <3>1, <3>2, WorkflowLines
  <2> QED
    BY <2>1, <2>2, <2>3, <2>4 DEF RunShape, Absent
<1>3. CASE r \in Extra
  <2>1. run'["main"] = run["main"] /\ \A o \in Extra : o # r => run'[o] = run[o]
    BY <1>1, <1>3, <1>m
  <2>2. CASE run'[r] = run[r]
    BY <2>1, <2>2 DEF RunShape, Absent
  <2>3. CASE Running(r) /\ run[r].kind = "promote"
    <3>1. run[r].stage \in {"ingesting_prod", "publishing_to_network", "completed", "failed"}
      BY <1>3, <2>3, WorkflowLines DEF RunShape, Running, Absent
    <3>2. run[r].stage \in ProcessingStages \cup ReviewStages
            => NextStage(r) \in {"publishing_to_network", "completed"}
      BY <2>3, <3>1, WorkflowLines DEF NextStage, ProcessingStages, ReviewStages
    <3>3. run'[r].stage \in {"ingesting_prod", "publishing_to_network", "completed", "failed"}
      BY <1>1, <3>1, <3>2
    <3> QED
      BY <1>1, <2>1, <2>3, <3>3 DEF RunShape, Absent
  <2>4. CASE Running(r) /\ run[r].kind \in RerunKinds
    <3> DEFINE k == run[r].kind
    <3>1. /\ run[r].stage \in {FirstStage[k], FinalStage[k], "failed"}
          /\ run[r].part = "body" => run[r].stage = FirstStage[k]
      BY <1>3, <2>4, WorkflowLines DEF RunShape, Running, Absent
    <3>2. run[r].part = "body" => NextStage(r) = FinalStage[k]
      BY <2>4, <3>1, WorkflowLines DEF NextStage
    <3>3. ~Finished(r) => run[r].stage = FirstStage[k]
      BY <2>4, <3>1, WorkflowLines DEF Finished, LastStage
    <3>4. /\ run'[r].stage \in {FirstStage[k], FinalStage[k], "failed"}
          /\ run'[r].part = "body" => run'[r].stage = FirstStage[k]
      BY <1>1, <3>1, <3>2, <3>3
    <3> QED
      BY <1>1, <2>1, <2>4, <3>4 DEF RunShape, Absent
  <2>5. Running(r) => run[r].kind = "promote" \/ run[r].kind \in RerunKinds
    BY <1>3 DEF RunShape, Running, Absent
  <2> QED
    BY <1>1, <2>2, <2>3, <2>4, <2>5
<1> QED
  BY <1>2, <1>3, <1>m

\* So does everything else.
LEMMA RunShapeKept ==
  ASSUME TypeOK, RunShape, [Next]_vars
  PROVE  RunShape'
<1>m. "main" \in Runs /\ Runs = {"main"} \cup Extra /\ "main" \notin Extra
  BY RunsAssumption DEF Runs
<1>1. ASSUME NEW r \in Runs, WorkerStep(r) \/ WorkerFault(r)
      PROVE  RunShape'
  BY <1>1, WorkerMoves, RunShapeByWorker
<1>2. CASE UNCHANGED <<run, opt>>
  BY <1>2 DEF RunShape, Absent
<1>3. ASSUME NEW q \in Requests, RequestStep(q)
      PROVE  RunShape'
  <2>1. CASE Starts("main", "pipeline")
    <3>1. run'["main"].kind = "pipeline" /\ run'["main"].stage = "ocr_processing"
          /\ run'["main"].status = "running" /\ \A o \in Extra : run'[o] = run[o]
      BY <1>m, <2>1, WorkflowLines DEF Starts, TypeOK
    <3> QED
      BY <3>1, WorkflowLines DEF RunShape, Absent
  <2>2. ASSUME NEW r \in Extra, NEW kind \in {"promote"} \cup RerunKinds,
               Starts(r, kind), UNCHANGED opt
        PROVE  RunShape'
    <3>1. /\ run'[r].kind = kind /\ run'[r].stage = FirstStage[kind]
          /\ run'[r].part = "mirror" /\ run'[r].status = "running"
          /\ \A o \in Runs : o # r => run'[o] = run[o]
      BY <1>m, <2>2 DEF Starts, TypeOK
    <3>2. run'["main"] = run["main"]
      BY <1>m, <3>1
    <3>3. \/ run'[r].kind \in RerunKinds /\ run'[r].stage = FirstStage[run'[r].kind]
          \/ run'[r].kind = "promote" /\ run'[r].stage = "ingesting_prod"
      BY <2>2, <3>1, WorkflowLines
    <3>4. \A o \in Extra : o # r => run'[o] = run[o]
      BY <1>m, <3>1
    <3> QED
      BY <2>2, <3>2, <3>3, <3>4 DEF RunShape, Absent
  <2>3. CASE Running("main") /\ (Cancelled \/ Terminated) /\ UNCHANGED opt
    <3>1. /\ \A o \in Extra : run'[o] = run[o]
          /\ run'["main"].kind = run["main"].kind
          /\ run'["main"].stage \in {run["main"].stage, "failed"}
          /\ run'["main"].status # "absent"
      BY <1>m, <2>3 DEF Cancelled, Terminated, Closed, Entered, TypeOK, RunRecord, Running
    <3> QED
      BY <2>3, <3>1, WorkflowLines DEF RunShape, Absent
  <2> QED
    BY <1>2, <1>3, <2>1, <2>2, <2>3, RequestOnRuns
<1> QED
  <2>1. UNCHANGED <<run, opt>> \/ (\E r \in Runs : WorkerStep(r) \/ WorkerFault(r))
          \/ \E q \in Requests : RequestStep(q)
    BY StrayMoves DEF Next, Restore, workerVars, vars
  <2> QED
    BY <1>1, <1>2, <1>3, <2>1

-----------------------------------------------------------------------------
(* The gates.                                                              *)

\* However the pipeline and its approvals change in a step: a decision is
\* never taken back, and the pipeline leaves a gate only when it is open.
LEMMA MainMoves ==
  ASSUME TypeOK, RunShape, [Next]_vars
  PROVE  /\ approved \subseteq approved'
         /\ granted \subseteq granted'
         /\ \/ run'["main"].stage = run["main"].stage /\ UNCHANGED opt
            \/ run'["main"].stage = "failed" /\ UNCHANGED opt
            \/ run["main"].stage = "registered" /\ run'["main"].stage = FirstStage["pipeline"]
            \/ /\ run["main"].stage \in ProcessingStages \cup ReviewStages
               /\ run["main"].stage \in ReviewStages => GateOpen(run["main"].stage)
               /\ run'["main"].stage = NextStage("main")
               /\ UNCHANGED opt
<1>m. "main" \in Runs /\ "main" \notin Extra /\ Extra \subseteq Runs
  BY RunsAssumption DEF Runs
<1>1. ASSUME NEW r \in Runs, WorkerStep(r) \/ WorkerFault(r)
      PROVE  /\ UNCHANGED <<approved, granted, opt>>
             /\ \/ run'["main"].stage = run["main"].stage
                \/ run'["main"].stage = "failed"
                \/ /\ run["main"].stage \in ProcessingStages \cup ReviewStages
                   /\ run["main"].stage \in ReviewStages => GateOpen(run["main"].stage)
                   /\ run'["main"].stage = NextStage("main")
  <2>1. Moves(r) /\ UNCHANGED <<opt, approved, granted>>
    BY <1>1, WorkerMoves
  <2>2. r # "main" => run'["main"] = run["main"]
    BY <1>m, <2>1, MovedFields
  <2>3. \/ run'[r].stage = run[r].stage
        \/ run'[r].stage = "failed"
        \/ /\ run'[r].stage = NextStage(r)
           /\ (AtGate(r) /\ GateOpen(run[r].stage)) \/ Processing(r)
    BY <2>1, MovedFields
  <2>4. /\ Processing(r) => run[r].stage \in ProcessingStages /\ run[r].stage \notin ReviewStages
        /\ AtGate(r) => run[r].stage \in ReviewStages
    BY DEF Processing, AtGate, ReviewStages, ProcessingStages
  <2> QED
    BY <2>1, <2>2, <2>3, <2>4
<1>2. ASSUME NEW q \in Requests, RequestStep(q)
      PROVE  /\ approved \subseteq approved' /\ granted \subseteq granted'
             /\ \/ run'["main"].stage \in {run["main"].stage, "failed"} /\ UNCHANGED opt
                \/ /\ run["main"].stage = "registered"
                   /\ run'["main"].stage = FirstStage["pipeline"]
  <2>1. approved \subseteq approved' /\ granted \subseteq granted'
    BY <1>2, RequestOnHistory
  <2>2. CASE Starts("main", "pipeline")
    BY <1>m, <2>1, <2>2 DEF Starts, Absent, RunShape, TypeOK
  <2>3. CASE UNCHANGED opt /\ \E r \in Extra : \E kind : Starts(r, kind)
    BY <1>m, <2>1, <2>3 DEF Starts, TypeOK
  <2>4. CASE (Cancelled \/ Terminated) /\ UNCHANGED opt
    BY <1>m, <2>1, <2>4 DEF Cancelled, Terminated, Closed, Entered, TypeOK, RunRecord
  <2> QED
    BY <1>2, <2>1, <2>2, <2>3, <2>4, RequestOnRuns
<1>3. ASSUME UNCHANGED <<run, opt, approved, granted>>
      PROVE  /\ approved \subseteq approved' /\ granted \subseteq granted'
             /\ run'["main"].stage = run["main"].stage /\ UNCHANGED opt
  BY <1>3
<1>4. \/ \E r \in Runs : WorkerStep(r) \/ WorkerFault(r)
      \/ \E q \in Requests : RequestStep(q)
      \/ UNCHANGED <<run, opt, approved, granted>>
  BY StrayMoves DEF Next, Restore, workerVars, outsideVars, vars
<1> QED
  BY <1>1, <1>2, <1>3, <1>4

\* No gate is left behind unopened.
LEMMA GatesInOrderKept ==
  ASSUME TypeOK, RunShape, GatesInOrder, [Next]_vars
  PROVE  GatesInOrder'
<1> SUFFICES ASSUME NEW g \in ReviewStages, run'["main"].stage \in LineStages,
                    Rank[g] < Rank[run'["main"].stage]
             PROVE  \/ g \in approved'
                    \/ opt'.auto /\ g \in DevGates
                    \/ opt'.skipProd /\ g = "approval_for_prod"
  BY DEF GatesInOrder
<1> DEFINE s == run["main"].stage
<1>1. approved \subseteq approved'
  BY MainMoves
<1>2. CASE run'["main"].stage = s /\ UNCHANGED opt
  BY <1>1, <1>2 DEF GatesInOrder
<1>3. CASE run'["main"].stage = "failed"
  BY <1>3, Ranks
<1>4. CASE run'["main"].stage = FirstStage["pipeline"]
  BY <1>4, Ranks
<1>5. CASE /\ s \in ProcessingStages \cup ReviewStages
           /\ s \in ReviewStages => GateOpen(s)
           /\ run'["main"].stage = NextStage("main")
           /\ UNCHANGED opt
  <2>1. CASE s = "ingesting" /\ opt.skipProd
    BY <1>1, <1>5, <2>1, LineSteps, SkipSteps DEF GatesInOrder
  <2>2. CASE ~(s = "ingesting" /\ opt.skipProd)
    <3>1. NextStage("main") = Following[s]
      BY <2>2 DEF NextStage
    <3>2. g = s \/ Rank[g] < Rank[s]
      BY <1>5, <3>1, LineSteps
    <3>3. g = s => g \in approved \/ (opt.auto /\ g \in DevGates)
      BY <1>5 DEF GateOpen
    <3> QED
      BY <1>1, <1>5, <3>2, <3>3, LineSteps DEF GatesInOrder
  <2> QED
    BY <2>1, <2>2
<1> QED
  BY <1>2, <1>3, <1>4, <1>5, MainMoves

\* Once the pipeline has reached a gate it stays at or behind it.
LEMMA ReachedStaysReached ==
  ASSUME TypeOK, RunShape, [Next]_vars, run'["main"].stage \in LineStages,
         NEW g \in ReviewStages,
         run["main"].stage \in LineStages => Rank[g] <= Rank[run["main"].stage]
  PROVE  Rank[g] <= Rank[run'["main"].stage]
<1> DEFINE s == run["main"].stage
<1>1. CASE run'["main"].stage = s
  BY <1>1
<1>2. CASE run'["main"].stage = "failed"
  BY <1>2, Ranks
<1>3. CASE s = "registered"
  <2>1. Rank[g] \in Nat /\ Rank[g] > 0 /\ Rank[g] <= 0
    <3>1. Rank[g] \in Nat /\ Rank[g] > Rank[FirstStage["pipeline"]]
      BY Ranks
    <3>2. Rank[FirstStage["pipeline"]] \in Nat
      BY Ranks
    <3> QED
      BY <1>3, <3>1, <3>2, Ranks
  <2> QED
    BY <2>1
<1>4. CASE s \in ProcessingStages \cup ReviewStages /\ run'["main"].stage = NextStage("main")
  <2>1. s \in LineStages /\ Rank[s] \in Nat /\ Rank[g] \in Nat
        /\ Rank[run'["main"].stage] \in Nat
    BY <1>4, LineSteps, Ranks
  <2>2. Rank[s] <= Rank[NextStage("main")]
    BY <1>4, LineSteps, SkipSteps DEF NextStage
  <2> QED
    BY <1>4, <2>1, <2>2
<1> QED
  BY <1>1, <1>2, <1>3, <1>4, MainMoves

\* No approval, and none that is on its way, runs ahead of the pipeline.
LEMMA ApprovalNotEarlyKept ==
  ASSUME TypeOK, RunShape, RequestShape, ApprovalNotEarly, SignalsNotEarly, [Next]_vars
  PROVE  ApprovalNotEarly' /\ SignalsNotEarly'
<1>m. "main" \in Runs
  BY DEF Runs
<1>1. ASSUME NEW g \in approved', run'["main"].stage \in LineStages
      PROVE  Rank[g] <= Rank[run'["main"].stage]
  <2>1. CASE g \in approved
    BY <1>1, <2>1, ReachedStaysReached DEF ApprovalNotEarly, TypeOK
  <2>2. CASE g \notin approved
    <3>1. PICK q \in Requests : req[q].pc = "signal" /\ g = req[q].arg
      BY <2>2, WorkerMoves, StrayMoves, RequestOnHistory DEF Next, Restore, workerVars, vars
    <3>2. g \in ReviewStages
      BY <3>1 DEF RequestShape
    <3>3. run["main"].stage \in LineStages => Rank[g] <= Rank[run["main"].stage]
      BY <3>1 DEF SignalsNotEarly
    <3> QED
      BY <1>1, <3>2, <3>3, ReachedStaysReached
  <2> QED
    BY <2>1, <2>2
<1>2. ASSUME NEW p \in Requests, req'[p].pc = "signal", run'["main"].stage \in LineStages
      PROVE  Rank[req'[p].arg] <= Rank[run'["main"].stage]
  <2>1. CASE req'[p] = req[p]
    <3>1. req'[p].arg \in ReviewStages
      BY <1>2, <2>1 DEF RequestShape
    <3> QED
      BY <1>2, <2>1, <3>1, ReachedStaysReached DEF SignalsNotEarly
  <2>2. CASE req'[p] # req[p]
    <3>1. PICK q \in Requests : RequestStep(q)
      BY <2>2, WorkerMoves, StrayMoves DEF Next, Restore, vars
    <3>2. PICK new :
            /\ req' = [req EXCEPT ![q] = new]
            /\ new.pc = "signal" => new.arg \in ReviewStages /\ new.arg = Reported("main")
      BY <3>1, RequestOnRequests
    <3>3. p = q /\ req'[p] = new
      BY <2>2, <3>2 DEF TypeOK
    <3>4. new.arg \in ReviewStages /\ new.arg = Reported("main")
      BY <1>2, <3>2, <3>3
    <3>5. Reported("main") = run["main"].stage
      BY WorkflowLines DEF Reported, RunShape
    <3>6. Rank[new.arg] \in Nat
      BY <3>4, Ranks
    <3>7. run["main"].stage \in LineStages => Rank[new.arg] <= Rank[run["main"].stage]
      BY <3>4, <3>5, <3>6
    <3>8. Rank[new.arg] <= Rank[run'["main"].stage]
      BY <1>2, <3>4, <3>7, ReachedStaysReached
    <3> QED
      BY <3>3, <3>8
  <2> QED
    BY <2>1, <2>2
<1> QED
  BY <1>1, <1>2 DEF ApprovalNotEarly, SignalsNotEarly

-----------------------------------------------------------------------------
(* PROD and the network.                                                   *)

\* A workflow at work on PROD has a superadmin's decision behind it: the
\* pipeline because it passed the gate, a promotion since it was started.
LEMMA ProdWriter ==
  ASSUME TypeOK, RunShape, GatesInOrder, ProdWritersApproved,
         NEW r \in Runs, Running(r), run[r].stage = "ingesting_prod"
  PROVE  "approval_for_prod" \in granted
<1>1. CASE r = "main"
  <2>1. ~opt.skipProd
    BY <1>1, ProdGate DEF RunShape
  <2>2. "approval_for_prod" \in approved
    BY <1>1, <2>1, ProdGate DEF GatesInOrder
  <2> QED
    BY <2>2 DEF ProdWritersApproved
<1>2. CASE r \in Extra
  <2>1. run[r].kind \in RerunKinds => "ingesting_prod" \notin
           {FirstStage[run[r].kind], FinalStage[run[r].kind], "failed"}
    BY WorkflowLines DEF ReviewStages
  <2>2. run[r].kind = "promote"
    BY <1>2, <2>1 DEF RunShape, Absent, Running
  <2> QED
    BY <1>2, <2>2 DEF ProdWritersApproved, Absent, Running
<1> QED
  BY <1>1, <1>2 DEF Runs

\* Which deliveries an activity makes.
LEMMA Deliverers ==
  \A s \in ProcessingStages :
    /\ "promote" \in Delivers[s] <=> s = "ingesting_prod"
    /\ "announce" \in Delivers[s] => s = "publishing_to_network"
BY DEF ProcessingStages, Delivers

\* An attempt is abandoned only by the workflow that waited for it.
LEMMA NewStray ==
  ASSUME TypeOK, TaskShape, NEW r \in Runs, Abandoned(r), NEW s \in stray', s \notin stray
  PROVE  Processing(r) /\ s.stage = run[r].stage /\ s.pc = task[r].pc
BY DEF Abandoned, TaskShape

\* Where an attempt that is abandoned after the step was before it.
LEMMA StraySources ==
  ASSUME TypeOK, TaskShape, [Next]_vars, NEW s \in stray'
  PROVE  \/ s \in stray
         \/ \E r \in Runs : /\ Processing(r) /\ s.stage = run[r].stage
                           /\ s.pc = task[r].pc /\ UNCHANGED did
         \/ \E t \in stray : s.stage = t.stage /\ did' = did \cup Delivers[t.stage]
<1> SUFFICES ASSUME s \notin stray
             PROVE  \/ \E r \in Runs : /\ Processing(r) /\ s.stage = run[r].stage
                                      /\ s.pc = task[r].pc /\ UNCHANGED did
                    \/ \E t \in stray : s.stage = t.stage /\ did' = did \cup Delivers[t.stage]
  OBVIOUS
<1>1. ASSUME NEW r \in Runs, WorkerStep(r) \/ WorkerFault(r)
      PROVE  Processing(r) /\ s.stage = run[r].stage /\ s.pc = task[r].pc /\ UNCHANGED did
  <2>1. Moves(r) /\ (UNCHANGED did \/ UNCHANGED stray)
    BY <1>1, WorkerMoves
  <2>2. Abandoned(r)
    BY <2>1 DEF Moves
  <2> QED
    BY <2>1, <2>2, NewStray
<1>2. ASSUME NEW t \in stray, StrayStep(t)
      PROVE  s.stage = t.stage /\ did' = did \cup Delivers[t.stage]
  BY <1>2, StrayMoves
<1>3. ASSUME NEW q \in Requests, RequestStep(q)
      PROVE  /\ "main" \in Runs
             /\ Processing("main") /\ s.stage = run["main"].stage
             /\ s.pc = task["main"].pc /\ UNCHANGED did
  <2>1. UNCHANGED did
    BY <1>3, RequestOnHistory
  <2>2. "main" \in Runs
    BY DEF Runs
  <2>3. Abandoned("main")
    BY <1>3, RequestOnRuns DEF Cancelled, Terminated
  <2> QED
    BY <2>1, <2>2, <2>3, NewStray
<1> QED
  BY <1>1, <1>2, <1>3 DEF Next, Restore, workerVars, vars

\* What a step adds to the deliveries.
LEMMA NewDelivery ==
  ASSUME TypeOK, [Next]_vars, NEW d \in did', d \notin did
  PROVE  \/ \E r \in Runs : Processing(r) /\ d \in Delivers[run[r].stage]
         \/ \E s \in stray : d \in Delivers[s.stage]
<1>1. ASSUME NEW r \in Runs, WorkerStep(r) \/ WorkerFault(r)
      PROVE  Processing(r) /\ d \in Delivers[run[r].stage]
  BY <1>1, WorkerMoves
<1>2. ASSUME NEW s \in stray, StrayStep(s)
      PROVE  d \in Delivers[s.stage]
  BY <1>2, StrayMoves
<1> QED
  BY <1>1, <1>2, RequestOnHistory DEF Next, Restore, outsideVars, vars

\* Deliveries are never undone in the history.
LEMMA DeliveriesStay ==
  ASSUME TypeOK, [Next]_vars
  PROVE  did \subseteq did'
BY WorkerMoves, StrayMoves, RequestOnHistory DEF Next, Restore, outsideVars, vars

\* Nobody gets to write to PROD without a decision, and nobody has.
LEMMA ProdKept ==
  ASSUME TypeOK, TaskShape, RequestShape, RunShape, GatesInOrder, ProdWritersApproved,
         ProdOnlyByApproval, [Next]_vars
  PROVE  ProdWritersApproved' /\ ProdOnlyByApproval'
<1>m. "main" \in Runs /\ Extra \subseteq Runs /\ "main" \notin Extra
  BY RunsAssumption DEF Runs
<1>g. granted \subseteq granted'
  BY MainMoves
<1>1. approved' \subseteq granted'
  <2>1. UNCHANGED approved \/ (\E g : approved' = approved \cup {g} /\ g \in granted')
    BY WorkerMoves, StrayMoves, RequestOnHistory DEF Next, Restore, workerVars, vars
  <2> QED
    BY <1>g, <2>1 DEF ProdWritersApproved
<1>2. ASSUME NEW r \in Extra, ~Absent(r)', run'[r].kind = "promote"
      PROVE  "approval_for_prod" \in granted'
  <2>1. CASE ~Absent(r) /\ run[r].kind = "promote"
    BY <1>g, <2>1 DEF ProdWritersApproved
  <2>2. CASE ~(~Absent(r) /\ run[r].kind = "promote")
    <3>1. run'[r] # run[r]
      BY <1>2, <2>2 DEF Absent
    <3>2. CASE \E o \in Runs : WorkerStep(o) \/ WorkerFault(o)
      <4>1. PICK o \in Runs : Moves(o)
        BY <3>2, WorkerMoves
      <4>2. o = r /\ run'[r].kind = run[r].kind
        BY <1>m, <3>1, <4>1, MovedFields
      <4>3. ~Absent(r)
        BY <3>1, <4>1, <4>2, MovedFields
           DEF Absent, Mirroring, Processing, AtGate, Running
      <4> QED
        BY <1>2, <2>2, <4>2, <4>3
    <3>3. CASE \E q \in Requests : RequestStep(q)
      <4>1. CASE Starts("main", "pipeline") \/ Cancelled \/ Terminated
        BY <1>m, <3>1, <4>1 DEF Starts, Cancelled, Terminated, Closed, Entered, TypeOK
      <4>2. ASSUME NEW o \in Extra, NEW kind, Starts(o, kind),
                   kind = "promote" => "approval_for_prod" \in granted'
            PROVE  "approval_for_prod" \in granted'
        BY <1>2, <1>m, <3>1, <4>2 DEF Starts, TypeOK
      <4> QED
        BY <3>1, <3>3, <4>1, <4>2, RequestOnRuns
    <3> QED
      BY <3>1, <3>2, <3>3, StrayMoves DEF Next, Restore, workerVars, vars
  <2> QED
    BY <2>1, <2>2
<1>3. ASSUME NEW s \in stray', s.stage = "ingesting_prod"
      PROVE  "approval_for_prod" \in granted'
  BY <1>3, <1>g, StraySources, ProdWriter DEF ProdWritersApproved, Processing
<1>4. "promote" \in did' => "approval_for_prod" \in granted'
  <2>1. CASE "promote" \in did
    BY <1>g, <2>1 DEF ProdOnlyByApproval
  <2>2. CASE "promote" \in did' /\ "promote" \notin did
    <3>1. ASSUME NEW r \in Runs, Processing(r), "promote" \in Delivers[run[r].stage]
          PROVE  "approval_for_prod" \in granted
      BY <3>1, Deliverers, ProdWriter DEF Processing
    <3>2. ASSUME NEW s \in stray, "promote" \in Delivers[s.stage]
          PROVE  "approval_for_prod" \in granted
      BY <3>2, Deliverers DEF ProdWritersApproved, TypeOK, StrayRecord
    <3> QED
      BY <1>g, <2>2, <3>1, <3>2, NewDelivery
  <2> QED
    BY <2>1, <2>2
<1> QED
  BY <1>1, <1>2, <1>3, <1>4 DEF ProdWritersApproved, ProdOnlyByApproval

\* The last stretch of the line is entered by way of PROD alone.
LEMMA NetworkStage ==
  /\ \A s \in ProcessingStages \cup ReviewStages :
       Following[s] = "publishing_to_network" => s = "ingesting_prod"
  /\ \A s \in ReviewStages : s \notin ProcessingStages
  /\ \A k \in WorkflowKinds : FirstStage[k] # "publishing_to_network"
BY DEF ProcessingStages, ReviewStages, Following, WorkflowKinds, RerunKinds, FirstStage

\* A workflow that can announce the document, or is about to be able to, has
\* made its write to PROD.
LEMMA AnnouncingRuns ==
  ASSUME TypeOK, TaskShape, AnnouncersPromoted, [Next]_vars, NEW r \in Runs,
         \/ run'[r].stage = "publishing_to_network"
         \/ run'[r].stage = "ingesting_prod" /\ task'[r].pc = "wrote"
  PROVE  "promote" \in did'
<1>d. did \subseteq did'
  BY DeliveriesStay
<1>a. (\/ run[r].stage = "publishing_to_network"
       \/ run[r].stage = "ingesting_prod" /\ task[r].pc = "wrote") => "promote" \in did'
  BY <1>d DEF AnnouncersPromoted
<1>1. CASE run'[r].stage = run[r].stage /\ task'[r].pc = task[r].pc
  BY <1>1, <1>a
<1>2. ASSUME NEW o \in Runs, WorkerStep(o) \/ WorkerFault(o)
      PROVE  "promote" \in did'
  <2>1. Moves(o)
    BY <1>2, WorkerMoves
  <2>2. CASE o # r
    BY <1>1, <2>1, <2>2, MovedFields
  <2>3. CASE o = r
    <3>1. CASE /\ run'[r].stage = NextStage(r)
               /\ \/ AtGate(r) /\ task'[r] = task[r]
                  \/ Processing(r) /\ task[r].pc = LastStep(run[r].stage) /\ task'[r].pc = "idle"
      <4>1. AtGate(r) => task[r].pc = "idle" /\ run[r].stage \in ReviewStages
        BY NetworkStage DEF AtGate, TaskShape, Processing
      <4>2. NextStage(r) = "publishing_to_network"
        BY <3>1, <4>1
      <4>3. run[r].stage \in ProcessingStages \cup ReviewStages
        BY <3>1 DEF Processing, AtGate
      <4>4. run[r].stage = "ingesting_prod"
        BY <4>2, <4>3, NetworkStage DEF NextStage
      <4>5. "ingesting_prod" \notin ReviewStages
        BY DEF ReviewStages
      <4> QED
        BY <1>a, <3>1, <4>1, <4>4, <4>5 DEF LastStep
    <3>2. CASE run'[r].stage = "failed"
      BY <3>2
    <3>3. CASE run'[r].stage = run[r].stage /\ task'[r] # task[r]
      <4>1. CASE Processing(r) /\ task' = [task EXCEPT ![r].pc = "wrote"]
                   /\ did' = did \cup Delivers[run[r].stage]
        <5>1. run[r].stage = "ingesting_prod" => "promote" \in did'
          BY <4>1, Deliverers DEF Processing
        <5> QED
          BY <1>a, <3>3, <5>1
      <4>2. CASE UNCHANGED did
        <5>1. CASE task'[r].pc # "wrote"
          BY <1>a, <3>3, <5>1
        <5>2. CASE task'[r].pc = "wrote"
          <6>1. task' = [task EXCEPT ![r].pc = "wrote"] /\ Processing(r)
                  /\ did' = did \cup Delivers[run[r].stage]
            BY <2>1, <2>3, <3>3, <5>2 DEF Moves, IdleTask, TypeOK, TaskRecord
          <6> QED
            BY <4>1, <6>1
        <5> QED
          BY <5>1, <5>2
      <4> QED
        BY <1>2, <2>3, <4>1, <4>2, WorkerMoves
    <3>4. CASE run'[r].stage = run[r].stage /\ task'[r] = task[r]
      BY <1>1, <3>4
    <3> QED
      BY <2>1, <2>3, <3>1, <3>2, <3>3, <3>4, MovedFields
  <2> QED
    BY <2>2, <2>3
<1>3. ASSUME NEW q \in Requests, RequestStep(q)
      PROVE  "promote" \in did'
  <2>1. ASSUME NEW o \in Runs, NEW k \in WorkflowKinds, Starts(o, k), UNCHANGED task
        PROVE  "promote" \in did'
    <3>1. CASE o # r
      BY <1>1, <2>1, <3>1 DEF Starts, TypeOK
    <3>2. CASE o = r
      <4>1. run'[r].stage = FirstStage[k] /\ task[r].pc = "idle"
        BY <2>1, <3>2 DEF Starts, TypeOK, Absent, TaskShape, Processing, Running
      <4> QED
        BY <2>1, <4>1, NetworkStage
    <3> QED
      BY <3>1, <3>2
  <2>2. CASE Cancelled \/ Terminated
    <3>1. CASE r # "main"
      BY <1>1, <2>2, <3>1
         DEF Cancelled, Terminated, Closed, Entered, TypeOK
    <3>2. CASE r = "main"
      <4>1. task'[r].pc = "idle"
        BY <2>2, <3>2 DEF Cancelled, Terminated, IdleTask, TypeOK
      <4>2. run'[r].stage \in {run[r].stage, "failed"}
        BY <2>2, <3>2 DEF Cancelled, Terminated, Closed, Entered, TypeOK, RunRecord
      <4> QED
        BY <1>a, <4>1, <4>2
    <3> QED
      BY <3>1, <3>2
  <2>3. CASE UNCHANGED <<run, task>>
    BY <1>1, <2>3
  <2>4. {"main"} \cup Extra \subseteq Runs /\ {"pipeline", "promote"} \cup RerunKinds \subseteq WorkflowKinds
    BY DEF Runs, WorkflowKinds
  <2> QED
    BY <1>3, <2>1, <2>2, <2>3, <2>4, RequestOnRuns
<1> QED
  BY <1>1, <1>2, <1>3, StrayMoves DEF Next, Restore, workerVars, vars

\* The same of the attempts nobody waits for, and of the history itself.
LEMMA NetworkKept ==
  ASSUME TypeOK, TaskShape, AnnouncersPromoted, NetworkOnlyAfterProd, [Next]_vars
  PROVE  AnnouncersPromoted' /\ NetworkOnlyAfterProd'
<1>d. did \subseteq did'
  BY DeliveriesStay
<1>1. ASSUME NEW s \in stray', s.stage = "publishing_to_network"
      PROVE  "promote" \in did'
  BY <1>1, <1>d, StraySources DEF AnnouncersPromoted
<1>2. ASSUME NEW s \in stray', s.stage = "ingesting_prod", s.pc = "wrote"
      PROVE  "promote" \in did'
  <2>1. ASSUME NEW t \in stray, s.stage = t.stage, did' = did \cup Delivers[t.stage]
        PROVE  "promote" \in did'
    BY <1>2, <2>1, Deliverers DEF TypeOK, StrayRecord
  <2> QED
    BY <1>2, <1>d, <2>1, StraySources DEF AnnouncersPromoted
<1>3. "announce" \in did' => "promote" \in did'
  <2>1. ASSUME NEW r \in Runs, Processing(r), "announce" \in Delivers[run[r].stage]
        PROVE  "promote" \in did'
    BY <1>d, <2>1, Deliverers DEF Processing, AnnouncersPromoted
  <2>2. ASSUME NEW s \in stray, "announce" \in Delivers[s.stage]
        PROVE  "promote" \in did'
    BY <1>d, <2>2, Deliverers DEF AnnouncersPromoted, TypeOK, StrayRecord
  <2> QED
    BY <1>d, <2>1, <2>2, NewDelivery DEF NetworkOnlyAfterProd
<1> QED
  BY <1>1, <1>2, <1>3, AnnouncingRuns DEF AnnouncersPromoted, NetworkOnlyAfterProd

-----------------------------------------------------------------------------
(* The inductive invariant and what it implies.                            *)

\* It holds before the upload.
LEMMA InitInv == Init => DeliveryInv
<1> SUFFICES ASSUME Init PROVE DeliveryInv
  OBVIOUS
<1>m. "main" \in Runs
  BY DEF Runs
<1>r. \A r \in Runs : run[r] = [kind |-> "pipeline", stage |-> "registered",
                                part |-> "mirror", status |-> "absent"]
  BY DEF Init
<1>t. \A r \in Runs : task[r].pc = "idle"
  BY DEF Init, IdleTask
<1>q. \A q \in Requests : req[q].pc = "idle"
  BY DEF Init, IdleRequest
<1>1. TypeOK
  <2>1. run \in [Runs -> RunRecord]
    BY StageSets DEF Init, RunRecord, WorkflowKinds
  <2>2. task \in [Runs -> TaskRecord]
    BY DEF Init, IdleTask, TaskRecord
  <2>3. req \in [Requests -> RequestRecord]
    BY <1>m DEF Init, IdleRequest, RequestRecord, RequestOps, RequestSteps
  <2>4. stray \subseteq StrayRecord
    BY DEF Init
  <2> QED
    BY <2>1, <2>2, <2>3, <2>4 DEF Init, TypeOK
<1>2. TaskShape /\ RequestShape /\ SignalsNotEarly
  BY <1>t, <1>q DEF TaskShape, RequestShape, SignalsNotEarly
<1>3. RunShape
  BY <1>m, <1>r DEF RunShape, Absent, Runs, Init, PROD_ONLY_STAGES
<1>4. GatesInOrder
  BY <1>m, <1>r, Ranks DEF GatesInOrder, ReviewStages, Rank
<1>5. ApprovalNotEarly /\ ProdWritersApproved /\ ProdOnlyByApproval /\ NetworkOnlyAfterProd
  BY <1>r DEF Init, ApprovalNotEarly, ProdWritersApproved, ProdOnlyByApproval,
     NetworkOnlyAfterProd, Absent, Runs
<1>6. AnnouncersPromoted
  BY <1>r DEF Init, AnnouncersPromoted
<1> QED
  BY <1>1, <1>2, <1>3, <1>4, <1>5, <1>6 DEF DeliveryInv

\* Every step of the worker, of its faults, of the attempts it gave up on and
\* of the API requests keeps it.
LEMMA NextInv == DeliveryInv /\ [Next]_vars => DeliveryInv'
<1> SUFFICES ASSUME DeliveryInv, [Next]_vars PROVE DeliveryInv'
  OBVIOUS
<1> USE DEF DeliveryInv
<1>1. TypeOK'
  <2>1. CASE Restore
    BY <2>1 DEF Restore, TypeOK, workerVars, outsideVars
  <2>2. CASE UNCHANGED vars
    BY <2>2 DEF vars, TypeOK
  <2> QED
    BY <2>1, <2>2, WorkerTypes, StrayTypes, RequestTypes DEF Next
<1>2. TaskShape' /\ RequestShape' /\ RunShape'
  BY TaskShapeKept, RequestShapeKept, RunShapeKept
<1>3. GatesInOrder' /\ ApprovalNotEarly' /\ SignalsNotEarly'
  BY GatesInOrderKept, ApprovalNotEarlyKept
<1>4. ProdWritersApproved' /\ ProdOnlyByApproval'
  BY ProdKept
<1>5. AnnouncersPromoted' /\ NetworkOnlyAfterProd'
  BY NetworkKept
<1> QED
  BY <1>1, <1>2, <1>3, <1>4, <1>5

\* Whatever the reviewers, the re-runs, the retries, the lost requests and the
\* attempts that outlive their workflow do, the deliveries stay in order.
THEOREM DeliveriesInOrder == Spec => []DeliveryInv
BY InitInv, NextInv, PTL DEF Spec

\* Every variable of the document's pipeline keeps its type.
THEOREM TypeCorrect == Spec => []TypeOK
BY DeliveriesInOrder, PTL DEF DeliveryInv

\* The pipeline leaves no gate behind that was not opened by its own approval,
\* by automatic approval or by skip_prod.
THEOREM EveryGateIsOpened == Spec => []GatesInOrder
BY DeliveriesInOrder, PTL DEF DeliveryInv

\* No approval is on record for a gate that the pipeline has yet to reach,
\* though the check of the stage and the signal are two calls.
THEOREM NoApprovalAhead == Spec => []ApprovalNotEarly
BY DeliveriesInOrder, PTL DEF DeliveryInv

\* Nothing enters the PROD index without a superadmin's decision.
THEOREM ProdNeedsApproval == Spec => []ProdOnlyByApproval
BY DeliveriesInOrder, PTL DEF DeliveryInv

\* Nothing is announced to the network before it entered PROD.
THEOREM NetworkNeedsProd == Spec => []NetworkOnlyAfterProd
BY DeliveriesInOrder, PTL DEF DeliveryInv

-----------------------------------------------------------------------------
(* The row as a mirror, and the removal, of the pipeline alone.            *)

\* No re-run and no promotion beside the pipeline, no reconciliation and no
\* attempt that outlives its timeout.
PipelineAlone ==
  /\ Extra = {}
  /\ "reconcile" \notin Ops
  /\ MaxStray = 0

\* What RowInv says beside the order of the deliveries.
RowParts ==
  /\ stray = {}
  /\ RegisteredOnce
  /\ OnlyRemovals
  /\ RowFollows
  /\ ~CallsMayFail => RemovalLasts /\ PurgedStaysPurged

\* What no step of the pipeline alone does.
GoesForward == doc.stage # "unlisted" => Position(doc.stage) <= Position(doc'.stage)
IndexesNothing ==
  ~CallsMayFail /\ doc.disabled /\ doc'.disabled => index' \subseteq index

\* Where the stages are on the line that the row's reader sees.
LEMMA Positions ==
  /\ \A s \in DocumentStage : Position(s) \in Nat /\ 0 <= Position(s) /\ Position(s) <= 13
  /\ \A s \in LineStages : Position(s) = Rank[s]
  /\ Position("registered") = 0 /\ Position("failed") = 13
  /\ Position("unlisted") = 0 /\ Position("purged") = 14
  /\ \A s \in ProcessingStages \cup ReviewStages :
       /\ Position(s) <= Position(Following[s])
       /\ Position(s) <= Position("completed")
BY DEF Position, DocumentStage, LineStages, ProcessingStages, ReviewStages, Rank, Following

\* The pipeline's next stage never lies behind the one it leaves.
LEMMA NextIsAhead ==
  ASSUME TypeOK, NEW r \in Runs, run[r].stage \in ProcessingStages \cup ReviewStages
  PROVE  Position(run[r].stage) <= Position(NextStage(r))
BY Positions DEF NextStage

\* With no room for one, no attempt outlives its timeout.
LEMMA NoneAbandoned ==
  ASSUME PipelineAlone, stray = {}, NEW r \in Runs, Abandoned(r)
  PROVE  stray' = {}
<1>1. Cardinality(stray) = 0
  BY FS_EmptySet
<1> QED
  BY <1>1 DEF Abandoned, PipelineAlone

\* What the end of an attempt to chunk reads off the rows never lies behind
\* what the row says.
LEMMA ClosingRow ==
  ASSUME TypeOK, Closing("chunking"),
         doc.stage \in {"chunking", "registered", "ocr_review", "chunk_review"}
  PROVE  /\ doc'.disabled = doc.disabled
         /\ doc'.stage \in {doc.stage, "ocr_review", "chunk_review"}
         /\ Position(doc.stage) <= Position(doc'.stage)
<1> DEFINE seen == Materialized(doc.stage, rows)
<1>1. \/ seen = doc.stage
      \/ seen = "chunk_review"
      \/ seen = "ocr_review" /\ doc.stage = "registered"
  BY DEF Materialized
<1>2. Position(doc.stage) <= Position(seen)
  BY <1>1 DEF Position, Rank
<1>3. CASE UNCHANGED doc
  BY <1>3 DEF Position, Rank
<1>4. CASE Listed /\ Rewritten(seen)
  <2>1. doc'.stage = seen /\ doc'.disabled = doc.disabled
    BY <1>4 DEF Rewritten, SetStage, TypeOK
  <2> QED
    BY <1>1, <1>2, <2>1
<1> QED
  BY <1>3, <1>4 DEF Closing

\* What a step of the pipeline's own does to the row and to what hangs on it.
LEMMA WorkerOnRow ==
  ASSUME PipelineAlone, TypeOK, stray = {}, RowFollows,
         WorkerStep("main") \/ WorkerFault("main")
  PROVE  /\ Running("main")
         /\ UNCHANGED req /\ stray' = {}
         /\ run'["main"].status \in {"running", "closed"}
         /\ run["main"].stage = "failed" => Stopped'
         /\ \/ UNCHANGED <<rows, index>>
            \/ run["main"].stage \in ProcessingStages
         /\ doc'.disabled = doc.disabled
         /\ ~Listed => UNCHANGED doc
         /\ Listed => /\ doc'.stage \in DocumentStage
                      /\ Position(doc.stage) <= Position(doc'.stage)
                      /\ NotAhead' /\ AsMirrored'
<1>m. "main" \in Runs
  BY DEF Runs
<1>s. run["main"].stage \in DocumentStage
  BY <1>m DEF TypeOK, RunRecord, Running
<1>p. /\ Position(run["main"].stage) \in Nat
      /\ Position(run["main"].stage) <= Position("failed") /\ Position("failed") = 13
      /\ Listed => Position(doc.stage) \in Nat
  BY <1>m, Positions DEF TypeOK, RunRecord, Listed
<1>f. /\ run["main"].stage \in ProcessingStages \cup ReviewStages => run["main"].stage # "failed"
      /\ Finished("main") /\ run["main"].stage \in LineStages => run["main"].stage # "failed"
  BY DEF ProcessingStages, ReviewStages, LineStages
<1>e. /\ Entered("main", "failed")["main"] = [kind |-> run["main"].kind, stage |-> "failed",
                                              part |-> "mirror", status |-> run["main"].status]
      /\ Entered("main", NextStage("main"))["main"] =
           [kind |-> run["main"].kind, stage |-> NextStage("main"),
            part |-> "mirror", status |-> run["main"].status]
      /\ Closed("main")["main"].status = "closed"
      /\ Closed("main")["main"].stage = run["main"].stage
      /\ [run EXCEPT !["main"].part = "body"]["main"].stage = run["main"].stage
      /\ [run EXCEPT !["main"].part = "body"]["main"].status = run["main"].status
  BY <1>m DEF Entered, Closed, TypeOK, RunRecord
<1>1. ASSUME Mirrored(run["main"].stage), Mirroring("main")
      PROVE  /\ doc'.disabled = doc.disabled
             /\ ~Listed => UNCHANGED doc
             /\ Listed => /\ doc'.stage = run["main"].stage
                          /\ Position(doc.stage) <= Position(run["main"].stage)
  BY <1>1, <1>m, <1>s DEF Mirrored, SetStage, TypeOK, RowFollows, NotAhead, Mirroring
<1>2. CASE MirrorDone("main")
  <2>1. Finished("main") \/ run["main"].stage # "failed"
    BY DEF Finished
  <2>2. /\ Mirrored(run["main"].stage) /\ Mirroring("main")
        /\ UNCHANGED <<stray, rows, index, req>>
        /\ run' = IF Finished("main") THEN Closed("main") ELSE [run EXCEPT !["main"].part = "body"]
    BY <1>2 DEF MirrorDone, outsideVars
  <2>3. /\ run'["main"].stage = run["main"].stage
        /\ run'["main"].status \in {"running", "closed"}
        /\ Finished("main") => run'["main"].status = "closed"
    BY <1>e, <2>2 DEF Mirroring, Running
  <2>4. /\ doc'.disabled = doc.disabled
        /\ ~Listed => UNCHANGED doc
        /\ Listed => /\ doc'.stage = run["main"].stage
                     /\ Position(doc.stage) <= Position(run["main"].stage)
    BY <1>1, <2>2
  <2>5. run["main"].stage = "failed" => Stopped'
    BY <2>1, <2>3 DEF Stopped
  <2>6. Running("main")
    BY <2>2 DEF Mirroring
  <2>7. Listed => /\ doc'.stage \in DocumentStage
                  /\ Position(doc.stage) <= Position(doc'.stage)
                  /\ Position(doc'.stage) <= Position(run'["main"].stage)
                  /\ doc'.stage = run'["main"].stage
    BY <1>s, <1>p, <2>3, <2>4
  <2> QED
    BY <2>2, <2>3, <2>4, <2>5, <2>6, <2>7 DEF NotAhead, AsMirrored
<1>3. CASE MirrorRepeated("main")
  <2>1. /\ Mirrored(run["main"].stage) /\ Mirroring("main")
        /\ UNCHANGED <<run, stray, rows, index, req>>
    BY <1>3 DEF MirrorRepeated, outsideVars, workerVars
  <2>2. /\ doc'.disabled = doc.disabled
        /\ ~Listed => UNCHANGED doc
        /\ Listed => /\ doc'.stage = run["main"].stage
                     /\ Position(doc.stage) <= Position(run["main"].stage)
    BY <1>1, <2>1
  <2>3. Running("main") /\ run'["main"].status = "running"
    BY <2>1 DEF Mirroring, Running
  <2>4. run["main"].stage = "failed" => Stopped'
    BY <2>1, <2>3 DEF Stopped, Running
  <2>5. Listed => /\ doc'.stage \in DocumentStage
                  /\ Position(doc.stage) <= Position(doc'.stage)
                  /\ Position(doc'.stage) <= Position(run'["main"].stage)
                  /\ doc'.stage = run'["main"].stage
    BY <1>s, <1>p, <2>1, <2>2
  <2> QED
    BY <2>1, <2>2, <2>3, <2>4, <2>5 DEF NotAhead, AsMirrored
<1>4. CASE \/ MirrorExhausted("main") \/ PassGate("main") \/ BeginAttempt("main")
           \/ WriteEffect("main") \/ ReturnAttempt("main") \/ AttemptFails("main")
           \/ AttemptTimesOut("main") \/ PublishRejected("main")
  <2>1. Running("main") /\ UNCHANGED <<doc, req>>
    BY <1>4 DEF MirrorExhausted, PassGate, BeginAttempt, WriteEffect, ReturnAttempt,
       AttemptFails, AttemptTimesOut, PublishRejected, Mirroring, AtGate, Processing,
       sqliteVars
  <2>2. stray' = {}
    BY <1>4, <1>m, NoneAbandoned DEF MirrorExhausted, PassGate, BeginAttempt, WriteEffect,
       ReturnAttempt, AttemptFails, AttemptTimesOut, PublishRejected
  <2>3. UNCHANGED <<rows, index>> \/ run["main"].stage \in ProcessingStages
    BY <1>4 DEF MirrorExhausted, PassGate, BeginAttempt, WriteEffect, ReturnAttempt,
       AttemptFails, AttemptTimesOut, PublishRejected, sqliteVars, outsideVars, Processing
  <2>4. \/ UNCHANGED run
        \/ run' = Closed("main") /\ run["main"].stage = "failed"
        \/ run' = Entered("main", "failed")
        \/ run' = Entered("main", NextStage("main"))
             /\ run["main"].stage \in ProcessingStages \cup ReviewStages
    BY <1>4 DEF MirrorExhausted, PassGate, BeginAttempt, WriteEffect, ReturnAttempt,
       AttemptFails, AttemptTimesOut, PublishRejected, AtGate, Processing, Retried
  <2>5. /\ run'["main"].status \in {"running", "closed"}
        /\ UNCHANGED run \/ run'["main"].status = "closed" \/ run'["main"].part = "mirror"
        /\ run["main"].stage = "failed" => Stopped'
    BY <1>e, <1>f, <2>1, <2>4 DEF Running, Stopped
  <2>6. Listed => NotAhead /\ AsMirrored /\ doc.stage \in DocumentStage
    BY DEF RowFollows, Listed
  <2>7. Listed => Position(doc.stage) <= 13
    BY Positions DEF Listed
  <2>8. Listed => NotAhead'
    <3>1. CASE UNCHANGED run
      BY <2>1, <2>6, <3>1 DEF NotAhead
    <3>2. CASE run'["main"].stage = "failed"
      BY <1>p, <2>1, <2>7, <3>2 DEF NotAhead
    <3>3. CASE /\ run' = Entered("main", NextStage("main"))
               /\ run["main"].stage \in ProcessingStages \cup ReviewStages
      <4>1. NextStage("main") \in DocumentStage
        BY <1>m, <3>3, NextStageType
      <4>2. /\ Position(NextStage("main")) \in Nat
            /\ Position(run["main"].stage) <= Position(NextStage("main"))
        BY <1>m, <3>3, <4>1, NextIsAhead, Positions
      <4>3. /\ run'["main"].stage = NextStage("main")
            /\ run["main"].stage = "chunking" => NextStage("main") = "chunk_review"
        BY <1>e, <3>3 DEF NextStage, Following
      <4> QED
        BY <1>p, <2>1, <2>6, <4>2, <4>3 DEF NotAhead
    <3> QED
      BY <1>e, <2>4, <3>1, <3>2, <3>3
  <2>9. Listed => AsMirrored'
    BY <2>1, <2>5, <2>6 DEF AsMirrored, Running
  <2> QED
    BY <1>p, <2>1, <2>2, <2>3, <2>5, <2>6, <2>8, <2>9
<1>5. CASE ReconcileRow("main")
  <2>1. /\ Processing("main") /\ Closing("chunking") /\ run["main"].stage = "chunking"
        /\ UNCHANGED <<run, stray, rows, index, req>>
    BY <1>5 DEF ReconcileRow, outsideVars
  <2>2. /\ Running("main") /\ run["main"].part = "body"
        /\ run["main"].stage \in ProcessingStages /\ run["main"].stage # "failed"
        /\ run'["main"].status = "running"
    BY <2>1 DEF Processing, Running
  <2>3. ~Listed => UNCHANGED doc
    BY <2>1 DEF Closing
  <2>4. CASE Listed
    <3>1. doc.stage \in {"chunking", "registered", "ocr_review", "chunk_review"}
      BY <2>1, <2>2, <2>4 DEF RowFollows, AsMirrored
    <3>2. /\ doc'.disabled = doc.disabled
          /\ doc'.stage \in {doc.stage, "ocr_review", "chunk_review"}
          /\ Position(doc.stage) <= Position(doc'.stage)
      BY <2>1, <3>1, ClosingRow
    <3>3. doc'.stage \in {"chunking", "registered", "ocr_review", "chunk_review"}
      BY <3>1, <3>2
    <3>4. doc'.stage \in DocumentStage
      BY <3>3, StageSets DEF ProcessingStages, ReviewStages
    <3>5. NotAhead' /\ AsMirrored'
      BY <2>1, <2>2, <3>3 DEF NotAhead, AsMirrored, Position, Rank
    <3> QED
      BY <2>1, <2>2, <2>4, <3>2, <3>4, <3>5
  <2> QED
    BY <2>1, <2>2, <2>3, <2>4
<1> QED
  BY <1>2, <1>3, <1>4, <1>5 DEF WorkerStep, WorkerFault

\* A stopped pipeline stays stopped, a closed one stays closed, and neither
\* writes content any more: a step of the pipeline keeps the row its mirror.
LEMMA RowByWorker ==
  ASSUME PipelineAlone, TypeOK, RowParts, WorkerStep("main") \/ WorkerFault("main")
  PROVE  RowParts' /\ GoesForward /\ IndexesNothing
<1> USE DEF RowParts
<1>1. /\ Running("main")
      /\ UNCHANGED req /\ stray' = {}
      /\ run'["main"].status \in {"running", "closed"}
      /\ run["main"].stage = "failed" => Stopped'
      /\ UNCHANGED <<rows, index>> \/ run["main"].stage \in ProcessingStages
      /\ doc'.disabled = doc.disabled
      /\ ~Listed => UNCHANGED doc
      /\ Listed => /\ doc'.stage \in DocumentStage
                   /\ Position(doc.stage) <= Position(doc'.stage)
                   /\ NotAhead' /\ AsMirrored'
  BY WorkerOnRow
<1>2. run["main"].status # "closed" /\ "failed" \notin ProcessingStages
  BY <1>1 DEF Running, ProcessingStages
<1>3. /\ doc'.stage = "unlisted" <=> doc.stage = "unlisted"
      /\ doc'.stage = "purged" <=> doc.stage = "purged"
      /\ Listed' <=> Listed
  BY <1>1, StageSets DEF Listed
<1>4. Stopped => Stopped' /\ UNCHANGED <<rows, index>>
  BY <1>1, <1>2 DEF Stopped
<1>5. RegisteredOnce'
  BY <1>1, <1>3 DEF RegisteredOnce, Absent, Running, Idle
<1>6. OnlyRemovals'
  BY <1>1 DEF OnlyRemovals
<1>7. ~CallsMayFail => RemovalLasts'
  BY <1>1, <1>2, <1>3, <1>4 DEF RemovalLasts
<1>8. RowFollows'
  BY <1>1, <1>3 DEF RowFollows
<1>9. ~CallsMayFail => PurgedStaysPurged'
  BY <1>2, <1>3 DEF RemovalLasts, PurgedStaysPurged
<1>10. GoesForward
  <2>1. doc.stage \notin DocumentStage => doc' = doc
    BY <1>1 DEF Listed
  <2>2. doc.stage \in DocumentStage \cup {"unlisted", "purged"}
    BY DEF TypeOK
  <2>3. Position(doc.stage) \in Nat
    BY <2>2, Positions
  <2> QED
    BY <1>1, <2>1, <2>3 DEF GoesForward, Listed
<1>11. IndexesNothing
  BY <1>4 DEF IndexesNothing, RemovalLasts
<1> QED
  BY <1>1, <1>5, <1>6, <1>7, <1>8, <1>9, <1>10, <1>11

\* Where a request alone changes, and goes on with nothing but its answer, its
\* job or its signal, the row and the removals are as before.
LEMMA RowUntouched ==
  ASSUME TypeOK, RowParts, NEW q \in Requests, NEW new,
         req' = [req EXCEPT ![q] = new], UNCHANGED <<run, stray, doc, rows, index>>,
         new.pc \in {"idle", "job", "signal", "validate", "start"},
         new.pc = "job" => new.op = "upload",
         new.pc # "idle" => Listed \/ req[q].pc \notin {"idle", "register"}
  PROVE  RowParts' /\ GoesForward /\ IndexesNothing
<1> USE DEF RowParts
<1>1. req'[q] = new /\ \A p \in Requests : p # q => req'[p] = req[p]
  BY DEF TypeOK
<1>2. new.pc # "idle" => doc.stage # "unlisted" /\ ~Absent("main")
  BY StageSets DEF RegisteredOnce, Listed, Idle
<1>3. RegisteredOnce'
  BY <1>1, <1>2 DEF RegisteredOnce, Absent, Idle
<1>4. OnlyRemovals'
  BY <1>1 DEF OnlyRemovals
<1>5. ~CallsMayFail => RemovalLasts'
  BY <1>1 DEF RemovalLasts, Stopped, Running
<1>6. RowFollows' /\ (~CallsMayFail => PurgedStaysPurged')
  BY DEF RowFollows, NotAhead, AsMirrored, PurgedStaysPurged, Listed, Running
<1>7. GoesForward
  <2>1. doc.stage \in DocumentStage \cup {"unlisted", "purged"}
    BY DEF TypeOK
  <2>2. Position(doc.stage) \in Nat
    BY <2>1, Positions
  <2> QED
    BY <2>2 DEF GoesForward
<1> QED
  BY <1>3, <1>4, <1>5, <1>6, <1>7 DEF IndexesNothing

\* The upload registers its row once: it is the first request, the workflow
\* has just started, and the row starts at the beginning of the line.
LEMMA RowByUpload ==
  ASSUME TypeOK, RowParts, NEW q \in Requests, Upload(q) \/ Register(q)
  PROVE  RowParts' /\ GoesForward /\ IndexesNothing
<1> USE DEF RowParts
<1>m. "main" \in Runs
  BY DEF Runs
<1>1. CASE Upload(q)
  <2>1. /\ doc.stage = "unlisted" /\ UNCHANGED <<stray, doc, rows, index>>
        /\ run["main"].status = "absent"
        /\ req' = [req EXCEPT ![q] = [op |-> "upload", pc |-> "register", arg |-> "none",
                                      run |-> "main"]]
    BY <1>1 DEF Upload, Starts, Absent, Arrives, sqliteVars, outsideVars
  <2>2. /\ req'[q].pc = "register" /\ req'[q].op = "upload"
        /\ \A p \in Requests : p # q => req'[p] = req[p]
    BY <2>1 DEF TypeOK
  <2>3. run'["main"].status = "running"
    BY <1>1, <1>m DEF Upload, Starts, TypeOK
  <2>4. \A p \in Requests : Idle(p)
    BY <2>1 DEF RegisteredOnce, Absent
  <2>5. RegisteredOnce'
    BY <2>1, <2>2, <2>3, <2>4 DEF RegisteredOnce, Absent, Idle
  <2>6. OnlyRemovals' /\ (~CallsMayFail => PurgedStaysPurged')
    BY <2>1, <2>2 DEF OnlyRemovals, PurgedStaysPurged
  <2>7. ~CallsMayFail => RemovalLasts'
    BY <2>1, <2>2, <2>4 DEF RemovalLasts, RegisteredOnce, Idle
  <2>8. RowFollows' /\ GoesForward /\ IndexesNothing
    BY <2>1, StageSets DEF RowFollows, NotAhead, AsMirrored, Listed, GoesForward, IndexesNothing
  <2> QED
    BY <2>1, <2>5, <2>6, <2>7, <2>8
<1>2. CASE Register(q)
  <2>1. /\ req[q].pc = "register" /\ doc' = [stage |-> "registered", disabled |-> FALSE]
        /\ UNCHANGED <<run, stray, rows, index>>
        /\ req' = [req EXCEPT ![q] = [op |-> req[q].op, pc |-> "job", arg |-> req[q].arg,
                                      run |-> req[q].run]]
    BY <1>2 DEF Register, Proceeds, Continues, workerVars, outsideVars
  <2>2. req'[q].pc = "job" /\ req'[q].op = req[q].op
        /\ \A p \in Requests : p # q => req'[p] = req[p]
    BY <2>1 DEF TypeOK
  <2>3. doc.stage = "unlisted" /\ ~Absent("main")
        /\ \A p \in Requests \ {q} : req[p].pc # "register"
    BY <2>1 DEF RegisteredOnce, Idle
  <2>4. RegisteredOnce'
    BY <2>1, <2>2, <2>3 DEF RegisteredOnce, Absent
  <2>5. OnlyRemovals'
    BY <2>1, <2>2 DEF OnlyRemovals
  <2>6. ~CallsMayFail => RemovalLasts'
    BY <2>1, <2>2 DEF RemovalLasts, Stopped, Running
  <2>7. RowFollows'
    BY <1>m, <2>1, Positions DEF RowFollows, NotAhead, AsMirrored, TypeOK, RunRecord
  <2>8. (~CallsMayFail => PurgedStaysPurged') /\ GoesForward /\ IndexesNothing
    BY <2>1, <2>3 DEF PurgedStaysPurged, GoesForward, IndexesNothing
  <2> QED
    BY <2>1, <2>4, <2>5, <2>6, <2>7, <2>8
<1> QED
  BY <1>1, <1>2

\* A removal begins by stopping the pipeline. Where calls do not fail that
\* leaves it stopped, and a purge leaves it closed.
LEMMA RowByRemove ==
  ASSUME PipelineAlone, TypeOK, RowParts, NEW q \in Requests,
         NEW op \in {"disable", "hide_only", "purge"}, Remove(q, op)
  PROVE  RowParts' /\ GoesForward /\ IndexesNothing
<1> USE DEF RowParts
<1>m. "main" \in Runs
  BY DEF Runs
<1>1. /\ Listed /\ Idle(q) /\ UNCHANGED <<doc, rows, index>>
      /\ req' = [req EXCEPT ![q] = [op |-> op, pc |-> "hide", arg |-> "none", run |-> "main"]]
  BY DEF Remove, Arrives, sqliteVars, outsideVars
<1>2. /\ req'[q].pc = "hide" /\ req'[q].op = op
      /\ \A p \in Requests : p # q => req'[p] = req[p]
  BY <1>1 DEF TypeOK
<1>3. doc.stage # "unlisted" /\ ~Absent("main")
  BY <1>1, StageSets DEF RegisteredOnce, Listed
<1>4. \/ ~Running("main") /\ UNCHANGED <<run, stray>>
      \/ Running("main") /\ op = "purge" /\ Terminated
      \/ Running("main") /\ op # "purge" /\ Cancelled
      \/ Running("main") /\ CallsMayFail /\ UNCHANGED <<run, stray>>
  BY DEF Remove
<1>5. stray' = {}
  BY <1>m, <1>4, NoneAbandoned DEF Terminated, Cancelled
<1>6. /\ run'["main"].status \in {"running", "closed"}
      /\ run["main"].status = "closed" => run'["main"].status = "closed"
      /\ ~CallsMayFail => Stopped' /\ (op = "purge" => run'["main"].status = "closed")
      /\ UNCHANGED run \/ run'["main"].status = "closed" \/ run'["main"].part = "mirror"
      /\ run'["main"].stage \in {run["main"].stage, "failed"}
  <2>1. CASE ~Running("main") /\ UNCHANGED run
    <3>1. run["main"].status = "closed"
      BY <1>m, <1>3, <2>1 DEF TypeOK, RunRecord, Absent, Running
    <3> QED
      BY <2>1, <3>1 DEF Stopped, Running
  <2>2. CASE Running("main") /\ run' = Closed("main")
    BY <1>m, <2>2 DEF Closed, TypeOK, RunRecord, Stopped, Running
  <2>3. CASE Running("main") /\ op # "purge" /\ run' = Entered("main", "failed")
    BY <1>m, <2>3 DEF Entered, TypeOK, RunRecord, Stopped, Running
  <2>4. CASE Running("main") /\ CallsMayFail /\ UNCHANGED run
    BY <2>4 DEF Running
  <2> QED
    BY <1>4, <2>1, <2>2, <2>3, <2>4 DEF Terminated, Cancelled
<1>7. RegisteredOnce'
  BY <1>1, <1>2, <1>3, <1>6 DEF RegisteredOnce, Absent
<1>8. OnlyRemovals' /\ (~CallsMayFail => PurgedStaysPurged')
  BY <1>1, <1>2 DEF OnlyRemovals, PurgedStaysPurged
<1>9. ~CallsMayFail => RemovalLasts'
  BY <1>1, <1>2, <1>6 DEF RemovalLasts
<1>10. RowFollows' /\ GoesForward
  <2>1. /\ Position(doc.stage) \in Nat /\ Position(run["main"].stage) \in Nat
        /\ Position(run["main"].stage) <= 13 /\ Position(doc.stage) <= 13
        /\ Position("failed") = 13
    BY <1>m, <1>1, Positions DEF Listed, TypeOK, RunRecord
  <2>2. CASE UNCHANGED run
    BY <1>1, <2>1, <2>2 DEF RowFollows, NotAhead, AsMirrored, GoesForward, Running
  <2>3. CASE /\ run'["main"].status = "closed" \/ run'["main"].part = "mirror"
             /\ run'["main"].stage = "failed"
    BY <1>1, <2>1, <2>3 DEF RowFollows, NotAhead, AsMirrored, GoesForward, Running
  <2>4. CASE run' = Closed("main")
    BY <1>m, <1>1, <2>1, <2>4 DEF Closed, TypeOK, RunRecord, RowFollows, NotAhead,
       AsMirrored, GoesForward, Running
  <2> QED
    BY <1>m, <1>4, <2>2, <2>3, <2>4 DEF Terminated, Cancelled, Entered, TypeOK
<1> QED
  BY <1>1, <1>5, <1>7, <1>8, <1>9, <1>10 DEF IndexesNothing

\* The rest of a removal works on a pipeline that has stopped.
LEMMA RowByHide ==
  ASSUME TypeOK, RowParts, NEW q \in Requests, Hide(q)
  PROVE  RowParts' /\ GoesForward /\ IndexesNothing
<1> USE DEF RowParts
<1>1. PICK new \in {IdleRequest, [op |-> req[q].op, pc |-> "dev", arg |-> req[q].arg,
                                  run |-> req[q].run]} :
        req' = [req EXCEPT ![q] = new]
  BY DEF Hide, Answered, Proceeds, Continues
<1>2. /\ req[q].pc = "hide" /\ UNCHANGED <<run, stray, rows, index>>
      /\ doc' = IF Listed THEN [doc EXCEPT !.disabled = TRUE] ELSE doc
  BY DEF Hide, workerVars, outsideVars
<1>3. /\ req'[q] = new /\ \A p \in Requests : p # q => req'[p] = req[p]
      /\ new.pc \in {"idle", "dev"}
      /\ new.pc = "dev" => new.op = req[q].op
  BY <1>1 DEF TypeOK, IdleRequest
<1>4. /\ doc'.stage = doc.stage
      /\ doc'.disabled => doc.disabled \/ Listed
      /\ Listed' <=> Listed
  BY <1>2 DEF TypeOK, Listed
<1>5. (~CallsMayFail => Stopped) /\ doc.stage # "unlisted" /\ ~Absent("main")
  BY <1>2 DEF RemovalLasts, RegisteredOnce, Idle
<1>6. RegisteredOnce'
  BY <1>2, <1>3, <1>4, <1>5 DEF RegisteredOnce, Absent
<1>7. OnlyRemovals' /\ (~CallsMayFail => PurgedStaysPurged')
  BY <1>2, <1>3, <1>4 DEF OnlyRemovals, PurgedStaysPurged
<1>8. /\ ~CallsMayFail => Stopped'
      /\ run["main"].status = "closed" => run'["main"].status = "closed"
  BY <1>2, <1>5 DEF Stopped, Running
<1>9. ~CallsMayFail => RemovalLasts'
  BY <1>2, <1>3, <1>4, <1>8 DEF RemovalLasts
<1>10. RowFollows'
  BY <1>2, <1>4 DEF RowFollows, NotAhead, AsMirrored, Running
<1>11. GoesForward
  <2>1. doc.stage \in DocumentStage \cup {"unlisted", "purged"}
    BY DEF TypeOK
  <2>2. Position(doc.stage) \in Nat
    BY <2>1, Positions
  <2> QED
    BY <1>4, <2>2 DEF GoesForward
<1> QED
  BY <1>2, <1>6, <1>7, <1>9, <1>10, <1>11 DEF IndexesNothing

\* Points are deleted for good, since the pipeline that could write them again
\* has stopped.
LEMMA RowByDelete ==
  ASSUME TypeOK, RowParts, NEW q \in Requests, DeleteFromDev(q) \/ DeleteFromProd(q)
  PROVE  RowParts' /\ GoesForward /\ IndexesNothing
<1> USE DEF RowParts
<1>1. UNCHANGED <<run, stray, doc, rows>> /\ index' \subseteq index
  BY DEF DeleteFromDev, DeleteFromProd, DeletePoints, workerVars, sqliteVars
<1>2. PICK new \in {IdleRequest} \cup
                   {[op |-> req[q].op, pc |-> pc, arg |-> req[q].arg, run |-> req[q].run] :
                      pc \in {"prod", "rows"}} :
        req' = [req EXCEPT ![q] = new]
  BY DEF DeleteFromDev, DeleteFromProd, Answered, Proceeds, Continues
<1>3. /\ req'[q] = new /\ \A p \in Requests : p # q => req'[p] = req[p]
      /\ new.pc \in {"idle", "prod", "rows"}
      /\ new.pc # "idle" => new.op = req[q].op
  BY <1>2 DEF TypeOK, IdleRequest
<1>4. /\ req[q].pc \in {"dev", "prod"}
      /\ new.pc = "rows" => req[q].pc = "prod" /\ req[q].op = "purge"
      /\ ~CallsMayFail => /\ new.pc = "prod" => "dev" \notin index'
                          /\ new.pc = "rows" => "prod" \notin index'
  <2>1. CASE DeleteFromDev(q)
    <3>1. req'[q].pc = "prod"
      BY <2>1 DEF DeleteFromDev, Proceeds, Continues, TypeOK
    <3> QED
      BY <1>3, <2>1, <3>1 DEF DeleteFromDev, DeletePoints
  <2>2. CASE DeleteFromProd(q)
    <3>1. req'[q].pc = "idle" \/ (req'[q].pc = "rows" /\ req[q].op = "purge")
      BY <2>2 DEF DeleteFromProd, Proceeds, Continues, Answered, IdleRequest, TypeOK
    <3> QED
      BY <1>3, <2>2, <3>1 DEF DeleteFromProd, DeletePoints
  <2> QED
    BY <2>1, <2>2
<1>5. (~CallsMayFail => Stopped) /\ doc.stage # "unlisted" /\ ~Absent("main")
  BY <1>4 DEF RemovalLasts, RegisteredOnce, Idle
<1>6. RegisteredOnce'
  BY <1>1, <1>3, <1>5 DEF RegisteredOnce, Absent
<1>7. OnlyRemovals'
  BY <1>1, <1>3, <1>4 DEF OnlyRemovals
<1>8. ~CallsMayFail => RemovalLasts'
  <2>1. /\ ~CallsMayFail => Stopped'
        /\ run["main"].status = "closed" => run'["main"].status = "closed"
    BY <1>1, <1>5 DEF Stopped, Running
  <2>2. ASSUME ~CallsMayFail, NEW p \in Requests, req'[p].pc \in {"hide", "dev", "prod", "rows"},
               req'[p].op = "purge"
        PROVE  /\ run'["main"].status = "closed"
               /\ req'[p].pc \in {"prod", "rows"} => "dev" \notin index'
               /\ req'[p].pc = "rows" => "prod" \notin index'
    BY <1>1, <1>3, <1>4, <2>1, <2>2 DEF RemovalLasts
  <2> QED
    BY <1>1, <2>1, <2>2 DEF RemovalLasts
<1>9. RowFollows' /\ (~CallsMayFail => PurgedStaysPurged')
  BY <1>1 DEF RowFollows, NotAhead, AsMirrored, PurgedStaysPurged, Listed, Running
<1>10. GoesForward
  <2>1. doc.stage \in DocumentStage \cup {"unlisted", "purged"}
    BY DEF TypeOK
  <2>2. Position(doc.stage) \in Nat
    BY <2>1, Positions
  <2> QED
    BY <1>1, <2>2 DEF GoesForward
<1> QED
  BY <1>1, <1>6, <1>7, <1>8, <1>9, <1>10 DEF IndexesNothing

\* A purge deletes the rows last, of a document that is in no index.
LEMMA RowByPurge ==
  ASSUME TypeOK, RowParts, NEW q \in Requests, PurgeRows(q)
  PROVE  RowParts' /\ GoesForward /\ IndexesNothing
<1> USE DEF RowParts
<1>1. /\ req[q].pc = "rows" /\ UNCHANGED <<run, stray, index>>
      /\ doc' = [stage |-> "purged", disabled |-> FALSE]
      /\ rows' = [pages |-> FALSE, chunks |-> FALSE]
      /\ req' = [req EXCEPT ![q] = IdleRequest]
  BY DEF PurgeRows, Answered, workerVars, outsideVars
<1>2. /\ req'[q].pc = "idle" /\ \A p \in Requests : p # q => req'[p] = req[p]
  BY <1>1 DEF TypeOK, IdleRequest
<1>3. /\ ~CallsMayFail =>
           run["main"].status = "closed" /\ "dev" \notin index /\ "prod" \notin index
      /\ doc.stage # "unlisted" /\ ~Absent("main")
  BY <1>1 DEF RemovalLasts, OnlyRemovals, RegisteredOnce, Idle
<1>4. RegisteredOnce'
  BY <1>1, <1>2, <1>3 DEF RegisteredOnce, Absent
<1>5. OnlyRemovals'
  BY <1>2 DEF OnlyRemovals
<1>6. ~CallsMayFail => RemovalLasts'
  BY <1>1, <1>2, <1>3 DEF RemovalLasts, Stopped, Running
<1>7. RowFollows' /\ (~CallsMayFail => PurgedStaysPurged')
  BY <1>1, <1>3, StageSets DEF RowFollows, NotAhead, AsMirrored, PurgedStaysPurged, Listed, TypeOK
<1>8. GoesForward
  <2>1. doc.stage \in DocumentStage \cup {"unlisted", "purged"}
    BY DEF TypeOK
  <2>2. Position(doc.stage) \in Nat /\ Position(doc.stage) <= 14
    BY <2>1, Positions
  <2> QED
    BY <1>1, <2>2, Positions DEF GoesForward
<1> QED
  BY <1>1, <1>4, <1>5, <1>6, <1>7, <1>8 DEF IndexesNothing

\* And so does every request of the pipeline alone.
LEMMA RowByRequest ==
  ASSUME PipelineAlone, TypeOK, RowParts, NEW q \in Requests, RequestStep(q)
  PROVE  RowParts' /\ GoesForward /\ IndexesNothing
<1>o. req[q].pc \notin {"mark", "rewrite", "recount", "query", "sync"}
  BY DEF RowParts, OnlyRemovals
<1>l. Listed => doc.stage # "unlisted"
  BY StageSets DEF Listed
<1> DEFINE Fits(new) ==
             /\ req' = [req EXCEPT ![q] = new]
             /\ new.pc \in {"idle", "job", "signal", "validate", "start"}
             /\ new.pc = "job" => new.op = "upload"
             /\ new.pc # "idle" => Listed \/ req[q].pc \notin {"idle", "register"}
<1>1. ASSUME NEW new, Fits(new), UNCHANGED <<run, stray, doc, rows, index>>
      PROVE  RowParts' /\ GoesForward /\ IndexesNothing
  BY <1>1, RowUntouched
<1>2. Answered(q) => Fits(IdleRequest)
  BY DEF Answered, IdleRequest
<1>3. CASE CreateJob(q)
  <2>1. req[q].op = "upload"
    BY <1>3 DEF CreateJob, RowParts, OnlyRemovals
  <2> QED
    BY <1>1, <1>2, <1>3, <2>1 DEF CreateJob, workerVars, outsideVars
<1>4. CASE Approve(q)
  <2>1. Fits([op |-> "approve", pc |-> "signal", arg |-> Reported("main"), run |-> "main"])
    BY <1>4 DEF Approve, Arrives
  <2> QED
    BY <1>1, <1>4, <2>1 DEF Approve, workerVars, sqliteVars, outsideVars
<1>5. CASE Signal(q)
  <2>1. Answered(q) \/ Proceeds(q, "start")
    BY <1>5 DEF Signal
  <2>2. Proceeds(q, "start") =>
          Fits([op |-> req[q].op, pc |-> "start", arg |-> req[q].arg, run |-> req[q].run])
    BY <1>5 DEF Signal, Proceeds, Continues
  <2> QED
    BY <1>1, <1>2, <1>5, <2>1, <2>2 DEF Signal, sqliteVars
<1>6. CASE ApproveProd(q)
  <2>1. Listed
    BY <1>6, StageSets DEF ApproveProd, Listed, ReviewStages
  <2>2. PICK pc \in {"validate", "start"} :
          Fits([op |-> "approve_prod", pc |-> pc, arg |-> "approval_for_prod", run |-> "main"])
    BY <1>6, <2>1 DEF ApproveProd, Arrives
  <2> QED
    BY <1>1, <1>6, <2>2 DEF ApproveProd, workerVars, sqliteVars, outsideVars
<1>7. CASE ValidateProd(q)
  <2>1. PICK pc \in {"signal", "start"} :
          Fits([op |-> req[q].op, pc |-> pc, arg |-> req[q].arg, run |-> req[q].run])
    BY <1>7 DEF ValidateProd, Proceeds, Continues
  <2> QED
    BY <1>1, <1>7, <2>1 DEF ValidateProd, workerVars, sqliteVars, outsideVars
<1>8. CASE RequestLost(q)
  BY <1>1, <1>2, <1>8 DEF RequestLost, workerVars, sqliteVars, outsideVars
<1>9. ~StartPromote(q) /\ ~\E kind \in RerunKinds : Rerun(q, kind)
  BY DEF StartPromote, Rerun, PipelineAlone
<1>10. ~MarkPromoting(q) /\ ~Rewrite(q) /\ ~Query(q) /\ ~Sync(q)
  BY <1>o DEF MarkPromoting, Rewrite, Query, Sync
<1>11. ~Reconcile(q)
  BY DEF Reconcile, Arrives, PipelineAlone
<1> QED
  BY <1>3, <1>4, <1>5, <1>6, <1>7, <1>8, <1>9, <1>10, <1>11, RowByUpload, RowByRemove,
     RowByHide, RowByDelete, RowByPurge
     DEF RequestStep

\* Each step of the pipeline alone keeps the row its mirror, never moves it
\* back and adds nothing of a disabled document to an index.
LEMMA RowByStep ==
  ASSUME PipelineAlone, TypeOK, RowParts, [Next]_vars
  PROVE  RowParts' /\ [GoesForward /\ IndexesNothing]_vars
<1>1. ASSUME NEW r \in Runs, WorkerStep(r) \/ WorkerFault(r)
      PROVE  RowParts' /\ GoesForward /\ IndexesNothing
  <2>1. r = "main"
    BY DEF Runs, PipelineAlone
  <2> QED
    BY <1>1, <2>1, RowByWorker
<1>2. ~\E s \in stray : StrayStep(s)
  BY DEF RowParts
<1>3. ASSUME NEW q \in Requests, RequestStep(q)
      PROVE  RowParts' /\ GoesForward /\ IndexesNothing
  BY <1>3, RowByRequest
<1>4. CASE Restore
  <2>1. /\ UNCHANGED <<run, stray, rows, req, index>> /\ Listed
        /\ doc'.stage = doc.stage /\ ~doc'.disabled
    BY <1>4 DEF Restore, TypeOK, workerVars, outsideVars
  <2>2. /\ doc.stage \in DocumentStage /\ Position(doc.stage) \in Nat
        /\ doc.stage # "unlisted" /\ doc.stage # "purged"
    BY <2>1, Positions, StageSets DEF Listed
  <2>3. RegisteredOnce' /\ OnlyRemovals'
    BY <2>1, <2>2 DEF RowParts, RegisteredOnce, OnlyRemovals, Absent, Idle
  <2>4. ~CallsMayFail => RemovalLasts'
    BY <2>1, <2>2 DEF RowParts, RemovalLasts, Stopped, Running
  <2>5. RowFollows' /\ (~CallsMayFail => PurgedStaysPurged')
    BY <2>1, <2>2 DEF RowParts, RowFollows, NotAhead, AsMirrored, PurgedStaysPurged, Listed, Running
  <2>6. GoesForward /\ IndexesNothing
    BY <2>1, <2>2 DEF GoesForward, IndexesNothing
  <2> QED
    BY <2>1, <2>3, <2>4, <2>5, <2>6 DEF RowParts
<1>5. CASE UNCHANGED vars
  <2>1. UNCHANGED <<run, stray, doc, rows, req, index>>
    BY <1>5 DEF vars
  <2>2. RegisteredOnce' /\ OnlyRemovals'
    BY <2>1 DEF RowParts, RegisteredOnce, OnlyRemovals, Absent, Idle
  <2>3. ~CallsMayFail => RemovalLasts'
    BY <2>1 DEF RowParts, RemovalLasts, Stopped, Running
  <2>4. RowFollows' /\ (~CallsMayFail => PurgedStaysPurged')
    BY <2>1 DEF RowParts, RowFollows, NotAhead, AsMirrored, PurgedStaysPurged, Listed, Running
  <2> QED
    BY <1>5, <2>1, <2>2, <2>3, <2>4 DEF RowParts
<1> QED
  BY <1>1, <1>2, <1>3, <1>4, <1>5 DEF Next

\* In the beginning there is no row, no request and no index.
LEMMA InitRow == Init => RowParts
<1> SUFFICES ASSUME Init PROVE RowParts
  OBVIOUS
<1>1. /\ stray = {} /\ doc.stage = "unlisted" /\ ~doc.disabled
      /\ \A q \in Requests : req[q].pc = "idle"
  BY DEF Init, IdleRequest
<1> QED
  BY <1>1, StageSets DEF RowParts, RegisteredOnce, OnlyRemovals, RemovalLasts, RowFollows,
     PurgedStaysPurged, Listed, Idle

\* The row of a pipeline alone is its mirror, whatever fails, is repeated or
\* arrives twice.
THEOREM RowIsMirror == ASSUME PipelineAlone PROVE Spec => []RowInv
<1>1. Init => RowInv
  BY InitInv, InitRow DEF RowInv, RowParts
<1>2. RowInv /\ [Next]_vars => RowInv'
  <2> SUFFICES ASSUME RowInv, [Next]_vars PROVE RowInv'
    OBVIOUS
  <2>1. TypeOK /\ RowParts /\ DeliveryInv
    BY DEF RowInv, RowParts, DeliveryInv
  <2>2. DeliveryInv'
    BY <2>1, NextInv
  <2>3. RowParts'
    BY <2>1, RowByStep
  <2> QED
    BY <2>2, <2>3 DEF RowInv, RowParts
<1> QED
  BY <1>1, <1>2, PTL DEF Spec

\* While the pipeline waits for a reviewer, the row offers the approval it
\* waits for, or still says what the upload registered.
THEOREM RowAgrees == ASSUME PipelineAlone PROVE Spec => []RowAgreesWhenQuiet
<1>1. RowInv => RowAgreesWhenQuiet
  <2>1. "chunking" \notin ReviewStages
    BY DEF ReviewStages
  <2> QED
    BY <2>1 DEF RowInv, RowFollows, AsMirrored, RowAgreesWhenQuiet, Quiet, AtGate, Runs
<1> QED
  BY <1>1, RowIsMirror, PTL

\* Where calls do not fail, what was purged comes back neither to the tables
\* nor to an index.
THEOREM PurgeLasts ==
  ASSUME PipelineAlone, ~CallsMayFail
  PROVE  Spec => []PurgedStaysPurged
<1>1. RowInv => PurgedStaysPurged
  BY DEF RowInv
<1> QED
  BY <1>1, RowIsMirror, PTL

\* The stage shown to users never moves back.
THEOREM RowNeverMovesBack == ASSUME PipelineAlone PROVE Spec => RowMovesForward
<1>1. RowInv /\ [Next]_vars =>
        [doc.stage # "unlisted" => Position(doc.stage) <= Position(doc'.stage)]_vars
  <2> SUFFICES ASSUME RowInv, [Next]_vars
               PROVE  [doc.stage # "unlisted" => Position(doc.stage) <= Position(doc'.stage)]_vars
    OBVIOUS
  <2>1. TypeOK /\ RowParts
    BY DEF RowInv, RowParts, DeliveryInv
  <2> QED
    BY <2>1, RowByStep DEF GoesForward
<1> QED
  BY <1>1, RowIsMirror, PTL DEF Spec, RowMovesForward

\* Nor does anything of a document enter an index while it is disabled.
THEOREM DisabledStaysOut ==
  ASSUME PipelineAlone, ~CallsMayFail
  PROVE  Spec => NothingIndexedWhileDisabled
<1>1. RowInv /\ [Next]_vars => [doc.disabled /\ doc'.disabled => index' \subseteq index]_vars
  <2> SUFFICES ASSUME RowInv, [Next]_vars
               PROVE  [doc.disabled /\ doc'.disabled => index' \subseteq index]_vars
    OBVIOUS
  <2>1. TypeOK /\ RowParts
    BY DEF RowInv, RowParts, DeliveryInv
  <2> QED
    BY <2>1, RowByStep DEF IndexesNothing
<1> QED
  BY <1>1, RowIsMirror, PTL DEF Spec, NothingIndexedWhileDisabled
=============================================================================
