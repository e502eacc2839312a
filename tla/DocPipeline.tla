---------------------------- MODULE DocPipeline ----------------------------
(***************************************************************************)
(* One document on its way from upload to the network.                     *)
(*                                                                         *)
(* Three kinds of process act on it, each with its own idea of where it    *)
(* stands:                                                                 *)
(*                                                                         *)
(*   - the Temporal worker runs the document's pipeline and, beside it,    *)
(*     any number of re-runs (retry OCR, reingest, promote, ...), every    *)
(*     workflow with a stage of its own;                                   *)
(*   - activities read and write SQLite and the vector indexes, and an     *)
(*     attempt that Temporal gave up on may still be at work (`stray`);    *)
(*   - API requests read SQLite or query a workflow and act on the answer  *)
(*     after an await, when the answer may be stale.                       *)
(*                                                                         *)
(* The SQLite row's stage is only a mirror, written by all three.          *)
(*                                                                         *)
(* did and granted are history variables: what was delivered to the        *)
(* outside and which decisions of users were accepted.                     *)
(***************************************************************************)
EXTENDS Stages, FiniteSets

CONSTANTS
  Extra,       \* workflows that can be started beside the pipeline's own
  Requests,    \* API requests that can be in flight at once
  Ops,         \* the operations users issue
  Options,     \* what an upload may ask for: [auto, ocrOnly, skipProd]
  DISABLE_PROD,              \* DISABLE_PROD_SETTING of the API process
  ENABLE_PUBLISH_TO_NETWORK,
  CallsMayFail,   \* calls to Temporal and the vector stores may fail
  MaxAttempts,    \* attempts of an activity before its workflow fails
  MaxStray        \* abandoned attempts that can still be running at once

Runs == {"main"} \cup Extra

ASSUME RunsAssumption == {"main", "none"} \cap Extra = {}
ASSUME OptionsAssumption ==
  Options \subseteq [auto : BOOLEAN, ocrOnly : BOOLEAN, skipProd : BOOLEAN]
ASSUME AttemptsAssumption == MaxAttempts \in Nat \ {0} /\ MaxStray \in Nat
ASSUME SettingsAssumption ==
  {DISABLE_PROD, ENABLE_PUBLISH_TO_NETWORK, CallsMayFail} \subseteq BOOLEAN

VARIABLES
  run,       \* workflow executions: kind, stage, part of the stage, status
  opt,       \* the options the document was uploaded with
  approved,  \* approval flags set in the pipeline workflow
  task,      \* the activity attempt each workflow waits for
  stray,     \* attempts still running after Temporal gave up on them
  doc,       \* the documents row: stage and is_disabled
  rows,      \* are there pages, are there chunks
  job,       \* the latest document_jobs row: whose it is, is it running
  req,       \* API requests in flight
  index,     \* vector collections that hold points of the document
  did,       \* history: "ingest", "promote", "announce"
  granted    \* history: gates and re-ingestion that users decided

workerVars  == <<run, opt, approved, task, stray>>
sqliteVars  == <<doc, rows, job>>
outsideVars == <<index, did, granted>>
vars == <<run, opt, approved, task, stray, doc, rows, job, req, index, did, granted>>

-----------------------------------------------------------------------------
RunningStages == {"registered"} \cup ProcessingStages

IdleTask == [pc |-> "idle", saw |-> FALSE, tries |-> 0]
IdleRequest == [op |-> "none", pc |-> "idle", arg |-> "none", run |-> "main"]

RequestOps == {"none", "upload", "approve", "approve_prod", "disable", "purge",
               "hide_only", "restore", "reconcile"} \cup RerunKinds
ASSUME OpsAssumption == Ops \subseteq RequestOps \ {"none"}

RequestSteps == {"idle", "register", "job", "signal", "validate", "start", "mark",
                 "hide", "dev", "prod", "rows", "rewrite", "recount", "query", "sync"}
Decisions == ReviewStages \cup {"reingest"}
Deliveries == {"ingest", "promote", "announce"}
AttemptSteps == {"began", "wrote", "reconciled"}

RunRecord ==
  [kind : WorkflowKinds, stage : DocumentStage, part : {"mirror", "body"},
   status : {"absent", "running", "closed"}]
TaskRecord == [pc : {"idle"} \cup AttemptSteps, saw : BOOLEAN, tries : Nat]
StrayRecord == [stage : ProcessingStages, saw : BOOLEAN, pc : AttemptSteps]
RequestRecord ==
  [op : RequestOps, pc : RequestSteps, arg : DocumentStage \cup {"none"}, run : Runs]

TypeOK ==
  /\ run \in [Runs -> RunRecord]
  /\ opt \in [auto : BOOLEAN, ocrOnly : BOOLEAN, skipProd : BOOLEAN]
  /\ approved \subseteq ReviewStages
  /\ task \in [Runs -> TaskRecord]
  /\ stray \subseteq StrayRecord
  /\ doc \in [stage : DocumentStage \cup {"unlisted", "purged"}, disabled : BOOLEAN]
  /\ rows \in [pages : BOOLEAN, chunks : BOOLEAN]
  /\ job \in [owner : Runs \cup {"none"}, running : BOOLEAN]
  /\ req \in [Requests -> RequestRecord]
  /\ index \subseteq {"dev", "prod"}
  /\ did \subseteq Deliveries
  /\ granted \subseteq Decisions

Init ==
  /\ run = [r \in Runs |-> [kind |-> "pipeline", stage |-> "registered",
                            part |-> "mirror", status |-> "absent"]]
  /\ opt = [auto |-> FALSE, ocrOnly |-> FALSE, skipProd |-> FALSE]
  /\ approved = {}
  /\ task = [r \in Runs |-> IdleTask]
  /\ stray = {}
  /\ doc = [stage |-> "unlisted", disabled |-> FALSE]
  /\ rows = [pages |-> FALSE, chunks |-> FALSE]
  /\ job = [owner |-> "none", running |-> FALSE]
  /\ req = [q \in Requests |-> IdleRequest]
  /\ index = {}
  /\ did = {}
  /\ granted = {}

-----------------------------------------------------------------------------
(* The SQLite row.                                                         *)

Listed == doc.stage \in DocumentStage

\* UPDATE documents SET stage: without a row it changes nothing.
SetStage(stage) == doc' = IF Listed THEN [doc EXCEPT !.stage = stage] ELSE doc

\* (defect) The mirror inserts the row it does not find.
Mirrored_inserting(stage) ==
  /\ doc' = [doc EXCEPT !.stage = stage]
  /\ job' = IF job.owner = "none" THEN job
            ELSE [job EXCEPT !.running = stage \in RunningStages]

\* update_document_state: the row, then whichever job is the latest one.
Mirrored(stage) ==
  /\ SetStage(stage)
  /\ job' = IF job.owner = "none" THEN job
            ELSE [job EXCEPT !.running = stage \in RunningStages]

\* The stage reconcile_materialized_state reads off the rows.
Materialized(stage, content) ==
  IF content.chunks /\ stage \notin ChunkedStages THEN "chunk_review"
  ELSE IF content.pages /\ ~content.chunks /\ stage \in {"registered", "ocr_processing"}
  THEN "ocr_review"
  ELSE stage

Rewritten(stage) ==
  /\ SetStage(stage)
  /\ job' = [job EXCEPT !.running = FALSE]

-----------------------------------------------------------------------------
(* Workflows.                                                              *)

Absent(r) == run[r].status = "absent"
Running(r) == run[r].status = "running"

\* handle.start_workflow: the first workflow task is taken at once.
Starts(r, kind) ==
  /\ Absent(r)
  /\ run' = [run EXCEPT ![r] = [kind |-> kind, stage |-> FirstStage[kind],
                                part |-> "mirror", status |-> "running"]]

LastStage(r) ==
  IF run[r].kind = "pipeline" /\ opt.ocrOnly THEN "ocr_review"
  ELSE FinalStage[run[r].kind]

Finished(r) == run[r].stage \in {"failed", LastStage(r)}

\* (defect) Announced when it is in DEV, promoted afterwards.
NextStage_publishFirst(r) ==
  CASE run[r].stage = "ingesting"             -> "publishing_to_network"
    [] run[r].stage = "publishing_to_network" -> "approval_for_prod"
    [] run[r].stage = "ingesting_prod"        -> "completed"
    [] OTHER                                  -> Following[run[r].stage]

\* (defect) DEV is followed by PROD without a gate.
NextStage_ungated(r) ==
  IF run[r].stage = "ingesting" THEN "ingesting_prod" ELSE Following[run[r].stage]

NextStage(r) ==
  IF run[r].kind = "pipeline" /\ run[r].stage = "ingesting" /\ opt.skipProd
  THEN "completed"
  ELSE Following[run[r].stage]

\* The get_state query. The pipeline moves its stage before the mirror, the
\* re-runs after their first one, the promotion after its last one.
Reported(r) ==
  IF run[r].part = "mirror" /\ run[r].kind \in RerunKinds /\ Running(r)
     /\ run[r].stage = FirstStage[run[r].kind]
  THEN DefaultStage[run[r].kind]
  ELSE IF run[r].part = "mirror" /\ run[r].kind = "promote" /\ Running(r)
          /\ run[r].stage = "completed"
  THEN "publishing_to_network"
  ELSE run[r].stage

Entered(r, stage) ==
  [run EXCEPT ![r] = [kind |-> run[r].kind, stage |-> stage,
                      part |-> "mirror", status |-> run[r].status]]
Closed(r) == [run EXCEPT ![r].status = "closed"]

Mirroring(r) == Running(r) /\ run[r].part = "mirror"

\* (defect) The mirror is not awaited: the workflow goes on when it is lost.
MirrorDone_unawaited(r) ==
  /\ Mirroring(r)
  /\ Mirrored(run[r].stage) \/ UNCHANGED <<doc, job>>
  /\ run' = IF Finished(r) THEN Closed(r) ELSE [run EXCEPT ![r].part = "body"]
  /\ UNCHANGED <<opt, approved, task, stray, rows, req>> /\ UNCHANGED outsideVars

\* The local activity of _mirror_state returned and the workflow goes on.
MirrorDone(r) ==
  /\ Mirroring(r)
  /\ Mirrored(run[r].stage)
  /\ run' = IF Finished(r) THEN Closed(r) ELSE [run EXCEPT ![r].part = "body"]
  /\ UNCHANGED <<opt, approved, task, stray, rows, req>> /\ UNCHANGED outsideVars

\* The local activity ran, but the worker stopped before the workflow task
\* that records it was completed: it will run again.
MirrorRepeated(r) ==
  /\ Mirroring(r)
  /\ Mirrored(run[r].stage)
  /\ UNCHANGED workerVars /\ UNCHANGED <<rows, req>> /\ UNCHANGED outsideVars

\* STATE_UPDATE_RETRY ran out. The `except` mirrors "failed", and swallows a
\* second failure.
MirrorExhausted(r) ==
  /\ Mirroring(r)
  /\ run' = IF run[r].stage = "failed" THEN Closed(r) ELSE Entered(r, "failed")
  /\ UNCHANGED <<opt, approved, task, stray, req>>
  /\ UNCHANGED sqliteVars /\ UNCHANGED outsideVars

\* (defect) One flag for all gates.
GateOpen_anyApproval(g) == approved # {} \/ (opt.auto /\ g \in DevGates)

\* wait_condition of the pipeline. PROD is never approved automatically.
GateOpen(g) == g \in approved \/ (opt.auto /\ g \in DevGates)

AtGate(r) == Running(r) /\ run[r].part = "body" /\ run[r].stage \in ReviewStages

\* (defect) The gate goes by the mirrored row.
PassGate_byRow(r) ==
  /\ AtGate(r)
  /\ GateOpen(run[r].stage)
  /\ doc.stage = run[r].stage
  /\ run' = Entered(r, NextStage(r))
  /\ UNCHANGED <<opt, approved, task, stray, req>>
  /\ UNCHANGED sqliteVars /\ UNCHANGED outsideVars

PassGate(r) ==
  /\ AtGate(r)
  /\ GateOpen(run[r].stage)
  /\ run' = Entered(r, NextStage(r))
  /\ UNCHANGED <<opt, approved, task, stray, req>>
  /\ UNCHANGED sqliteVars /\ UNCHANGED outsideVars

-----------------------------------------------------------------------------
(* Activities: an attempt reads, works for a long time, writes, returns.   *)

Processing(r) == Running(r) /\ run[r].part = "body" /\ run[r].stage \in ProcessingStages

\* What the activity of a stage finds in SQLite when it begins.
Input(stage) ==
  CASE stage \in {"translation_processing", "chunking"} -> rows.pages
    [] stage \in {"ingesting", "ingesting_prod"}        -> rows.chunks
    [] OTHER                                            -> TRUE

Delivers ==
  [ocr_processing |-> {}, translation_processing |-> {}, chunking |-> {},
   ingesting |-> {"ingest"}, ingesting_prod |-> {"promote"},
   publishing_to_network |-> IF ENABLE_PUBLISH_TO_NETWORK THEN {"announce"} ELSE {}]

Indexes ==
  [ocr_processing |-> {}, translation_processing |-> {}, chunking |-> {},
   ingesting |-> {"dev"}, ingesting_prod |-> {"prod"}, publishing_to_network |-> {}]

\* save_pages replaces the pages it was given and deletes none; save_chunks
\* replaces all of them; upsert adds points and deletes none.
Effect(stage, saw) ==
  /\ rows' = [pages  |-> rows.pages \/ stage = "ocr_processing"
                                    \/ (stage = "translation_processing" /\ saw),
              chunks |-> IF stage = "chunking" THEN saw ELSE rows.chunks]
  /\ index' = IF saw THEN index \cup Indexes[stage] ELSE index
  /\ did' = did \cup Delivers[stage]

\* create_chunks_from_db reconciles the row when it has saved the chunks.
Closing(stage) ==
  IF stage = "chunking" /\ Listed /\ Materialized(doc.stage, rows) # doc.stage
  THEN Rewritten(Materialized(doc.stage, rows))
  ELSE UNCHANGED <<doc, job>>

BeginAttempt(r) ==
  /\ Processing(r)
  /\ task[r].pc = "idle"
  /\ task' = [task EXCEPT ![r] = [pc |-> "began", saw |-> Input(run[r].stage),
                                  tries |-> task[r].tries]]
  /\ UNCHANGED <<run, opt, approved, stray, req>>
  /\ UNCHANGED sqliteVars /\ UNCHANGED outsideVars

WriteEffect(r) ==
  /\ Processing(r)
  /\ task[r].pc = "began"
  /\ Effect(run[r].stage, task[r].saw)
  /\ task' = [task EXCEPT ![r].pc = "wrote"]
  /\ UNCHANGED <<run, opt, approved, stray, doc, job, req, granted>>

ReconcileRow(r) ==
  /\ Processing(r)
  /\ run[r].stage = "chunking"
  /\ task[r].pc = "wrote"
  /\ Closing("chunking")
  /\ task' = [task EXCEPT ![r].pc = "reconciled"]
  /\ UNCHANGED <<run, opt, approved, stray, rows, req>> /\ UNCHANGED outsideVars

LastStep(stage) == IF stage = "chunking" THEN "reconciled" ELSE "wrote"

ReturnAttempt(r) ==
  /\ Processing(r)
  /\ task[r].pc = LastStep(run[r].stage)
  /\ task' = [task EXCEPT ![r] = IdleTask]
  /\ run' = Entered(r, NextStage(r))
  /\ UNCHANGED <<opt, approved, stray, req>>
  /\ UNCHANGED sqliteVars /\ UNCHANGED outsideVars

\* (defect) No maximum_attempts.
Retried_forever(r) == task' = [task EXCEPT ![r] = IdleTask] /\ UNCHANGED run

\* (defect) After the last attempt the workflow goes on as if it had succeeded.
Retried_goingOn(r) ==
  IF task[r].tries + 1 < MaxAttempts
  THEN /\ task' = [task EXCEPT ![r] = [IdleTask EXCEPT !.tries = task[r].tries + 1]]
       /\ UNCHANGED run
  ELSE /\ task' = [task EXCEPT ![r] = IdleTask]
       /\ run' = Entered(r, NextStage(r))

\* Temporal schedules the next attempt, or the retry policy is exhausted and
\* the workflow's `except` marks it failed.
Retried(r) ==
  IF task[r].tries + 1 < MaxAttempts
  THEN /\ task' = [task EXCEPT ![r] = [IdleTask EXCEPT !.tries = task[r].tries + 1]]
       /\ UNCHANGED run
  ELSE /\ task' = [task EXCEPT ![r] = IdleTask]
       /\ run' = Entered(r, "failed")

AttemptFails(r) ==
  /\ Processing(r)
  /\ task[r].pc # "idle"
  /\ Retried(r)
  /\ UNCHANGED <<opt, approved, stray, req>>
  /\ UNCHANGED sqliteVars /\ UNCHANGED outsideVars

\* The attempt nobody waits for any more goes on, within the bound, or dies.
Abandoned(r) ==
  \/ UNCHANGED stray
  \/ /\ task[r].pc # "idle"
     /\ Cardinality(stray) < MaxStray
     /\ stray' = stray \cup {[stage |-> run[r].stage, saw |-> task[r].saw, pc |-> task[r].pc]}

\* start_to_close_timeout, or the heartbeat_timeout of OCR.
AttemptTimesOut(r) ==
  /\ Processing(r)
  /\ task[r].pc # "idle"
  /\ Abandoned(r)
  /\ Retried(r)
  /\ UNCHANGED <<opt, approved, req>> /\ UNCHANGED sqliteVars /\ UNCHANGED outsideVars

\* (defect) A rejected catalog is logged, and the workflow completes.
PublishRejected_swallowed(r) ==
  /\ Processing(r)
  /\ run[r].stage = "publishing_to_network"
  /\ task[r].pc = "began"
  /\ ENABLE_PUBLISH_TO_NETWORK
  /\ task' = [task EXCEPT ![r] = IdleTask]
  /\ run' = Entered(r, "completed")
  /\ UNCHANGED <<opt, approved, stray, req>>
  /\ UNCHANGED sqliteVars /\ UNCHANGED outsideVars

\* The Discovery Service rejected the catalog, or its settings are missing:
\* a non-retryable ApplicationError.
PublishRejected(r) ==
  /\ Processing(r)
  /\ run[r].stage = "publishing_to_network"
  /\ task[r].pc = "began"
  /\ ENABLE_PUBLISH_TO_NETWORK
  /\ task' = [task EXCEPT ![r] = IdleTask]
  /\ run' = Entered(r, "failed")
  /\ UNCHANGED <<opt, approved, stray, req>>
  /\ UNCHANGED sqliteVars /\ UNCHANGED outsideVars

StrayWrites(s) ==
  /\ s \in stray
  /\ s.pc = "began"
  /\ Effect(s.stage, s.saw)
  /\ stray' = (stray \ {s}) \cup {[s EXCEPT !.pc = "wrote"]}
  /\ UNCHANGED <<run, opt, approved, task, doc, job, req, granted>>

\* Whatever it returns is dropped: the attempt is not the current one.
StrayReturns(s) ==
  /\ s \in stray
  /\ s.pc = "wrote"
  /\ Closing(s.stage)
  /\ stray' = stray \ {s}
  /\ UNCHANGED <<run, opt, approved, task, rows, req>> /\ UNCHANGED outsideVars

StrayDies(s) ==
  /\ s \in stray
  /\ stray' = stray \ {s}
  /\ UNCHANGED <<run, opt, approved, task, req>>
  /\ UNCHANGED sqliteVars /\ UNCHANGED outsideVars

WorkerStep(r) ==
  \/ MirrorDone(r)
  \/ PassGate(r)
  \/ BeginAttempt(r)
  \/ WriteEffect(r)
  \/ ReconcileRow(r)
  \/ ReturnAttempt(r)

WorkerFault(r) ==
  \/ MirrorRepeated(r)
  \/ MirrorExhausted(r)
  \/ AttemptFails(r)
  \/ AttemptTimesOut(r)
  \/ PublishRejected(r)

StrayStep(s) == StrayWrites(s) \/ StrayReturns(s) \/ StrayDies(s)

-----------------------------------------------------------------------------
(* API requests. Every await is a boundary between two steps.              *)

Idle(q) == req[q].pc = "idle"

Arrives(q, op, pc, arg, r) ==
  /\ Idle(q)
  /\ op \in Ops
  /\ req' = [req EXCEPT ![q] = [op |-> op, pc |-> pc, arg |-> arg, run |-> r]]

Continues(q, pc, arg, r) ==
  req' = [req EXCEPT ![q] = [op |-> req[q].op, pc |-> pc, arg |-> arg, run |-> r]]
Proceeds(q, pc) == Continues(q, pc, req[q].arg, req[q].run)
Answered(q) == req' = [req EXCEPT ![q] = IdleRequest]

\* start_document_workflow, upload_and_process: the workflow first ...
Upload(q) ==
  /\ doc.stage = "unlisted"
  /\ Starts("main", "pipeline")
  /\ opt' \in Options
  /\ Arrives(q, "upload", "register", "none", "main")
  /\ UNCHANGED <<approved, task, stray>>
  /\ UNCHANGED sqliteVars /\ UNCHANGED outsideVars

\* ... then its row, which starts over at "registered" ...
Register(q) ==
  /\ req[q].pc = "register"
  /\ doc' = [stage |-> "registered", disabled |-> FALSE]
  /\ Proceeds(q, "job")
  /\ UNCHANGED workerVars /\ UNCHANGED <<rows, job>> /\ UNCHANGED outsideVars

\* ... then its job; re-runs and promotions record theirs the same way.
CreateJob(q) ==
  /\ req[q].pc = "job"
  /\ job' = [owner |-> req[q].run, running |-> TRUE]
  /\ IF req[q].op = "approve_prod" THEN Proceeds(q, "mark") ELSE Answered(q)
  /\ UNCHANGED workerVars /\ UNCHANGED <<doc, rows>> /\ UNCHANGED outsideVars

\* (defect) The stage is not validated before the signal.
Approve_unvalidated(q) ==
  /\ Listed
  /\ ~Absent("main")
  /\ \E g \in DevGates : Arrives(q, "approve", "signal", g, "main")
  /\ UNCHANGED workerVars /\ UNCHANGED sqliteVars /\ UNCHANGED outsideVars

\* (defect) Whatever stage the pipeline reports is approved.
Approve_anyStage(q) ==
  /\ Listed
  /\ ~Absent("main")
  /\ Arrives(q, "approve", "signal", Reported("main"), "main")
  /\ UNCHANGED workerVars /\ UNCHANGED sqliteVars /\ UNCHANGED outsideVars

\* approve_ocr, approve_translation, approve_chunks, approve_ingestion: the
\* pipeline, not the row, is asked for its stage ...
Approve(q) ==
  /\ Listed
  /\ ~Absent("main")
  /\ Reported("main") \in DevGates
  /\ Arrives(q, "approve", "signal", Reported("main"), "main")
  /\ UNCHANGED workerVars /\ UNCHANGED sqliteVars /\ UNCHANGED outsideVars

\* ... and signalled after the answer. A closed workflow refuses the signal.
Delivered(q) ==
  /\ Running("main")
  /\ approved' = approved \cup {req[q].arg}
  /\ granted' = granted \cup {req[q].arg}

Refused ==
  /\ ~Running("main") \/ CallsMayFail
  /\ UNCHANGED <<approved, granted>>

\* A call that raises is an error to the reviewer. For approve_prod it is the
\* reason to start a promotion of its own, even if it was delivered and only
\* its acknowledgement got lost.
Signal(q) ==
  /\ req[q].pc = "signal"
  /\ \/ Delivered(q) /\ Answered(q)
     \/ /\ Refused \/ (CallsMayFail /\ Delivered(q))
        /\ IF req[q].op = "approve_prod" THEN Proceeds(q, "start") ELSE Answered(q)
  /\ UNCHANGED <<run, opt, task, stray, index, did>> /\ UNCHANGED sqliteVars

\* (defect) A document of any stage can be promoted.
ApproveProd_anyStage(q) ==
  /\ Listed
  /\ Arrives(q, "approve_prod",
             IF doc.stage = "approval_for_prod" THEN "validate" ELSE "start",
             "approval_for_prod", "main")
  /\ UNCHANGED workerVars /\ UNCHANGED sqliteVars /\ UNCHANGED outsideVars

\* approve_prod goes by the row, not by the workflow.
ApproveProd(q) ==
  /\ doc.stage \in {"approval_for_prod", "completed"}
  /\ DISABLE_PROD => doc.stage = "approval_for_prod"
  /\ Arrives(q, "approve_prod",
             IF doc.stage = "approval_for_prod" THEN "validate" ELSE "start",
             "approval_for_prod", "main")
  /\ UNCHANGED workerVars /\ UNCHANGED sqliteVars /\ UNCHANGED outsideVars

\* Any trouble with the query counts as "the pipeline is not waiting".
ValidateProd(q) ==
  /\ req[q].pc = "validate"
  /\ \/ Reported("main") = "approval_for_prod" /\ Proceeds(q, "signal")
     \/ Proceeds(q, "start")
  /\ UNCHANGED workerVars /\ UNCHANGED sqliteVars /\ UNCHANGED outsideVars

StartPromote(q) ==
  /\ req[q].pc = "start"
  /\ \E r \in Extra :
       /\ Starts(r, "promote")
       /\ Continues(q, "job", req[q].arg, r)
  /\ granted' = granted \cup {"approval_for_prod"}
  /\ UNCHANGED <<opt, approved, task, stray, index, did>> /\ UNCHANGED sqliteVars

MarkPromoting(q) ==
  /\ req[q].pc = "mark"
  /\ SetStage("ingesting_prod")
  /\ Answered(q)
  /\ UNCHANGED workerVars /\ UNCHANGED <<rows, job>> /\ UNCHANGED outsideVars

\* retry_ocr, retry_translation, retry_chunking, reingest_document: none asks
\* whether the pipeline, or another re-run, is still at work on the document.
Rerun(q, kind) ==
  /\ Listed
  /\ kind \in {"translation_only", "chunking_only"} => rows.pages
  /\ kind = "reingest" => rows.chunks
  /\ \E r \in Extra : Starts(r, kind) /\ Arrives(q, kind, "job", "none", r)
  /\ granted' = granted \cup ({kind} \cap Decisions)
  /\ UNCHANGED <<opt, approved, task, stray, index, did>> /\ UNCHANGED sqliteVars

\* handle.cancel reaches wait_condition as CancelledError, which no `except
\* Exception` catches; an activity or a local activity as a failure.
Cancelled ==
  /\ run' = IF AtGate("main") \/ run["main"].stage = "failed" THEN Closed("main")
            ELSE Entered("main", "failed")
  /\ task' = [task EXCEPT !["main"] = IdleTask]
  /\ Abandoned("main")

Terminated ==
  /\ run' = Closed("main")
  /\ task' = [task EXCEPT !["main"] = IdleTask]
  /\ Abandoned("main")

\* (defect) The workflow is not stopped.
Remove_unstopped(q, op) ==
  /\ Listed
  /\ Arrives(q, op, "hide", "none", "main")
  /\ UNCHANGED workerVars /\ UNCHANGED sqliteVars /\ UNCHANGED outsideVars

\* disable_document stops the pipeline's workflow only, and goes on whatever
\* comes of it: a closed workflow and a Temporal that does not answer are one.
Remove(q, op) ==
  /\ Listed
  /\ Arrives(q, op, "hide", "none", "main")
  /\ IF ~Running("main") THEN UNCHANGED <<run, task, stray>>
     ELSE \/ op = "purge" /\ Terminated
          \/ op # "purge" /\ Cancelled
          \/ CallsMayFail /\ UNCHANGED <<run, task, stray>>
  /\ UNCHANGED <<opt, approved>> /\ UNCHANGED sqliteVars /\ UNCHANGED outsideVars

\* hide_only is a disable with remove_from_search=false.
Hide(q) ==
  /\ req[q].pc = "hide"
  /\ doc' = IF Listed THEN [doc EXCEPT !.disabled = TRUE] ELSE doc
  /\ IF req[q].op = "hide_only" THEN Answered(q) ELSE Proceeds(q, "dev")
  /\ UNCHANGED workerVars /\ UNCHANGED <<rows, job>> /\ UNCHANGED outsideVars

\* An error of the vector store is reported in the answer, nothing more.
DeletePoints(collection) ==
  \/ index' = index \ {collection}
  \/ CallsMayFail /\ UNCHANGED index

DeleteFromDev(q) ==
  /\ req[q].pc = "dev"
  /\ DeletePoints("dev")
  /\ Proceeds(q, "prod")
  /\ UNCHANGED workerVars /\ UNCHANGED sqliteVars /\ UNCHANGED <<did, granted>>

DeleteFromProd(q) ==
  /\ req[q].pc = "prod"
  /\ DeletePoints("prod")
  /\ IF req[q].op = "purge" THEN Proceeds(q, "rows") ELSE Answered(q)
  /\ UNCHANGED workerVars /\ UNCHANGED sqliteVars /\ UNCHANGED <<did, granted>>

PurgeRows(q) ==
  /\ req[q].pc = "rows"
  /\ doc' = [stage |-> "purged", disabled |-> FALSE]
  /\ rows' = [pages |-> FALSE, chunks |-> FALSE]
  /\ job' = [owner |-> "none", running |-> FALSE]
  /\ Answered(q)
  /\ UNCHANGED workerVars /\ UNCHANGED outsideVars

Restore ==
  /\ "restore" \in Ops
  /\ Listed
  /\ doc' = [doc EXCEPT !.disabled = FALSE]
  /\ UNCHANGED workerVars /\ UNCHANGED <<rows, job, req>> /\ UNCHANGED outsideVars

\* _reconcile_single_document. First against the rows that exist; a wrong
\* count alone makes it write the stage it read once more.
Reconcile(q) ==
  LET seen == Materialized(doc.stage, rows)
      runtime == IF job.owner # "none" /\ job.running THEN job.owner ELSE "main"
  IN /\ Listed
     /\ \/ seen # doc.stage /\ Arrives(q, "reconcile", "rewrite", seen, "main")
        \/ /\ seen = doc.stage
           /\ rows.pages \/ rows.chunks
           /\ Arrives(q, "reconcile", "recount", seen, "main")
        \/ seen = doc.stage /\ Arrives(q, "reconcile", "query", seen, runtime)
     /\ UNCHANGED workerVars /\ UNCHANGED sqliteVars /\ UNCHANGED outsideVars

Rewrite(q) ==
  /\ req[q].pc \in {"rewrite", "recount"}
  /\ IF req[q].pc = "rewrite" THEN Rewritten(req[q].arg)
     ELSE SetStage(req[q].arg) /\ UNCHANGED job
  /\ Answered(q)
  /\ UNCHANGED workerVars /\ UNCHANGED rows /\ UNCHANGED outsideVars

\* Then against the workflow that should be running. A query that times out,
\* or finds a workflow past its retention, makes the document failed.
Query(q) ==
  /\ req[q].pc = "query"
  /\ \E answer \in {Reported(req[q].run), "failed"} :
       IF answer = req[q].arg THEN Answered(q)
       ELSE Continues(q, "sync", answer, req[q].run)
  /\ UNCHANGED workerVars /\ UNCHANGED sqliteVars /\ UNCHANGED outsideVars

Sync(q) ==
  /\ req[q].pc = "sync"
  /\ SetStage(req[q].arg)
  /\ Answered(q)
  /\ UNCHANGED workerVars /\ UNCHANGED <<rows, job>> /\ UNCHANGED outsideVars

\* The API process stops, or a call of the request raises.
RequestLost(q) ==
  /\ ~Idle(q)
  /\ Answered(q)
  /\ UNCHANGED workerVars /\ UNCHANGED sqliteVars /\ UNCHANGED outsideVars

RequestStep(q) ==
  \/ Upload(q)
  \/ Register(q)
  \/ CreateJob(q)
  \/ Approve(q)
  \/ Signal(q)
  \/ ApproveProd(q)
  \/ ValidateProd(q)
  \/ StartPromote(q)
  \/ MarkPromoting(q)
  \/ \E kind \in RerunKinds : Rerun(q, kind)
  \/ \E op \in {"disable", "hide_only", "purge"} : Remove(q, op)
  \/ Hide(q)
  \/ DeleteFromDev(q)
  \/ DeleteFromProd(q)
  \/ PurgeRows(q)
  \/ Reconcile(q)
  \/ Rewrite(q)
  \/ Query(q)
  \/ Sync(q)
  \/ RequestLost(q)

-----------------------------------------------------------------------------
Next ==
  \/ \E r \in Runs : WorkerStep(r) \/ WorkerFault(r)
  \/ \E s \in stray : StrayStep(s)
  \/ \E q \in Requests : RequestStep(q)
  \/ Restore

Spec == Init /\ [][Next]_vars

\* Only the worker is fair. Temporal keeps a workflow's next task until a
\* worker takes it, and every attempt ends by its start_to_close_timeout.
\* Users, their requests and abandoned attempts owe nobody a step.
Fairness == \A r \in Runs : WF_vars(WorkerStep(r))

FairSpec == Spec /\ Fairness

-----------------------------------------------------------------------------
(* Safety.                                                                 *)

\* Every gate the pipeline left behind was opened by its own approval: an
\* approval for one gate, a repeated or a late one never opens another. Only
\* automatic approval opens the gates of DEV, and only skip_prod leaves out
\* the gate of PROD (the wait_conditions of DocumentPipelineWorkflow.run).
GatesInOrder ==
  \A g \in ReviewStages :
    (run["main"].stage \in LineStages /\ Rank[g] < Rank[run["main"].stage])
      => \/ g \in approved
         \/ opt.auto /\ g \in DevGates
         \/ opt.skipProd /\ g = "approval_for_prod"

\* The approval flags are sticky, so one set too early would open a gate that
\* nobody has looked at yet. _validate_approval_stage and the signal are two
\* calls, but the flag of a gate is never set before the pipeline reached it.
ApprovalNotEarly ==
  run["main"].stage \in LineStages =>
    \A g \in approved : Rank[g] <= Rank[run["main"].stage]

\* A row that says "completed" is about a document that was ingested and,
\* unless PROD was switched off when it was uploaded, promoted and announced,
\* whichever workflow, retry or reconciliation wrote the row.
CompletedMeansDelivered ==
  doc.stage = "completed" =>
    /\ "ingest" \in did
    /\ opt.skipProd \/ (Delivers.ingesting_prod \cup Delivers.publishing_to_network) \subseteq did

\* Nothing enters the PROD index unless a superadmin approved it, by way of
\* the pipeline's gate or of a promotion of its own (approve_prod).
ProdOnlyByApproval == "promote" \in did => "approval_for_prod" \in granted

\* "A document never reaches the network without first promoting to PROD"
\* (CONTEXT.md, ADR 0004).
NetworkOnlyAfterProd == "announce" \in did => "promote" \in did

\* The document's deliveries and decisions follow the contract.
Contract == INSTANCE DeliveryContract WITH auto <- opt.auto

DeliversByContract == Contract!Spec

-----------------------------------------------------------------------------
(* Why the deliveries are safe: the inductive invariant of the proofs.     *)

\* An attempt exists only while its workflow waits for it.
TaskShape == \A r \in Runs : task[r].pc # "idle" => Processing(r)

\* Which workflow is where on the line of stages.
RunShape ==
  /\ run["main"].kind = "pipeline"
  /\ Absent("main") => run["main"].stage = "registered"
  /\ opt.skipProd => run["main"].stage \notin PROD_ONLY_STAGES
  /\ \A r \in Extra : ~Absent(r) =>
       \/ /\ run[r].kind \in RerunKinds
          /\ run[r].stage \in {FirstStage[run[r].kind], FinalStage[run[r].kind], "failed"}
          /\ run[r].part = "body" => run[r].stage = FirstStage[run[r].kind]
       \/ /\ run[r].kind = "promote"
          /\ run[r].stage \in {"ingesting_prod", "publishing_to_network", "completed", "failed"}

\* What a request carries from one of its steps to the next, and that the
\* gate it is about to approve has been reached.
RequestShape ==
  \A q \in Requests :
    /\ req[q].pc \in {"validate", "start"} => req[q].arg = "approval_for_prod"
    /\ req[q].pc = "signal" =>
         /\ req[q].arg \in ReviewStages
         /\ req[q].op = "approve_prod" => req[q].arg = "approval_for_prod"
    /\ req[q].pc \in {"rewrite", "recount", "query", "sync"} => req[q].arg \in DocumentStage

SignalsNotEarly ==
  \A q \in Requests :
    req[q].pc = "signal" /\ run["main"].stage \in LineStages
      => Rank[req[q].arg] <= Rank[run["main"].stage]

\* Whoever can still write to PROD does it on a superadmin's decision.
ProdWritersApproved ==
  /\ approved \subseteq granted
  /\ \A r \in Extra :
       ~Absent(r) /\ run[r].kind = "promote" => "approval_for_prod" \in granted
  /\ \A s \in stray : s.stage = "ingesting_prod" => "approval_for_prod" \in granted

\* Whoever can still announce the document comes after a write to PROD.
AnnouncersPromoted ==
  /\ \A r \in Runs :
       (\/ run[r].stage = "publishing_to_network"
        \/ run[r].stage = "ingesting_prod" /\ task[r].pc = "wrote")
         => "promote" \in did
  /\ \A s \in stray :
       (\/ s.stage = "publishing_to_network"
        \/ s.stage = "ingesting_prod" /\ s.pc = "wrote")
         => "promote" \in did

\* Holds in every state, and each step keeps it: it implies the safety
\* properties above, NetworkOnlyAfterProd and ProdOnlyByApproval among them.
DeliveryInv ==
  /\ TypeOK
  /\ TaskShape
  /\ RequestShape
  /\ RunShape
  /\ GatesInOrder
  /\ ApprovalNotEarly
  /\ SignalsNotEarly
  /\ ProdWritersApproved
  /\ ProdOnlyByApproval
  /\ AnnouncersPromoted
  /\ NetworkOnlyAfterProd

-----------------------------------------------------------------------------
(* Why they follow the contract, and a completed row tells the truth.      *)

\* Until the upload nothing is there, and what is not started or not asked
\* for is as it was at the beginning.
NothingYet ==
  /\ Absent("main") =>
       /\ doc.stage = "unlisted"
       /\ granted = {} /\ did = {} /\ stray = {}
       /\ \A r \in Extra : Absent(r)
       /\ \A q \in Requests : Idle(q)
  /\ \A r \in Runs : Absent(r) => run[r].stage = "registered"
  /\ \A q \in Requests : Idle(q) => req[q] = IdleRequest

\* An approval of PROD carries its gate from the first step to the last; only
\* the reconciliation changes its mind about a stage.
CarriedStages ==
  \A q \in Requests :
    /\ req[q].op = "approve_prod" => req[q].arg = "approval_for_prod"
    /\ req[q].pc = "mark" => req[q].op = "approve_prod"
    /\ req[q].pc = "query" => req[q].op = "reconcile"

\* A signal under way for a gate of DEV finds the gates before it decided.
SignalsInOrder ==
  \A q \in Requests :
    req[q].pc = "signal" /\ req[q].arg \in DevGates =>
      opt.auto \/ \A h \in DevGates : Rank[h] < Rank[req[q].arg] => h \in granted

\* Whoever can write to DEV was let in.
MayIngest == opt.auto \/ granted \cap {"ready_for_ingestion", "reingest"} # {}

IngestersGranted ==
  /\ \A r \in Runs : run[r].stage = "ingesting" => MayIngest
  /\ \A s \in stray : s.stage = "ingesting" => MayIngest

\* Every place where a stage is on record: the row, the workflows, and the
\* requests that carry one they have read.
Recorded == {doc.stage} \cup {run[r].stage : r \in Runs} \cup {req[q].arg : q \in Requests}

\* The stages of the line that lie behind DEV.
BeyondDev == {"approval_for_prod", "ingesting_prod", "publishing_to_network", "completed"}

\* None of these is on record of a document that is not in DEV, wherever the
\* record comes from.
RecordedAfterDev ==
  /\ Recorded \cap BeyondDev # {} => "ingest" \in did
  /\ \A r \in Runs :
       run[r].stage = "ingesting" /\ task[r].pc = "wrote" => "ingest" \in did

AllDelivered ==
  opt.skipProd \/ (Delivers.ingesting_prod \cup Delivers.publishing_to_network) \subseteq did

\* Nor is its completion, before all it owes is delivered.
RecordedWhenDone ==
  /\ "completed" \in Recorded => AllDelivered
  /\ \A r \in Runs :
       run[r].stage = "publishing_to_network" /\ task[r].pc = "wrote" => AllDelivered

\* Holds in every state, and each step keeps it: with it, every step is one
\* the contract allows.
ContractInv ==
  /\ DeliveryInv
  /\ NothingYet
  /\ CarriedStages
  /\ SignalsInOrder
  /\ IngestersGranted
  /\ RecordedAfterDev
  /\ RecordedWhenDone

-----------------------------------------------------------------------------
(* The row as a mirror. These hold of the pipeline and its removal alone,  *)
(* without re-runs, reconciliation and attempts that outlive their timeout.*)

Position(stage) ==
  CASE stage = "unlisted" -> 0
    [] stage = "failed"   -> 13
    [] stage = "purged"   -> 14
    [] OTHER              -> Rank[stage]

\* The stage shown to users never moves back, though the row is written by
\* two processes and the upload registers it after the workflow has started.
RowMovesForward == [][doc.stage # "unlisted" => Position(doc.stage) <= Position(doc'.stage)]_vars

Quiet ==
  /\ \A q \in Requests : Idle(q)
  /\ \A r \in Runs : ~Running(r) \/ (AtGate(r) /\ ~GateOpen(run[r].stage))

\* Whenever the pipeline waits for a reviewer, the row says so and offers the
\* approval it waits for. The one exception is an upload that registered its
\* row only after that; the row stays "registered" until the pipeline moves.
RowAgreesWhenQuiet ==
  (Quiet /\ Listed /\ Running("main")) => doc.stage \in {run["main"].stage, "registered"}

-----------------------------------------------------------------------------
(* Removal. These, too, hold of the pipeline alone, and where the calls    *)
(* that stop it and delete its points do not fail.                         *)

\* "Remove all chunks from the DEV vector index ... Stop the workflow if it is
\* still running" (disable_document): while a document is disabled nothing is
\* added to an index.
NothingIndexedWhileDisabled ==
  [][doc.disabled /\ doc'.disabled => index' \subseteq index]_vars

\* A purge terminates the workflow first, for otherwise it "would write rows
\* back into the tables we are about to delete": what was purged stays so.
PurgedStaysPurged ==
  doc.stage = "purged" => ~rows.pages /\ ~rows.chunks /\ index = {}

-----------------------------------------------------------------------------
(* Why the row is a mirror and a removal lasts: the invariant behind the   *)
(* properties of the pipeline and its removal alone.                       *)

\* An upload registers the row once, and nothing is asked for before.
RegisteredOnce ==
  /\ Absent("main") => doc.stage = "unlisted" /\ \A q \in Requests : Idle(q)
  /\ doc.stage = "unlisted" =>
       ~doc.disabled /\ \A q \in Requests : req[q].pc \in {"idle", "register"}
  /\ \A q \in Requests : req[q].pc = "register" =>
       doc.stage = "unlisted" /\ \A p \in Requests \ {q} : req[p].pc # "register"

\* No other request moves the stage of the row.
OnlyRemovals ==
  \A q \in Requests :
    /\ req[q].pc \in {"idle", "register", "job", "signal", "validate", "start",
                      "hide", "dev", "prod", "rows"}
    /\ req[q].pc \in {"register", "job"} => req[q].op = "upload"
    /\ req[q].pc = "rows" => req[q].op = "purge"

Stopped ==
  \/ run["main"].status = "closed"
  \/ Running("main") /\ run["main"].stage = "failed"

\* A removal goes on only when the pipeline has stopped, a purge when it is
\* closed, and what it has deleted does not come back.
RemovalLasts ==
  /\ \A q \in Requests : req[q].pc \in {"hide", "dev", "prod", "rows"} =>
       /\ Stopped
       /\ req[q].op = "purge" =>
            /\ run["main"].status = "closed"
            /\ req[q].pc \in {"prod", "rows"} => "dev" \notin index
            /\ req[q].pc = "rows" => "prod" \notin index
  /\ doc.disabled => Stopped
  /\ doc.stage = "purged" => run["main"].status = "closed"

\* The row is never ahead of the pipeline, and while the pipeline works or
\* waits it is as it was mirrored, or as the upload registered it after that:
\* but for an attempt to chunk that has reconciled the row and not returned.
NotAhead ==
  \/ Position(doc.stage) <= Position(run["main"].stage)
  \/ run["main"].stage = "chunking" /\ run["main"].part = "body" /\ doc.stage = "chunk_review"

AsMirrored ==
  Running("main") /\ run["main"].part = "body" =>
    \/ doc.stage \in {run["main"].stage, "registered"}
    \/ run["main"].stage = "chunking" /\ doc.stage \in {"ocr_review", "chunk_review"}

RowFollows == Listed => NotAhead /\ AsMirrored

\* Calls may fail without harm to the mirror, but not to a removal.
RowInv ==
  /\ DeliveryInv
  /\ stray = {}
  /\ RegisteredOnce
  /\ OnlyRemovals
  /\ RowFollows
  /\ ~CallsMayFail => RemovalLasts /\ PurgedStaysPurged

-----------------------------------------------------------------------------
(* Liveness.                                                               *)

\* A workflow that runs always gets to a point where it waits for a reviewer
\* or is closed: no retry, timeout, rejection or failed mirror holds it.
WorkflowsSettle ==
  \A r \in Runs :
    Running(r) ~> (~Running(r) \/ (AtGate(r) /\ ~GateOpen(run[r].stage)))

\* An approval accepted by the pipeline moves it on from that gate.
ApprovalTakesEffect ==
  \A g \in ReviewStages :
    g \in approved ~> ~(Running("main") /\ run["main"].stage = g)
=============================================================================
