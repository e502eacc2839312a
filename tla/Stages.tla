------------------------------- MODULE Stages -------------------------------
(***************************************************************************)
(* The stages of a document and the way each Temporal workflow walks       *)
(* through them (pipeline/models.py, pipeline/workflows.py).               *)
(*                                                                         *)
(* All six workflows of the worker are stretches of ONE line of stages.    *)
(* The pipeline walks it whole; the others re-drive a part of it for a     *)
(* document that already exists.                                           *)
(***************************************************************************)
EXTENDS Naturals

\* Stages in which the worker runs an activity.
ProcessingStages ==
  {"ocr_processing", "translation_processing", "chunking",
   "ingesting", "ingesting_prod", "publishing_to_network"}

\* Stages in which the pipeline waits for somebody's approval: the gates.
ReviewStages ==
  {"ocr_review", "translation_review", "chunk_review",
   "ready_for_ingestion", "approval_for_prod"}

\* The gate the state lane can open by itself or skip with auto_approve.
DevGates == ReviewStages \ {"approval_for_prod"}

LineStages == {"registered", "completed"} \cup ProcessingStages \cup ReviewStages

DocumentStage == LineStages \cup {"failed"}

\* Stages in which reconcile_materialized_state expects chunks.
ChunkedStages ==
  {"chunk_review", "ready_for_ingestion", "ingesting", "approval_for_prod", "completed"}

\* Position of a stage in PIPELINE_STAGES.
Rank ==
  [registered             |-> 0,
   ocr_processing         |-> 1,
   ocr_review             |-> 2,
   translation_processing |-> 3,
   translation_review     |-> 4,
   chunking               |-> 5,
   chunk_review           |-> 6,
   ready_for_ingestion    |-> 7,
   ingesting              |-> 8,
   approval_for_prod      |-> 9,
   ingesting_prod         |-> 10,
   publishing_to_network  |-> 11,
   completed              |-> 12]

\* The stage a workflow enters when it leaves another one.
Following ==
  [ocr_processing         |-> "ocr_review",
   ocr_review             |-> "translation_processing",
   translation_processing |-> "translation_review",
   translation_review     |-> "chunking",
   chunking               |-> "chunk_review",
   chunk_review           |-> "ready_for_ingestion",
   ready_for_ingestion    |-> "ingesting",
   ingesting              |-> "approval_for_prod",
   approval_for_prod      |-> "ingesting_prod",
   ingesting_prod         |-> "publishing_to_network",
   publishing_to_network  |-> "completed"]

\* Stages that exist only where PROD promotion is enabled.
PROD_ONLY_STAGES ==
  {"approval_for_prod", "ingesting_prod", "publishing_to_network"}

-----------------------------------------------------------------------------
\* The workflows that re-drive a part of the line.
RerunKinds ==
  {"ocr_only", "translation_only", "chunking_only", "reingest"}

WorkflowKinds == {"pipeline", "promote"} \cup RerunKinds

FirstStage ==
  [pipeline         |-> "ocr_processing",
   ocr_only         |-> "ocr_processing",
   translation_only |-> "translation_processing",
   chunking_only    |-> "chunking",
   reingest         |-> "ingesting",
   promote          |-> "ingesting_prod"]

FinalStage ==
  [pipeline         |-> "completed",
   ocr_only         |-> "ocr_review",
   translation_only |-> "translation_review",
   chunking_only    |-> "chunk_review",
   reingest         |-> "approval_for_prod",
   promote          |-> "completed"]

\* What get_state of a re-run reports until its first mirror has returned:
\* the default stage of its state dataclass.
DefaultStage ==
  [ocr_only         |-> "registered",
   translation_only |-> "ocr_review",
   chunking_only    |-> "translation_review",
   reingest         |-> "ready_for_ingestion"]
=============================================================================
