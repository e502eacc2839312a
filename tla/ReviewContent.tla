--------------------------- MODULE ReviewContent ----------------------------
(***************************************************************************)
(* What reviewers write and what search finds.                             *)
(*                                                                         *)
(* Reviewers edit the pages and chunks of a document in SQLite at any      *)
(* time. Activities read them, work for up to 90 minutes on what they      *)
(* read, and write pages, chunks or points back. This module follows the   *)
(* texts: which edit a page, a chunk and a point in an index stems from.   *)
(*                                                                         *)
(* DocPipeline has the gates, the requests and the row; here a gate opens  *)
(* at some time, the row exists from the start, the mirror succeeds, and   *)
(* removal, reconciliation by users and the flag they can set and clear    *)
(* themselves are left out.                                                *)
(*                                                                         *)
(* owed and missed are history variables: the last edit accepted at each   *)
(* review, and whether an edit failed to set reindex_required.             *)
(***************************************************************************)
EXTENDS Stages

CONSTANTS
  Pages,        \* page numbers; every page becomes the chunk of its number
  Foreign,      \* pages that are not in English
  Spreadsheet,  \* CSV and XLSX are parsed, everything else is OCRed
  Scheme,       \* the document describes a scheme: document_kind and code are set
  Extra,        \* workflows that can be started beside the pipeline
  Ops,          \* the kinds of re-runs and edits users ask for
  MaxEdits,     \* changes users make
  MaxAttempts,  \* attempts of an activity before its workflow fails
  Late          \* places of attempts that run on although they were given up

Runs == {"main"} \cup Extra
Attempts == Runs \cup Late

ASSUME RunsAssumption == "main" \notin Extra \cup Late /\ Extra \cap Late = {}
ASSUME PagesAssumption == Foreign \subseteq Pages
ASSUME DocumentAssumption == Spreadsheet \in BOOLEAN /\ Scheme \in BOOLEAN
ASSUME BoundsAssumption == MaxEdits \in Nat /\ MaxAttempts \in Nat \ {0}

VARIABLES
  run,      \* workflows: kind, stage, part of the stage, chunk count known
  task,     \* the attempt each workflow waits for, and those that run on after
            \* Temporal gave up on them: activity, step, what was read
  doc,      \* the documents row: stage, chunk_count > 0, reindex_required
  pages,    \* the pages table
  chunks,   \* the chunks table
  dev,      \* points of the document in the DEV index
  prod,     \* points of the document in the PROD index
  req,      \* the edit the API is handling
  version,  \* changes made so far
  owed,     \* history: per page, the last edit accepted at each review
  missed    \* history: an edit that did not set reindex_required as it should

contentVars == <<pages, chunks>>
indexVars   == <<dev, prod>>
editVars    == <<req, version, owed, missed>>
vars == <<run, task, doc, pages, chunks, dev, prod, req, version, owed, missed>>

-----------------------------------------------------------------------------
(* Texts. A text is known by its origin, and by whose first 50 characters  *)
(* it begins with: they are part of the id of its point.                   *)

Origins == {"none", "ocr", "model", "edit"} \X (0..MaxEdits)
Text == [id : Origins, head : Origins]

Fresh(by, v) == [id |-> <<by, v>>, head |-> <<by, v>>]
NoText == Fresh("none", 0)
Original == Fresh("ocr", 0)

\* What the model makes of a text, and what a reviewer makes of it: an edit
\* may leave the beginning of the text as it is.
Translation(text) == Fresh("model", text.id[2])
Edited(text, v, keep) ==
  [id |-> <<"edit", v>>, head |-> IF keep THEN text.head ELSE <<"edit", v>>]

Or(text, other) == IF text # NoText THEN text ELSE other

Page == [saved : BOOLEAN, edited : Text, translated : Text, edited_translation : Text]
NoPage == [saved |-> FALSE, edited |-> NoText, translated |-> NoText,
           edited_translation |-> NoText]
FreshPage == [NoPage EXCEPT !.saved = TRUE]

Markdown(page) == Or(page.edited, Original)
best_page_text(page) ==
  Or(page.edited_translation, Or(page.translated, Markdown(page)))

Chunk == [saved : BOOLEAN, original : Text, edited : Text, excluded : BOOLEAN]
NoChunk == [saved |-> FALSE, original |-> NoText, edited |-> NoText, excluded |-> FALSE]

ChunkText(chunk) == Or(chunk.edited, chunk.original)

Point == [num : Pages, text : Text]

\* _prepare_records: one record for each chunk that is not excluded.
Records(table) ==
  {[num |-> n, text |-> ChunkText(table[n])] :
     n \in {m \in Pages : table[m].saved /\ ~table[m].excluded}}

\* (defect) A point that exists is kept.
Upserted_keeping(index, records) ==
  index \cup {q \in records : \A p \in index :
                p.num # q.num \/ p.text.head # q.text.head}

\* upsert: a record replaces the point with its id and no other one.
Upserted(index, records) ==
  records \cup {p \in index : \A q \in records :
                  p.num # q.num \/ p.text.head # q.text.head}

Blank == [n \in Pages |-> NoPage]
NoChunks == [n \in Pages |-> NoChunk]

-----------------------------------------------------------------------------
PageOps == {"page", "translation", "reset_page"}
ChunkOps == {"chunk", "exclude", "include", "reset_chunk"}
ASSUME OpsAssumption ==
  Ops \subseteq PageOps \cup ChunkOps \cup RerunKinds \cup {"promote"}

IdleTask == [stage |-> "none", pc |-> "idle", pages |-> Blank, chunks |-> NoChunks,
             tries |-> 0]
IdleRequest == [op |-> "none", pc |-> "idle", num |-> 0, keep |-> FALSE,
                mark |-> FALSE, unindex |-> FALSE]

RunRecord ==
  [kind : WorkflowKinds, stage : DocumentStage, counted : BOOLEAN,
   part : {"absent", "mirror", "body", "closed"}]
TaskRecord ==
  [stage : ProcessingStages \cup {"none"}, tries : 0..(MaxAttempts - 1),
   pc : {"idle", "scanned", "read", "wrote", "reconciled"},
   pages : [Pages -> Page], chunks : [Pages -> Chunk]]
RequestRecord ==
  [op : PageOps \cup ChunkOps \cup {"none"}, pc : {"idle", "write", "unindex", "mark"},
   num : Pages \cup {0}, keep : BOOLEAN, mark : BOOLEAN, unindex : BOOLEAN]
Reviews == {"ocr_review", "translation_review", "chunk_review"}

TypeOK ==
  /\ run \in [Runs -> RunRecord]
  /\ task \in [Attempts -> TaskRecord]
  /\ doc \in [stage : DocumentStage, counted : BOOLEAN, reindex : BOOLEAN]
  /\ pages \in [Pages -> Page]
  /\ chunks \in [Pages -> Chunk]
  /\ dev \cup prod \subseteq Point
  /\ req \in RequestRecord
  /\ version \in 0..MaxEdits
  /\ owed \in [Pages -> [Reviews -> 0..MaxEdits]]
  /\ missed \in BOOLEAN

Init ==
  /\ run = [r \in Runs |->
              [kind |-> "pipeline", counted |-> FALSE,
               stage |-> IF r = "main" THEN FirstStage["pipeline"] ELSE "registered",
               part |-> IF r = "main" THEN "mirror" ELSE "absent"]]
  /\ task = [a \in Attempts |-> IdleTask]
  /\ doc = [stage |-> "registered", counted |-> FALSE, reindex |-> FALSE]
  /\ pages = Blank
  /\ chunks = NoChunks
  /\ dev = {} /\ prod = {}
  /\ req = IdleRequest
  /\ version = 0
  /\ owed = [n \in Pages |-> [review \in Reviews |-> 0]]
  /\ missed = FALSE

-----------------------------------------------------------------------------
(* Workflows.                                                              *)

Finished(r) == run[r].stage \in {"failed", FinalStage[run[r].kind]}

Entered(r, stage, counted) ==
  [run EXCEPT ![r] = [kind |-> run[r].kind, stage |-> stage,
                      counted |-> counted, part |-> "mirror"]]

\* Every mirror overwrites the counts too, with what the workflow itself
\* knows of them: for most re-runs that is nothing.
MirrorDone(r) ==
  /\ run[r].part = "mirror"
  /\ doc' = [doc EXCEPT !.stage = run[r].stage, !.counted = run[r].counted]
  /\ run' = [run EXCEPT ![r].part = IF Finished(r) THEN "closed" ELSE "body"]
  /\ UNCHANGED task
  /\ UNCHANGED contentVars /\ UNCHANGED indexVars /\ UNCHANGED editVars

AtGate(r) == run[r].part = "body" /\ run[r].stage \in ReviewStages

\* Somebody approved.
PassGate(r) ==
  /\ AtGate(r)
  /\ run' = Entered(r, Following[run[r].stage], run[r].counted)
  /\ UNCHANGED <<task, doc>>
  /\ UNCHANGED contentVars /\ UNCHANGED indexVars /\ UNCHANGED editVars

\* retry_ocr, retry_translation, retry_chunking, reingest_document, and
\* approve_prod when the pipeline does not wait for it.
Startable(kind) ==
  /\ kind \in {"translation_only", "chunking_only"} => \E n \in Pages : pages[n].saved
  /\ kind = "reingest" => Records(chunks) # {}
  /\ kind = "promote" => /\ doc.stage \in {"approval_for_prod", "completed"}
                         /\ ~(AtGate("main") /\ run["main"].stage = "approval_for_prod")

Rerun(r, kind) ==
  /\ run[r].part = "absent"
  /\ kind \in Ops
  /\ Startable(kind)
  /\ run' = [run EXCEPT ![r] =
               [kind |-> kind, stage |-> FirstStage[kind], part |-> "mirror",
                counted |-> kind = "reingest" \/ (kind = "promote" /\ doc.counted)]]
  /\ UNCHANGED <<task, doc>>
  /\ UNCHANGED contentVars /\ UNCHANGED indexVars /\ UNCHANGED editVars

-----------------------------------------------------------------------------
(* Attempts of activities. What an attempt does is the same for one a      *)
(* workflow waits for and for one that was given up on.                    *)

Processing(r) == run[r].part = "body" /\ run[r].stage \in ProcessingStages

\* What an attempt has in hand when it begins. OCR notes which pages are
\* saved; a spreadsheet is parsed whole.
Begun(stage, tries) ==
  [stage  |-> stage,
   tries  |-> tries,
   pc     |-> IF stage = "ocr_processing" /\ ~Spreadsheet THEN "scanned" ELSE "read",
   pages  |-> CASE stage = "ocr_processing" /\ Spreadsheet -> [n \in Pages |-> FreshPage]
                [] stage \in {"ocr_processing", "translation_processing", "chunking"} -> pages
                [] OTHER -> Blank,
   chunks |-> IF stage \in {"ingesting", "ingesting_prod"} THEN chunks ELSE NoChunks]

\* A segment whose pages are saved is skipped. Here a segment is a page.
StoreSegment(a) ==
  /\ task[a].pc = "scanned"
  /\ \E n \in Pages :
       /\ ~task[a].pages[n].saved
       /\ pages' = [pages EXCEPT ![n] = FreshPage]
       /\ task' = [task EXCEPT ![a].pages[n].saved = TRUE]
  /\ UNCHANGED <<run, doc, chunks, dev, prod>>

\* After the last one run_ocr_and_store reads all pages back, to save them.
ReadBack(a) ==
  /\ task[a].pc = "scanned"
  /\ \A n \in Pages : task[a].pages[n].saved
  /\ task' = [task EXCEPT ![a].pages = pages, ![a].pc = "read"]
  /\ UNCHANGED <<run, doc, pages, chunks, dev, prod>>

\* (defect) What the reviewer made of the page is not part of the result.
Translated_fresh(page) ==
  [FreshPage EXCEPT !.translated = Translation(Markdown(page)),
                    !.edited_translation = page.edited_translation]

\* translate_pages: both edits are kept as they were read.
Translated(page) == [page EXCEPT !.translated = Translation(Markdown(page))]

\* save_pages replaces whole rows by what the attempt has in hand.
SavePages(a) ==
  /\ task[a].stage \in {"ocr_processing", "translation_processing"}
  /\ task[a].pc = "read"
  /\ pages' = [n \in Pages |->
       IF ~task[a].pages[n].saved THEN pages[n]
       ELSE IF task[a].stage = "translation_processing" /\ n \in Foreign
       THEN Translated(task[a].pages[n])
       ELSE task[a].pages[n]]
  /\ task' = [task EXCEPT ![a].pc = "wrote"]
  /\ UNCHANGED <<run, doc, chunks, dev, prod>>

\* create_chunks_from_db: a chunk of the best text of each page saved.
Chunked(table) ==
  [n \in Pages |-> IF table[n].saved
                   THEN [NoChunk EXCEPT !.saved = TRUE, !.original = best_page_text(table[n])]
                   ELSE NoChunk]

\* save_chunks deletes the chunks there are, with their edits.
SaveChunks(a) ==
  /\ task[a].stage = "chunking"
  /\ task[a].pc = "read"
  /\ chunks' = Chunked(task[a].pages)
  /\ task' = [task EXCEPT ![a].pc = "wrote"]
  /\ UNCHANGED <<run, doc, pages, dev, prod>>

\* reconcile_materialized_state, before create_chunks_from_db returns.
ReconcileRow(a) ==
  /\ task[a].stage = "chunking"
  /\ task[a].pc = "wrote"
  /\ doc' = [doc EXCEPT !.stage = IF @ \in ChunkedStages THEN @ ELSE "chunk_review",
                        !.counted = TRUE]
  /\ task' = [task EXCEPT ![a].pc = "reconciled"]
  /\ UNCHANGED <<run, pages, chunks, dev, prod>>

\* The records prepared from the chunks that were read go out in batches.
\* Here a batch is a record; a chunk sent is crossed off the list.
IndexBatch(a) ==
  /\ task[a].stage \in {"ingesting", "ingesting_prod"}
  /\ task[a].pc = "read"
  /\ \E p \in Records(task[a].chunks) :
       /\ IF task[a].stage = "ingesting" THEN dev' = Upserted(dev, {p}) /\ UNCHANGED prod
          ELSE prod' = Upserted(prod, {p}) /\ UNCHANGED dev
       /\ task' = [task EXCEPT ![a].chunks[p.num] = NoChunk]
  /\ UNCHANGED <<run, doc, pages, chunks>>

\* Nothing is left to send, or it was the announcement. When a scheme has
\* entered PROD its flag is cleared (on_scheme_document_promoted), and if that
\* raises it is only logged.
AllSent(a) ==
  /\ task[a].stage \in {"ingesting", "ingesting_prod", "publishing_to_network"}
  /\ task[a].pc = "read"
  /\ Records(task[a].chunks) = {}
  /\ doc' \in {doc} \cup (IF task[a].stage = "ingesting_prod" /\ Scheme
                          THEN {[doc EXCEPT !.reindex = FALSE]} ELSE {})
  /\ task' = [task EXCEPT ![a].pc = "wrote", ![a].chunks = NoChunks]
  /\ UNCHANGED <<run, pages, chunks, dev, prod>>

AttemptStep(a) ==
  /\ \/ StoreSegment(a)
     \/ ReadBack(a)
     \/ SavePages(a)
     \/ SaveChunks(a)
     \/ ReconcileRow(a)
     \/ IndexBatch(a)
     \/ AllSent(a)
  /\ UNCHANGED editVars

BeginAttempt(r) ==
  /\ Processing(r)
  /\ task[r].pc = "idle"
  /\ task' = [task EXCEPT ![r] = Begun(run[r].stage, task[r].tries)]
  /\ UNCHANGED <<run, doc>>
  /\ UNCHANGED contentVars /\ UNCHANGED indexVars /\ UNCHANGED editVars

ReturnAttempt(r) ==
  /\ Processing(r)
  /\ task[r].pc = IF run[r].stage = "chunking" THEN "reconciled" ELSE "wrote"
  /\ task' = [task EXCEPT ![r] = IdleTask]
  /\ run' = Entered(r, Following[run[r].stage],
                    run[r].counted \/ run[r].stage = "chunking")
  /\ UNCHANGED doc
  /\ UNCHANGED contentVars /\ UNCHANGED indexVars /\ UNCHANGED editVars

\* (defect) No maximum_attempts.
Retried_forever(r, left) ==
  /\ task' = [left EXCEPT ![r] = [IdleTask EXCEPT !.tries = task[r].tries + 1]]
  /\ UNCHANGED run

\* The next attempt, or the workflow marks the document failed.
Retried(r, left) ==
  IF task[r].tries + 1 < MaxAttempts
  THEN /\ task' = [left EXCEPT ![r] = [IdleTask EXCEPT !.tries = task[r].tries + 1]]
       /\ UNCHANGED run
  ELSE /\ task' = [left EXCEPT ![r] = IdleTask]
       /\ run' = Entered(r, "failed", run[r].counted)

\* The attempt raises or its worker stops.
AttemptFails(r) ==
  /\ task[r].pc # "idle"
  /\ Retried(r, task)
  /\ UNCHANGED doc
  /\ UNCHANGED contentVars /\ UNCHANGED indexVars /\ UNCHANGED editVars

\* The attempt times out, and goes on although nobody waits for it.
AttemptTimesOut(r, a) ==
  /\ task[r].pc # "idle"
  /\ task[a].pc = "idle"
  /\ Retried(r, [task EXCEPT ![a] = task[r]])
  /\ UNCHANGED doc
  /\ UNCHANGED contentVars /\ UNCHANGED indexVars /\ UNCHANGED editVars

LateEnds(a) ==
  /\ task[a].pc # "idle"
  /\ task' = [task EXCEPT ![a] = IdleTask]
  /\ UNCHANGED <<run, doc>>
  /\ UNCHANGED contentVars /\ UNCHANGED indexVars /\ UNCHANGED editVars

WorkerStep(r) ==
  MirrorDone(r) \/ BeginAttempt(r) \/ AttemptStep(r) \/ ReturnAttempt(r)

-----------------------------------------------------------------------------
(* Edits. The handlers of the API do not await anything, so that they are  *)
(* one after the other; but the worker is another process.                 *)

\* (defect) Only a document that is completed can be out of date.
StaleAfter_completedOnly(op) == doc.stage = "completed"

\* Whether the handler, going by the row it read first, will set
\* reindex_required: after a page edit, only if there may be chunks.
StaleAfter(op) ==
  \/ op \in ChunkOps
  \/ doc.counted
  \/ doc.stage \in {"chunking", "ingesting_prod"} \cup ChunkedStages

Editing == req.pc # "idle"

\* update_page, reset_page, update_chunk, reset_chunk: read the row and the
\* page or chunk. A chunk of a completed document that was not excluded yet
\* is to be taken out of the DEV index.
OpenEdit(op, n) ==
  /\ ~Editing
  /\ op \in Ops
  /\ version < MaxEdits
  /\ IF op \in PageOps THEN pages[n].saved ELSE chunks[n].saved
  /\ \E keep \in BOOLEAN :
       req' = [op |-> op, pc |-> "write", num |-> n, keep |-> keep,
               mark |-> StaleAfter(op),
               unindex |-> op = "exclude" /\ ~chunks[n].excluded /\ doc.stage = "completed"]
  /\ UNCHANGED <<run, task, doc, version, owed, missed>>
  /\ UNCHANGED contentVars /\ UNCHANGED indexVars

EditedPage(page, op, v, keep) ==
  CASE op = "page"        -> [page EXCEPT !.edited = Edited(Markdown(page), v, keep)]
    [] op = "translation" -> [page EXCEPT !.edited_translation =
                                Edited(best_page_text(page), v, keep)]
    [] op = "reset_page"  -> [page EXCEPT !.edited = NoText]

EditedChunk(chunk, op, v, keep) ==
  CASE op = "chunk"       -> [chunk EXCEPT !.edited = Edited(ChunkText(chunk), v, keep)]
    [] op = "exclude"     -> [chunk EXCEPT !.excluded = TRUE]
    [] op = "include"     -> [chunk EXCEPT !.excluded = FALSE]
    [] op = "reset_chunk" -> [chunk EXCEPT !.edited = NoText, !.excluded = FALSE]

\* The pipeline has the stage behind it, and will not come back to it.
Past(stage) ==
  \/ run["main"].part = "closed"
  \/ run["main"].stage \in LineStages /\ Rank[run["main"].stage] > Rank[stage]

\* Which review the edit is part of. For pages it goes by the row; the row
\* says chunk_review already when a chunking is reconciled that may still be
\* retried, so for chunks the pipeline must have its chunking behind it.
ReviewsOf(op) ==
  {review \in Reviews :
     CASE op = "page"        -> review = "ocr_review" /\ doc.stage = review
       [] op = "translation" -> review = "translation_review" /\ doc.stage = review
       [] op = "chunk"       -> review = "chunk_review" /\ Past("chunking")
       [] OTHER              -> FALSE}

\* Nothing is owed as long as an attempt is at work, nor for an edit that is
\* taken back.
Undisturbed == \A a \in Attempts : task[a].pc = "idle"

OwedAfter(op, n, v) ==
  [owed EXCEPT ![n] = [review \in Reviews |->
     CASE op = "reset_page" /\ review = "ocr_review"     -> 0
       [] op = "reset_chunk" /\ review = "chunk_review" -> 0
       [] Undisturbed /\ review \in ReviewsOf(op)      -> v
       [] OTHER                                         -> @[review]]]

NextStep == IF req.unindex THEN "unindex" ELSE IF req.mark THEN "mark" ELSE "idle"

WriteEdit ==
  LET n == req.num
      v == version + 1
  IN /\ req.pc = "write"
     /\ version' = v
     /\ IF req.op \in PageOps
        THEN /\ pages' = [pages EXCEPT ![n] = EditedPage(@, req.op, v, req.keep)]
             /\ UNCHANGED chunks
        ELSE /\ chunks' = [chunks EXCEPT ![n] = EditedChunk(@, req.op, v, req.keep)]
             /\ UNCHANGED pages
     /\ owed' = OwedAfter(req.op, n, v)
     /\ req' = IF NextStep = "idle" THEN IdleRequest ELSE [req EXCEPT !.pc = NextStep]
     /\ missed' = (missed \/ (StaleAfter(req.op) /\ ~req.mark))
     /\ UNCHANGED <<run, task, doc>> /\ UNCHANGED indexVars

\* delete_single_chunk_from_index swallows the errors of the vector store.
\* PROD is left as it is.
Unindex ==
  /\ req.pc = "unindex"
  /\ \/ dev' = {p \in dev : p.num # req.num}
     \/ UNCHANGED dev
  /\ req' = [req EXCEPT !.pc = "mark"]
  /\ UNCHANGED <<run, task, doc, prod, version, owed, missed>>
  /\ UNCHANGED contentVars

Mark ==
  /\ req.pc = "mark"
  /\ doc' = [doc EXCEPT !.reindex = TRUE]
  /\ req' = IdleRequest
  /\ UNCHANGED <<run, task, version, owed, missed>>
  /\ UNCHANGED contentVars /\ UNCHANGED indexVars

\* The API stops, or a call raises: what was written stays written.
EditLost ==
  /\ Editing
  /\ req' = IdleRequest
  /\ missed' = (missed \/ (req.mark /\ req.pc # "write"))
  /\ UNCHANGED <<run, task, doc, version, owed>>
  /\ UNCHANGED contentVars /\ UNCHANGED indexVars

-----------------------------------------------------------------------------
Next ==
  \/ \E r \in Runs : WorkerStep(r) \/ PassGate(r) \/ AttemptFails(r)
  \/ \E r \in Extra, kind \in WorkflowKinds : Rerun(r, kind)
  \/ \E r \in Runs, a \in Late : AttemptTimesOut(r, a)
  \/ \E a \in Late : AttemptStep(a) \/ LateEnds(a)
  \/ \E op \in PageOps \cup ChunkOps, n \in Pages : OpenEdit(op, n)
  \/ WriteEdit
  \/ Unindex
  \/ Mark
  \/ EditLost

Spec == Init /\ [][Next]_vars

\* The worker is fair (see DocPipeline); users and their requests are not.
FairSpec == Spec /\ \A r \in Runs : WF_vars(WorkerStep(r))

-----------------------------------------------------------------------------
(* Properties.                                                             *)

\* What a reviewer corrects in the review of a stage is not undone by the
\* activities that come after it, though each of them writes back whole rows
\* that it read up to 90 minutes earlier; nor by a retry of one of them.
ReviewedEditsSurvive ==
  \A n \in Pages :
    /\ owed[n]["ocr_review"] <= pages[n].edited.id[2]
    /\ owed[n]["translation_review"] <= pages[n].edited_translation.id[2]
    /\ owed[n]["chunk_review"] <= chunks[n].edited.id[2]

\* A document that has been ingested, and is no scheme, either is in the DEV
\* index exactly as its chunks are now, or is flagged as out of date
\* (_mark_reindex_required), whenever the chunks changed: before the
\* ingestion read them, while it was sending them, or after.
ProjectionOrFlagged ==
  (/\ doc.stage \in LineStages /\ Rank[doc.stage] > Rank["ingesting"]
   /\ Undisturbed /\ ~Editing /\ ~missed
   /\ ~doc.reindex)
    => dev = Records(chunks)

\* Re-ingesting a document that is not edited meanwhile, and that nobody else
\* ingests, puts what its chunks say now into the DEV index, or fails
\* (reingest_document).
Reingesting(r) ==
  run[r].kind = "reingest" /\ run[r].stage = "ingesting" /\ run[r].part = "mirror"

ReingestTakesEffect ==
  \A r \in Extra, v \in 0..MaxEdits :
    (Reingesting(r) /\ version = v /\ ~Editing /\ Past("ingesting")
      /\ \A a \in Late : task[a].pc = "idle")
      ~> (version # v \/ Editing \/ run[r].stage = "failed" \/ Records(chunks) \subseteq dev)

-----------------------------------------------------------------------------
(* Why a reviewed edit survives where no stage before the ingestion is run *)
(* again, that is, where only the pipeline runs them, each once. Each part *)
(* is what the part below it needs.                                        *)

EarlyRerunKinds == {"ocr_only", "translation_only", "chunking_only"}
EarlyStages == {s \in LineStages : Rank[s] \in 1..7}

\* An edit under way is one of a page or a chunk that there is, and has room.
RequestShape ==
  /\ Editing => req.op \in PageOps \cup ChunkOps /\ req.num \in Pages
  /\ req.pc = "write" => version < MaxEdits

\* An attempt has a stage as long as it is at work; only OCR scans.
AttemptShape ==
  \A a \in Attempts :
    /\ task[a].pc = "idle" => task[a].stage = "none"
    /\ task[a].pc = "scanned" => task[a].stage = "ocr_processing"

OnlyMainEarly == \A r \in Extra : run[r].stage \notin EarlyStages

\* The pipeline is in the stage or has it before it.
MayRun(stage) ==
  /\ run["main"].part # "closed"
  /\ run["main"].stage \in LineStages /\ Rank[run["main"].stage] <= Rank[stage]

\* The row names a page review only when the stage under review is over.
RowBehind ==
  /\ doc.stage = "ocr_review" => ~MayRun("ocr_processing")
  /\ doc.stage = "translation_review" => ~MayRun("translation_processing")

\* No edit of a review is owed before the stage under review is over.
OwedBehind ==
  \A n \in Pages :
    /\ \A review \in Reviews : owed[n][review] <= version
    /\ MayRun("ocr_processing") => owed[n]["ocr_review"] = 0
    /\ MayRun("translation_processing") => owed[n]["translation_review"] = 0
    /\ MayRun("chunking") => owed[n]["chunk_review"] = 0

\* While an attempt is at work, late or not, nothing is owed that it will
\* overwrite: what translation read has the corrections owed to the OCR review.
AttemptsBehind ==
  \A a \in Attempts, n \in Pages :
    /\ task[a].stage = "ocr_processing" =>
         owed[n]["ocr_review"] = 0 /\ owed[n]["translation_review"] = 0
    /\ task[a].stage = "translation_processing" =>
         /\ owed[n]["translation_review"] = 0
         /\ task[a].pages[n].saved => owed[n]["ocr_review"] <= task[a].pages[n].edited.id[2]
    /\ task[a].stage = "chunking" => owed[n]["chunk_review"] = 0

ReviewInv ==
  /\ TypeOK
  /\ RequestShape
  /\ AttemptShape
  /\ OnlyMainEarly
  /\ RowBehind
  /\ OwedBehind
  /\ AttemptsBehind
  /\ ReviewedEditsSurvive

-----------------------------------------------------------------------------
(* Why the DEV index follows the chunks or the document is flagged, where  *)
(* also no attempt is given up on and left running, and no scheme is       *)
(* promoted, which clears the flag.                                        *)

AfterIngestion == {s \in LineStages : Rank[s] > Rank["ingesting"]}

\* Nothing was changed that the flag has to tell of.
Clean == ~doc.reindex /\ ~missed /\ req.pc \in {"idle", "write"}

\* Who changes a chunk sets the flag, and who is about to set it had reason to.
FlagMeant ==
  req.op \in ChunkOps \/ req.unindex \/ req.pc \in {"unindex", "mark"} => req.mark

\* A workflow waits for one attempt, in its own stage, until all is sent.
AttemptOfRun ==
  \A r \in Runs :
    /\ task[r].pc # "idle" => Processing(r) /\ task[r].stage = run[r].stage
    /\ task[r].stage = "ingesting" /\ task[r].pc = "wrote" => task[r].chunks = NoChunks

\* The pipeline has not begun to chunk.
BeforeChunks ==
  /\ run["main"].part # "closed"
  /\ run["main"].stage \in LineStages
  /\ \/ Rank[run["main"].stage] < Rank["chunking"]
     \/ run["main"].stage = "chunking" /\ run["main"].part = "mirror"

AtChunking == run["main"].stage = "chunking" /\ run["main"].part = "body"

\* Something was ingested, or is about to be, beside the pipeline.
Touched ==
  \/ dev # {}
  \/ \E r \in Extra : run[r].part # "absent"
  \/ doc.stage \in AfterIngestion

NothingEarly ==
  BeforeChunks => chunks = NoChunks /\ ~Touched /\ req.op \notin ChunkOps

\* The row gives away that there may be chunks.
CountsKnown ==
  /\ \A r \in Extra : run[r].part # "absent" => run[r].counted
  /\ run["main"].stage \in LineStages /\ Rank[run["main"].stage] > Rank["chunking"]
       => run["main"].counted
  /\ doc.stage \in AfterIngestion => doc.counted
  /\ AtChunking => doc.counted \/ doc.stage \in {"chunking", "ingesting_prod"} \cup ChunkedStages

\* As long as the pipeline may chunk again, it would make the same chunks again.
SameChunksAgain ==
  Clean /\ AtChunking =>
    /\ task["main"].pc = "read" => task["main"].pages = pages
    /\ chunks \in {NoChunks, Chunked(pages)}
    /\ Touched => chunks = Chunked(pages)

Ingested ==
  \/ doc.stage \in AfterIngestion
  \/ \E r \in Runs : run[r].part # "absent" /\ run[r].stage \in AfterIngestion

\* What is in the index is in the chunks; what is in the chunks is in the
\* index, once it was ingested, or an attempt that ingests has it in hand.
DevFollows ==
  Clean =>
    /\ dev \subseteq Records(chunks)
    /\ \A r \in Runs : task[r].stage = "ingesting" =>
         /\ Records(task[r].chunks) \subseteq Records(chunks)
         /\ Records(chunks) \subseteq dev \cup Records(task[r].chunks)
    /\ Ingested => Records(chunks) \subseteq dev

ProjectionInv ==
  /\ TypeOK
  /\ RequestShape
  /\ AttemptShape
  /\ OnlyMainEarly
  /\ FlagMeant
  /\ AttemptOfRun
  /\ NothingEarly
  /\ CountsKnown
  /\ SameChunksAgain
  /\ DevFollows

\* What both theorems rest on.
ContentInv == ReviewInv /\ ProjectionInv
=============================================================================
