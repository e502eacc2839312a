------------------------ MODULE ReviewContent_proofs ------------------------
(***************************************************************************)
(* What TLAPS proves of ReviewContent, for any pages, workflows, edits and *)
(* bounds: that its types are kept, that an edit is not lost, and that the *)
(* index has the chunks the reviewer saw.                                  *)
(***************************************************************************)
EXTENDS ReviewContent, TLAPS

-----------------------------------------------------------------------------
(* Texts, pages, chunks and points.                                        *)

\* A version is a number.
LEMMA Versions == 0 \in 0..MaxEdits /\ 0..MaxEdits \subseteq Nat
BY BoundsAssumption

\* A text says which edit it stems from.
LEMMA TextParts ==
  ASSUME NEW text \in Text
  PROVE  text.id[2] \in 0..MaxEdits /\ text.id \in Origins /\ text.head \in Origins
BY DEF Text, Origins

\* Whatever is made of texts is a text, and tells the same about the edits.
LEMMA Texts ==
  /\ NoText \in Text /\ Original \in Text
  /\ NoText.id[2] = 0
  /\ \A text \in Text : Translation(text) \in Text
  /\ \A text \in Text, v \in 0..MaxEdits, keep \in BOOLEAN :
       Edited(text, v, keep) \in Text /\ Edited(text, v, keep).id[2] = v
  /\ \A text, other \in Text : Or(text, other) \in Text
<1>1. ASSUME NEW by \in {"none", "ocr", "model", "edit"}, NEW v \in 0..MaxEdits
      PROVE  Fresh(by, v) \in Text /\ Fresh(by, v).id[2] = v
  BY DEF Fresh, Text, Origins
<1>2. NoText \in Text /\ Original \in Text /\ NoText.id[2] = 0
  BY <1>1, Versions DEF NoText, Original
<1>3. \A text \in Text : Translation(text) \in Text
  BY <1>1, TextParts DEF Translation
<1>4. ASSUME NEW text \in Text, NEW v \in 0..MaxEdits, NEW keep \in BOOLEAN
      PROVE  Edited(text, v, keep) \in Text /\ Edited(text, v, keep).id[2] = v
  <2>1. <<"edit", v>> \in Origins
    BY DEF Origins
  <2> QED
    BY <2>1, TextParts DEF Edited, Text
<1> QED
  BY <1>2, <1>3, <1>4 DEF Or

\* Pages and chunks, new or not, consist of texts.
LEMMA Tables ==
  /\ NoPage \in Page /\ FreshPage \in Page /\ NoChunk \in Chunk
  /\ Blank \in [Pages -> Page] /\ NoChunks \in [Pages -> Chunk]
  /\ \A page \in Page : best_page_text(page) \in Text /\ Markdown(page) \in Text
  /\ \A chunk \in Chunk : ChunkText(chunk) \in Text
<1>1. NoPage \in Page /\ FreshPage \in Page /\ NoChunk \in Chunk
  BY Texts DEF NoPage, FreshPage, NoChunk, Page, Chunk
<1>2. Blank \in [Pages -> Page] /\ NoChunks \in [Pages -> Chunk]
  BY <1>1 DEF Blank, NoChunks
<1>3. \A page \in Page : Markdown(page) \in Text
  BY Texts DEF Markdown, Page
<1>4. \A page \in Page : best_page_text(page) \in Text
  BY <1>3, Texts DEF best_page_text, Page
<1>5. \A chunk \in Chunk : ChunkText(chunk) \in Text
  BY Texts DEF ChunkText, Chunk
<1> QED
  BY <1>1, <1>2, <1>3, <1>4, <1>5

\* Chunking makes chunks of pages.
LEMMA ChunkedType ==
  ASSUME NEW table \in [Pages -> Page]
  PROVE  Chunked(table) \in [Pages -> Chunk]
<1>1. ASSUME NEW n \in Pages
      PROVE  [NoChunk EXCEPT !.saved = TRUE, !.original = best_page_text(table[n])] \in Chunk
  <2>1. best_page_text(table[n]) \in Text
    BY Tables
  <2> QED
    BY <2>1, Tables DEF Chunk
<1> QED
  BY <1>1, Tables DEF Chunked

\* What is sent to an index are points of the document.
LEMMA RecordPoints ==
  ASSUME NEW table \in [Pages -> Chunk]
  PROVE  Records(table) \subseteq Point
BY Tables DEF Records, Point

\* What a reviewer makes of a page or a chunk is one.
LEMMA Edits ==
  ASSUME NEW v \in 0..MaxEdits, NEW keep \in BOOLEAN
  PROVE  /\ \A page \in Page, op \in PageOps : EditedPage(page, op, v, keep) \in Page
         /\ \A chunk \in Chunk, op \in ChunkOps : EditedChunk(chunk, op, v, keep) \in Chunk
<1>1. ASSUME NEW page \in Page, NEW op \in PageOps
      PROVE  EditedPage(page, op, v, keep) \in Page
  <2>1. /\ Edited(Markdown(page), v, keep) \in Text /\ NoText \in Text
        /\ Edited(best_page_text(page), v, keep) \in Text
    BY Texts, Tables
  <2>2. CASE op = "page"
    BY <2>1, <2>2 DEF EditedPage, Page
  <2>3. CASE op = "translation"
    BY <2>1, <2>3 DEF EditedPage, Page
  <2>4. CASE op = "reset_page"
    BY <2>1, <2>4 DEF EditedPage, Page
  <2> QED
    BY <2>2, <2>3, <2>4 DEF PageOps
<1>2. ASSUME NEW chunk \in Chunk, NEW op \in ChunkOps
      PROVE  EditedChunk(chunk, op, v, keep) \in Chunk
  <2>1. Edited(ChunkText(chunk), v, keep) \in Text /\ NoText \in Text
    BY Texts, Tables
  <2>2. CASE op = "chunk"
    BY <2>1, <2>2 DEF EditedChunk, Chunk
  <2>3. CASE op = "exclude" \/ op = "include"
    BY <2>3 DEF EditedChunk, Chunk
  <2>4. CASE op = "reset_chunk"
    BY <2>1, <2>4 DEF EditedChunk, Chunk
  <2> QED
    BY <2>2, <2>3, <2>4 DEF ChunkOps
<1> QED
  BY <1>1, <1>2

-----------------------------------------------------------------------------
(* The line of stages.                                                     *)

\* Each workflow begins in a stage of work and goes on to a stage.
LEMMA Lines ==
  /\ ProcessingStages \subseteq DocumentStage /\ ReviewStages \subseteq DocumentStage
  /\ {"registered", "failed", "chunk_review"} \subseteq DocumentStage
  /\ "none" \notin ProcessingStages
  /\ \A s \in ProcessingStages \cup ReviewStages : Following[s] \in DocumentStage
  /\ \A k \in WorkflowKinds : FirstStage[k] \in ProcessingStages
  /\ \A s \in ReviewStages : s \notin ProcessingStages
BY DEF ProcessingStages, ReviewStages, DocumentStage, LineStages, Following,
       WorkflowKinds, RerunKinds, FirstStage

-----------------------------------------------------------------------------
(* Types.                                                                  *)

DocRecord == [stage : DocumentStage, counted : BOOLEAN, reindex : BOOLEAN]

\* An attempt that begins has its type.
LEMMA BegunType ==
  ASSUME TypeOK, NEW s \in ProcessingStages, NEW n \in 0..(MaxAttempts - 1)
  PROVE  Begun(s, n) \in TaskRecord
<1>1. [m \in Pages |-> FreshPage] \in [Pages -> Page] /\ Blank \in [Pages -> Page]
        /\ NoChunks \in [Pages -> Chunk]
  BY Tables
<1>2. pages \in [Pages -> Page] /\ chunks \in [Pages -> Chunk]
  BY DEF TypeOK
<1>3. Begun(s, n).pages \in [Pages -> Page]
  BY <1>1, <1>2 DEF Begun
<1>4. Begun(s, n).chunks \in [Pages -> Chunk]
  BY <1>1, <1>2 DEF Begun
<1>5. Begun(s, n) = [stage |-> s, tries |-> n, pc |-> Begun(s, n).pc,
                     pages |-> Begun(s, n).pages, chunks |-> Begun(s, n).chunks]
        /\ Begun(s, n).pc \in {"scanned", "read"}
  BY DEF Begun
<1> HIDE DEF Begun
<1> QED
  BY <1>3, <1>4, <1>5 DEF TaskRecord

\* An attempt that is over leaves an idle record.
LEMMA IdleTaskType == \A n \in 0..(MaxAttempts - 1) : [IdleTask EXCEPT !.tries = n] \in TaskRecord
BY Tables DEF IdleTask, TaskRecord

LEMMA NoTries == 0 \in 0..(MaxAttempts - 1) /\ IdleTask \in TaskRecord
<1>1. 0 \in 0..(MaxAttempts - 1)
  BY BoundsAssumption
<1>2. [IdleTask EXCEPT !.tries = 0] = IdleTask
  BY DEF IdleTask
<1> QED
  BY <1>1, <1>2, IdleTaskType

\* A workflow that enters a stage keeps its type.
LEMMA EnteredType ==
  ASSUME TypeOK, NEW r \in Runs, NEW s \in DocumentStage, NEW c \in BOOLEAN
  PROVE  Entered(r, s, c) \in [Runs -> RunRecord]
BY DEF TypeOK, RunRecord, Entered

\* A retry keeps the types.
LEMMA RetriedType ==
  ASSUME TypeOK, NEW r \in Runs, NEW left \in [Attempts -> TaskRecord], Retried(r, left)
  PROVE  run' \in [Runs -> RunRecord] /\ task' \in [Attempts -> TaskRecord]
<1>1. task[r].tries \in 0..(MaxAttempts - 1) /\ run[r].counted \in BOOLEAN
  BY DEF TypeOK, TaskRecord, RunRecord, Attempts
<1>2. CASE task[r].tries + 1 < MaxAttempts
  <2>1. task[r].tries + 1 \in 0..(MaxAttempts - 1)
    BY <1>1, <1>2, BoundsAssumption
  <2>2. [IdleTask EXCEPT !.tries = task[r].tries + 1] \in TaskRecord
    BY <2>1, IdleTaskType
  <2> QED
    BY <1>2, <2>2 DEF Retried, TypeOK
<1>3. CASE ~(task[r].tries + 1 < MaxAttempts)
  <2>1. Entered(r, "failed", run[r].counted) \in [Runs -> RunRecord]
    BY <1>1, EnteredType, Lines
  <2> QED
    BY <1>3, <2>1, NoTries DEF Retried
<1> QED
  BY <1>2, <1>3

\* Sending records to an index leaves points there.
LEMMA UpsertedType ==
  ASSUME NEW points, points \subseteq Point, NEW p \in Point
  PROVE  Upserted(points, {p}) \subseteq Point
BY DEF Upserted

\* Everything an attempt writes keeps its type.
LEMMA AttemptTypes ==
  ASSUME TypeOK, NEW a \in Attempts, AttemptStep(a)
  PROVE  TypeOK'
<1>a. task[a] \in TaskRecord
  BY DEF TypeOK
<1>t. /\ task[a].pages \in [Pages -> Page] /\ task[a].chunks \in [Pages -> Chunk]
      /\ task[a].stage \in ProcessingStages \cup {"none"}
  BY <1>a DEF TaskRecord
<1>e. UNCHANGED <<req, version, owed, missed>>
  BY DEF AttemptStep, editVars
<1>p. \A pc \in {"read", "wrote", "reconciled"} : [task[a] EXCEPT !.pc = pc] \in TaskRecord
  BY <1>a DEF TaskRecord
<1>1. CASE StoreSegment(a)
  <2>1. PICK n \in Pages : pages' = [pages EXCEPT ![n] = FreshPage]
                             /\ task' = [task EXCEPT ![a].pages[n].saved = TRUE]
    BY <1>1 DEF StoreSegment
  <2>2. [task[a].pages EXCEPT ![n].saved = TRUE] \in [Pages -> Page]
    BY <1>t DEF Page
  <2>3. [task[a] EXCEPT !.pages[n].saved = TRUE] \in TaskRecord
    BY <1>a, <2>2 DEF TaskRecord
  <2>4. task' \in [Attempts -> TaskRecord]
    BY <2>1, <2>3 DEF TypeOK
  <2>5. pages' \in [Pages -> Page]
    BY <2>1, Tables DEF TypeOK
  <2> QED
    BY <1>1, <1>e, <2>4, <2>5 DEF StoreSegment, TypeOK
<1>2. CASE ReadBack(a)
  <2>1. [task[a] EXCEPT !.pages = pages, !.pc = "read"] \in TaskRecord
    BY <1>a DEF TaskRecord, TypeOK
  <2>2. task' \in [Attempts -> TaskRecord]
    BY <1>2, <2>1 DEF ReadBack, TypeOK
  <2> QED
    BY <1>2, <1>e, <2>2 DEF ReadBack, TypeOK
<1>3. CASE SavePages(a)
  <2>1. ASSUME NEW n \in Pages
        PROVE  pages[n] \in Page /\ task[a].pages[n] \in Page
                 /\ Translated(task[a].pages[n]) \in Page
    <3>1. task[a].pages[n] \in Page
      BY <1>t
    <3>2. Translation(Markdown(task[a].pages[n])) \in Text
      BY <3>1, Tables, Texts
    <3> QED
      BY <3>1, <3>2 DEF TypeOK, Translated, Page
  <2>2. pages' \in [Pages -> Page]
    BY <1>3, <2>1 DEF SavePages
  <2>3. task' \in [Attempts -> TaskRecord]
    BY <1>3, <1>p DEF SavePages, TypeOK
  <2> QED
    BY <1>3, <1>e, <2>2, <2>3 DEF SavePages, TypeOK
<1>4. CASE SaveChunks(a)
  <2>2. chunks' \in [Pages -> Chunk]
    BY <1>4, <1>t, ChunkedType DEF SaveChunks
  <2>3. task' \in [Attempts -> TaskRecord]
    BY <1>4, <1>p DEF SaveChunks, TypeOK
  <2> QED
    BY <1>4, <1>e, <2>2, <2>3 DEF SaveChunks, TypeOK
<1>5. CASE ReconcileRow(a)
  <2>1. doc' \in DocRecord
    BY <1>5, Lines DEF ReconcileRow, TypeOK, DocRecord
  <2>2. task' \in [Attempts -> TaskRecord]
    BY <1>5, <1>p DEF ReconcileRow, TypeOK
  <2> QED
    BY <1>5, <1>e, <2>1, <2>2 DEF ReconcileRow, TypeOK, DocRecord
<1>6. CASE IndexBatch(a)
  <2>1. PICK p \in Records(task[a].chunks) :
          /\ IF task[a].stage = "ingesting" THEN dev' = Upserted(dev, {p}) /\ UNCHANGED prod
             ELSE prod' = Upserted(prod, {p}) /\ UNCHANGED dev
          /\ task' = [task EXCEPT ![a].chunks[p.num] = NoChunk]
    BY <1>6 DEF IndexBatch
  <2>2. p \in Point
    BY <1>t, RecordPoints
  <2>3. dev \subseteq Point /\ prod \subseteq Point
    BY DEF TypeOK
  <2>4. dev' \subseteq Point /\ prod' \subseteq Point
    BY <2>1, <2>2, <2>3, UpsertedType
  <2>5. [task[a].chunks EXCEPT ![p.num] = NoChunk] \in [Pages -> Chunk]
    BY <1>t, Tables
  <2>6. [task[a] EXCEPT !.chunks[p.num] = NoChunk] \in TaskRecord
    BY <1>a, <2>5 DEF TaskRecord
  <2>7. task' \in [Attempts -> TaskRecord]
    BY <2>1, <2>6 DEF TypeOK
  <2> QED
    BY <1>6, <1>e, <2>4, <2>7 DEF IndexBatch, TypeOK
<1>7. CASE AllSent(a)
  <2>1. doc' \in DocRecord
    BY <1>7 DEF AllSent, TypeOK, DocRecord
  <2>2. [task[a] EXCEPT !.pc = "wrote", !.chunks = NoChunks] \in TaskRecord
    BY <1>a, Tables DEF TaskRecord
  <2>3. task' \in [Attempts -> TaskRecord]
    BY <1>7, <2>2 DEF AllSent, TypeOK
  <2> QED
    BY <1>7, <1>e, <2>1, <2>3 DEF AllSent, TypeOK, DocRecord
<1> QED
  BY <1>1, <1>2, <1>3, <1>4, <1>5, <1>6, <1>7 DEF AttemptStep

\* So does everything a workflow does.
LEMMA RunTypes ==
  ASSUME TypeOK, NEW r \in Runs,
         \/ MirrorDone(r) \/ BeginAttempt(r) \/ ReturnAttempt(r) \/ PassGate(r)
         \/ AttemptFails(r) \/ (\E a \in Late : AttemptTimesOut(r, a))
         \/ \E kind \in WorkflowKinds : Rerun(r, kind)
  PROVE  TypeOK'
<1>u. UNCHANGED <<pages, chunks, dev, prod, req, version, owed, missed>>
  BY DEF MirrorDone, BeginAttempt, ReturnAttempt, PassGate, AttemptFails, AttemptTimesOut,
     Rerun, contentVars, indexVars, editVars
<1>r. /\ run[r].kind \in WorkflowKinds /\ run[r].stage \in DocumentStage
      /\ run[r].counted \in BOOLEAN /\ run[r].part \in {"absent", "mirror", "body", "closed"}
      /\ r \in Attempts /\ task[r] \in TaskRecord /\ task[r].tries \in 0..(MaxAttempts - 1)
  BY DEF TypeOK, RunRecord, Attempts, TaskRecord
<1>1. run' \in [Runs -> RunRecord] /\ task' \in [Attempts -> TaskRecord] /\ doc' \in DocRecord
  <2>1. CASE MirrorDone(r)
    <3>1. run' \in [Runs -> RunRecord]
      BY <2>1 DEF MirrorDone, TypeOK, RunRecord
    <3>2. doc' \in DocRecord
      BY <2>1, <1>r DEF MirrorDone, TypeOK, DocRecord
    <3> QED
      BY <2>1, <3>1, <3>2 DEF MirrorDone, TypeOK
  <2>2. CASE BeginAttempt(r)
    BY <2>2, <1>r, BegunType DEF BeginAttempt, Processing, TypeOK, DocRecord
  <2>3. CASE ReturnAttempt(r)
    <3>1. Following[run[r].stage] \in DocumentStage
      BY <2>3, Lines DEF ReturnAttempt, Processing
    <3>2. run' \in [Runs -> RunRecord]
      BY <2>3, <1>r, <3>1, EnteredType DEF ReturnAttempt
    <3> QED
      BY <2>3, <3>2, NoTries DEF ReturnAttempt, TypeOK, DocRecord
  <2>4. CASE PassGate(r)
    <3>1. Following[run[r].stage] \in DocumentStage
      BY <2>4, Lines DEF PassGate, AtGate
    <3> QED
      BY <2>4, <1>r, <3>1, EnteredType DEF PassGate, TypeOK, DocRecord
  <2>5. CASE AttemptFails(r)
    BY <2>5, RetriedType DEF AttemptFails, TypeOK, DocRecord
  <2>6. ASSUME NEW a \in Late, AttemptTimesOut(r, a)
        PROVE  /\ run' \in [Runs -> RunRecord] /\ task' \in [Attempts -> TaskRecord]
               /\ doc' \in DocRecord
    <3>1. [task EXCEPT ![a] = task[r]] \in [Attempts -> TaskRecord]
      BY <1>r DEF TypeOK
    <3> QED
      BY <2>6, <3>1, RetriedType DEF AttemptTimesOut, TypeOK, DocRecord
  <2>7. ASSUME NEW kind \in WorkflowKinds, Rerun(r, kind)
        PROVE  /\ run' \in [Runs -> RunRecord] /\ task' \in [Attempts -> TaskRecord]
               /\ doc' \in DocRecord
    <3>1. FirstStage[kind] \in DocumentStage
      BY Lines
    <3>2. (kind = "reingest" \/ (kind = "promote" /\ doc.counted)) \in BOOLEAN
      OBVIOUS
    <3>3. run' \in [Runs -> RunRecord]
      BY <2>7, <3>1, <3>2 DEF Rerun, TypeOK, RunRecord
    <3> QED
      BY <2>7, <3>3 DEF Rerun, TypeOK, DocRecord
  <2> QED
    BY <2>1, <2>2, <2>3, <2>4, <2>5, <2>6, <2>7
<1> QED
  BY <1>u, <1>1 DEF TypeOK, DocRecord

\* And everything an edit does; no edit is written beyond the bound.
LEMMA EditTypes ==
  ASSUME TypeOK, RequestShape,
         \/ \E op \in PageOps \cup ChunkOps, n \in Pages : OpenEdit(op, n)
         \/ WriteEdit \/ Unindex \/ Mark \/ EditLost
  PROVE  TypeOK' /\ RequestShape'
<1>i. IdleRequest \in RequestRecord /\ IdleRequest.pc = "idle"
  BY DEF IdleRequest, RequestRecord
<1>1. ASSUME NEW op \in PageOps \cup ChunkOps, NEW n \in Pages, OpenEdit(op, n)
      PROVE  TypeOK' /\ RequestShape'
  <2>1. PICK keep \in BOOLEAN :
          req' = [op |-> op, pc |-> "write", num |-> n, keep |-> keep, mark |-> StaleAfter(op),
                  unindex |-> op = "exclude" /\ ~chunks[n].excluded /\ doc.stage = "completed"]
    BY <1>1 DEF OpenEdit
  <2>2. StaleAfter(op) \in BOOLEAN
          /\ (op = "exclude" /\ ~chunks[n].excluded /\ doc.stage = "completed") \in BOOLEAN
    BY DEF StaleAfter, TypeOK
  <2>3. req' \in RequestRecord
    BY <2>1, <2>2 DEF RequestRecord
  <2> QED
    BY <1>1, <2>1, <2>3 DEF OpenEdit, TypeOK, RequestShape, contentVars, indexVars
<1>2. CASE WriteEdit
  <2> DEFINE v == version + 1
  <2>1. /\ req.op \in PageOps \cup ChunkOps /\ req.num \in Pages /\ v \in 0..MaxEdits
        /\ req.keep \in BOOLEAN /\ req.mark \in BOOLEAN
    BY <1>2, BoundsAssumption DEF WriteEdit, RequestShape, Editing, TypeOK, RequestRecord
  <2>2. pages' \in [Pages -> Page] /\ chunks' \in [Pages -> Chunk]
    <3>1. /\ pages[req.num] \in Page /\ chunks[req.num] \in Chunk
          /\ pages \in [Pages -> Page] /\ chunks \in [Pages -> Chunk]
      BY <2>1 DEF TypeOK
    <3>2. CASE req.op \in PageOps
      <4>1. EditedPage(pages[req.num], req.op, v, req.keep) \in Page
        BY <2>1, <3>1, <3>2, Edits
      <4>2. pages' = [pages EXCEPT ![req.num] = EditedPage(pages[req.num], req.op, v, req.keep)]
              /\ chunks' = chunks
        BY <1>2, <3>2 DEF WriteEdit
      <4> QED
        BY <3>1, <4>1, <4>2
    <3>3. CASE req.op \notin PageOps
      <4>1. EditedChunk(chunks[req.num], req.op, v, req.keep) \in Chunk
        BY <2>1, <3>1, <3>3, Edits
      <4>2. chunks' = [chunks EXCEPT ![req.num] = EditedChunk(chunks[req.num], req.op, v, req.keep)]
              /\ pages' = pages
        BY <1>2, <3>3 DEF WriteEdit
      <4> QED
        BY <3>1, <4>1, <4>2
    <3> QED
      BY <3>2, <3>3
  <2>3. owed' \in [Pages -> [Reviews -> 0..MaxEdits]]
    <3>1. \A n \in Pages : owed[n] \in [Reviews -> 0..MaxEdits]
      BY DEF TypeOK
    <3>2. [review \in Reviews |->
             CASE req.op = "reset_page" /\ review = "ocr_review"    -> 0
               [] req.op = "reset_chunk" /\ review = "chunk_review" -> 0
               [] Undisturbed /\ review \in ReviewsOf(req.op)       -> v
               [] OTHER                                             -> owed[req.num][review]]
            \in [Reviews -> 0..MaxEdits]
      <4>1. ASSUME NEW review \in Reviews
            PROVE  (CASE req.op = "reset_page" /\ review = "ocr_review"    -> 0
                      [] req.op = "reset_chunk" /\ review = "chunk_review" -> 0
                      [] Undisturbed /\ review \in ReviewsOf(req.op)       -> v
                      [] OTHER -> owed[req.num][review]) \in 0..MaxEdits
        BY <2>1, <3>1, Versions
      <4> QED
        BY <4>1
    <3> QED
      BY <1>2, <2>1, <3>2 DEF WriteEdit, OwedAfter, TypeOK
  <2>4. req' \in RequestRecord /\ req'.op \in PageOps \cup ChunkOps \cup {"none"}
          /\ (req'.pc # "idle" => req'.op = req.op /\ req'.num = req.num)
          /\ req'.pc # "write"
    BY <1>2, <1>i DEF WriteEdit, NextStep, TypeOK, RequestRecord, IdleRequest
  <2>5. missed' \in BOOLEAN
    BY <1>2 DEF WriteEdit, TypeOK
  <2>6. version' \in 0..MaxEdits
    BY <1>2, <2>1 DEF WriteEdit
  <2> QED
    BY <1>2, <2>1, <2>2, <2>3, <2>4, <2>5, <2>6
       DEF WriteEdit, TypeOK, RequestShape, Editing, indexVars
<1>3. CASE Unindex
  <2>1. req' \in RequestRecord /\ req'.pc = "mark" /\ req'.op = req.op /\ req'.num = req.num
    BY <1>3 DEF Unindex, TypeOK, RequestRecord
  <2>2. dev' \subseteq Point
    BY <1>3 DEF Unindex, TypeOK
  <2> QED
    BY <1>3, <2>1, <2>2 DEF Unindex, TypeOK, RequestShape, Editing, contentVars
<1>4. CASE Mark
  BY <1>4, <1>i DEF Mark, TypeOK, RequestShape, Editing, contentVars, indexVars
<1>5. CASE EditLost
  BY <1>5, <1>i DEF EditLost, TypeOK, RequestShape, Editing, contentVars, indexVars
<1> QED
  BY <1>1, <1>2, <1>3, <1>4, <1>5

\* Every step keeps the types.
LEMMA TypesKept ==
  ASSUME TypeOK, RequestShape, [Next]_vars
  PROVE  TypeOK' /\ RequestShape'
<1>1. ASSUME NEW r \in Runs,
             \/ MirrorDone(r) \/ BeginAttempt(r) \/ ReturnAttempt(r) \/ PassGate(r)
             \/ AttemptFails(r) \/ (\E a \in Late : AttemptTimesOut(r, a))
             \/ \E kind \in WorkflowKinds : Rerun(r, kind)
      PROVE  TypeOK' /\ RequestShape'
  <2>1. UNCHANGED <<req, version>>
    BY <1>1 DEF MirrorDone, BeginAttempt, ReturnAttempt, PassGate, AttemptFails,
       AttemptTimesOut, Rerun, editVars
  <2> QED
    BY <1>1, <2>1, RunTypes DEF RequestShape, Editing
<1>2. ASSUME NEW a \in Attempts, AttemptStep(a)
      PROVE  TypeOK' /\ RequestShape'
  BY <1>2, AttemptTypes DEF AttemptStep, editVars, RequestShape, Editing
<1>3. ASSUME NEW a \in Late, LateEnds(a)
      PROVE  TypeOK' /\ RequestShape'
  <2>1. task' \in [Attempts -> TaskRecord]
    BY <1>3, NoTries DEF LateEnds, TypeOK
  <2> QED
    BY <1>3, <2>1 DEF LateEnds, TypeOK, contentVars, indexVars, editVars, RequestShape, Editing
<1>4. CASE \/ \E op \in PageOps \cup ChunkOps, n \in Pages : OpenEdit(op, n)
           \/ WriteEdit \/ Unindex \/ Mark \/ EditLost
  BY <1>4, EditTypes
<1>5. CASE UNCHANGED vars
  BY <1>5 DEF vars, TypeOK, RequestShape, Editing
<1>6. Runs \subseteq Attempts /\ Extra \subseteq Runs /\ Late \subseteq Attempts
  BY DEF Runs, Attempts
<1> QED
  BY <1>1, <1>2, <1>3, <1>4, <1>5, <1>6 DEF Next, WorkerStep

LEMMA TypesAtFirst == Init => TypeOK /\ RequestShape
<1> SUFFICES ASSUME Init
             PROVE  TypeOK /\ RequestShape
  OBVIOUS
<1>1. run \in [Runs -> RunRecord]
  BY Lines DEF Init, RunRecord, WorkflowKinds, FirstStage, DocumentStage, ProcessingStages
<1>2. req \in RequestRecord /\ req.pc = "idle"
  BY DEF Init, IdleRequest, RequestRecord
<1>3. task \in [Attempts -> TaskRecord]
  BY NoTries DEF Init
<1>4. owed \in [Pages -> [Reviews -> 0..MaxEdits]] /\ version \in 0..MaxEdits
  BY Versions DEF Init
<1> QED
  BY <1>1, <1>2, <1>3, <1>4, Tables, Lines DEF Init, TypeOK, RequestShape, Editing

\* Pages, chunks, points and records of work keep their types, whatever is
\* edited, run again or given up on.
THEOREM TypeCorrect == Spec => []TypeOK
<1>1. Init => TypeOK /\ RequestShape
  BY TypesAtFirst
<1>2. TypeOK /\ RequestShape /\ [Next]_vars => (TypeOK /\ RequestShape)'
  BY TypesKept
<1> QED
  BY <1>1, <1>2, PTL DEF Spec

-----------------------------------------------------------------------------
(* Edits survive where no stage before the ingestion is run again.         *)

NoEarlyRerun == Ops \cap EarlyRerunKinds = {}

\* The stages before the ingestion, and where the line leads from each stage.
LEMMA EarlyOnes ==
  EarlyStages = {"ocr_processing", "ocr_review", "translation_processing",
                 "translation_review", "chunking", "chunk_review", "ready_for_ingestion"}
BY DEF EarlyStages, LineStages, ProcessingStages, ReviewStages, Rank

LEMMA LateFollows ==
  ASSUME NEW s \in ProcessingStages \cup ReviewStages, s \notin EarlyStages
  PROVE  Following[s] \notin EarlyStages
BY EarlyOnes DEF ProcessingStages, ReviewStages, Following

LEMMA Onward ==
  ASSUME NEW s \in ProcessingStages \cup ReviewStages
  PROVE  /\ s \in LineStages /\ Following[s] \in LineStages
         /\ Rank[s] \in Nat /\ Rank[Following[s]] = Rank[s] + 1
BY DEF ProcessingStages, ReviewStages, Following, LineStages, Rank

\* How a step changes a workflow: it stays in its stage, goes on to the next
\* one, fails, or is a re-run that begins.
LEMMA RunMoves ==
  ASSUME TypeOK, NoEarlyRerun, [Next]_vars, NEW r \in Runs
  PROVE  \/ run'[r] = run[r]
         \/ /\ run[r].part = "mirror" /\ run'[r].part \in {"body", "closed"}
            /\ run'[r].stage = run[r].stage /\ run'[r].counted = run[r].counted
         \/ /\ run[r].part = "body" /\ run[r].stage \in ProcessingStages \cup ReviewStages
            /\ run[r].stage = "ingesting" => task[r].pc = "wrote"
            /\ run'[r].stage = Following[run[r].stage] /\ run'[r].part = "mirror"
            /\ run[r].counted \/ run[r].stage = "chunking" => run'[r].counted
         \/ /\ task[r].pc # "idle"
            /\ run'[r].stage = "failed" /\ run'[r].counted = run[r].counted
         \/ /\ r \in Extra /\ run[r].part = "absent" /\ run'[r].part = "mirror"
            /\ \/ run'[r].stage = "ingesting" /\ run'[r].counted /\ Records(chunks) # {}
               \/ /\ run'[r].stage = "ingesting_prod" /\ run'[r].counted = doc.counted
                  /\ doc.stage \in {"approval_for_prod", "completed"}
<1> DEFINE Moves ==
             \/ run'[r] = run[r]
             \/ /\ run[r].part = "mirror" /\ run'[r].part \in {"body", "closed"}
                /\ run'[r].stage = run[r].stage /\ run'[r].counted = run[r].counted
             \/ /\ run[r].part = "body" /\ run[r].stage \in ProcessingStages \cup ReviewStages
                /\ run[r].stage = "ingesting" => task[r].pc = "wrote"
                /\ run'[r].stage = Following[run[r].stage] /\ run'[r].part = "mirror"
                /\ run[r].counted \/ run[r].stage = "chunking" => run'[r].counted
             \/ /\ task[r].pc # "idle"
                /\ run'[r].stage = "failed" /\ run'[r].counted = run[r].counted
             \/ /\ r \in Extra /\ run[r].part = "absent" /\ run'[r].part = "mirror"
                /\ \/ run'[r].stage = "ingesting" /\ run'[r].counted /\ Records(chunks) # {}
                   \/ /\ run'[r].stage = "ingesting_prod" /\ run'[r].counted = doc.counted
                      /\ doc.stage \in {"approval_for_prod", "completed"}
<1> SUFFICES Moves
  OBVIOUS
<1>t. run \in [Runs -> RunRecord] /\ \A q \in Runs : run[q] \in RunRecord
  BY DEF TypeOK
<1>e. ASSUME NEW q \in Runs, NEW s, NEW c, run' = Entered(q, s, c), q # r
      PROVE  run'[r] = run[r]
  BY <1>t, <1>e DEF Entered
<1>f. ASSUME NEW s, NEW c, run' = Entered(r, s, c)
      PROVE  run'[r].stage = s /\ run'[r].counted = c /\ run'[r].part = "mirror"
  BY <1>t, <1>f DEF Entered
<1>1. CASE UNCHANGED run
  BY <1>1
<1>2. ASSUME NEW q \in Runs, MirrorDone(q)
      PROVE  Moves
  <2>1. run' = [run EXCEPT ![q].part = IF Finished(q) THEN "closed" ELSE "body"]
          /\ run[q].part = "mirror"
    BY <1>2 DEF MirrorDone
  <2>2. CASE q = r
    BY <2>1, <2>2, <1>t DEF RunRecord
  <2>3. CASE q # r
    BY <2>1, <2>3, <1>t
  <2> QED
    BY <2>2, <2>3
<1>3. ASSUME NEW q \in Runs, ReturnAttempt(q) \/ PassGate(q)
      PROVE  Moves
  <2>1. PICK c : /\ run' = Entered(q, Following[run[q].stage], c)
                 /\ run[q].counted \/ run[q].stage = "chunking" => c
    <3>1. CASE ReturnAttempt(q)
      BY <3>1 DEF ReturnAttempt
    <3>2. CASE PassGate(q)
      BY <3>2 DEF PassGate, AtGate, ReviewStages
    <3> QED
      BY <1>3, <3>1, <3>2
  <2>2. /\ run[q].part = "body" /\ run[q].stage \in ProcessingStages \cup ReviewStages
        /\ run[q].stage = "ingesting" => task[q].pc = "wrote"
    BY <1>3 DEF ReturnAttempt, PassGate, Processing, AtGate, ReviewStages
  <2>3. CASE q = r
    BY <2>1, <2>2, <2>3, <1>f
  <2>4. CASE q # r
    BY <2>1, <2>4, <1>e
  <2> QED
    BY <2>3, <2>4
<1>4. ASSUME NEW q \in Runs, NEW left, Retried(q, left), task[q].pc # "idle"
      PROVE  Moves
  <2>1. run' = run \/ run' = Entered(q, "failed", run[q].counted)
    BY <1>4 DEF Retried
  <2>2. CASE q = r
    BY <1>4, <2>1, <2>2, <1>f
  <2>3. CASE q # r
    BY <2>1, <2>3, <1>e
  <2> QED
    BY <2>2, <2>3
<1>5. ASSUME NEW q \in Extra, NEW kind \in WorkflowKinds, Rerun(q, kind)
      PROVE  Moves
  <2>1. kind \in {"reingest", "promote"}
    BY <1>5, OpsAssumption
       DEF Rerun, NoEarlyRerun, EarlyRerunKinds, RerunKinds, WorkflowKinds, PageOps, ChunkOps
  <2>2. /\ kind = "reingest" => FirstStage[kind] = "ingesting" /\ Records(chunks) # {}
        /\ kind = "promote" => /\ FirstStage[kind] = "ingesting_prod"
                               /\ doc.stage \in {"approval_for_prod", "completed"}
    BY <1>5 DEF Rerun, Startable, FirstStage
  <2>3. /\ run[q].part = "absent"
        /\ run' = [run EXCEPT ![q] =
               [kind |-> kind, stage |-> FirstStage[kind], part |-> "mirror",
                counted |-> kind = "reingest" \/ (kind = "promote" /\ doc.counted)]]
    BY <1>5 DEF Rerun
  <2>4. CASE q = r
    <3> DEFINE known == kind = "reingest" \/ (kind = "promote" /\ doc.counted)
    <3>1. /\ kind = "reingest" => known = TRUE
          /\ kind = "promote" => known = doc.counted
      BY DEF TypeOK
    <3>2. run'[r] = [kind |-> kind, stage |-> FirstStage[kind], part |-> "mirror",
                     counted |-> known]
      BY <2>3, <2>4, <1>t
    <3> HIDE DEF known
    <3>3. run'[r].counted = known /\ run'[r].stage = FirstStage[kind] /\ run'[r].part = "mirror"
      BY <3>2
    <3>4. CASE kind = "reingest"
      <4>1. run'[r].counted
        BY <3>1, <3>3, <3>4
      <4> QED
        BY <2>2, <2>3, <2>4, <3>3, <3>4, <4>1
    <3>5. CASE kind = "promote"
      BY <2>2, <2>3, <2>4, <3>1, <3>3, <3>5
    <3> QED
      BY <2>1, <3>4, <3>5
  <2>5. CASE q # r
    BY <2>3, <2>5, <1>t
  <2> QED
    BY <2>4, <2>5
<1> HIDE DEF Moves
<1>6. ASSUME NEW q \in Runs, WorkerStep(q) \/ PassGate(q) \/ AttemptFails(q)
      PROVE  Moves
  <2>1. CASE BeginAttempt(q) \/ AttemptStep(q)
    BY <2>1, <1>1 DEF BeginAttempt, AttemptStep, StoreSegment, ReadBack, SavePages, SaveChunks,
       ReconcileRow, IndexBatch, AllSent
  <2>2. CASE AttemptFails(q)
    BY <2>2, <1>4 DEF AttemptFails
  <2> QED
    BY <1>2, <1>3, <1>6, <2>1, <2>2 DEF WorkerStep
<1>7. ASSUME NEW q \in Runs, NEW a \in Late, AttemptTimesOut(q, a)
      PROVE  Moves
  BY <1>4, <1>7 DEF AttemptTimesOut
<1>8. ASSUME NEW a \in Late, AttemptStep(a) \/ LateEnds(a)
      PROVE  Moves
  BY <1>1, <1>8 DEF LateEnds, AttemptStep, StoreSegment, ReadBack, SavePages, SaveChunks,
     ReconcileRow, IndexBatch, AllSent
<1>9. CASE \/ \E op \in PageOps \cup ChunkOps, n \in Pages : OpenEdit(op, n)
           \/ WriteEdit \/ Unindex \/ Mark \/ EditLost \/ UNCHANGED vars
  BY <1>1, <1>9 DEF OpenEdit, WriteEdit, Unindex, Mark, EditLost, vars
<1> QED
  BY <1>5, <1>6, <1>7, <1>8, <1>9 DEF Next

\* Only the pipeline is ever in a stage before the ingestion.
LEMMA EarlyKept ==
  ASSUME TypeOK, NoEarlyRerun, OnlyMainEarly, [Next]_vars
  PROVE  OnlyMainEarly'
<1> SUFFICES ASSUME NEW r \in Extra
             PROVE  run'[r].stage \notin EarlyStages
  BY DEF OnlyMainEarly
<1>1. r \in Runs /\ run[r].stage \notin EarlyStages
  BY DEF OnlyMainEarly, Runs
<1>2. {"failed", "ingesting", "ingesting_prod"} \cap EarlyStages = {}
  BY EarlyOnes
<1> QED
  BY <1>1, <1>2, RunMoves, LateFollows

\* The pipeline does not come back to a stage.
LEMMA NoWayBack ==
  ASSUME TypeOK, NoEarlyRerun, [Next]_vars, NEW s \in ProcessingStages, MayRun(s)'
  PROVE  MayRun(s)
<1>1. "main" \in Runs /\ "main" \notin Extra
  BY RunsAssumption DEF Runs
<1>2. /\ run'["main"].part # "closed" /\ run'["main"].stage \in LineStages
      /\ Rank[run'["main"].stage] <= Rank[s]
  BY DEF MayRun
<1>3. Rank[s] \in Nat /\ "failed" \notin LineStages
  BY Onward DEF LineStages, ProcessingStages, ReviewStages
<1>4. CASE run'["main"] = run["main"]
  BY <1>2, <1>4 DEF MayRun
<1>5. CASE /\ run["main"].part = "mirror" /\ run'["main"].part \in {"body", "closed"}
           /\ run'["main"].stage = run["main"].stage
  BY <1>2, <1>5 DEF MayRun
<1>6. CASE /\ run["main"].part = "body" /\ run["main"].stage \in ProcessingStages \cup ReviewStages
           /\ run'["main"].stage = Following[run["main"].stage]
  <2>1. /\ run["main"].stage \in LineStages /\ Rank[run["main"].stage] \in Nat
        /\ Rank[Following[run["main"].stage]] = Rank[run["main"].stage] + 1
    BY <1>6, Onward
  <2>2. Rank[run["main"].stage] + 1 <= Rank[s]
    BY <1>2, <1>6, <2>1
  <2>3. Rank[run["main"].stage] <= Rank[s]
    BY <2>1, <2>2, <1>3
  <2> QED
    BY <1>6, <2>1, <2>3 DEF MayRun
<1> QED
  BY <1>1, <1>2, <1>3, <1>4, <1>5, <1>6, RunMoves

\* How a step changes an attempt: nothing, over, moved to a late place, begun
\* by its workflow, or a step of the attempt itself.
LEMMA TaskMoves ==
  ASSUME TypeOK, AttemptShape, [Next]_vars, NEW b \in Attempts
  PROVE  \/ task'[b] = task[b]
         \/ task'[b].pc = "idle" /\ task'[b].stage = "none"
         \/ \E c \in Attempts : task'[b] = task[c]
         \/ b \in Runs /\ BeginAttempt(b) /\ task'[b] = Begun(run[b].stage, task[b].tries)
         \/ AttemptStep(b)
<1> DEFINE Moves ==
             \/ task'[b] = task[b]
             \/ task'[b].pc = "idle" /\ task'[b].stage = "none"
             \/ \E c \in Attempts : task'[b] = task[c]
             \/ b \in Runs /\ BeginAttempt(b) /\ task'[b] = Begun(run[b].stage, task[b].tries)
             \/ AttemptStep(b)
<1> SUFFICES Moves
  OBVIOUS
<1>t. task \in [Attempts -> TaskRecord]
  BY DEF TypeOK
<1>i. /\ IdleTask.pc = "idle" /\ IdleTask.stage = "none"
      /\ \A n : [IdleTask EXCEPT !.tries = n].pc = "idle" /\ [IdleTask EXCEPT !.tries = n].stage = "none"
  BY DEF IdleTask
<1>r. Runs \subseteq Attempts /\ Extra \subseteq Runs /\ Late \subseteq Attempts
  BY DEF Runs, Attempts
<1>1. CASE UNCHANGED task
  BY <1>1
<1>2. ASSUME NEW a \in Attempts, AttemptStep(a)
      PROVE  Moves
  <2>1. CASE a = b
    BY <1>2, <2>1
  <2>2. CASE a # b
    <3>1. CASE StoreSegment(a)
      BY <3>1, <2>2, <1>t DEF StoreSegment
    <3>2. CASE ReadBack(a) \/ SavePages(a) \/ SaveChunks(a) \/ ReconcileRow(a)
      BY <3>2, <2>2, <1>t DEF ReadBack, SavePages, SaveChunks, ReconcileRow
    <3>3. CASE IndexBatch(a)
      BY <3>3, <2>2, <1>t DEF IndexBatch
    <3>4. CASE AllSent(a)
      BY <3>4, <2>2, <1>t DEF AllSent
    <3> QED
      BY <1>2, <3>1, <3>2, <3>3, <3>4 DEF AttemptStep
  <2> QED
    BY <2>1, <2>2
<1>3. ASSUME NEW q \in Runs, BeginAttempt(q)
      PROVE  Moves
  <2>1. task' = [task EXCEPT ![q] = Begun(run[q].stage, task[q].tries)]
    BY <1>3 DEF BeginAttempt
  <2>2. CASE q = b
    <3>1. task'[b] = Begun(run[b].stage, task[b].tries)
      BY <2>1, <2>2, <1>t
    <3> QED
      BY <1>3, <2>2, <3>1
  <2>3. CASE q # b
    BY <2>1, <2>3, <1>t
  <2> QED
    BY <2>2, <2>3
<1>4. ASSUME NEW q \in Attempts, NEW left, left \in [Attempts -> TaskRecord],
             NEW idle, idle = IdleTask \/ (\E n : idle = [IdleTask EXCEPT !.tries = n]),
             task' = [left EXCEPT ![q] = idle],
             \A c \in Attempts : left[c] = task[c] \/ \E d \in Attempts : left[c] = task[d]
      PROVE  Moves
  <2>1. idle.pc = "idle" /\ idle.stage = "none"
    BY <1>4, <1>i
  <2>2. CASE q = b
    BY <1>4, <2>1, <2>2
  <2>3. CASE q # b
    <3>1. task'[b] = left[b]
      BY <1>4, <2>3
    <3> QED
      BY <3>1, <1>4
  <2> QED
    BY <2>2, <2>3
<1>5. ASSUME NEW q \in Attempts, NEW left, left \in [Attempts -> TaskRecord], Retried(q, left),
             \A c \in Attempts : left[c] = task[c] \/ \E d \in Attempts : left[c] = task[d]
      PROVE  Moves
  <2>1. PICK idle : /\ idle = IdleTask \/ (\E n : idle = [IdleTask EXCEPT !.tries = n])
                    /\ task' = [left EXCEPT ![q] = idle]
    BY <1>5 DEF Retried
  <2> HIDE DEF Moves
  <2> QED
    BY <1>4, <1>5, <2>1
<1> HIDE DEF Moves
<1>6. ASSUME NEW q \in Runs, WorkerStep(q) \/ PassGate(q) \/ AttemptFails(q)
      PROVE  Moves
  <2>1. CASE MirrorDone(q) \/ PassGate(q)
    BY <2>1, <1>1 DEF MirrorDone, PassGate
  <2>2. CASE ReturnAttempt(q)
    BY <2>2, <1>4, <1>r, <1>t DEF ReturnAttempt
  <2>3. CASE AttemptFails(q)
    BY <2>3, <1>5, <1>r, <1>t DEF AttemptFails
  <2> QED
    BY <1>2, <1>3, <1>6, <1>r, <2>1, <2>2, <2>3 DEF WorkerStep
<1>7. ASSUME NEW q \in Runs, NEW a \in Late, AttemptTimesOut(q, a)
      PROVE  Moves
  <2> DEFINE left == [task EXCEPT ![a] = task[q]]
  <2>1. task[q] \in TaskRecord
    BY <1>r, <1>t
  <2>2. left \in [Attempts -> TaskRecord]
    BY <2>1, <1>t
  <2>3. \A c \in Attempts : left[c] = task[c] \/ \E d \in Attempts : left[c] = task[d]
    BY <1>r, <1>t
  <2>4. Retried(q, left) /\ q \in Attempts
    BY <1>7, <1>r DEF AttemptTimesOut
  <2> HIDE DEF left
  <2> QED
    BY <2>2, <2>3, <2>4, <1>5
<1>8. ASSUME NEW a \in Late, AttemptStep(a) \/ LateEnds(a)
      PROVE  Moves
  BY <1>2, <1>4, <1>8, <1>r, <1>t DEF LateEnds
<1>9. CASE \/ \E op \in PageOps \cup ChunkOps, n \in Pages : OpenEdit(op, n)
           \/ WriteEdit \/ Unindex \/ Mark \/ EditLost \/ UNCHANGED vars
           \/ \E r \in Extra, kind \in WorkflowKinds : Rerun(r, kind)
  BY <1>1, <1>9 DEF OpenEdit, WriteEdit, Unindex, Mark, EditLost, Rerun, vars
<1> QED
  BY <1>6, <1>7, <1>8, <1>9 DEF Next

\* An attempt at work stays in its stage, and stops scanning for good.
LEMMA StepShape ==
  ASSUME TypeOK, NEW b \in Attempts, AttemptStep(b)
  PROVE  /\ task'[b].stage = task[b].stage /\ task'[b].pc # "idle"
         /\ task'[b].pc = "scanned" => task[b].pc = "scanned"
<1>t. task \in [Attempts -> TaskRecord] /\ task[b] \in TaskRecord
  BY DEF TypeOK
<1>1. CASE StoreSegment(b)
  <2>1. PICK n \in Pages : task' = [task EXCEPT ![b].pages[n].saved = TRUE]
    BY <1>1 DEF StoreSegment
  <2> QED
    BY <1>1, <2>1, <1>t DEF StoreSegment, TaskRecord
<1>2. CASE ReadBack(b)
  BY <1>2, <1>t DEF ReadBack, TaskRecord
<1>3. CASE SavePages(b) \/ SaveChunks(b) \/ ReconcileRow(b)
  <2>1. task' = [task EXCEPT ![b].pc = "wrote"] \/ task' = [task EXCEPT ![b].pc = "reconciled"]
    BY <1>3 DEF SavePages, SaveChunks, ReconcileRow
  <2> QED
    BY <2>1, <1>t DEF TaskRecord
<1>4. CASE IndexBatch(b)
  <2>1. PICK p : task' = [task EXCEPT ![b].chunks[p.num] = NoChunk]
    BY <1>4 DEF IndexBatch
  <2> QED
    BY <1>4, <2>1, <1>t DEF IndexBatch, TaskRecord
<1>5. CASE AllSent(b)
  BY <1>5, <1>t DEF AllSent, TaskRecord
<1> QED
  BY <1>1, <1>2, <1>3, <1>4, <1>5 DEF AttemptStep

LEMMA ShapeKept ==
  ASSUME TypeOK, AttemptShape, [Next]_vars
  PROVE  AttemptShape'
<1> SUFFICES ASSUME NEW b \in Attempts
             PROVE  /\ task'[b].pc = "idle" => task'[b].stage = "none"
                    /\ task'[b].pc = "scanned" => task'[b].stage = "ocr_processing"
  BY DEF AttemptShape
<1>1. CASE task'[b] = Begun(run[b].stage, task[b].tries)
  BY <1>1 DEF Begun
<1>2. CASE AttemptStep(b)
  BY <1>2, StepShape DEF AttemptShape
<1> QED
  BY <1>1, <1>2, TaskMoves DEF AttemptShape

\* How a step changes what is owed: nothing, an edit is taken back, or it is
\* written while nothing is at work.
LEMMA OwedMoves ==
  ASSUME TypeOK, RequestShape, [Next]_vars, NEW n \in Pages, NEW review \in Reviews
  PROVE  \/ owed'[n][review] = owed[n][review]
         \/ owed'[n][review] = 0
         \/ /\ WriteEdit /\ Undisturbed /\ review \in ReviewsOf(req.op)
            /\ n = req.num /\ owed'[n][review] = version + 1
<1>1. CASE WriteEdit
  <2>1. owed' = OwedAfter(req.op, req.num, version + 1)
    BY <1>1 DEF WriteEdit
  <2>2. CASE n # req.num
    <3>1. owed'[n] = owed[n]
      BY <2>1, <2>2 DEF OwedAfter, TypeOK
    <3> QED
      BY <3>1
  <2>3. CASE n = req.num
    <3>1. owed'[n] = [rv \in Reviews |->
            CASE req.op = "reset_page" /\ rv = "ocr_review"     -> 0
              [] req.op = "reset_chunk" /\ rv = "chunk_review" -> 0
              [] Undisturbed /\ rv \in ReviewsOf(req.op)      -> version + 1
              [] OTHER                                        -> owed[n][rv]]
      BY <2>1, <2>3 DEF OwedAfter, TypeOK
    <3>2. owed'[n][review] =
            CASE req.op = "reset_page" /\ review = "ocr_review"     -> 0
              [] req.op = "reset_chunk" /\ review = "chunk_review" -> 0
              [] Undisturbed /\ review \in ReviewsOf(req.op)      -> version + 1
              [] OTHER                                            -> owed[n][review]
      BY <3>1
    <3>3. CASE (req.op = "reset_page" /\ review = "ocr_review")
                 \/ (req.op = "reset_chunk" /\ review = "chunk_review")
      <4>1. review \notin ReviewsOf(req.op)
        BY <3>3 DEF ReviewsOf
      <4>2. CASE req.op = "reset_page" /\ review = "ocr_review"
        <5>1. ~(req.op = "reset_chunk" /\ review = "chunk_review")
          BY <4>2
        <5> QED
          BY <3>2, <4>1, <4>2, <5>1
      <4>3. CASE req.op = "reset_chunk" /\ review = "chunk_review"
        <5>1. ~(req.op = "reset_page" /\ review = "ocr_review")
          BY <4>3
        <5> QED
          BY <3>2, <4>1, <4>3, <5>1
      <4> QED
        BY <3>3, <4>2, <4>3
    <3>4. CASE /\ ~(req.op = "reset_page" /\ review = "ocr_review")
               /\ ~(req.op = "reset_chunk" /\ review = "chunk_review")
               /\ Undisturbed /\ review \in ReviewsOf(req.op)
      BY <3>2, <3>4, <2>3, <1>1
    <3>5. CASE /\ ~(req.op = "reset_page" /\ review = "ocr_review")
               /\ ~(req.op = "reset_chunk" /\ review = "chunk_review")
               /\ ~(Undisturbed /\ review \in ReviewsOf(req.op))
      BY <3>2, <3>5
    <3> QED
      BY <3>3, <3>4, <3>5
  <2> QED
    BY <2>2, <2>3
<1>2. CASE ~WriteEdit
  <2>1. UNCHANGED owed
    BY <1>2 DEF Next, vars, WorkerStep, MirrorDone, BeginAttempt, AttemptStep, ReturnAttempt,
       PassGate, AttemptFails, Rerun, AttemptTimesOut, LateEnds, OpenEdit, Unindex, Mark,
       EditLost, editVars
  <2> QED
    BY <2>1
<1> QED
  BY <1>1, <1>2

\* The row comes to name a page review only after the stage it is about.
LEMMA RowKept ==
  ASSUME TypeOK, NoEarlyRerun, OnlyMainEarly, RowBehind, [Next]_vars
  PROVE  RowBehind'
<1>1. ASSUME NEW s \in {"ocr_review", "translation_review"}, doc'.stage = s, doc.stage # s
      PROVE  run["main"].stage = s
  <2>1. CASE \E q \in Runs : MirrorDone(q)
    <3>1. PICK q \in Runs : MirrorDone(q)
      BY <2>1
    <3>2. doc' = [doc EXCEPT !.stage = run[q].stage, !.counted = run[q].counted]
      BY <3>1 DEF MirrorDone
    <3>3. run[q].stage = s
      BY <3>2, <1>1 DEF TypeOK
    <3>4. q \notin Extra
      BY <3>3, EarlyOnes DEF OnlyMainEarly
    <3> QED
      BY <3>3, <3>4 DEF Runs
  <2>2. CASE \E a \in Attempts : AttemptStep(a)
    <3>1. PICK a \in Attempts : AttemptStep(a)
      BY <2>2
    <3>2. CASE ReconcileRow(a)
      BY <1>1, <3>2 DEF ReconcileRow, TypeOK
    <3>3. CASE AllSent(a)
      BY <1>1, <3>3 DEF AllSent, TypeOK
    <3>4. CASE StoreSegment(a) \/ ReadBack(a) \/ SavePages(a) \/ SaveChunks(a) \/ IndexBatch(a)
      BY <1>1, <3>4 DEF StoreSegment, ReadBack, SavePages, SaveChunks, IndexBatch
    <3> QED
      BY <3>1, <3>2, <3>3, <3>4 DEF AttemptStep
  <2>3. CASE Mark
    BY <1>1, <2>3 DEF Mark, TypeOK
  <2>4. CASE UNCHANGED doc
    BY <1>1, <2>4
  <2>5. Runs \subseteq Attempts /\ Extra \subseteq Runs /\ Late \subseteq Attempts
    BY DEF Runs, Attempts
  <2> QED
    BY <2>1, <2>2, <2>3, <2>4, <2>5
       DEF Next, vars, WorkerStep, BeginAttempt, ReturnAttempt, PassGate, AttemptFails, Rerun,
           AttemptTimesOut, LateEnds, OpenEdit, WriteEdit, Unindex, EditLost
<1>2. ~(run["main"].stage = "ocr_review" /\ MayRun("ocr_processing"))
  BY DEF MayRun, Rank
<1>3. ~(run["main"].stage = "translation_review" /\ MayRun("translation_processing"))
  BY DEF MayRun, Rank
<1>4. MayRun("ocr_processing")' => MayRun("ocr_processing")
  BY NoWayBack DEF ProcessingStages
<1>5. MayRun("translation_processing")' => MayRun("translation_processing")
  BY NoWayBack DEF ProcessingStages
<1> QED
  BY <1>1, <1>2, <1>3, <1>4, <1>5 DEF RowBehind

\* No edit is owed to a review before the stage it is about is over.
LEMMA OwedKept ==
  ASSUME TypeOK, RequestShape, NoEarlyRerun, RowBehind, OwedBehind, [Next]_vars
  PROVE  OwedBehind'
<1>v. version \in Nat /\ (version' = version \/ version' = version + 1)
  <2>1. version' = version \/ version' = version + 1
    BY DEF Next, vars, WorkerStep, MirrorDone, BeginAttempt, AttemptStep, ReturnAttempt,
       PassGate, AttemptFails, Rerun, AttemptTimesOut, LateEnds, OpenEdit, WriteEdit, Unindex,
       Mark, EditLost, editVars
  <2> QED
    BY <2>1, Versions DEF TypeOK
<1>w. WriteEdit => version' = version + 1
  BY DEF WriteEdit
<1>r. {"ocr_review", "translation_review", "chunk_review"} = Reviews
  BY DEF Reviews
<1>1. ASSUME NEW n \in Pages, NEW review \in Reviews
      PROVE  owed'[n][review] <= version'
  <2>1. owed[n][review] <= version /\ owed[n][review] \in Nat
    BY Versions DEF OwedBehind, TypeOK
  <2> QED
    BY <1>v, <1>w, <2>1, OwedMoves
<1>2. ASSUME NEW n \in Pages, MayRun("ocr_processing")'
      PROVE  owed'[n]["ocr_review"] = 0
  <2>1. MayRun("ocr_processing")
    BY <1>2, NoWayBack DEF ProcessingStages
  <2>2. "ocr_review" \notin ReviewsOf(req.op)
    BY <2>1 DEF ReviewsOf, RowBehind
  <2> QED
    BY <2>1, <2>2, <1>r, OwedMoves DEF OwedBehind
<1>3. ASSUME NEW n \in Pages, MayRun("translation_processing")'
      PROVE  owed'[n]["translation_review"] = 0
  <2>1. MayRun("translation_processing")
    BY <1>3, NoWayBack DEF ProcessingStages
  <2>2. "translation_review" \notin ReviewsOf(req.op)
    BY <2>1 DEF ReviewsOf, RowBehind
  <2> QED
    BY <2>1, <2>2, <1>r, OwedMoves DEF OwedBehind
<1>4. ASSUME NEW n \in Pages, MayRun("chunking")'
      PROVE  owed'[n]["chunk_review"] = 0
  <2>1. MayRun("chunking")
    BY <1>4, NoWayBack DEF ProcessingStages
  <2>2. "chunk_review" \notin ReviewsOf(req.op)
    <3>1. ~Past("chunking")
      <4>1. run["main"].stage \in LineStages => Rank[run["main"].stage] \in Nat
        BY DEF LineStages, ProcessingStages, ReviewStages, Rank
      <4>2. Rank["chunking"] \in Nat
        BY DEF Rank
      <4> QED
        BY <2>1, <4>1, <4>2 DEF MayRun, Past
    <3> QED
      BY <3>1 DEF ReviewsOf
  <2> QED
    BY <2>1, <2>2, <1>r, OwedMoves DEF OwedBehind
<1> QED
  BY <1>1, <1>2, <1>3, <1>4 DEF OwedBehind

\* The step of an attempt leaves what is owed and, except while it is
\* scanning, what it has read of the pages.
LEMMA StepReads ==
  ASSUME TypeOK, AttemptShape, NEW b \in Attempts, AttemptStep(b),
         task[b].stage = "translation_processing"
  PROVE  task'[b].pages = task[b].pages
<1>t. task \in [Attempts -> TaskRecord] /\ task[b] \in TaskRecord
  BY DEF TypeOK
<1>1. task[b].pc # "scanned"
  BY DEF AttemptShape
<1>2. CASE SavePages(b) \/ SaveChunks(b) \/ ReconcileRow(b)
  <2>1. task' = [task EXCEPT ![b].pc = "wrote"] \/ task' = [task EXCEPT ![b].pc = "reconciled"]
    BY <1>2 DEF SavePages, SaveChunks, ReconcileRow
  <2> QED
    BY <2>1, <1>t DEF TaskRecord
<1> QED
  BY <1>1, <1>2 DEF AttemptStep, StoreSegment, ReadBack, IndexBatch, AllSent

\* While an attempt is at work nothing is owed that it will overwrite.
LEMMA AttemptsKept ==
  ASSUME TypeOK, RequestShape, AttemptShape, NoEarlyRerun, OnlyMainEarly, OwedBehind,
         AttemptsBehind, ReviewedEditsSurvive, [Next]_vars
  PROVE  AttemptsBehind'
<1> DEFINE Behind(what, n, due) ==
             /\ what.stage = "ocr_processing" =>
                  due[n]["ocr_review"] = 0 /\ due[n]["translation_review"] = 0
             /\ what.stage = "translation_processing" =>
                  /\ due[n]["translation_review"] = 0
                  /\ what.pages[n].saved => due[n]["ocr_review"] <= what.pages[n].edited.id[2]
             /\ what.stage = "chunking" => due[n]["chunk_review"] = 0
<1> SUFFICES ASSUME NEW b \in Attempts, NEW n \in Pages
             PROVE  Behind(task'[b], n, owed')
  BY DEF AttemptsBehind
<1>r. {"ocr_review", "translation_review", "chunk_review"} = Reviews
  BY DEF Reviews
<1>t. \A c \in Attempts : task[c] \in TaskRecord /\ task[c].pages[n] \in Page
  BY DEF TypeOK, TaskRecord
<1>1. ASSUME NEW c \in Attempts
      PROVE  Behind(task[c], n, owed)
  BY DEF AttemptsBehind
\* What is owed grows only when nothing is at work.
<1>2. ASSUME NEW c \in Attempts
      PROVE  Behind(task[c], n, owed')
  <2>1. CASE task[c].pc = "idle"
    BY <2>1 DEF AttemptShape
  <2>2. CASE task[c].pc # "idle"
    <3>1. ~Undisturbed
      BY <2>2 DEF Undisturbed
    <3>2. \A review \in Reviews : owed'[n][review] = owed[n][review] \/ owed'[n][review] = 0
      BY <3>1, OwedMoves
    <3>3. task[c].pages[n].edited.id[2] \in Nat
      BY <1>t, TextParts, Versions DEF Page
    <3>4. /\ owed'[n]["ocr_review"] = owed[n]["ocr_review"] \/ owed'[n]["ocr_review"] = 0
          /\ \/ owed'[n]["translation_review"] = owed[n]["translation_review"]
             \/ owed'[n]["translation_review"] = 0
          /\ owed'[n]["chunk_review"] = owed[n]["chunk_review"] \/ owed'[n]["chunk_review"] = 0
      BY <3>2, <1>r
    <3> QED
      BY <1>1, <3>3, <3>4
  <2> QED
    BY <2>1, <2>2
<1>3. CASE b \in Runs /\ BeginAttempt(b) /\ task'[b] = Begun(run[b].stage, task[b].tries)
  <2>1. UNCHANGED owed /\ run[b].part = "body" /\ run[b].stage \in ProcessingStages
    BY <1>3 DEF BeginAttempt, Processing, editVars
  <2>2. task'[b].stage = run[b].stage
    BY <1>3 DEF Begun
  <2>3. ASSUME run[b].stage \in {"ocr_processing", "translation_processing", "chunking"}
        PROVE  /\ run[b].stage \in {"ocr_processing", "translation_processing"} =>
                    MayRun("translation_processing")
               /\ run[b].stage = "ocr_processing" => MayRun("ocr_processing")
               /\ MayRun("chunking")
    <3>1. b = "main"
      BY <1>3, <2>3, EarlyOnes DEF OnlyMainEarly, Runs
    <3>2. run["main"].stage \in LineStages /\ run["main"].part # "closed"
      BY <2>1, <3>1, Onward
    <3> QED
      BY <2>3, <3>1, <3>2 DEF MayRun, Rank
  <2>4. CASE run[b].stage = "ocr_processing"
    <3>1. owed[n]["ocr_review"] = 0 /\ owed[n]["translation_review"] = 0
      BY <2>3, <2>4 DEF OwedBehind
    <3> QED
      BY <2>1, <2>2, <2>4, <3>1
  <2>5. CASE run[b].stage = "translation_processing"
    <3>1. owed[n]["translation_review"] = 0
      BY <2>3, <2>5 DEF OwedBehind
    <3>2. task'[b].pages = pages
      BY <1>3, <2>5 DEF Begun
    <3>3. owed[n]["ocr_review"] <= pages[n].edited.id[2]
      BY DEF ReviewedEditsSurvive
    <3> QED
      BY <2>1, <2>2, <2>5, <3>1, <3>2, <3>3
  <2>6. CASE run[b].stage = "chunking"
    <3>1. owed[n]["chunk_review"] = 0
      BY <2>3, <2>6 DEF OwedBehind
    <3> QED
      BY <2>1, <2>2, <2>6, <3>1
  <2> QED
    BY <2>2, <2>4, <2>5, <2>6
<1>4. CASE AttemptStep(b)
  <2>1. task'[b].stage = task[b].stage
    BY <1>4, StepShape
  <2>2. task[b].stage = "translation_processing" => task'[b].pages = task[b].pages
    BY <1>4, StepReads
  <2> QED
    BY <1>2, <2>1, <2>2
<1>5. CASE task'[b].stage = "none"
  BY <1>5
<1>6. CASE task'[b] = task[b]
  BY <1>2, <1>6
<1>7. ASSUME NEW c \in Attempts, task'[b] = task[c]
      PROVE  Behind(task'[b], n, owed')
  BY <1>2, <1>7
<1> HIDE DEF Behind
<1> QED
  BY <1>3, <1>4, <1>5, <1>6, <1>7, TaskMoves

\* Writing an edit leaves the edits of other kinds, and of other pages.
LEMMA EditSurvives ==
  ASSUME TypeOK, RequestShape, OwedBehind, ReviewedEditsSurvive, WriteEdit, [Next]_vars
  PROVE  ReviewedEditsSurvive'
<1> SUFFICES ASSUME NEW n \in Pages
             PROVE  /\ owed'[n]["ocr_review"] <= pages'[n].edited.id[2]
                    /\ owed'[n]["translation_review"] <= pages'[n].edited_translation.id[2]
                    /\ owed'[n]["chunk_review"] <= chunks'[n].edited.id[2]
  BY DEF ReviewedEditsSurvive
<1> DEFINE v == version + 1
           due(review) == owed[n][review]
<1>r. {"ocr_review", "translation_review", "chunk_review"} = Reviews
  BY DEF Reviews
<1>q. /\ req.op \in PageOps \cup ChunkOps /\ req.num \in Pages /\ v \in 0..MaxEdits
      /\ req.keep \in BOOLEAN /\ v \in Nat /\ version \in Nat
  BY BoundsAssumption DEF WriteEdit, RequestShape, Editing, TypeOK, RequestRecord
<1>t. pages[n] \in Page /\ chunks[n] \in Chunk
  BY DEF TypeOK
<1>n. /\ pages[n].edited.id[2] \in Nat /\ pages[n].edited_translation.id[2] \in Nat
      /\ chunks[n].edited.id[2] \in Nat
  BY <1>t, TextParts, Versions DEF Page, Chunk
<1>o. \A review \in Reviews : due(review) \in Nat /\ due(review) <= version
  BY Versions DEF OwedBehind, TypeOK
<1>s. /\ due("ocr_review") <= pages[n].edited.id[2]
      /\ due("translation_review") <= pages[n].edited_translation.id[2]
      /\ due("chunk_review") <= chunks[n].edited.id[2]
  BY DEF ReviewedEditsSurvive
\* Nothing more is owed but by the edit itself, to its own review.
<1>1. ASSUME NEW review \in Reviews
      PROVE  \/ owed'[n][review] \in {due(review), 0}
             \/ owed'[n][review] = v /\ review \in ReviewsOf(req.op) /\ n = req.num
  BY OwedMoves
<1>2. ASSUME NEW review \in Reviews
      PROVE  owed'[n][review] \in Nat /\ owed'[n][review] <= v
  BY <1>1, <1>o, <1>q
<1> DEFINE OcrSafe == owed'[n]["ocr_review"] <= pages'[n].edited.id[2]
           TranslationSafe ==
             owed'[n]["translation_review"] <= pages'[n].edited_translation.id[2]
           ChunkSafe == owed'[n]["chunk_review"] <= chunks'[n].edited.id[2]
\* A text that is left alone is safe from an edit of another review.
<1>3. ("ocr_review" \notin ReviewsOf(req.op) \/ n # req.num)
        /\ pages'[n].edited = pages[n].edited => OcrSafe
  BY <1>1, <1>n, <1>s, <1>o, <1>r
<1>4. ("translation_review" \notin ReviewsOf(req.op) \/ n # req.num)
        /\ pages'[n].edited_translation = pages[n].edited_translation => TranslationSafe
  BY <1>1, <1>n, <1>s, <1>o, <1>r
<1>5. ("chunk_review" \notin ReviewsOf(req.op) \/ n # req.num)
        /\ chunks'[n].edited = chunks[n].edited => ChunkSafe
  BY <1>1, <1>n, <1>s, <1>o, <1>r
<1>6. /\ pages'[n].edited.id[2] = v => OcrSafe
      /\ pages'[n].edited_translation.id[2] = v => TranslationSafe
      /\ chunks'[n].edited.id[2] = v => ChunkSafe
  BY <1>2, <1>q, <1>r
<1> SUFFICES OcrSafe /\ TranslationSafe /\ ChunkSafe
  OBVIOUS
<1>7. CASE n # req.num
  <2>1. pages'[n] = pages[n] /\ chunks'[n] = chunks[n]
    BY <1>7 DEF WriteEdit, TypeOK
  <2> HIDE DEF OcrSafe, TranslationSafe, ChunkSafe
  <2> QED
    BY <1>7, <2>1, <1>3, <1>4, <1>5
<1>8. CASE n = req.num /\ req.op \in PageOps
  <2>1. pages'[n] = EditedPage(pages[n], req.op, v, req.keep) /\ chunks'[n] = chunks[n]
    BY <1>8 DEF WriteEdit, TypeOK
  <2>2. CASE req.op = "page"
    <3>1. pages'[n].edited = Edited(Markdown(pages[n]), v, req.keep)
            /\ pages'[n].edited_translation = pages[n].edited_translation
      BY <2>1, <2>2, <1>t DEF EditedPage, Page
    <3>2. pages'[n].edited.id[2] = v
      BY <3>1, <1>t, <1>q, Tables, Texts
    <3>3. "translation_review" \notin ReviewsOf(req.op) /\ "chunk_review" \notin ReviewsOf(req.op)
      BY <2>2 DEF ReviewsOf
    <3> HIDE DEF OcrSafe, TranslationSafe, ChunkSafe
    <3> QED
      BY <2>1, <3>1, <3>2, <3>3, <1>4, <1>5, <1>6
  <2>3. CASE req.op = "translation"
    <3>1. pages'[n].edited_translation = Edited(best_page_text(pages[n]), v, req.keep)
            /\ pages'[n].edited = pages[n].edited
      BY <2>1, <2>3, <1>t DEF EditedPage, Page
    <3>2. pages'[n].edited_translation.id[2] = v
      BY <3>1, <1>t, <1>q, Tables, Texts
    <3>3. "ocr_review" \notin ReviewsOf(req.op) /\ "chunk_review" \notin ReviewsOf(req.op)
      BY <2>3 DEF ReviewsOf
    <3> HIDE DEF OcrSafe, TranslationSafe, ChunkSafe
    <3> QED
      BY <2>1, <3>1, <3>2, <3>3, <1>3, <1>5, <1>6
  <2>4. CASE req.op = "reset_page"
    <3>1. pages'[n].edited = NoText
            /\ pages'[n].edited_translation = pages[n].edited_translation
      BY <2>1, <2>4, <1>t DEF EditedPage, Page
    <3>2. owed'[n]["ocr_review"] = 0
      <4>1. owed'[n]["ocr_review"] =
              CASE req.op = "reset_page" /\ "ocr_review" = "ocr_review"     -> 0
                [] req.op = "reset_chunk" /\ "ocr_review" = "chunk_review" -> 0
                [] Undisturbed /\ "ocr_review" \in ReviewsOf(req.op)      -> v
                [] OTHER                                        -> owed[n]["ocr_review"]
        BY <1>8, <1>r DEF WriteEdit, OwedAfter, TypeOK
      <4>2. "ocr_review" \notin ReviewsOf(req.op)
        BY <2>4 DEF ReviewsOf
      <4> QED
        BY <4>1, <4>2, <2>4
    <3>3. "translation_review" \notin ReviewsOf(req.op) /\ "chunk_review" \notin ReviewsOf(req.op)
      BY <2>4 DEF ReviewsOf
    <3>4. OcrSafe
      BY <3>1, <3>2, Texts
    <3> HIDE DEF OcrSafe, TranslationSafe, ChunkSafe
    <3> QED
      BY <2>1, <3>1, <3>3, <3>4, <1>4, <1>5
  <2> QED
    BY <1>8, <2>2, <2>3, <2>4 DEF PageOps
<1>9. CASE n = req.num /\ req.op \notin PageOps
  <2>1. chunks'[n] = EditedChunk(chunks[n], req.op, v, req.keep) /\ pages'[n] = pages[n]
    BY <1>9 DEF WriteEdit, TypeOK
  <2>2. req.op \in ChunkOps /\ "ocr_review" \notin ReviewsOf(req.op)
          /\ "translation_review" \notin ReviewsOf(req.op)
    BY <1>9, <1>q DEF ReviewsOf, PageOps
  <2>3. OcrSafe /\ TranslationSafe
    <3> HIDE DEF OcrSafe, TranslationSafe
    <3> QED
      BY <2>1, <2>2, <1>3, <1>4
  <2>4. CASE req.op = "chunk"
    <3>1. chunks'[n].edited = Edited(ChunkText(chunks[n]), v, req.keep)
      BY <2>1, <2>4, <1>t DEF EditedChunk, Chunk
    <3>2. chunks'[n].edited.id[2] = v
      BY <3>1, <1>t, <1>q, Tables, Texts
    <3> QED
      BY <2>3, <3>2, <1>6
  <2>5. CASE req.op = "exclude" \/ req.op = "include"
    <3>1. chunks'[n].edited = chunks[n].edited
      BY <2>1, <2>5, <1>t DEF EditedChunk, Chunk
    <3>2. "chunk_review" \notin ReviewsOf(req.op)
      BY <2>5 DEF ReviewsOf
    <3> QED
      BY <2>3, <3>1, <3>2, <1>5
  <2>6. CASE req.op = "reset_chunk"
    <3>1. chunks'[n].edited = NoText
      BY <2>1, <2>6, <1>t DEF EditedChunk, Chunk
    <3>2. owed'[n]["chunk_review"] = 0
      <4>1. owed'[n]["chunk_review"] =
              CASE req.op = "reset_page" /\ "chunk_review" = "ocr_review"     -> 0
                [] req.op = "reset_chunk" /\ "chunk_review" = "chunk_review" -> 0
                [] Undisturbed /\ "chunk_review" \in ReviewsOf(req.op)      -> v
                [] OTHER                                        -> owed[n]["chunk_review"]
        BY <1>9, <1>r DEF WriteEdit, OwedAfter, TypeOK
      <4>2. "chunk_review" \notin ReviewsOf(req.op)
        BY <2>6 DEF ReviewsOf
      <4> QED
        BY <4>1, <4>2, <2>6
    <3>3. ChunkSafe
      BY <3>1, <3>2, Texts
    <3> QED
      BY <2>3, <3>3
  <2> QED
    BY <2>2, <2>4, <2>5, <2>6 DEF ChunkOps
<1> QED
  BY <1>7, <1>8, <1>9

\* What attempts write over is not owed, or is among what they read.
LEMMA WritesSpare ==
  ASSUME TypeOK, AttemptShape, AttemptsBehind, ReviewedEditsSurvive,
         NEW a \in Attempts, AttemptStep(a)
  PROVE  ReviewedEditsSurvive'
<1> SUFFICES ASSUME NEW n \in Pages
             PROVE  /\ owed[n]["ocr_review"] <= pages'[n].edited.id[2]
                    /\ owed[n]["translation_review"] <= pages'[n].edited_translation.id[2]
                    /\ owed[n]["chunk_review"] <= chunks'[n].edited.id[2]
  BY DEF ReviewedEditsSurvive, AttemptStep, editVars
<1>t. /\ pages[n] \in Page /\ chunks[n] \in Chunk /\ task[a].pages[n] \in Page
      /\ task \in [Attempts -> TaskRecord] /\ task[a] \in TaskRecord
      /\ pages \in [Pages -> Page]
  BY DEF TypeOK, TaskRecord
<1>s. /\ owed[n]["ocr_review"] <= pages[n].edited.id[2]
      /\ owed[n]["translation_review"] <= pages[n].edited_translation.id[2]
      /\ owed[n]["chunk_review"] <= chunks[n].edited.id[2]
  BY DEF ReviewedEditsSurvive
<1>p. \A page \in Page : page.edited.id[2] \in Nat /\ page.edited_translation.id[2] \in Nat
  BY TextParts, Versions DEF Page
<1>1. CASE StoreSegment(a)
  <2>1. PICK m \in Pages : pages' = [pages EXCEPT ![m] = FreshPage]
    BY <1>1 DEF StoreSegment
  <2>2. owed[n]["ocr_review"] = 0 /\ owed[n]["translation_review"] = 0
    BY <1>1 DEF StoreSegment, AttemptShape, AttemptsBehind
  <2>3. pages'[n] = pages[n] \/ pages'[n] = FreshPage
    BY <2>1, <1>t
  <2>4. UNCHANGED chunks
    BY <1>1 DEF StoreSegment
  <2> QED
    BY <2>2, <2>3, <2>4, <1>p, <1>s, <1>t, Tables
<1>2. CASE SavePages(a)
  <2>0. UNCHANGED chunks
    BY <1>2 DEF SavePages
  <2>1. pages'[n] = IF ~task[a].pages[n].saved THEN pages[n]
                    ELSE IF task[a].stage = "translation_processing" /\ n \in Foreign
                    THEN Translated(task[a].pages[n])
                    ELSE task[a].pages[n]
    BY <1>2 DEF SavePages
  <2>2. /\ Translated(task[a].pages[n]).edited = task[a].pages[n].edited
        /\ Translated(task[a].pages[n]).edited_translation = task[a].pages[n].edited_translation
    BY <1>t DEF Translated, Page
  <2>3. CASE ~task[a].pages[n].saved
    BY <2>0, <2>1, <2>3, <1>s
  <2>4. CASE task[a].pages[n].saved
    <3>1. /\ pages'[n].edited = task[a].pages[n].edited
          /\ pages'[n].edited_translation = task[a].pages[n].edited_translation
      BY <2>1, <2>2, <2>4
    <3>2. owed[n]["translation_review"] = 0
            /\ owed[n]["ocr_review"] <= task[a].pages[n].edited.id[2]
      BY <1>2, <2>4, <1>p, <1>t DEF SavePages, AttemptsBehind
    <3> QED
      BY <2>0, <3>1, <3>2, <1>p, <1>s, <1>t
  <2> QED
    BY <2>3, <2>4
<1>3. CASE SaveChunks(a)
  <2>1. chunks'[n].edited = NoText /\ UNCHANGED pages
    BY <1>3 DEF SaveChunks, Chunked, NoChunk
  <2>2. owed[n]["chunk_review"] = 0
    BY <1>3 DEF SaveChunks, AttemptsBehind
  <2> QED
    BY <2>1, <2>2, <1>s, Texts
<1>4. CASE ReadBack(a) \/ ReconcileRow(a) \/ IndexBatch(a) \/ AllSent(a)
  BY <1>4, <1>s DEF ReadBack, ReconcileRow, IndexBatch, AllSent
<1> QED
  BY <1>1, <1>2, <1>3, <1>4 DEF AttemptStep

LEMMA SurvivalKept ==
  ASSUME TypeOK, RequestShape, AttemptShape, OwedBehind, AttemptsBehind, ReviewedEditsSurvive,
         [Next]_vars
  PROVE  ReviewedEditsSurvive'
<1>1. CASE WriteEdit
  BY <1>1, EditSurvives
<1>2. ASSUME NEW a \in Attempts, AttemptStep(a)
      PROVE  ReviewedEditsSurvive'
  BY <1>2, WritesSpare
<1>3. CASE UNCHANGED <<pages, chunks, owed>>
  BY <1>3 DEF ReviewedEditsSurvive
<1>4. Runs \subseteq Attempts /\ Late \subseteq Attempts /\ Extra \subseteq Runs
  BY DEF Runs, Attempts
<1> QED
  BY <1>1, <1>2, <1>3, <1>4
     DEF Next, vars, WorkerStep, MirrorDone, BeginAttempt, ReturnAttempt, PassGate, AttemptFails,
         Rerun, AttemptTimesOut, LateEnds, OpenEdit, Unindex, Mark, EditLost, contentVars, editVars

\* At first nothing has been read and nothing is owed.
LEMMA ReviewAtFirst == Init => ReviewInv
<1> SUFFICES ASSUME Init
             PROVE  ReviewInv
  OBVIOUS
<1>1. TypeOK /\ RequestShape
  BY TypesAtFirst
<1>2. AttemptShape /\ AttemptsBehind
  BY DEF Init, IdleTask, AttemptShape, AttemptsBehind
<1>3. OnlyMainEarly
  <2>1. "registered" \notin EarlyStages
    BY EarlyOnes
  <2> QED
    BY <2>1, RunsAssumption DEF Init, OnlyMainEarly, Runs
<1>4. RowBehind
  BY DEF Init, RowBehind
<1>5. OwedBehind /\ ReviewedEditsSurvive
  <2>1. \A n \in Pages : pages[n] = NoPage /\ chunks[n] = NoChunk
    BY DEF Init, Blank, NoChunks
  <2>2. NoPage.edited = NoText /\ NoPage.edited_translation = NoText /\ NoChunk.edited = NoText
    BY DEF NoPage, NoChunk
  <2>3. \A n \in Pages, review \in Reviews : owed[n][review] = 0
    BY DEF Init
  <2>4. version = 0 /\ {"ocr_review", "translation_review", "chunk_review"} = Reviews
    BY DEF Init, Reviews
  <2>5. OwedBehind
    BY <2>3, <2>4 DEF OwedBehind
  <2>6. ReviewedEditsSurvive
    BY <2>1, <2>2, <2>3, <2>4, Texts DEF ReviewedEditsSurvive
  <2> QED
    BY <2>5, <2>6
<1> QED
  BY <1>1, <1>2, <1>3, <1>4, <1>5 DEF ReviewInv

\* Everything a reviewed edit depends on holds in every state: the row names a
\* review only when the stage under review is over, and no attempt, late or
\* retried, has in hand less than what is owed to the reviewers.
THEOREM ReviewInvariant ==
  ASSUME NoEarlyRerun
  PROVE  Spec => []ReviewInv
<1>1. ReviewInv /\ [Next]_vars => ReviewInv'
  <2> SUFFICES ASSUME ReviewInv, [Next]_vars
               PROVE  ReviewInv'
    OBVIOUS
  <2>1. /\ TypeOK /\ RequestShape /\ AttemptShape /\ OnlyMainEarly /\ RowBehind /\ OwedBehind
        /\ AttemptsBehind /\ ReviewedEditsSurvive
    BY DEF ReviewInv
  <2>2. TypeOK' /\ RequestShape'
    BY <2>1, TypesKept
  <2>3. AttemptShape' /\ OnlyMainEarly'
    BY <2>1, ShapeKept, EarlyKept
  <2>4. RowBehind' /\ OwedBehind'
    BY <2>1, RowKept, OwedKept
  <2>5. AttemptsBehind' /\ ReviewedEditsSurvive'
    BY <2>1, AttemptsKept, SurvivalKept
  <2> QED
    BY <2>2, <2>3, <2>4, <2>5 DEF ReviewInv
<1> QED
  BY <1>1, ReviewAtFirst, PTL DEF Spec

\* What a reviewer corrects while the row names the review, and nothing is at
\* work, is not undone by translation, chunking and their retries and late
\* attempts (translate_pages, save_pages, save_chunks), for any number of
\* pages, edits, attempts and re-ingestions and promotions beside the pipeline.
THEOREM ReviewedEdits ==
  ASSUME NoEarlyRerun
  PROVE  Spec => []ReviewedEditsSurvive
<1>1. ReviewInv => ReviewedEditsSurvive
  BY DEF ReviewInv
<1> QED
  BY <1>1, ReviewInvariant, PTL

-----------------------------------------------------------------------------
(***************************************************************************)
(* The index: the points in DEV are the chunks of the document or the      *)
(* document is flagged, where no stage before the ingestion is run again,  *)
(* attempts that are given up on stop, and the document is no scheme.      *)
(***************************************************************************)
PlainDocument == NoEarlyRerun /\ Late = {} /\ ~Scheme

-----------------------------------------------------------------------------
(* Steps, where nothing is left running.                                   *)

LEMMA AfterOnes ==
  AfterIngestion = {"approval_for_prod", "ingesting_prod", "publishing_to_network", "completed"}
BY DEF AfterIngestion, LineStages, ProcessingStages, ReviewStages, Rank

LEMMA RunsWork == PlainDocument => Attempts = Runs
BY DEF PlainDocument, Attempts

\* The steps there are.
LEMMA PlainSteps ==
  ASSUME PlainDocument, [Next]_vars
  PROVE  \/ \E q \in Runs : \/ MirrorDone(q) \/ BeginAttempt(q) \/ AttemptStep(q)
                            \/ ReturnAttempt(q) \/ PassGate(q) \/ AttemptFails(q)
         \/ \E q \in Extra, kind \in WorkflowKinds : Rerun(q, kind)
         \/ \E op \in PageOps \cup ChunkOps, n \in Pages : OpenEdit(op, n)
         \/ WriteEdit \/ Unindex \/ Mark \/ EditLost
         \/ UNCHANGED vars
BY DEF PlainDocument, Next, WorkerStep

\* A step of a workflow or of its attempt is no step of another one.
LEMMA Elsewhere ==
  ASSUME TypeOK, NEW q \in Runs, NEW r \in Runs, r # q,
         \/ MirrorDone(q) \/ BeginAttempt(q) \/ AttemptStep(q)
         \/ ReturnAttempt(q) \/ PassGate(q) \/ AttemptFails(q)
         \/ \E kind \in WorkflowKinds : Rerun(q, kind)
  PROVE  run'[r] = run[r] /\ task'[r] = task[r]
<1>t. /\ run \in [Runs -> RunRecord] /\ task \in [Attempts -> TaskRecord]
      /\ q \in Attempts /\ r \in Attempts
  BY DEF TypeOK, Attempts
<1>e. ASSUME NEW s, NEW c, run' = Entered(q, s, c)
      PROVE  run'[r] = run[r]
  BY <1>t, <1>e DEF Entered
<1>1. CASE MirrorDone(q)
  BY <1>1, <1>t DEF MirrorDone
<1>2. CASE BeginAttempt(q)
  BY <1>2, <1>t DEF BeginAttempt
<1>3. CASE AttemptStep(q)
  <2>1. UNCHANGED run
    BY <1>3 DEF AttemptStep, StoreSegment, ReadBack, SavePages, SaveChunks, ReconcileRow,
       IndexBatch, AllSent
  <2>2. task'[r] = task[r]
    <3>1. CASE StoreSegment(q)
      BY <3>1, <1>t DEF StoreSegment
    <3>2. CASE ReadBack(q) \/ SavePages(q) \/ SaveChunks(q) \/ ReconcileRow(q)
      BY <3>2, <1>t DEF ReadBack, SavePages, SaveChunks, ReconcileRow
    <3>3. CASE IndexBatch(q)
      BY <3>3, <1>t DEF IndexBatch
    <3>4. CASE AllSent(q)
      BY <3>4, <1>t DEF AllSent
    <3> QED
      BY <1>3, <3>1, <3>2, <3>3, <3>4 DEF AttemptStep
  <2> QED
    BY <2>1, <2>2
<1>4. CASE ReturnAttempt(q)
  <2>1. run'[r] = run[r]
    BY <1>4, <1>e DEF ReturnAttempt
  <2>2. task'[r] = task[r]
    BY <1>4, <1>t DEF ReturnAttempt
  <2> QED
    BY <2>1, <2>2
<1>5. CASE PassGate(q)
  BY <1>5, <1>e DEF PassGate
<1>6. CASE AttemptFails(q)
  <2>1. task'[r] = task[r]
    BY <1>6, <1>t DEF AttemptFails, Retried
  <2>2. run' = run \/ run' = Entered(q, "failed", run[q].counted)
    BY <1>6 DEF AttemptFails, Retried
  <2> QED
    BY <2>1, <2>2, <1>e
<1>7. ASSUME NEW kind \in WorkflowKinds, Rerun(q, kind)
      PROVE  run'[r] = run[r] /\ task'[r] = task[r]
  BY <1>7, <1>t DEF Rerun
<1> QED
  BY <1>1, <1>2, <1>3, <1>4, <1>5, <1>6, <1>7

\* Edits are no steps of a workflow.
LEMMA EditsApart ==
  ASSUME \/ \E op \in PageOps \cup ChunkOps, n \in Pages : OpenEdit(op, n)
         \/ WriteEdit \/ Unindex \/ Mark \/ EditLost \/ UNCHANGED vars
  PROVE  UNCHANGED <<run, task>>
BY DEF OpenEdit, WriteEdit, Unindex, Mark, EditLost, vars

\* An attempt that ingests sends a record, or has sent all of them.
LEMMA Ingests ==
  ASSUME TypeOK, AttemptShape, NEW q \in Attempts, AttemptStep(q), task[q].stage = "ingesting"
  PROVE  /\ task[q].pc = "read"
         /\ \/ AllSent(q) /\ task'[q].chunks = NoChunks /\ Records(task[q].chunks) = {}
            \/ /\ task'[q].pc = "read"
               /\ \E p \in Records(task[q].chunks) :
                    /\ dev' = Upserted(dev, {p}) /\ UNCHANGED <<doc, chunks>>
                    /\ task'[q].chunks = [task[q].chunks EXCEPT ![p.num] = NoChunk]
<1>t. task \in [Attempts -> TaskRecord] /\ task[q] \in TaskRecord
  BY DEF TypeOK
<1>0. AllSent(q) \/ IndexBatch(q)
  BY DEF AttemptStep, SavePages, SaveChunks, ReconcileRow, StoreSegment, ReadBack, AttemptShape
<1>1. CASE AllSent(q)
  BY <1>1, <1>t DEF AllSent, TaskRecord
<1>2. CASE IndexBatch(q)
  <2>1. PICK p \in Records(task[q].chunks) :
          /\ dev' = Upserted(dev, {p})
          /\ task' = [task EXCEPT ![q].chunks[p.num] = NoChunk]
    BY <1>2 DEF IndexBatch
  <2>2. task'[q] = [task[q] EXCEPT !.chunks[p.num] = NoChunk]
    BY <2>1, <1>t
  <2>3. task'[q].pc = task[q].pc
          /\ task'[q].chunks = [task[q].chunks EXCEPT ![p.num] = NoChunk]
    BY <2>2, <1>t DEF TaskRecord
  <2> QED
    BY <1>2, <2>1, <2>3 DEF IndexBatch
<1> QED
  BY <1>0, <1>1, <1>2

\* Between its steps a workflow waits for one attempt, of its own stage.
LEMMA AttemptOfRunKept ==
  ASSUME PlainDocument, TypeOK, AttemptShape, AttemptOfRun, [Next]_vars
  PROVE  AttemptOfRun'
<1> DEFINE Fits(work, flow) ==
             /\ work.pc # "idle" =>
                  /\ flow.part = "body" /\ flow.stage \in ProcessingStages
                  /\ work.stage = flow.stage
             /\ work.stage = "ingesting" /\ work.pc = "wrote" => work.chunks = NoChunks
<1> SUFFICES ASSUME NEW r \in Runs
             PROVE  Fits(task'[r], run'[r])
  BY DEF AttemptOfRun, Processing
<1>1. Fits(task[r], run[r])
  BY DEF AttemptOfRun, Processing
<1>t. /\ run \in [Runs -> RunRecord] /\ task \in [Attempts -> TaskRecord]
      /\ r \in Attempts /\ task[r] \in TaskRecord
  BY DEF TypeOK, Attempts
<1>i. IdleTask.pc = "idle" /\ IdleTask.stage = "none"
  BY DEF IdleTask
<1>2. CASE UNCHANGED <<run, task>>
  BY <1>1, <1>2
<1>3. ASSUME NEW q \in Runs, r # q,
             \/ MirrorDone(q) \/ BeginAttempt(q) \/ AttemptStep(q)
             \/ ReturnAttempt(q) \/ PassGate(q) \/ AttemptFails(q)
             \/ \E kind \in WorkflowKinds : Rerun(q, kind)
      PROVE  Fits(task'[r], run'[r])
  BY <1>1, <1>3, Elsewhere
<1>4. ASSUME task[r].pc = "idle", UNCHANGED task
      PROVE  Fits(task'[r], run'[r])
  BY <1>4, <1>1
<1>5. CASE MirrorDone(r) \/ PassGate(r) \/ (\E kind \in WorkflowKinds : Rerun(r, kind))
  <2>1. UNCHANGED task /\ ~Processing(r)
    BY <1>5 DEF MirrorDone, PassGate, Rerun, Processing, AtGate, ReviewStages, ProcessingStages
  <2>2. task[r].pc = "idle"
    BY <2>1 DEF AttemptOfRun
  <2> QED
    BY <2>1, <2>2, <1>4
<1>6. CASE BeginAttempt(r)
  <2>1. task'[r] = Begun(run[r].stage, task[r].tries) /\ UNCHANGED run /\ Processing(r)
    BY <1>6, <1>t DEF BeginAttempt
  <2> QED
    BY <2>1 DEF Begun, Processing
<1>7. CASE AttemptStep(r)
  <2>1. UNCHANGED run
    BY <1>7 DEF AttemptStep, StoreSegment, ReadBack, SavePages, SaveChunks, ReconcileRow,
       IndexBatch, AllSent
  <2>2. task[r].pc # "idle"
    BY <1>7 DEF AttemptStep, StoreSegment, ReadBack, SavePages, SaveChunks, ReconcileRow,
       IndexBatch, AllSent
  <2>3. task'[r].stage = task[r].stage
    BY <1>7, <1>t, StepShape
  <2>4. CASE task[r].stage = "ingesting"
    <3>1. task'[r].pc = "wrote" => task'[r].chunks = NoChunks
      BY <1>7, <2>4, <1>t, Ingests
    <3> QED
      BY <1>1, <2>1, <2>2, <2>3, <3>1
  <2>5. CASE task[r].stage # "ingesting"
    BY <1>1, <2>1, <2>2, <2>3, <2>5
  <2> QED
    BY <2>4, <2>5
<1>8. CASE ReturnAttempt(r)
  <2>1. task'[r] = IdleTask
    BY <1>8, <1>t DEF ReturnAttempt
  <2> QED
    BY <2>1, <1>i
<1>9. CASE AttemptFails(r)
  <2>1. task'[r] = IdleTask \/ task'[r] = [IdleTask EXCEPT !.tries = task[r].tries + 1]
    BY <1>9, <1>t DEF AttemptFails, Retried
  <2>2. task'[r].pc = "idle" /\ task'[r].stage = "none"
    BY <2>1 DEF IdleTask
  <2> QED
    BY <2>2
<1> HIDE DEF Fits
<1>10. Extra \subseteq Runs
  BY DEF Runs
<1> QED
  BY <1>2, <1>3, <1>5, <1>6, <1>7, <1>8, <1>9, <1>10, PlainSteps, EditsApart

-----------------------------------------------------------------------------
(* Edits and the flag.                                                     *)

\* Only one who had reason to sets the flag.
LEMMA FlagKept ==
  ASSUME TypeOK, RequestShape, FlagMeant, [Next]_vars
  PROVE  FlagMeant'
<1>i. /\ IdleRequest.op = "none" /\ IdleRequest.unindex = FALSE /\ IdleRequest.pc = "idle"
      /\ "none" \notin ChunkOps
  BY DEF IdleRequest, ChunkOps
<1>1. CASE UNCHANGED req
  BY <1>1 DEF FlagMeant
<1>2. CASE req' = IdleRequest
  BY <1>2, <1>i DEF FlagMeant
<1>3. ASSUME NEW op \in PageOps \cup ChunkOps, NEW n \in Pages, OpenEdit(op, n)
      PROVE  FlagMeant'
  <2>1. PICK keep \in BOOLEAN :
          req' = [op |-> op, pc |-> "write", num |-> n, keep |-> keep, mark |-> StaleAfter(op),
                  unindex |-> op = "exclude" /\ ~chunks[n].excluded /\ doc.stage = "completed"]
    BY <1>3 DEF OpenEdit
  <2>2. op \in ChunkOps => StaleAfter(op)
    BY DEF StaleAfter
  <2>3. "exclude" \in ChunkOps
    BY DEF ChunkOps
  <2>4. req'.op = op /\ req'.pc = "write" /\ (req'.mark <=> StaleAfter(op))
          /\ (req'.unindex => op = "exclude")
    BY <2>1
  <2> QED
    BY <2>2, <2>3, <2>4 DEF FlagMeant
<1>4. CASE WriteEdit
  <2>1. \/ req' = IdleRequest
        \/ req' = [req EXCEPT !.pc = "unindex"] /\ req.unindex
        \/ req' = [req EXCEPT !.pc = "mark"] /\ req.mark
    <3>1. req' = IF NextStep = "idle" THEN IdleRequest ELSE [req EXCEPT !.pc = NextStep]
      BY <1>4 DEF WriteEdit
    <3>2. CASE req.unindex
      <4>1. NextStep = "unindex"
        BY <3>2 DEF NextStep
      <4>2. req' = [req EXCEPT !.pc = "unindex"]
        BY <3>1, <4>1
      <4> QED
        BY <3>2, <4>2
    <3>3. CASE ~req.unindex /\ req.mark
      <4>1. NextStep = "mark"
        BY <3>3 DEF NextStep
      <4> QED
        BY <3>1, <3>3, <4>1
    <3>4. CASE ~req.unindex /\ ~req.mark
      <4>1. NextStep = "idle"
        BY <3>4 DEF NextStep
      <4>2. req' = IdleRequest
        BY <3>1, <4>1
      <4> QED
        BY <4>2
    <3> QED
      BY <3>2, <3>3, <3>4
  <2> QED
    BY <1>2, <2>1 DEF FlagMeant, TypeOK, RequestRecord
<1>5. CASE Unindex
  BY <1>5 DEF Unindex, FlagMeant, TypeOK, RequestRecord
<1> QED
  BY <1>1, <1>2, <1>3, <1>4, <1>5
     DEF Next, vars, WorkerStep, MirrorDone, BeginAttempt, AttemptStep, ReturnAttempt, PassGate,
         AttemptFails, Rerun, AttemptTimesOut, LateEnds, Mark, EditLost, editVars

\* The row changes only so.
LEMMA RowMoves ==
  ASSUME PlainDocument, TypeOK, [Next]_vars
  PROVE  \/ doc' = doc
         \/ \E q \in Runs : /\ MirrorDone(q) /\ doc'.reindex = doc.reindex
                            /\ doc'.stage = run[q].stage /\ doc'.counted = run[q].counted
         \/ /\ doc'.stage = IF doc.stage \in ChunkedStages THEN doc.stage ELSE "chunk_review"
            /\ doc'.counted = TRUE /\ doc'.reindex = doc.reindex
         \/ /\ Mark /\ doc'.reindex = TRUE
            /\ doc'.stage = doc.stage /\ doc'.counted = doc.counted
<1>t. doc \in DocRecord /\ DocRecord = [stage : DocumentStage, counted : BOOLEAN, reindex : BOOLEAN]
  BY DEF TypeOK, DocRecord
<1>1. CASE UNCHANGED doc
  BY <1>1
<1>2. ASSUME NEW q \in Runs, MirrorDone(q)
      PROVE  /\ doc'.reindex = doc.reindex
             /\ doc'.stage = run[q].stage /\ doc'.counted = run[q].counted
  BY <1>2, <1>t DEF MirrorDone
<1>3. ASSUME NEW q \in Runs, ReconcileRow(q)
      PROVE  /\ doc'.stage = IF doc.stage \in ChunkedStages THEN doc.stage ELSE "chunk_review"
             /\ doc'.counted = TRUE /\ doc'.reindex = doc.reindex
  BY <1>3, <1>t DEF ReconcileRow
<1>4. ASSUME NEW q \in Runs, AllSent(q)
      PROVE  UNCHANGED doc
  BY <1>4 DEF AllSent, PlainDocument
<1>5. CASE Mark
  BY <1>5, <1>t DEF Mark
<1>6. ASSUME NEW q \in Runs, AttemptStep(q)
      PROVE  UNCHANGED doc \/ ReconcileRow(q)
  BY <1>4, <1>6 DEF AttemptStep, StoreSegment, ReadBack, SavePages, SaveChunks, IndexBatch
<1> QED
  BY <1>1, <1>2, <1>3, <1>5, <1>6, PlainSteps
     DEF BeginAttempt, ReturnAttempt, PassGate, AttemptFails, Rerun, OpenEdit, WriteEdit, Unindex,
         EditLost, vars

\* What the flag would have to tell of is not undone.
LEMMA CleanBefore ==
  ASSUME PlainDocument, TypeOK, FlagMeant, [Next]_vars, Clean'
  PROVE  Clean
<1>c. ~doc'.reindex /\ ~missed' /\ req'.pc \in {"idle", "write"}
  BY DEF Clean
<1>1. ~doc.reindex
  BY <1>c, RowMoves
<1>2. ~missed
  BY <1>c DEF Next, vars, WorkerStep, MirrorDone, BeginAttempt, AttemptStep, ReturnAttempt, PassGate,
     AttemptFails, Rerun, AttemptTimesOut, LateEnds, OpenEdit, WriteEdit, Unindex, Mark, EditLost,
     editVars
<1>3. req.pc \in {"idle", "write"}
  <2> SUFFICES ASSUME req.pc \in {"unindex", "mark"}
               PROVE  FALSE
    BY DEF TypeOK, RequestRecord
  <2>1. req.mark
    BY DEF FlagMeant
  <2>2. ~Mark
    BY <1>c DEF Mark, TypeOK
  <2>3. ~EditLost
    BY <1>c, <2>1 DEF EditLost
  <2>4. ~Unindex
    BY <1>c DEF Unindex, TypeOK, RequestRecord
  <2>5. UNCHANGED req
    BY <2>2, <2>3, <2>4 DEF Next, vars, WorkerStep, MirrorDone, BeginAttempt, AttemptStep,
       ReturnAttempt, PassGate, AttemptFails, Rerun, AttemptTimesOut, LateEnds, OpenEdit, WriteEdit,
       Editing, editVars
  <2> QED
    BY <1>c, <2>5
<1> QED
  BY <1>1, <1>2, <1>3 DEF Clean

\* An edit that the flag need not tell of is one of a page, before chunking.
LEMMA CleanEdit ==
  ASSUME TypeOK, FlagMeant, RequestShape, CountsKnown, WriteEdit, Clean'
  PROVE  req.op \in PageOps /\ ~AtChunking
<1>c. ~missed' /\ req'.pc \in {"idle", "write"}
  BY DEF Clean
<1>1. ~req.mark
  <2> SUFFICES ASSUME req.mark
               PROVE  FALSE
    OBVIOUS
  <2>1. NextStep \in {"unindex", "mark"}
    BY DEF NextStep
  <2>2. req' = [req EXCEPT !.pc = NextStep]
    BY <2>1 DEF WriteEdit
  <2>3. req'.pc = NextStep
    BY <2>2 DEF TypeOK, RequestRecord
  <2> QED
    BY <1>c, <2>1, <2>3
<1>2. req.op \notin ChunkOps
  BY <1>1 DEF FlagMeant
<1>3. ~StaleAfter(req.op)
  BY <1>1, <1>c DEF WriteEdit
<1>4. ~AtChunking
  BY <1>3 DEF StaleAfter, CountsKnown
<1>5. req.op \in PageOps \cup ChunkOps
  BY DEF WriteEdit, RequestShape, Editing
<1> QED
  BY <1>2, <1>4, <1>5

-----------------------------------------------------------------------------
(* Before, at and after chunking.                                          *)

\* An attempt of a stage before the ingestion is one of the pipeline, which is
\* in that stage.
LEMMA MainWorks ==
  ASSUME OnlyMainEarly, AttemptOfRun, AttemptShape, NEW q \in Runs, q \in Attempts,
         task[q].stage \in {"ocr_processing", "translation_processing", "chunking"}
  PROVE  q = "main" /\ run["main"].part = "body" /\ run["main"].stage = task[q].stage
<1>1. task[q].pc # "idle"
  BY DEF AttemptShape
<1>2. run[q].part = "body" /\ run[q].stage = task[q].stage
  BY <1>1 DEF AttemptOfRun, Processing
<1>3. run[q].stage \in EarlyStages
  BY <1>2, EarlyOnes
<1> QED
  BY <1>2, <1>3 DEF OnlyMainEarly, Runs

\* Who ingests beside the pipeline is at work, and the pipeline ingests last.
LEMMA WhoIngests ==
  ASSUME TypeOK, AttemptOfRun, AttemptShape, NEW q \in Runs, q \in Attempts,
         task[q].stage = "ingesting"
  PROVE  /\ run[q].part = "body" /\ run[q].stage = "ingesting"
         /\ q = "main" => ~BeforeChunks /\ ~AtChunking
         /\ q # "main" => Touched
<1>1. task[q].pc # "idle"
  BY DEF AttemptShape
<1>2. run[q].part = "body" /\ run[q].stage = "ingesting"
  BY <1>1 DEF AttemptOfRun, Processing
<1>3. q = "main" => ~BeforeChunks /\ ~AtChunking
  BY <1>2 DEF BeforeChunks, AtChunking, Rank
<1>4. q # "main" => Touched
  BY <1>2 DEF Touched, Runs
<1> QED
  BY <1>2, <1>3, <1>4

\* What is before chunking was there before.
LEMMA BeforeKept ==
  ASSUME PlainDocument, TypeOK, [Next]_vars
  PROVE  /\ BeforeChunks' => BeforeChunks
         /\ AtChunking' => AtChunking \/ (BeforeChunks /\ MirrorDone("main"))
<1>1. "main" \in Runs /\ "main" \notin Extra /\ NoEarlyRerun
  BY RunsAssumption DEF Runs, PlainDocument
<1>r. /\ \A s \in LineStages : Rank[s] \in Nat
      /\ Rank["chunking"] = 5 /\ "failed" \notin LineStages
      /\ \A s \in LineStages : Rank[s] = 5 => s = "chunking"
      /\ Following["chunking"] = "chunk_review"
      /\ \A s \in ProcessingStages \cup ReviewStages : Following[s] = "chunking" => Rank[s] < 5
  BY DEF LineStages, ProcessingStages, ReviewStages, Rank, Following
<1>2. CASE run'["main"] = run["main"]
  BY <1>2 DEF BeforeChunks, AtChunking
<1>3. CASE /\ run["main"].part = "mirror" /\ run'["main"].part \in {"body", "closed"}
           /\ run'["main"].stage = run["main"].stage
  <2>1. BeforeChunks' => BeforeChunks
    BY <1>3 DEF BeforeChunks
  <2>2. ASSUME AtChunking'
        PROVE  BeforeChunks /\ MirrorDone("main")
    <3>1. run["main"].stage = "chunking" /\ "chunking" \in LineStages
      BY <1>3, <2>2 DEF AtChunking, LineStages, ProcessingStages
    <3>2. BeforeChunks
      BY <3>1, <1>3 DEF BeforeChunks
    <3>3. run'["main"].part = "body"
      BY <2>2 DEF AtChunking
    <3>4. MirrorDone("main")
      <4>1. ASSUME NEW q \in Runs, run' = Entered(q, Following[run[q].stage], run[q].counted)
                     \/ run' = Entered(q, Following[run[q].stage],
                                       run[q].counted \/ run[q].stage = "chunking")
                     \/ run' = Entered(q, "failed", run[q].counted)
            PROVE  FALSE
        <5>1. run \in [Runs -> RunRecord]
          BY DEF TypeOK
        <5>2. PICK s, c : run' = Entered(q, s, c)
          BY <4>1
        <5>3. run'["main"] = run["main"] \/ run'["main"].part = "mirror"
          BY <5>1, <5>2, <1>1 DEF Entered
        <5> QED
          BY <5>3, <3>3, <1>3
      <4>2. UNCHANGED run => FALSE
        BY <3>3, <1>3
      <4>3. ASSUME NEW q \in Runs, BeginAttempt(q) \/ AttemptStep(q)
            PROVE  UNCHANGED run
        BY <4>3 DEF BeginAttempt, AttemptStep, StoreSegment, ReadBack, SavePages, SaveChunks,
           ReconcileRow, IndexBatch, AllSent
      <4>4. ASSUME NEW q \in Runs, ReturnAttempt(q) \/ PassGate(q) \/ AttemptFails(q)
            PROVE  FALSE
        BY <4>1, <4>2, <4>4 DEF ReturnAttempt, PassGate, AttemptFails, Retried
      <4>5. Extra \subseteq Runs
        BY DEF Runs
      <4>6. ASSUME NEW q \in Runs, q # "main",
                   MirrorDone(q) \/ \E kind \in WorkflowKinds : Rerun(q, kind)
            PROVE  FALSE
        <5>1. run'["main"] = run["main"]
          BY <4>6, <1>1, Elsewhere
        <5> QED
          BY <5>1, <3>3, <1>3
      <4> QED
        BY <4>2, <4>3, <4>4, <4>5, <4>6, <1>1, PlainSteps, EditsApart
    <3> QED
      BY <3>2, <3>4
  <2> QED
    BY <2>1, <2>2
<1>4. CASE /\ run["main"].part = "body" /\ run["main"].stage \in ProcessingStages \cup ReviewStages
           /\ run'["main"].stage = Following[run["main"].stage] /\ run'["main"].part = "mirror"
  <2>1. ~AtChunking'
    BY <1>4 DEF AtChunking
  <2>2. ASSUME BeforeChunks'
        PROVE  BeforeChunks
    <3> DEFINE s == run["main"].stage
    <3>1. s \in LineStages /\ Rank[s] \in Nat /\ Rank[Following[s]] = Rank[s] + 1
      BY <1>4, Onward
    <3>2. Rank[Following[s]] < 5 \/ Following[s] = "chunking"
      BY <1>4, <1>r, <2>2 DEF BeforeChunks
    <3>3. Rank[s] < 5
      BY <3>1, <3>2, <1>4, <1>r
    <3> QED
      BY <3>1, <3>3, <1>4, <1>r DEF BeforeChunks
  <2> QED
    BY <2>1, <2>2
<1>5. CASE run'["main"].stage = "failed"
  BY <1>5, <1>r DEF BeforeChunks, AtChunking
<1> QED
  BY <1>1, <1>2, <1>3, <1>4, <1>5, RunMoves

\* No record is made of no chunks.
LEMMA NoRecords == Records(NoChunks) = {}
BY DEF Records, NoChunks, NoChunk

\* How chunks change without need to be flagged: only the pipeline writes
\* them, from what it read, while it is chunking.
LEMMA ChunkWrites ==
  ASSUME PlainDocument, TypeOK, RequestShape, AttemptShape, OnlyMainEarly, AttemptOfRun,
         FlagMeant, CountsKnown, [Next]_vars, Clean'
  PROVE  \/ UNCHANGED chunks
         \/ /\ AtChunking /\ SaveChunks("main") /\ UNCHANGED <<run, doc, pages, dev, req>>
            /\ task["main"].pc = "read" /\ chunks' = Chunked(task["main"].pages)
            /\ task' = [task EXCEPT !["main"].pc = "wrote"]
<1>1. ASSUME NEW q \in Runs, SaveChunks(q), AttemptStep(q)
      PROVE  /\ AtChunking /\ SaveChunks("main") /\ UNCHANGED <<run, doc, pages, dev, req>>
             /\ task["main"].pc = "read" /\ chunks' = Chunked(task["main"].pages)
             /\ task' = [task EXCEPT !["main"].pc = "wrote"]
  <2>1. q \in Attempts /\ task[q].stage = "chunking"
    BY <1>1 DEF SaveChunks, Attempts
  <2>2. q = "main" /\ AtChunking
    BY <2>1, MainWorks DEF AtChunking
  <2> QED
    BY <1>1, <2>2 DEF SaveChunks, AttemptStep, editVars
<1>2. WriteEdit => UNCHANGED chunks
  BY CleanEdit DEF WriteEdit
<1>3. ASSUME NEW q \in Runs, AttemptStep(q)
      PROVE  UNCHANGED chunks \/ SaveChunks(q)
  BY <1>3 DEF AttemptStep, StoreSegment, ReadBack, SavePages, ReconcileRow, IndexBatch, AllSent
<1> QED
  BY <1>1, <1>2, <1>3, PlainSteps
     DEF MirrorDone, BeginAttempt, ReturnAttempt, PassGate, AttemptFails, Rerun, OpenEdit, Unindex,
         Mark, EditLost, vars, contentVars

\* How pages change while the pipeline is chunking: by an edit the flag tells of.
LEMMA PagesStay ==
  ASSUME PlainDocument, TypeOK, RequestShape, AttemptShape, OnlyMainEarly, AttemptOfRun,
         FlagMeant, CountsKnown, [Next]_vars, Clean', AtChunking
  PROVE  UNCHANGED pages
<1>1. ASSUME NEW q \in Runs, AttemptStep(q)
      PROVE  UNCHANGED pages
  <2>1. q \in Attempts
    BY DEF Attempts
  <2>2. task[q].stage \notin {"ocr_processing", "translation_processing"}
    BY <2>1, MainWorks DEF AtChunking
  <2> QED
    BY <1>1, <2>1, <2>2 DEF AttemptStep, AttemptShape, StoreSegment, ReadBack, SavePages, SaveChunks,
       ReconcileRow, IndexBatch, AllSent
<1>2. ~WriteEdit
  BY CleanEdit
<1> QED
  BY <1>1, <1>2, PlainSteps
     DEF MirrorDone, BeginAttempt, ReturnAttempt, PassGate, AttemptFails, Rerun, OpenEdit, Unindex,
         Mark, EditLost, vars, contentVars

\* Points come and go only so.
LEMMA DevMoves ==
  ASSUME PlainDocument, TypeOK, AttemptShape, [Next]_vars
  PROVE  \/ UNCHANGED dev
         \/ Unindex /\ dev' \subseteq dev /\ req.pc = "unindex"
         \/ \E q \in Runs : /\ AttemptStep(q) /\ task[q].stage = "ingesting"
                            /\ \E p \in Records(task[q].chunks) : dev' = Upserted(dev, {p})
<1>1. ASSUME NEW q \in Runs, AttemptStep(q)
      PROVE  \/ UNCHANGED dev
             \/ /\ task[q].stage = "ingesting"
                /\ \E p \in Records(task[q].chunks) : dev' = Upserted(dev, {p})
  <2>1. CASE IndexBatch(q)
    <3>1. PICK p \in Records(task[q].chunks) :
            IF task[q].stage = "ingesting" THEN dev' = Upserted(dev, {p}) /\ UNCHANGED prod
            ELSE prod' = Upserted(prod, {p}) /\ UNCHANGED dev
      BY <2>1 DEF IndexBatch
    <3> QED
      BY <3>1
  <2>2. CASE ~IndexBatch(q)
    BY <1>1, <2>2 DEF AttemptStep, StoreSegment, ReadBack, SavePages, SaveChunks, ReconcileRow, AllSent
  <2> QED
    BY <2>1, <2>2
<1>2. ASSUME Unindex
      PROVE  dev' \subseteq dev /\ req.pc = "unindex"
  BY <1>2 DEF Unindex
<1> QED
  BY <1>1, <1>2, PlainSteps
     DEF MirrorDone, BeginAttempt, ReturnAttempt, PassGate, AttemptFails, Rerun, OpenEdit, WriteEdit,
         Mark, EditLost, vars, indexVars

\* Whatever touches the index or the row beside the pipeline does so when
\* there are chunks, or was there before.
LEMMA TouchMoves ==
  ASSUME PlainDocument, TypeOK, AttemptShape, AttemptOfRun, [Next]_vars, Touched', ~Touched
  PROVE  \/ ~BeforeChunks /\ ~AtChunking
         \/ Records(chunks) # {} /\ UNCHANGED <<chunks, pages, task>>
<1>u. /\ dev = {} /\ doc.stage \notin AfterIngestion
      /\ \A r \in Extra : run[r].part = "absent"
  BY DEF Touched
<1>r. NoEarlyRerun /\ Extra \subseteq Runs /\ Runs \subseteq Attempts /\ "main" \in Runs
        /\ Runs = {"main"} \cup Extra /\ "main" \notin Extra
  BY RunsAssumption DEF PlainDocument, Runs, Attempts
<1>1. CASE dev' # {}
  <2>1. PICK q \in Runs : task[q].stage = "ingesting"
    BY <1>1, <1>u, DevMoves
  <2> QED
    BY <2>1, <1>r, WhoIngests
<1>2. ASSUME NEW r \in Extra, run'[r].part # "absent"
      PROVE  Records(chunks) # {} /\ UNCHANGED <<chunks, pages, task>>
  <2>1. run[r].part = "absent" /\ r \in Runs
    BY <1>r, <1>u
  <2>2. task[r].pc = "idle"
    BY <2>1 DEF AttemptOfRun, Processing
  <2>3. Records(chunks) # {}
    <3>1. \/ run'[r].stage = "ingesting" /\ run'[r].counted /\ Records(chunks) # {}
          \/ doc.stage \in {"approval_for_prod", "completed"}
      BY <2>1, <2>2, <1>2, <1>r, RunMoves
    <3> QED
      BY <3>1, <1>u, AfterOnes
  <2>4. \E kind \in WorkflowKinds : Rerun(r, kind)
    <3>1. ASSUME NEW q \in Runs, q # r,
                 \/ MirrorDone(q) \/ BeginAttempt(q) \/ AttemptStep(q)
                 \/ ReturnAttempt(q) \/ PassGate(q) \/ AttemptFails(q)
                 \/ \E kind \in WorkflowKinds : Rerun(q, kind)
          PROVE  FALSE
      BY <3>1, <2>1, <1>2, Elsewhere
    <3>2. ~UNCHANGED run
      BY <2>1, <1>2
    <3>3. ~(\/ MirrorDone(r) \/ BeginAttempt(r) \/ AttemptStep(r)
            \/ ReturnAttempt(r) \/ PassGate(r) \/ AttemptFails(r))
      <4>1. ~MirrorDone(r) /\ ~BeginAttempt(r) /\ ~ReturnAttempt(r) /\ ~PassGate(r)
        BY <2>1 DEF MirrorDone, BeginAttempt, ReturnAttempt, PassGate, Processing, AtGate
      <4>2. ~AttemptStep(r) /\ ~AttemptFails(r)
        BY <2>2 DEF AttemptStep, AttemptFails, StoreSegment, ReadBack, SavePages, SaveChunks,
           ReconcileRow, IndexBatch, AllSent
      <4> QED
        BY <4>1, <4>2
    <3> QED
      BY <3>1, <3>2, <3>3, <1>r, PlainSteps, EditsApart
  <2> QED
    BY <2>3, <2>4 DEF Rerun, contentVars
<1>3. CASE doc'.stage \in AfterIngestion
  <2>1. ASSUME NEW q \in Runs, MirrorDone(q), doc'.stage = run[q].stage
        PROVE  ~BeforeChunks /\ ~AtChunking
    <3>1. q = "main"
      BY <2>1, <1>r, <1>u DEF MirrorDone
    <3>2. run["main"].stage \in AfterIngestion
      BY <1>3, <2>1, <3>1
    <3> QED
      BY <3>2, AfterOnes DEF BeforeChunks, AtChunking, Rank
  <2>2. "chunk_review" \notin AfterIngestion
    BY AfterOnes
  <2> QED
    BY <1>3, <1>u, <2>1, <2>2, RowMoves
<1> QED
  BY <1>1, <1>2, <1>3 DEF Touched

\* Before chunking there is nothing to be out of date.
LEMMA NothingKept ==
  ASSUME PlainDocument, TypeOK, RequestShape, AttemptShape, OnlyMainEarly, AttemptOfRun,
         NothingEarly, [Next]_vars
  PROVE  NothingEarly'
<1> SUFFICES ASSUME BeforeChunks'
             PROVE  chunks' = NoChunks /\ ~Touched' /\ req'.op \notin ChunkOps
  BY DEF NothingEarly
<1>b. BeforeChunks /\ chunks = NoChunks /\ ~Touched /\ req.op \notin ChunkOps
  BY BeforeKept DEF NothingEarly
<1>m. ~AtChunking
  BY <1>b DEF BeforeChunks, AtChunking, Rank
<1>1. chunks' = NoChunks
  <2>1. ASSUME NEW q \in Runs, AttemptStep(q)
        PROVE  UNCHANGED chunks
    <3>1. q \in Attempts
      BY DEF Attempts
    <3>2. ~SaveChunks(q)
      BY <3>1, <1>m, MainWorks DEF SaveChunks, AtChunking
    <3> QED
      BY <2>1, <3>2 DEF AttemptStep, StoreSegment, ReadBack, SavePages, ReconcileRow, IndexBatch,
         AllSent
  <2>2. WriteEdit => UNCHANGED chunks
    BY <1>b DEF WriteEdit, RequestShape, Editing
  <2>3. UNCHANGED chunks
    BY <2>1, <2>2, PlainSteps
       DEF MirrorDone, BeginAttempt, ReturnAttempt, PassGate, AttemptFails, Rerun, OpenEdit, Unindex,
           Mark, EditLost, vars, contentVars
  <2> QED
    BY <1>b, <2>3
<1>2. ~Touched'
  BY <1>b, TouchMoves, NoRecords
<1>3. req'.op \notin ChunkOps
  <2>1. CASE UNCHANGED req
    BY <2>1, <1>b
  <2>2. ASSUME NEW op \in PageOps \cup ChunkOps, NEW n \in Pages, OpenEdit(op, n)
        PROVE  req'.op \notin ChunkOps
    <3>1. op \in PageOps
      BY <2>2, <1>b DEF OpenEdit, NoChunks, NoChunk
    <3>2. req'.op = op
      BY <2>2 DEF OpenEdit
    <3> QED
      BY <3>1, <3>2 DEF PageOps, ChunkOps
  <2>3. CASE req' = IdleRequest
    BY <2>3 DEF IdleRequest, ChunkOps
  <2>4. CASE WriteEdit \/ Unindex
    <3>1. req' = IdleRequest \/ \E pc : req' = [req EXCEPT !.pc = pc]
      BY <2>4 DEF WriteEdit, Unindex
    <3> QED
      BY <2>3, <3>1, <1>b DEF TypeOK, RequestRecord
  <2> QED
    BY <2>1, <2>2, <2>3, <2>4, PlainSteps
       DEF MirrorDone, BeginAttempt, AttemptStep, ReturnAttempt, PassGate, AttemptFails, Rerun, Mark,
           EditLost, vars, editVars
<1> QED
  BY <1>1, <1>2, <1>3

\* The row gives away that there may be chunks, from the time there may be.
LEMMA CountsKept ==
  ASSUME PlainDocument, TypeOK, AttemptShape, AttemptOfRun, CountsKnown, [Next]_vars
  PROVE  CountsKnown'
<1>r. /\ NoEarlyRerun /\ Extra \subseteq Runs /\ "main" \in Runs
      /\ Runs = {"main"} \cup Extra /\ "main" \notin Extra
  BY RunsAssumption DEF PlainDocument, Runs
<1>a. {"approval_for_prod", "completed"} \subseteq AfterIngestion
  BY AfterOnes
<1>k. /\ \A s \in LineStages : Rank[s] \in Nat /\ (Rank[s] = 5 => s = "chunking")
      /\ Rank["chunking"] = 5 /\ "failed" \notin LineStages
      /\ \A s \in AfterIngestion : s \in LineStages /\ Rank[s] > 5
  BY AfterOnes DEF LineStages, ProcessingStages, ReviewStages, Rank
<1>1. ASSUME NEW r \in Extra, run'[r].part # "absent"
      PROVE  run'[r].counted
  <2>0. r \in Runs /\ (run[r].part # "absent" => run[r].counted)
          /\ (doc.stage \in AfterIngestion => doc.counted)
    BY <1>r DEF CountsKnown
  <2>1. task[r].pc # "idle" => run[r].part = "body"
    BY <2>0 DEF AttemptOfRun, Processing
  <2>2. CASE run'[r] = run[r]
    BY <1>1, <2>0, <2>2
  <2>3. CASE run[r].part = "absent" /\ run'[r].part = "mirror"
               /\ \/ run'[r].stage = "ingesting" /\ run'[r].counted /\ Records(chunks) # {}
                  \/ /\ run'[r].stage = "ingesting_prod" /\ run'[r].counted = doc.counted
                     /\ doc.stage \in {"approval_for_prod", "completed"}
    BY <2>0, <2>3, <1>a
  <2>4. CASE run[r].part # "absent" /\ run'[r].counted = run[r].counted
    BY <2>0, <2>4
  <2>5. CASE run[r].part = "body" /\ (run[r].counted => run'[r].counted)
    BY <2>0, <2>5
  <2> QED
    BY <2>0, <2>1, <2>2, <2>3, <2>4, <2>5, <1>r, RunMoves
<1>2. ASSUME run'["main"].stage \in LineStages, Rank[run'["main"].stage] > Rank["chunking"]
      PROVE  run'["main"].counted
  <2>0. run["main"].stage \in LineStages /\ Rank[run["main"].stage] > 5 => run["main"].counted
    BY <1>k DEF CountsKnown
  <2>1. CASE run'["main"].stage = run["main"].stage /\ run'["main"].counted = run["main"].counted
    BY <1>2, <1>k, <2>0, <2>1
  <2>2. CASE /\ run["main"].stage \in ProcessingStages \cup ReviewStages
             /\ run'["main"].stage = Following[run["main"].stage]
             /\ run["main"].counted \/ run["main"].stage = "chunking" => run'["main"].counted
    <3>1. /\ run["main"].stage \in LineStages /\ Rank[run["main"].stage] \in Nat
          /\ Rank[Following[run["main"].stage]] = Rank[run["main"].stage] + 1
      BY <2>2, Onward
    <3>2. Rank[run["main"].stage] + 1 > 5
      BY <1>2, <1>k, <2>2, <3>1
    <3>3. Rank[run["main"].stage] = 5 \/ Rank[run["main"].stage] > 5
      BY <3>1, <3>2
    <3> QED
      BY <1>k, <2>0, <2>2, <3>1, <3>3
  <2> QED
    BY <1>2, <1>k, <1>r, <2>1, <2>2, RunMoves
<1>3. ASSUME NEW q \in Runs, run[q].part = "mirror", run[q].stage \in AfterIngestion
      PROVE  run[q].counted
  BY <1>3, <1>r, <1>k DEF CountsKnown
<1>4. ASSUME doc'.stage \in AfterIngestion
      PROVE  doc'.counted
  <2>0. doc.stage \in AfterIngestion => doc.counted
    BY DEF CountsKnown
  <2>1. ASSUME NEW q \in Runs, MirrorDone(q), doc'.stage = run[q].stage, doc'.counted = run[q].counted
        PROVE  doc'.counted
    BY <1>3, <1>4, <2>1 DEF MirrorDone
  <2>2. doc' = doc => doc'.counted
    BY <1>4, <2>0
  <2>3. doc'.stage = doc.stage /\ doc'.counted = doc.counted => doc'.counted
    BY <1>4, <2>0
  <2> QED
    BY <2>1, <2>2, <2>3, RowMoves
<1>5. ASSUME AtChunking'
      PROVE  doc'.counted \/ doc'.stage \in {"chunking", "ingesting_prod"} \cup ChunkedStages
  <2>1. ASSUME NEW q \in Runs, MirrorDone(q), doc'.stage = run[q].stage, doc'.counted = run[q].counted
        PROVE  doc'.counted \/ doc'.stage = "chunking"
    <3>1. CASE q \in Extra
      BY <2>1, <3>1 DEF MirrorDone, CountsKnown
    <3>2. CASE q = "main"
      <4>1. run'["main"].stage = run["main"].stage
        BY <2>1, <3>2 DEF MirrorDone, TypeOK, RunRecord
      <4> QED
        BY <1>5, <2>1, <3>2, <4>1 DEF AtChunking
    <3> QED
      BY <1>r, <3>1, <3>2
  <2>2. CASE \E q \in Runs : /\ MirrorDone(q) /\ doc'.stage = run[q].stage
                             /\ doc'.counted = run[q].counted
    BY <2>1, <2>2
  <2>3. CASE doc'.counted = TRUE
    BY <2>3
  <2>4. CASE doc'.stage = doc.stage /\ doc'.counted = doc.counted /\ AtChunking
    BY <2>4 DEF CountsKnown
  <2>5. CASE MirrorDone("main")
    <3>1. doc'.stage = run["main"].stage
      BY <2>5 DEF MirrorDone, TypeOK
    <3>2. run'["main"].stage = run["main"].stage
      BY <2>5, <1>r DEF MirrorDone, TypeOK, RunRecord
    <3> QED
      BY <1>5, <3>1, <3>2 DEF AtChunking
  <2> QED
    BY <1>5, <2>2, <2>3, <2>4, <2>5, BeforeKept, RowMoves
<1> QED
  BY <1>1, <1>2, <1>4, <1>5 DEF CountsKnown

\* As long as the pipeline may chunk again, it would make the same chunks again.
LEMMA SameKept ==
  ASSUME PlainDocument, TypeOK, RequestShape, AttemptShape, OnlyMainEarly, AttemptOfRun, FlagMeant,
         NothingEarly, CountsKnown, SameChunksAgain, [Next]_vars
  PROVE  SameChunksAgain'
<1> SUFFICES ASSUME Clean', AtChunking'
             PROVE  /\ task'["main"].pc = "read" => task'["main"].pages = pages'
                    /\ chunks' \in {NoChunks, Chunked(pages')}
                    /\ Touched' => chunks' = Chunked(pages')
  BY DEF SameChunksAgain, Chunked
<1>r. "main" \in Runs /\ "main" \in Attempts /\ Runs \subseteq Attempts
  BY DEF Runs, Attempts
<1>c. Clean
  BY CleanBefore
<1>1. CASE BeforeChunks /\ MirrorDone("main")
  <2>1. chunks = NoChunks /\ ~Touched
    BY <1>1 DEF NothingEarly
  <2>2. task["main"].pc = "idle"
    BY <1>1, <1>r DEF MirrorDone, AttemptOfRun, Processing
  <2>3. UNCHANGED <<task, chunks, pages>>
    BY <1>1 DEF MirrorDone, contentVars
  <2>4. ~Touched'
    BY <1>1, <2>1, NoRecords, TouchMoves DEF BeforeChunks
  <2> QED
    BY <2>1, <2>2, <2>3, <2>4
<1>2. CASE AtChunking
  <2>1. UNCHANGED pages
    BY <1>2, PagesStay
  <2>2. /\ task["main"].pc = "read" => task["main"].pages = pages
        /\ chunks \in {NoChunks, Chunked(pages)}
        /\ Touched => chunks = Chunked(pages)
    BY <1>2, <1>c DEF SameChunksAgain
  <2>3. chunks' \in {NoChunks, Chunked(pages)} /\ (chunks = Chunked(pages) => chunks' = chunks)
    <3>1. SaveChunks("main") => task["main"].pc = "read"
      BY DEF SaveChunks
    <3> QED
      BY <2>2, <3>1, ChunkWrites
  <2>4. Touched' => chunks' = Chunked(pages)
    <3>1. CASE Touched
      BY <2>2, <2>3, <3>1
    <3>2. CASE ~Touched /\ Touched'
      <4>1. Records(chunks) # {} /\ UNCHANGED chunks
        BY <1>2, <3>2, TouchMoves
      <4> QED
        BY <2>2, <4>1, NoRecords
    <3> QED
      BY <3>1, <3>2
  <2>5. task'["main"].pc = "read" => task'["main"].pages = pages
    <3>t. task \in [Attempts -> TaskRecord] /\ task["main"] \in TaskRecord
      BY <1>r DEF TypeOK
    <3>s. task["main"].pc # "idle" => task["main"].stage = "chunking"
      BY <1>2, <1>r DEF AtChunking, AttemptOfRun
    <3>1. ASSUME AttemptStep("main"), task'["main"].pc = "read"
          PROVE  task'["main"].pages = pages
      <4>1. task["main"].pc # "idle"
        BY <3>1 DEF AttemptStep, StoreSegment, ReadBack, SavePages, SaveChunks, ReconcileRow,
           IndexBatch, AllSent
      <4>2. SaveChunks("main") \/ ReconcileRow("main")
        BY <3>1, <3>s, <4>1, <1>r DEF AttemptStep, AttemptShape, StoreSegment, ReadBack, SavePages,
           IndexBatch, AllSent
      <4>3. task'["main"].pc \in {"wrote", "reconciled"}
        BY <4>2, <3>t, <1>r DEF SaveChunks, ReconcileRow, TaskRecord
      <4> QED
        BY <3>1, <4>3
    <3>2. ASSUME BeginAttempt("main")
          PROVE  task'["main"].pages = pages
      <4>1. task'["main"] = Begun("chunking", task["main"].tries)
        BY <1>2, <3>2, <3>t, <1>r DEF BeginAttempt, AtChunking
      <4> QED
        BY <4>1 DEF Begun
    <3>3. ASSUME ReturnAttempt("main") \/ AttemptFails("main")
          PROVE  task'["main"].pc = "idle"
      <4>1. \/ task'["main"] = IdleTask
            \/ task'["main"] = [IdleTask EXCEPT !.tries = task["main"].tries + 1]
        BY <3>3, <3>t, <1>r DEF ReturnAttempt, AttemptFails, Retried
      <4> QED
        BY <4>1 DEF IdleTask
    <3>4. CASE task'["main"] = task["main"]
      BY <3>4, <2>2
    <3>5. ASSUME NEW q \in Runs, q # "main",
                 \/ MirrorDone(q) \/ BeginAttempt(q) \/ AttemptStep(q)
                 \/ ReturnAttempt(q) \/ PassGate(q) \/ AttemptFails(q)
                 \/ \E kind \in WorkflowKinds : Rerun(q, kind)
          PROVE  task'["main"] = task["main"]
      BY <3>5, <1>r, Elsewhere
    <3>6. MirrorDone("main") \/ PassGate("main") => UNCHANGED task
      BY DEF MirrorDone, PassGate
    <3>7. Extra \subseteq Runs /\ "main" \notin Extra
      BY RunsAssumption DEF Runs
    <3> QED
      BY <3>1, <3>2, <3>3, <3>4, <3>5, <3>6, <3>7, PlainSteps, EditsApart
  <2> QED
    BY <2>1, <2>3, <2>4, <2>5
<1> QED
  BY <1>1, <1>2, BeforeKept

-----------------------------------------------------------------------------
(* The index.                                                              *)

\* A chunk has one record.
LEMMA OneEach ==
  ASSUME NEW table, NEW p \in Records(table), NEW q \in Records(table), p.num = q.num
  PROVE  p = q
BY DEF Records

\* Sending a record of the chunks to an index that has nothing else adds it.
LEMMA SendAdds ==
  ASSUME NEW table, NEW points, points \subseteq Records(table), NEW p \in Records(table)
  PROVE  Upserted(points, {p}) = points \cup {p}
BY OneEach DEF Upserted

\* Crossing off a chunk leaves the records of the others.
LEMMA CrossedOff ==
  ASSUME NEW table \in [Pages -> Chunk], NEW p \in Records(table)
  PROVE  /\ Records([table EXCEPT ![p.num] = NoChunk]) \subseteq Records(table)
         /\ Records(table) \subseteq Records([table EXCEPT ![p.num] = NoChunk]) \cup {p}
<1> DEFINE left == [table EXCEPT ![p.num] = NoChunk]
<1>1. \A n \in Pages : left[n] = IF n = p.num THEN NoChunk ELSE table[n]
  OBVIOUS
<1>2. ~NoChunk.saved
  BY DEF NoChunk
<1> HIDE DEF left
<1>3. ASSUME NEW q \in Records(left)
      PROVE  q \in Records(table)
  <2>1. PICK n \in Pages : /\ left[n].saved /\ ~left[n].excluded
                           /\ q = [num |-> n, text |-> ChunkText(left[n])]
    BY DEF Records
  <2>2. left[n] = table[n]
    BY <1>1, <1>2, <2>1
  <2> QED
    BY <2>1, <2>2 DEF Records
<1>4. ASSUME NEW q \in Records(table), q # p
      PROVE  q \in Records(left)
  <2>1. PICK n \in Pages : /\ table[n].saved /\ ~table[n].excluded
                           /\ q = [num |-> n, text |-> ChunkText(table[n])]
    BY DEF Records
  <2>2. q.num = n
    BY <2>1
  <2>3. left[n] = table[n]
    BY <1>1, <1>4, <2>2, OneEach
  <2> QED
    BY <2>1, <2>3 DEF Records
<1>5. Records(left) \subseteq Records(table) /\ Records(table) \subseteq Records(left) \cup {p}
  BY <1>3, <1>4
<1> QED
  BY <1>5 DEF left

\* The attempts that ingest, and the workflows past the ingestion, agree with
\* the chunks after a step that leaves the chunks alone.
LEMMA IngestingKept ==
  ASSUME PlainDocument, TypeOK, AttemptShape, AttemptOfRun, DevFollows, [Next]_vars, Clean,
         UNCHANGED chunks, dev \subseteq dev', NEW r \in Runs, task'[r].stage = "ingesting"
  PROVE  /\ Records(task'[r].chunks) \subseteq Records(chunks)
         /\ Records(chunks) \subseteq dev' \cup Records(task'[r].chunks)
<1> DEFINE InHand(work) == /\ Records(work.chunks) \subseteq Records(chunks)
                           /\ Records(chunks) \subseteq dev' \cup Records(work.chunks)
<1> SUFFICES InHand(task'[r])
  OBVIOUS
<1>t. /\ r \in Attempts /\ task \in [Attempts -> TaskRecord] /\ task[r] \in TaskRecord
      /\ task[r].chunks \in [Pages -> Chunk]
  BY DEF TypeOK, Attempts, TaskRecord
<1>0. task[r].stage = "ingesting" => InHand(task[r])
  BY DEF DevFollows
<1>1. CASE task'[r] = task[r]
  BY <1>0, <1>1
<1>2. CASE BeginAttempt(r)
  <2>1. task'[r] = Begun(run[r].stage, task[r].tries)
    BY <1>2, <1>t DEF BeginAttempt
  <2>2. task'[r].chunks = chunks
    BY <2>1 DEF Begun
  <2> QED
    BY <2>2
<1>3. CASE AttemptStep(r)
  <2>1. task[r].stage = "ingesting"
    BY <1>3, <1>t, StepShape
  <2>2. InHand(task[r])
    BY <2>1, <1>0
  <2>3. CASE task'[r].chunks = NoChunks /\ Records(task[r].chunks) = {}
    BY <2>2, <2>3, NoRecords
  <2>4. ASSUME NEW p \in Records(task[r].chunks), dev' = Upserted(dev, {p}),
               task'[r].chunks = [task[r].chunks EXCEPT ![p.num] = NoChunk]
        PROVE  InHand(task'[r])
    <3>1. p \in dev'
      BY <2>4 DEF Upserted
    <3>2. /\ Records(task'[r].chunks) \subseteq Records(task[r].chunks)
          /\ Records(task[r].chunks) \subseteq Records(task'[r].chunks) \cup {p}
      BY <2>4, <1>t, CrossedOff
    <3> QED
      BY <2>2, <3>1, <3>2
  <2> QED
    BY <1>3, <1>t, <2>1, <2>3, <2>4, Ingests
<1>4. CASE ReturnAttempt(r) \/ AttemptFails(r)
  <2>1. \/ task'[r] = IdleTask
        \/ task'[r] = [IdleTask EXCEPT !.tries = task[r].tries + 1]
    BY <1>4, <1>t DEF ReturnAttempt, AttemptFails, Retried
  <2>2. task'[r].stage = "none"
    BY <2>1 DEF IdleTask
  <2> QED
    BY <2>2
<1>5. ASSUME NEW q \in Runs, q # r,
             \/ MirrorDone(q) \/ BeginAttempt(q) \/ AttemptStep(q)
             \/ ReturnAttempt(q) \/ PassGate(q) \/ AttemptFails(q)
             \/ \E kind \in WorkflowKinds : Rerun(q, kind)
      PROVE  task'[r] = task[r]
  BY <1>5, Elsewhere
<1>6. MirrorDone(r) \/ PassGate(r) \/ (\E kind \in WorkflowKinds : Rerun(r, kind)) => UNCHANGED task
  BY DEF MirrorDone, PassGate, Rerun
<1>7. Extra \subseteq Runs
  BY DEF Runs
<1> HIDE DEF InHand
<1> QED
  BY <1>1, <1>2, <1>3, <1>4, <1>5, <1>6, <1>7, PlainSteps, EditsApart

LEMMA IngestedKept ==
  ASSUME PlainDocument, TypeOK, AttemptShape, AttemptOfRun, DevFollows, [Next]_vars, Clean,
         UNCHANGED chunks, dev \subseteq dev', Ingested'
  PROVE  Records(chunks) \subseteq dev'
<1>r. NoEarlyRerun /\ Runs \subseteq Attempts
  BY DEF PlainDocument, Runs, Attempts
<1>0. Ingested => Records(chunks) \subseteq dev'
  BY DEF DevFollows
<1>1. ASSUME NEW r \in Runs, run'[r].part # "absent", run'[r].stage \in AfterIngestion, ~Ingested
      PROVE  Records(chunks) \subseteq dev'
  <2>0. doc.stage \notin AfterIngestion
          /\ ~(run[r].part # "absent" /\ run[r].stage \in AfterIngestion)
    BY <1>1 DEF Ingested
  <2>1. "failed" \notin AfterIngestion /\ "ingesting" \notin AfterIngestion
          /\ {"approval_for_prod", "completed"} \subseteq AfterIngestion
    BY AfterOnes
  <2>2. /\ run[r].part = "body" /\ run[r].stage \in ProcessingStages \cup ReviewStages
        /\ run[r].stage = "ingesting" => task[r].pc = "wrote"
        /\ run'[r].stage = Following[run[r].stage]
    <3>1. ~(run'[r] = run[r])
      BY <1>1, <2>0
    <3>2. ~(/\ run[r].part = "mirror" /\ run'[r].part \in {"body", "closed"}
            /\ run'[r].stage = run[r].stage /\ run'[r].counted = run[r].counted)
      BY <1>1, <2>0
    <3>3. run'[r].stage \notin {"failed", "ingesting"}
      BY <1>1, <2>1
    <3> QED
      BY <2>0, <2>1, <3>1, <3>2, <3>3, <1>r, RunMoves
  <2>3. run[r].stage = "ingesting"
    <3>1. \A s \in ProcessingStages \cup ReviewStages :
            Following[s] \in AfterIngestion => s = "ingesting" \/ s \in AfterIngestion
      BY AfterOnes DEF ProcessingStages, ReviewStages, Following
    <3> QED
      BY <1>1, <2>0, <2>2, <3>1
  <2>4. task[r].stage = "ingesting" /\ task[r].chunks = NoChunks
    BY <2>2, <2>3 DEF AttemptOfRun
  <2>5. Records(chunks) \subseteq dev \cup Records(task[r].chunks)
    BY <2>4 DEF DevFollows
  <2> QED
    BY <2>4, <2>5, NoRecords
<1>2. ASSUME doc'.stage \in AfterIngestion, ~Ingested
      PROVE  FALSE
  <2>1. "chunk_review" \notin AfterIngestion
    BY AfterOnes
  <2>2. ASSUME NEW q \in Runs, MirrorDone(q), doc'.stage = run[q].stage
        PROVE  FALSE
    BY <1>2, <2>2 DEF MirrorDone, Ingested
  <2> QED
    BY <1>2, <2>1, <2>2, RowMoves DEF Ingested
<1> QED
  BY <1>0, <1>1, <1>2 DEF Ingested

\* What is in the index is in the chunks, and the other way round once it was
\* ingested.
LEMMA DevKept ==
  ASSUME PlainDocument, TypeOK, RequestShape, AttemptShape, OnlyMainEarly, AttemptOfRun, FlagMeant,
         NothingEarly, CountsKnown, SameChunksAgain, DevFollows, [Next]_vars
  PROVE  DevFollows'
<1> DEFINE Follows == /\ dev' \subseteq Records(chunks')
                      /\ \A r \in Runs : task'[r].stage = "ingesting" =>
                           /\ Records(task'[r].chunks) \subseteq Records(chunks')
                           /\ Records(chunks') \subseteq dev' \cup Records(task'[r].chunks)
                      /\ Ingested' => Records(chunks') \subseteq dev'
<1> SUFFICES ASSUME Clean'
             PROVE  Follows
  BY DEF DevFollows, Records
<1>c. Clean
  BY CleanBefore
<1>r. Runs \subseteq Attempts /\ "main" \in Runs /\ Runs = {"main"} \cup Extra
  BY DEF Runs, Attempts
<1>d. dev \subseteq Records(chunks)
  BY <1>c DEF DevFollows
<1>1. CASE UNCHANGED chunks
  <2>1. dev' \subseteq Records(chunks) /\ dev \subseteq dev'
    <3>1. CASE UNCHANGED dev
      BY <1>d, <3>1
    <3>2. ~(req.pc = "unindex")
      BY <1>c DEF Clean
    <3>3. ASSUME NEW q \in Runs, task[q].stage = "ingesting",
                 NEW p \in Records(task[q].chunks), dev' = Upserted(dev, {p})
          PROVE  dev' \subseteq Records(chunks) /\ dev \subseteq dev'
      <4>1. p \in Records(chunks)
        BY <1>c, <3>3 DEF DevFollows
      <4>2. dev' = dev \cup {p}
        BY <1>d, <3>3, <4>1, SendAdds
      <4> QED
        BY <1>d, <4>1, <4>2
    <3> QED
      BY <3>1, <3>2, <3>3, DevMoves
  <2>2. \A r \in Runs : task'[r].stage = "ingesting" =>
          /\ Records(task'[r].chunks) \subseteq Records(chunks)
          /\ Records(chunks) \subseteq dev' \cup Records(task'[r].chunks)
    BY <1>1, <1>c, <2>1, IngestingKept
  <2>3. Ingested' => Records(chunks) \subseteq dev'
    BY <1>1, <1>c, <2>1, IngestedKept
  <2> QED
    BY <1>1, <2>1, <2>2, <2>3
<1>2. CASE /\ AtChunking /\ SaveChunks("main") /\ UNCHANGED <<run, doc, pages, dev, req>>
           /\ task["main"].pc = "read" /\ chunks' = Chunked(task["main"].pages)
           /\ task' = [task EXCEPT !["main"].pc = "wrote"]
           /\ ~UNCHANGED chunks
  <2>1. chunks' = Chunked(pages)
    BY <1>2, <1>c DEF SameChunksAgain
  <2>2. ~Touched
    BY <1>2, <1>c, <2>1 DEF SameChunksAgain
  <2>3. dev' = {}
    BY <1>2, <2>2 DEF Touched
  <2>4. ASSUME NEW r \in Runs
        PROVE  task'[r].stage # "ingesting"
    <3>1. task'[r].stage = task[r].stage
      BY <1>2, <1>r DEF TypeOK, TaskRecord
    <3> QED
      BY <1>2, <1>r, <2>2, <3>1, WhoIngests
  <2>5. ~Ingested'
    <3>1. doc.stage \notin AfterIngestion
      BY <2>2 DEF Touched
    <3>2. "chunking" \notin AfterIngestion
      BY AfterOnes
    <3>3. ASSUME NEW r \in Runs
          PROVE  ~(run[r].part # "absent" /\ run[r].stage \in AfterIngestion)
      BY <1>2, <1>r, <2>2, <3>2 DEF AtChunking, Touched
    <3> QED
      BY <1>2, <3>1, <3>3 DEF Ingested
  <2> QED
    BY <2>3, <2>4, <2>5
<1> QED
  BY <1>1, <1>2, ChunkWrites

LEMMA ProjectionAtFirst == Init => ProjectionInv
<1> SUFFICES ASSUME Init
             PROVE  ProjectionInv
  OBVIOUS
<1>1. TypeOK /\ RequestShape
  BY TypesAtFirst
<1>2. AttemptShape /\ OnlyMainEarly
  BY ReviewAtFirst DEF ReviewInv
<1>3. FlagMeant
  BY DEF Init, FlagMeant, IdleRequest, ChunkOps
<1>4. /\ AttemptOfRun
      /\ \A r \in Runs : task[r].stage = "none" /\ task[r].pc = "idle"
  BY DEF Init, AttemptOfRun, IdleTask, Runs, Attempts
<1>5. "main" \in Runs /\ "main" \notin Extra
  BY RunsAssumption DEF Runs
<1>6. run["main"].stage = "ocr_processing" /\ run["main"].part = "mirror"
  BY <1>5 DEF Init, FirstStage
<1>7. \A r \in Extra : run[r].part = "absent"
  BY <1>5 DEF Init, Runs
<1>8. ~Touched /\ chunks = NoChunks /\ req.op \notin ChunkOps
  BY <1>7, AfterOnes DEF Init, Touched, IdleRequest, ChunkOps
<1>9. ~AtChunking /\ NothingEarly /\ SameChunksAgain
  BY <1>6, <1>8 DEF AtChunking, NothingEarly, SameChunksAgain
<1>10. CountsKnown
  BY <1>6, <1>7, <1>8, <1>9 DEF CountsKnown, Rank, Touched
<1>11. DevFollows
  <2>1. ~Ingested
    BY <1>6, <1>7, <1>8, AfterOnes DEF Ingested, Runs, Touched
  <2> QED
    BY <2>1, <1>4, <1>8 DEF DevFollows, Touched
<1> QED
  BY <1>1, <1>2, <1>3, <1>4, <1>9, <1>10, <1>11 DEF ProjectionInv

\* Everything that keeps the index and the chunks together holds in every
\* state: the flag is owed to whoever changes chunks, or pages that may still
\* be chunked again, however often chunking is retried and whoever ingests
\* from the chunks of an attempt that fails afterwards.
THEOREM ProjectionInvariant ==
  ASSUME PlainDocument
  PROVE  Spec => []ProjectionInv
<1>1. ProjectionInv /\ [Next]_vars => ProjectionInv'
  <2> SUFFICES ASSUME ProjectionInv, [Next]_vars
               PROVE  ProjectionInv'
    OBVIOUS
  <2>1. /\ TypeOK /\ RequestShape /\ AttemptShape /\ OnlyMainEarly /\ FlagMeant
        /\ AttemptOfRun /\ NothingEarly /\ CountsKnown /\ SameChunksAgain /\ DevFollows
    BY DEF ProjectionInv
  <2>2. NoEarlyRerun
    BY DEF PlainDocument
  <2>3. TypeOK' /\ RequestShape' /\ AttemptShape' /\ OnlyMainEarly'
    BY <2>1, <2>2, TypesKept, ShapeKept, EarlyKept
  <2>4. FlagMeant' /\ AttemptOfRun' /\ NothingEarly'
    BY <2>1, FlagKept, AttemptOfRunKept, NothingKept
  <2>5. CountsKnown' /\ SameChunksAgain' /\ DevFollows'
    BY <2>1, CountsKept, SameKept, DevKept
  <2> QED
    BY <2>3, <2>4, <2>5 DEF ProjectionInv
<1> QED
  BY <1>1, ProjectionAtFirst, PTL DEF Spec

\* A document that has been ingested is in the DEV index exactly as its chunks
\* are, or is flagged as out of date (_mark_reindex_required): for any number
\* of pages, edits, retries, and re-ingestions and promotions at the same time.
THEOREM ProjectionFollows ==
  ASSUME PlainDocument
  PROVE  Spec => []ProjectionOrFlagged
<1>1. ProjectionInv => ProjectionOrFlagged
  <2> SUFFICES ASSUME ProjectionInv, doc.stage \in LineStages,
                      Rank[doc.stage] > Rank["ingesting"], ~Editing, ~missed, ~doc.reindex
               PROVE  dev = Records(chunks)
    BY DEF ProjectionOrFlagged
  <2>1. Clean
    BY DEF Clean, Editing
  <2>2. Ingested
    BY DEF Ingested, AfterIngestion
  <2> QED
    BY <2>1, <2>2 DEF ProjectionInv, DevFollows
<1> QED
  BY <1>1, ProjectionInvariant, PTL

\* Both inductive invariants at once.
THEOREM ContentInvariant ==
  ASSUME PlainDocument
  PROVE  Spec => []ContentInv
<1>1. NoEarlyRerun
  BY DEF PlainDocument
<1>2. ReviewInv /\ ProjectionInv => ContentInv
  BY DEF ContentInv
<1> QED
  BY <1>1, <1>2, ReviewInvariant, ProjectionInvariant, PTL
=============================================================================
