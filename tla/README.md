# Verification of the document ingestion pipeline

TLA+ modules, TLC configurations and TLAPS proofs for the Knowledge Provider
(`src/pipeline`): the service that takes a document from upload through OCR,
translation, chunking and human review into a DEV vector index, on a
superadmin's approval into PROD, and from there announces it to a discovery
network.

## 1. The system

| Part | Source | State | Operations |
|---|---|---|---|
| Pipeline workflow | `workflows.py` `DocumentPipelineWorkflow` | stage, five sticky approval flags | five approval signals, `get_state` query, cancel, terminate |
| Re-run workflows | `workflows.py` `OcrOnly`, `TranslationOnly`, `ChunkingOnly`, `Reingestion`, `PromoteToProd` | a stage of their own | started beside the pipeline by the API |
| Activities | `activities.py` | none; they read and write SQLite, MinIO, the vector indexes and the Discovery Service | OCR, translate, chunk, ingest, promote, publish, `update_document_state` |
| API | `api/api.py`, `api/documents.py`, `api/upload.py` | none; local variables across awaits | upload, approvals, retries, re-ingestion, reconciliation, page and chunk edits, disable, purge, restore |
| SQLite | `db.py` | documents, jobs, pages, chunks, index status, audit, OTPs, scheme catalog | one lock and one transaction per helper; no transaction spans two helpers |
| Vector store | `vector_store/qdrant_store.py` | points in a DEV and a PROD collection | upsert (never deletes), delete by document or chunk, search |
| Scheme catalog | `scheme_catalog.py` | versioned catalog tables in SQLite | bootstrap, rebuild, promoted, disabled, metadata edit |
| Master catalog | `master_catalog_pg.py` | Postgres rows, Redis snapshots | upsert and remove entry, rebuild snapshots |
| Network publishing | `discovery_publish_service.py`, `catalog_builder.py`, `network_*.py` | none | build and send a catalog, classify the answer |
| Sign-in | `auth/email_otp.py`, `auth/jwt.py`, `auth/groups.py`, `auth/permissions.py`, `auth/tenancy.py`, `instances.py` | a row per address in `email_otps`; the inbox and the session are outside | ask for a code, verify it, exchange an SSO code, refresh; permissions by instance |
| User administration | `auth/keycloak_admin.py` and its routes | none; the realm of Keycloak is external | provision an account, set its access, list the options |
| Chunking | `chunking/*` | none; a run builds its chunks step by step | recursive splitter, deterministic provider, fallback from one to the other |
| OCR, translation | `ocr/*`, `translation/*` | none | calls to models |
| Review console, deployment, scripts | `ui/`, `deploy/`, `keycloak/`, `scripts/` | - | not part of the model |

How they interact. The API starts workflows, signals and queries them through
Temporal, and reads and writes SQLite directly. Workflows change SQLite only
through activities. **The stage of a document exists in several places**: in
the pipeline workflow (the truth while it runs), in each re-run, and in the row
of SQLite, which is a *mirror* written by the worker, by the API and by
reconciliation, without any version or owner. The API decides sometimes by the
workflow (`_validate_approval_stage`) and sometimes by the row (`approve_prod`,
the retries).

What is hard to get right, and to test:

* a handler is a coroutine: what it read before an `await` may be stale after it;
* the pipeline and any number of re-runs may be at work on one document at once;
* the upload starts the workflow before it inserts the row;
* activities run for up to 90 minutes, are retried, and an attempt Temporal has
  given up on (timeout, cancellation, termination) goes on and still writes;
* mirrors are local activities: repeated after a crash, exhausted after ten
  attempts, swallowed if it is the failure itself that cannot be mirrored;
* calls may fail after they took effect; removal swallows such failures;
* a code is verified by a row that is read once and written later, by address,
  while another request may replace or delete it; a right code costs three calls
  to Keycloak during which the account has a password nobody may keep;
* an access is a dozen calls to Keycloak without a transaction, made by two
  administrators at once, in a realm where any part may exist already;
* chunking closes, drops, sifts and merges in passes that do not know of each
  other, and finds a chunk's pages by looking for its text.

What makes the parts correct: nothing reaches DEV, PROD or the network ahead of
its approvals; gates open in order and each by its own approval; the row does
not run away from the workflow; a removed document gets nothing back; reviewers'
edits are not lost; the catalogs agree with what is in PROD; every workflow
settles; a code signs in once and leaves no password behind; an account has the
access it was given, whatever it had before; the text of a document is in its
chunks.

## 2. Modules

| Module | What it is |
|---|---|
| `Stages` | the line of stages, gates, and the stretch of it each workflow walks |
| `ReviewContent` | the detailed specification of a document's texts: edits, what activities make of them, what is searchable |
| `DeliveryContract` | abstract specification: decisions and deliveries of one document, nothing else |
| `DocPipeline` | the detailed specification of one document: workflows, attempts, row, job, requests |
| `DocPipeline_proofs` | theorems about `DocPipeline` and their proofs: types, gates, approvals; of the pipeline alone, the row and removal |
| `DocPipeline_contract` | proof that `DocPipeline` implements `DeliveryContract`, and that a completed row is true |
| `ReviewContent_proofs` | theorems about `ReviewContent`: types, that reviewed edits survive, that the DEV index follows the chunks |
| `SchemeCatalog` | the detailed specification of the catalog of schemes: rows, rebuilds by two processes, promotions, consumers |
| `SchemeCatalog_proofs` | theorems about `SchemeCatalog`: types, versions, that rebuilds bring it in order and what is listed is served |
| `MasterCatalog` | the detailed specification of the catalog of the AI layer: the table in Postgres and its two snapshots in Redis |
| `MasterCatalog_proofs` | theorems about `MasterCatalog` and their proofs |
| `Access` | what a token lets its holder do: groups, roles, permissions and instances as operators |
| `Keycloak` | the realm as the code uses it: roles, groups, accounts, passwords (external) |
| `UserAdmin` | the administration of accounts, one action per call to Keycloak |
| `EmailOtp` | codes by e-mail and the sessions they lead to, one action per call or transaction |
| `SignIn` | composes the two on one realm |
| `SignIn_proofs` | theorems about `SignIn` and their proofs |
| `Chunking` | both chunking providers and `chunk_pages` |
| `Chunking_proofs` | theorems about `Chunking`: the deterministic provider keeps every unit; induction over sequences and folds |
| `Chunking_splitter` | theorems about `Chunking`: chunks are in the order of the pages; the recursive splitter loses only crumbs |
| `MCDocPipeline`, `MCReviewContent`, `MCSchemeCatalog`, `MCMasterCatalog`, `MCSignIn`, `MCChunking` | option sets, operation sets, documents, situations and symmetry for TLC |

`DocPipeline` and `ReviewContent` are two views of the same document. The first
asks who may do what, and when: contents are reduced to whether they exist. The
second asks whose text is where: the approvals are reduced to "somebody
approved". Both walk the stages of `Stages`.

`DocPipeline` composes three kinds of process over shared state.

* **Workflows** (`run`, `opt`, `approved`). All six are stretches of one line
  (`Stages.FirstStage`, `FinalStage`, `Following`), so one set of actions walks
  them all: enter a stage, mirror it (`MirrorDone`, `MirrorRepeated`,
  `MirrorExhausted`), then do its activity or wait at its gate (`PassGate`).
  What differs is kept: only the pipeline has gates, `stop_after_ocr` and
  `skip_prod`; the re-runs set their stage after their first mirror and the
  promotion after its last, which is what a query sees (`Reported`).
* **Attempts** (`task`, `stray`). An attempt reads (`BeginAttempt`), writes
  (`WriteEffect`), and returns (`ReturnAttempt`) or fails, or times out and is
  retried; then the old attempt may live on in `stray` and write later
  (`StrayWrites`). An attempt to chunk reconciles the row in between
  (`ReconcileRow`), and may still fail after that. `Effect` says what each activity leaves behind: OCR and
  translation add pages, chunking replaces all chunks by what it read, the
  ingestions add points and delete none.
* **Requests** (`req`). A handler is one action per stretch between awaits:
  `Upload` - `Register` - `CreateJob`; `Approve` - `Signal`; `ApproveProd` -
  `ValidateProd` - `Signal` or `StartPromote` - `CreateJob` - `MarkPromoting`;
  `Remove` - `Hide` - `DeleteFromDev` - `DeleteFromProd` - `PurgeRows`;
  `Reconcile` - `Rewrite` or `Query` - `Sync`. `RequestLost` ends one anywhere:
  the process stopped or a call raised.

SQLite is `doc` (stage, `is_disabled`), `rows` (are there pages, chunks) and
`job` (the latest one: whose, running?). `did` and `granted` are history
variables: deliveries made, decisions accepted.

`ReviewContent` keeps the tables themselves.

* **Texts**. A text is known by its origin (OCR, the model, or an edit and which
  one) and by whose first 50 characters it begins with, because these are hashed
  into the id of its point (`_prepare_records`). `best_page_text` and
  `ChunkText` choose among them as the code does.
* **Attempts** (`task`) carry what they read: a whole-row snapshot of pages or
  chunks. One belongs to each workflow; after a timeout it moves to a place in
  `Late` and goes on. OCR stores segment by segment and skips what is saved
  (`StoreSegment`, `ReadBack`); OCR and translation write whole rows back
  (`SavePages`); chunking deletes and inserts, reconciles the row and only then
  returns (`SaveChunks`, `ReconcileRow`, `ReturnAttempt`); the ingestions send
  their snapshot in batches (`IndexBatch`), any of which may be the last before
  a failure (`AttemptFails`).
* **Edits** (`req`). The handlers do not await, so there is one at a time, but
  the worker is another process and acts between their transactions: read the
  row and decide (`OpenEdit`), write (`WriteEdit`), take an excluded chunk out of
  DEV (`Unindex`), set `reindex_required` (`Mark`), or stop anywhere
  (`EditLost`).

`owed` remembers the last edit accepted in each review, `missed` an edit whose
flag was not set although it should have been; no action depends on them.

`SchemeCatalog` is about several documents and two actors that change the catalog
without knowing of each other, the API and the worker.

* **Rows** (`doc`) have what the catalog is computed from: kind, code, stage,
  visibility, `is_disabled` and `reindex_required`. Of the stages, those before
  `approval_for_prod` are one and those between it and `completed` are one;
  who may move a document along them is the matter of `DocPipeline`.
* **The catalog** (`entries`, `version`). `rebuild_catalog_from_documents` is a
  sequence of transactions, and the model has each: `Scan` reads all documents
  and plans the entries, `WriteEntry` writes one of them, `ReadEntries` reads the
  table for the codes left over, `BumpVersion` ends it. `Status` and `GroupEntry`
  are the rule for a code with documents, `LeftOver` for one without.
  `bootstrap_catalog_if_empty` is `Seeding`, `WriteEntry` and `BumpSeeded`.
* **Requests** (`act["api"]`). `apply_scheme_metadata` is `OpenPatch`, which
  decides by the row it reads, and `WritePatch`, which writes; then the rebuild.
  Removal is `Disable`, `DeletePoints` and the rebuild. None of them awaits
  anything in between, so the API does one at a time, beside the worker.
* **Promotions** (`job`, `prod`). `PrepareRecords` reads code and kind once,
  `SendRecords` is the upsert, `OnPromoted` clears the flag and rebuilds
  (`act["worker"]`), and only `Complete` writes `completed`.
* **Consumers** (`cache`) poll the version and then fetch a snapshot, which reads
  the version before the entries (`SnapshotVersion`, `SnapshotEntries`).
* **Faults.** `Interrupted` stops either process between any two transactions,
  `AttemptFails` ends an attempt of a promotion, to be retried or not.

Four history variables say when the properties speak: `settled` (the last rebuild
saw every row as it is now, and no other entry was written beside it), which
`overtaken` prepares; `torn` (entries were written and then no version);
`astray` (a document got another code or kind without the flag being set, its flag
was cleared by hand, or it was restored or completed without points in PROD).

`MasterCatalog` is about calls of `sync_catalog_entry` and `remove_catalog_entry`
that overtake each other. Each runs in a thread of its own and commits every
statement by itself, so each statement is an action: `Find` reads the document
and derives the key of its row, `Upsert` or `Delete` changes the table, `Bump`
takes a version, and then each tier is read (`ReadRows`) and sent (`Push`), DEV
before live. `Stops` ends a call anywhere, because Postgres or Redis raises, which
the callers swallow, or because the process stops. `Rename` changes the code of a
document without a word to this catalog, `PurgeRow` deletes the document once its
entry is removed, `Expire` is Redis. Only a scheme that has a code is synced as
live. `done` and `asof` say which write a version was made for and which the rows
of a snapshot were read after; `shown` is what the AI layer should see of a
document; `settled` (both snapshots were written beside nobody) is prepared by
`overtaken`; `strayed` are the documents whose row is not under their code alone.

`SignIn` composes `UserAdmin` and `EmailOtp` over the realm of `Keycloak`, and
`Access` says what the tokens it issues are worth.

* **Administration** (`admin`). Both requests begin with `ensure_access_group`:
  for the role and each group on the way, a look (`Find`) and, if it was not
  there, a creation (`Create`) that tolerates a conflict, and at the end the
  role is mapped on the group (`MapRole`). `provision_user` goes on with
  `Lookup`, `Update` or `Post` and `Locate`, and `Join`; `set_user_access` joins
  first (`Join`) and then reads and leaves the other groups of the product
  (`ListGroups`, `Leave`) and the direct roles (`ListRoles`, `Strip`).
* **Sign-in** (`sign`). `send_otp` is `RequestCode`, `LookupUser`, `StoreCode`
  and `Mail`; `verify_otp` is `TypeCode`, which reads the row and decides
  (`Verdict`), then `DropRow`, `CountAttempt` or `SpendCode`, and from there
  `FindUser`, `Rotate`, `Grant` and `RotateAgain`. `ExchangeCode` and `Refresh`
  are one call each.
* **Tokens** are what `Claims` makes of the account at that moment; `Rights` is
  what the API's checks then allow in an instance.
* `Fault` is a call that fails, a time-out or a stopped process, at any step.

`alone` says of a request that no other one acted on its user beside it,
`informed` which changes of access were answered before a sign-in began; no
action depends on them.

`Chunking` runs the configured provider, and after it raises the fallback
provider, on the same pages. The deterministic one takes a unit at a time
(`TakeUnit`: `_select_overlap_units`, `flush_chunk`) and ends with
`filtered_chunks`, `_dedupe_chunks` and `_merge_adjacent_chunks`
(`EndDeterministic`). The recursive one takes a window of pages at a time
(`TakeWindow`): its cleaned text, the splits of it, and for each split the place
where it stands. `Raise` may happen at any step, and drops what was made.

### Abstractions

In `DocPipeline`:

* Contents of pages, chunks and points are reduced to whether they exist; a page
  always gives at least one chunk. Counts only appear as the "wrong count" branch
  of reconciliation, which may always be taken when there are rows.
* `update_document_state` (row, then job) is one step, and so are the read and the
  write of the reconciliation at the end of the chunking activity, which is a step
  apart from the write of the chunks and from the return; in the API the same
  reconciliation is split between its read and its write. An abandoned attempt
  reconciles and ends in one step, as its result is dropped.
* The first task of a workflow is taken at once.
* The guard of `reingest_document` on the classification of the document is left
  out: the model may re-ingest more often than the code.
* The second activity after chunking, `auto_tag_chunks_from_db`, is a no-op in
  the code and left out.
* Left out: the order of activities kept for histories recorded before
  `publish-after-prod-v1`, a second upload that restarts a closed workflow under
  the same id, document kinds that are never announced, MinIO and the audit log.
* Removal stops, as in the code, the workflow of the pipeline only.

In `ReviewContent`:

* A page is a segment of OCR, becomes one chunk, and a batch of an ingestion is
  one record: the finest interleaving of segments and batches there is.
* Mirrors succeed, and requests other than edits are reduced to their effect on
  workflows; removal, reconciliation by users, and setting or clearing the
  flag by hand are left out.
* An edit changes one field and is not empty; an edit of a text to what it
  already was is an edit.
* A translation of a page that fails fails the attempt, as in the code, before
  anything is written.

In `SchemeCatalog`:

* Names, aliases, instances, `network_visible`, prompts and the filters of a
  snapshot are left out; `Listed` is what a snapshot without filters has.
* Documents are there from the beginning, and a purge, which deletes the row after
  everything `Disable` does, is left out.
* That removal waits for Temporal and for DEV before it marks the row and deletes
  from PROD is left out; so is that the cancelled pipeline may fail, which
  `AttemptFails` does anyhow.
* The entries of a rebuild are written in any order, those of the groups before
  those left over.
* A document is promoted by one workflow at a time.

In `MasterCatalog`:

* Names, tool routing, aliases, prompts and times are left out, and so are the
  migration of the table and a deployment without Redis.
* `document_id` and `workflow_id` are one: the key of a document without a code.
* Activities and removals call at any time; what allows them to is in
  `DocPipeline`.

In `Keycloak`, `UserAdmin`, `EmailOtp` and `Access`:

* A code is the request that made it: nobody guesses one, and no two are alike. A
  hash is the code. A mistyped code is one that matches no row.
* One call to Keycloak, one transaction and one mail are one action each; reads
  that only confirm what a call just made are part of it. A call that fails
  changes nothing; one that fails after it took effect is a fault before the
  next one.
* A person has one address and at most one account. First and last names, the
  search and paging of accounts, notes and audit lines are left out, and so is
  the realm's own client, whose token is always there.
* Keycloak is a second process that keeps its own rules: what exists is a
  conflict, an address and a user name belong to one account, a disabled account
  gets no session. Nothing here says that it works.

In `Chunking`:

* A word is a token, and so is a line break or a blank line between two texts:
  counts add up, which they do for the real tokenizer up to a token per seam.
* A blank line is `Para`. `clean_and_format_text` removes empty lines, so what
  was a blank line on a page is a line break afterwards, and the only blank
  lines the recursive splitter sees are between pages.
* The separators are those two and the space between words; sentences (`". "`)
  are not told apart. Headings and section titles are left out.
* `RecursiveCharacterTextSplitter` is a library, and modelled as one: what the
  code relies on is that pieces are cut before separators and put together up
  to the size of a chunk, each chunk with an overlap.

## 3. Runs

| Run | Instance | Shows |
|---|---|---|
| `pipeline` | pipeline alone, two requests, all upload options, two attempts, removal | `RowInv`; gates in order and by their own approval; the row never moves back and agrees with a waiting pipeline; nothing is indexed while disabled; a purge leaves nothing |
| `reruns` | one re-run or promotion beside the pipeline, one request, failing calls, reconciliation | refinement of `DeliveryContract`; a completed row is true; the inductive invariant behind both (`ContractInv`) |
| `late_attempts` | one stray attempt, two tries, removal and reconciliation, failing calls | PROD only by approval, network only after PROD, the inductive invariant behind them (`DeliveryInv`) |
| `liveness` | `FairSpec`, one promotion beside the pipeline, two tries | every workflow settles; an approval takes effect |
| `review` | a spreadsheet of two pages, one of them foreign; one edit of any kind at any point; a re-ingestion; no retries | `ContentInv`; the DEV index is exactly the chunks or the row is flagged; a re-ingestion brings the chunks in or fails |
| `late_review` | a scanned foreign page of a scheme, one edit of any kind, two tries, one late attempt | what a reviewer corrected survives what the activities write back |
| `catalog` | one document, two codes, one of them seeded; three operations of any kind, one fault | `SchemeInv`; an undisturbed rebuild repairs whatever was left behind; a listed code is served by PROD; an unchanged version means an unchanged catalog |
| `master` | two documents that may share a code, two codes, two calls at once; three calls or renames, one fault, any expiry | `CatalogInv`; an undisturbed call repairs both snapshots; a version can be trusted; what is shown of a document is what it was synced for |
| `accounts` | two changes of access, three sign-ins, or one change and two sign-ins at once, in six kinds of realms and accounts, one fault | `AccountsInv`; an access is given as asked, and never lost half way; nobody is joined to a group that has no role yet; the latest code counts, once; no used password stays; the next session carries the change |
| `chunks` | every document of up to three pages and four blocks of four kinds, every provider and fallback | no unit of the deterministic provider is lost; the recursive one loses crumbs only; chunks are in the order of the pages |

Two more runs, `purge_late_attempt` and `dropped_paragraph`, reach a state that
the repository's own documentation excludes; each stands for one entry of the
findings in section 6.

Bounds. `MaxAttempts` (2) is enough to have a first, a retried and a last
attempt; the code's 5 to 20 differ only in the number of retries in between.
`MaxStray` (1) lets one attempt outlive its successor, at any point. One extra
workflow meets the pipeline in every pair of steps; two would only add races of
re-runs with each other, which the proofs cover. Two requests meet each other and
the worker at every await. The runs differ in `Ops` so that each has all the
operations its question needs: `pipeline` has removal but no re-runs,
because what it says of the row and of removal does not hold beside them (see
section 6 and the comments of the properties).

`review` has two pages so that an ingestion can be half done, and one attempt per
activity so that a half done ingestion ends in a failure, which only a
re-ingestion repairs. It has no late attempts: one that sends old chunks after
everything else leaves a stale index without a flag (section 5 lists it), and
`ProjectionOrFlagged` is not meant for that. `late_review` has them: there the
claim is about edits accepted while nothing is at work, and about every attempt
that begins later and outlives its successor. One edit is enough to be lost; two
were checked as well, over ten million states and with the same result, and are
too many for a run of a minute.

`ProjectionOrFlagged` is about documents that are no schemes, because the
promotion of a scheme clears the flag of an edit that it did not send (`AllSent`).

`catalog` has one document: both actors are at work on its row, its two codes and
the seeds, and three operations are enough to promote, rename and remove it. What
two documents add is that they share a code, or swap codes. That was checked in
larger instances with the same result, too long for a run: two documents with two
operations of any kind and no fault (1.4 million states), and with two operations
of approval, code, removal and rebuild and one fault (3.6 million), both with
`SYMMETRY`.

`master` has two calls, which is what it takes to overtake, and three operations:
a document is synced as DEV and as live and removed, or synced, renamed and
synced again, or another takes its code. One fault leaves one tier, or one
snapshot, behind for the next call to repair.

`accounts` looks at situations (`Scenes`) one by one, because administration and
sign-in meet only in the account: two changes of two people in a realm where
nothing exists yet, which meet in every call of `ensure_access_group`; two
changes of one person; the same where the super-admin group is the flat one of
old installations; three sign-ins, so that a resend, an old code and a verify
can meet; and one change of access beside two sign-ins. The two people have the
same local part, so that their user names collide. The constants of the OTP are
scaled down and keep their order: a code lives two ticks, may be asked for again
after one, and dies of one wrong attempt; the clock stops at three, after it has
died. Requests are symmetric: nothing tells them apart before they begin.

`chunks` scales the sizes 100, 128 and 450 down to 2, 3 and 6, which keeps what
the code depends on: a chunk of the least size fits into an overlap, an overlap
into a chunk, and two least chunks into one (`ChunkingAssumption`; without
`MIN_CHUNK_TOKENS =< CHUNK_OVERLAP_TOKENS` text is lost, and no validation
prevents that). Windows and chunks span two pages of three, so that both limits
bite. Blocks are shorter than an overlap, just as long, and longer than a chunk.

`CHECK_DEADLOCK FALSE` everywhere: a document whose workflows are closed, or
whose text is chunked, rests for good when users ask for nothing more; so does
a realm when all requests are answered.

Where a component has an inductive invariant (section 4), its run checks that in
the place of the type invariant, which is one of its parts: `ContractInv`,
`RowInv`, `ContentInv` (the two of `ReviewContent`), `SchemeInv`, `CatalogInv` and
`AccountsInv`.

No property of `SignIn` and `Chunking` is about liveness: requests end by faults
or by answers, and nobody waits for anybody. In `DocPipeline`,
fairness is weak fairness of `WorkerStep(r)` for each workflow and nothing else.
Temporal keeps a workflow's task until a worker takes it, and an attempt ends at
the latest by its `start_to_close_timeout`; a fault (`WorkerFault`) may hit every
attempt, and the finite retry policies then end the workflow. Users, their
requests and abandoned attempts owe nobody a step, and no liveness property needs
them to.

## 4. Proofs

`DocPipeline_proofs` proves, for any number of extra workflows and requests, any
set of operations and options and any bounds (the assumptions `RunsAssumption`,
`OptionsAssumption`, `AttemptsAssumption`, `SettingsAssumption` and
`OpsAssumption` only give the constants their types):

* `DeliveriesInOrder`: `Spec => []DeliveryInv`, and from it
* `TypeCorrect`, `EveryGateIsOpened` (`GatesInOrder`), `NoApprovalAhead`
  (`ApprovalNotEarly`), `ProdNeedsApproval` (`ProdOnlyByApproval`) and
  `NetworkNeedsProd` (`NetworkOnlyAfterProd`).

None of the last four is inductive. `GatesInOrder` needs to know that an
approval flag is never ahead of the pipeline, or the flag would open a gate
before it is reached; `ApprovalNotEarly` needs the same of the request that is
between validation and signal (`SignalsNotEarly`), and that a pipeline which
moves on never moves back (`RunShape`, `ReachedStaysReached`).
`ProdOnlyByApproval` needs to know who could still write to PROD: workflows at
`ingesting_prod`, promotions, and stray attempts (`ProdWritersApproved`).
`NetworkOnlyAfterProd` needs that whoever is at, or about to enter,
`publishing_to_network` comes after a write to PROD, which for the workflow is
between the write and the return of its attempt (`AnnouncersPromoted`). That an
attempt exists only while its workflow waits for it is `TaskShape`.

The proof has three layers: what each building block does to types
(`RunUpdates`, `RowUpdates`, ...), what each step may do to workflows, requests
and history (`WorkerMoves`, `StrayMoves`, `RequestOnRuns`, `RequestOnHistory`),
and one lemma per conjunct of the invariant that uses only the second layer.

The last section of the module is about the pipeline alone (`PipelineAlone`):
no re-run and no promotion beside it (`Extra = {}`), no reconciliation by users, and
no attempt that outlives its timeout (`MaxStray = 0`). Requests, options, retries,
lost requests and repeated or exhausted mirrors are as before. Beside a re-run the
row shows the stage of whoever mirrored last, and reconciliation and late attempts
move it back (sections 5 and 6), so that the properties are not meant for these.

* `RowIsMirror` (`RowInv`), `RowAgrees` (`RowAgreesWhenQuiet`) and `RowNeverMovesBack`
  (`RowMovesForward`);
* `PurgeLasts` (`PurgedStaysPurged`) and `DisabledStaysOut`
  (`NothingIndexedWhileDisabled`), if moreover `~CallsMayFail`: a removal goes on when
  the call that was to stop the workflow failed, and then the workflow indexes what is
  being removed.

`RowInv` says that the row is never ahead of the workflow, and while the workflow works
or waits is as it was mirrored or as the upload registered it (`RowFollows`: `NotAhead`
and `AsMirrored`). The one exception is an attempt to chunk that has reconciled the row
and not returned yet: the row then says `chunk_review` before the workflow does, and
keeps saying it when the attempt fails there and is tried again. `RowFollows` needs
that the late registration happens once and to no row that is there already
(`RegisteredOnce`), and that no other request moves the stage (`OnlyRemovals`). What
is removed stays so because a request that has begun to remove has found the pipeline
stopped or stopped it, closed for a purge (`RemovalLasts`), and a stopped one writes
no more. `RowByStep` gives the invariant and the two action properties at once.

`DocPipeline_contract` proves from the same assumptions as the first part:

* `ImplementsContract`: `Spec => DeliversByContract`, the refinement: every step of
  the pipeline, of a re-run, an abandoned attempt or a request is a step of
  `DeliveryContract` or one it does not see;
* `CompletedIsDelivered` (`CompletedMeansDelivered`) and `RecordsFollowDeliveries`
  (`ContractInv`).

`ContractInv` adds to `DeliveryInv` what lets a delivery be owed. Whoever can write
to DEV was let in (`IngestersGranted`), for which a signal under way has to
find the gates before its own decided (`SignalsInOrder`). A stage behind DEV is
on record of no document that is not in DEV, and `completed` of none that lacks
something (`RecordedAfterDev`, `RecordedWhenDone`): the record is the row, every
workflow and every request that carries a stage it has read, because
reconciliation and `approve_prod` bring a stage from any of these into any
other. Before the upload nothing is there (`NothingYet`).

`ReviewContent_proofs` proves, for any number of pages,
workflows and edits (the assumptions only type the constants):

* `TypeCorrect`: `Spec => []TypeOK`, with all operations;
* `ReviewedEdits` (`ReviewedEditsSurvive`), if `NoEarlyRerun`;
* `ProjectionFollows` (`ProjectionOrFlagged`), if `PlainDocument`;
* the invariants behind them, `ReviewInvariant` and `ProjectionInvariant`, and
  `ContentInvariant`, which is both.

These hypotheses are about the constants and say what the properties are meant
for. `NoEarlyRerun` leaves out the three re-runs of stages before the ingestion:
they make pages and chunks anew, and that they overwrite edits is their purpose.
The properties of the two runs are checked under it, too. `PlainDocument` also
leaves out attempts that outlive their successor (`Late = {}`) and schemes. A late
attempt may send old chunks after everybody else, and the promotion of a scheme
clears the flag of an edit it did not send: both leave an index out of date that is
not flagged (sections 5 and 6). `ReviewedEdits` needs neither: late
attempts are part of what it says.

`ReviewInv` says of every attempt that nothing is owed which it will overwrite
(`AttemptsBehind`): a review is named by the row only when the stage under review
is over (`RowBehind`), and an attempt at a later stage has read the pages after the
edits of that review. `ProjectionInv` says that as long as nothing has been
changed without the flag, the index, the chunks and what an ingestion has in hand
together are the chunks (`DevFollows`), and that chunking, if it can be repeated,
makes the same chunks again (`SameChunksAgain`), because whoever edits a page then
is told by the row that there are chunks (`CountsKnown`) and sets the flag.

`SchemeCatalog_proofs` proves, for any number of documents and codes, any seeds
and any bounds (from `CodesAssumption`, `DocsAssumption`, `OpsAssumption` and
`BoundsAssumption`, which type the constants):

* `CatalogTypeCorrect`: `Spec => []TypeOK`,
* `VersionTellsAll`: `Spec => []CacheFresh`,
* `RebuildsByRule` (`CatalogByRule`), `ListedIsServed` (`LiveIsServed`) and the
  invariant behind both, `SchemeInvariant` (`SchemeInv`).

`CacheFresh` is not inductive: a consumer, or the API on its behalf, could hold a
version from the future, which the table then catches up with. `VersionsBehind`
excludes it. `ActShape` says that whoever has entries left to write admits it, so
that a step which writes an entry never ends at a point where the consumer is
promised anything. The proof reduces each of the 27 actions to one of five
moves on the catalog and the cache (`CatalogMoves`: keep, write, raise, abandon,
fetch) and looks at the property only for these (`MovesKeepFresh`).

`CatalogByRule` speaks of the end of a rebuild; the invariant says at each of its
steps what a rebuild that nothing was written beside has in hand and what it has
written (`SeenBy`). A write to a row overtakes every rebuild, so that only
the steps of the rebuild itself are to be looked at. `LiveIsServed` needs to know
what a promotion under way sends (`ServedUnlessFlagged`), that the row
of a document says `ingesting_prod` exactly as long as its promotion is at work
(`PromotionsShown`), and that what the API has read of a row is still so when it
goes on (`ApiUpToDate`): neither a completed nor a disabled document is moved by
the worker.

`MasterCatalog_proofs` proves, for any number of documents, codes and calls (from
`KeysAssumption` and `LimitsAssumption`):

* `MasterTypeCorrect`: `Spec => []TypeOK`, which needs that only a row that is
  there has a document (`RowShape`) and that a call knows the row it is about to
  write (`CallShape`),
* `VersionsCanBeTrusted`: `Spec => []SnapshotHasItsVersion`,
* `MirrorsTheTable` (`MirrorInOrder`), `SnapshotsByDocument` (`CatalogByDocument`) and
  the invariant behind them, `CatalogInvariant` (`CatalogInv`).

`VersionsCanBeTrusted` needs that the same is already true of a call when it has read its
rows and not yet sent them (`RowsReadAfter`), which holds because a version is
made for a write that has happened (`VersionsWritten`), and that nobody has a
version that is still to come (`VersionsTaken`), or a later write could be made
for it. `MirrorsTheTable` needs that a call which nothing was written beside has
read the table as it still is, and has left the snapshot for testers so
(`RightSoFar`). `SnapshotsByDocument` needs that a document which has not strayed
has its row under one key, with the tiers it was synced for, and that no call about
it knows another key (`OneKeyEach`): the key is the code the document has, or the
one it had when it was purged.

`SignIn_proofs` proves, for any number of people, administrators, sign-ins and
states, any situations, any length of a code's life and any number of faults:

* `AccountsTypeCorrect`: `Spec => []TypeOK`,
* `GroupsHaveTheirRoles` (`GroupsAreComplete`), `NobodyIsLeftWithout`
  (`NeverWithoutAccess`), `AccessGivenAsAsked` (`AccessAsGiven`),
  `RequestsFailByFaultsOnly` (`FailsOnlyByFault`) and `LabelsTellTokens`
  (`LabelTellsToken`) of administration;
* `CodesSignInOnce` (`CodeSignsInOnce`), `LatestCodesCount` (`LatestCodeCounts`) and
  `NoUsedPasswordStays` (`SpentPasswordIsDead`) of sign-in;
* `SessionsCarryChanges` (`NextSignInCarriesChange`) of both, and
  `AccountsInvariant` (`AccountsInv`).

The assumptions say that there is somebody (`UsersAssumption`), that the
situations begin with groups and roles the realm can have (`ScenesAssumption`),
that a target is of one of the three types (`TargetsAssumption`), that what
somebody mistypes is no code (`CodesAssumption`), and give the other constants
their types (`PortalAssumption`, `OtpAssumption`, `FaultsAssumption`).
`OtpAssumption` says also that the cooldown is positive, as in the code (30): two
codes of one moment could not be told apart by when they were sent, and the
latest would be neither.

The invariant `IInv` has five parts, and each is proved from what a step of a
request may do rather than from the 34 actions: `AdminMove` for administration,
`Starting`, `Going` and `Rotating` for sign-in.

* `TypeInv`, with `EnsuringShape`: a request at a part of an access has accepted
  it. It needs that a target the code accepts names a leaf group whose path
  parses back to its role (`LeafGroupTyped`).
* `GroupInv`: a request that is about to join knows that its group has its role
  (`GroupsReady`); roles and groups are never taken away.
* `AccessInv`: an undisturbed change of access is in its group from the join on,
  and the groups it has still to leave are others that give an access
  (`Moving`); of two requests in progress on one account neither is undisturbed
  (`NoneActing`).
* `CodeInv`: once a code is spent, the row of its address has another or none,
  and never that one again (`SpentGone`), because a code is stored by the one
  request that made it (`OwnCode`, `RowIssued`); so a second request with the
  code had read the row before, and was beside the first (`OncePast`).
* `PasswordInv`: a password for a grant is on an account only while its request
  is at the grant or at the rotation after it, whichever other requests rotate
  it in between.

What an account and a code are like at the end of a request depends on all the
calls before it, and three more invariants say how far a request has come; the run
checks them (`AccountsInv`).

* `GivenInv`: once a request of administration has found its group, it is the
  one of the access that was asked for (`Aimed`); each of the two ways has calls
  of its own (`OnItsWay`); the account it works on is there (`Placed`); and what it
  has done so far, if nobody disturbed it (`Settled`): after the join it is in
  the group, while it leaves groups every other group of the product is on its
  list, then none is left, then no direct role. A request that is disturbed is
  never counted as alone, whether it is answered or not (`Undisturbed`). With
  what one group of the product makes of a token (`OneGroupToken`, `OneGroupGrants`)
  that gives `AccessAsGiven`, and `FailsOnlyByFault` is a part of it, because the
  ways to fail are those where something is missing that `Placed` says is there.
* `InformedInv`: a session has what every change gave that was answered before it
  began. A token is made of the groups of its moment (`TokensAreClaims`), and a
  change that was answered and not disturbed is still what the account has
  (`DoneGrants`).
* `LatestInv`: of the codes a person was mailed, or is about to be, each is over for
  a reason that lasts (`Over`: expired, typed, out of attempts, or followed by one),
  or the row is its own. `InLine` says for a request that nobody is beside what
  it knows of the row between its read and its write. That holds a resend back
  until the code before it is over, which takes the cooldown, and makes the
  attempts of a row no more than the wrong codes that were typed for it. All
  steps of sign-in are one of two moves on the row (`BeginMove`, `CallMove`).

`Chunking_proofs` and `Chunking_splitter` prove, for every document of any words, and
every setting that keeps the order of the defaults:

* `EveryUnitIsKept` (`NothingLost`),
* `ChunksAreInOrder` (`PagesInOrder`), after every step and with either provider, and
* `OnlyCrumbsAreLost` (`OnlyCrumbsLost`), of every document that repeats no word.

`ChunkingAssumption` is that order of the sizes (section 3); `DocumentsAssumption`
says that a document is a sequence of pages of blocks of words, and that `Line` and
`Para` are two things and no words.

What the provider makes is a fold, or a fold of folds, over texts of any length:
both need an induction over data. The library's induction theorems take an operator,
which the provers cannot instantiate. `Inductive`, `InductiveTo` and `InductiveSeq`
say the same of sets: a set that has the empty sequence, and with a sequence every
longer one, has them all. They follow from the well-foundedness of the natural
numbers. A fold of the model is then given a function for its step and a set its
states stay in (`FoldFolds`, `Folded`), and is reasoned about one element at a time.

`EveryUnitIsKept` rests on `DeterministicInv`. While the deterministic provider
works, the chunk it is making is the run of units from some `f` to the last one
taken (`Running`), and every unit before `f` is in a chunk of at least the least
size, which `filtered_chunks` keeps. What makes this inductive is the overlap: a run
that is too small to be kept as a chunk has fewer tokens than an overlap, so that
`_select_overlap_units` takes all of it into the next (for which `MinTokens =<
OverlapTokens` is needed). Of the passes at the end, sifting loses a chunk only to
one that begins alike, which `dropped` has, or to one that contains its words, and
merging joins chunks without taking anything out.

`ChunksAreInOrder` rests on `RecursiveInv`, which says the same of the deterministic
provider's chunks and of the windows taken so far that no chunk begins on a page
behind them. In a window the question is whether looking for a chunk by its text may
go back to an earlier page when the text occurs twice. The splitter (`split_text`,
three separators deep) makes pieces none of which is longer than a chunk, and which
begin at places of the text one behind the other (`Parts`, `Spread`), overlaps
included; cut at blank lines, line breaks or words, merged and stripped, they stay
so. A chunk may be found before the place it was cut from, never behind it; so the
search for the next one, which begins where this one was found, begins before the
place of the next (`Placed`), finds it without starting over, and finds it no
earlier. `SplitWordsParts`, `SplitLinesParts` and `split_textParts` show on the way
that the branch of `chunk_text_with_tokens` for a chunk that is too long is never
taken on texts whose tokens add up.

`OnlyCrumbsAreLost` rests on `CompleteInv`: `RecursiveInv`, and every page of the
windows taken so far is `Complete`, which is what the property says of one page. The
argument follows a page into its window and back:

* A page's text stands in the text of its window as a paragraph (`PagesStandGoOn`,
  `CutsJoin`) that is made of lines (`Lined`).
* `Crumbs(t, K)` says that of any `MinTokens` words in a row of a text `t` one is in
  `K`, here the words of the chunks that are long enough to be kept. While lines
  are merged, `GapBefore` holds: what stands before the chunk at work ends with a kept
  word, or the chunk at work is of the least size already. So two texts that are too
  small never follow each other. It takes `2 * MinTokens < MaxTokens`.
* A line that is too long and is cut into words loses nothing (`SplitWordsKeep`):
  every chunk it is cut into is full, and what is left begins with an overlap, which is
  no smaller than the least size. A short paragraph that is merged with others is
  in one chunk as a whole (`MergeSplitsWhole`).
* A kept chunk is found in the window by its text, perhaps not where it was cut
  from. Because the document repeats no word, each of its words has one place in the
  window, and the span the chunk is given covers it (`WordFound`).

Three things came out of the proofs. A chunk is dropped as contained when its
*normalised* text is in that of the one before. So its text itself may be in no
chunk that is left: `Holds` compares what `normalize_text` leaves, and `MCChunking`
has the document that tells the two apart (`Refrain`). The hypothesis of
`OnlyCrumbsLost` was about the blocks of a document, which says less than the proof
needs: two blocks may share a word. It is now about the words of the cleaned pages.
And the splitter's operators were written as folds of named steps (`MergeSplit`,
`Split`, `BuildPage`, `Place`), one step for one turn of the loop.

Every safety property of the runs that pass is stated by a theorem. Only
model-checked is liveness, which is out of the prover's reach together with
`ENABLED`.

## 5. Not modelled, and the plan

In this order:

1. `ReviewContent` with more than one edit at a time in a run of its own.
2. `NetworkPublish`: classification of the Discovery Service's answers.
3. Document validity (dates in a payload) and display names, as operators.

Reached by the models and promised by nothing in the code, so that no property
speaks of them: an edit between the reconciliation of a chunking and its retry is
lost; an API process that stops between an edit and its flag leaves a stale
index unflagged; an attempt that outlived its timeout may write old rows or
points after everybody else; PROD is filled from the chunks in SQLite at that
time, which may have changed since DEV was reviewed; a slow rebuild by the worker
lists a scheme again that the API has just removed, until the next rebuild; a
document that is restored, or that skipped PROD, is listed without points; of two
calls to the master catalog the slower one sends older rows, with an older version,
over newer ones; two documents with one code share a row there, and the removal of
either removes it. Two changes of one account's access at once may leave it in
no group of the product; a new account whose user name is taken joins the other
person's account to its group (`Locate` after a 409); membership in the group of
a state itself, `/states/MH`, survives a change of access; two requests that
verify one code at once may both get a session, and one that deletes or counts by
address may hit the code that replaced the one it read; a grant that raises,
rather than being refused, skips the rotation after it
(`email_otp.py:423` says "regardless of outcome"); a chunk of the deterministic
provider may be longer than `MAX_CHUNK_TOKENS` and span more pages than
`MAX_PAGES_PER_CHUNK`, by its overlap and by merging (`ENV.md:184,187` call them
maxima); a document of less text than a chunk needs, over more pages than a chunk
may span, has no chunks at all.

Browser code, search, deployment files and scripts stay out: they have no state of
the pipeline, or none that a model of this kind could say anything about.

## 6. Where the code and its documentation differ

* A purge deletes the rows while an attempt may be at work and write them back
  (`api.py:1432-1434`; run `purge_late_attempt`).
* The deterministic provider drops, as a duplicate, a chunk that only begins like
  another one of the same pages (`deterministic.py:40`; run
  `dropped_paragraph`): with an overlap of 128 tokens, a page of a long and a
  short paragraph keeps the long one only, because the chunk of both begins with
  the same 240 characters.

The models reach more, for which there is no run. Reconciliation moves a document
on its way into PROD back to `chunk_review` (`db.py:859-860`). A scheme that is
promoted is not listed afterwards, and one that was listed before is listed no
more: the catalog is rebuilt when the row still says `ingesting_prod`
(`MASTER_SCHEME_CATALOG_AND_AI_SYNC_DESIGN.md:299`, `scheme_catalog.py:619`). A
document that is renamed after it was synced keeps its old row in the master
catalog, and its removal leaves it there (`master_catalog_pg.py:271-276`). A
disabled document can be indexed again by a re-ingestion, which the action list
of the API withholds and the handler allows (`api.py:493-494`, `1371`). A
re-ingestion does not overwrite a point whose text begins differently, and both
texts stay searchable (`SYSTEM_DESIGN.md:412`). A re-ingestion lands in
`approval_for_prod` although PROD is disabled (`workflows.py:531`;
`models.py:48-50` says that a document never enters it then). And the promotion of
a scheme clears the flag of a chunk that was edited after the promotion had read
it (`scheme_catalog.py:620`).

## 7. Running it

    tlc -workers 2 -config pipeline.cfg MCDocPipeline
    tlc -workers 2 -config review.cfg MCReviewContent
    tlc -workers 2 -config catalog.cfg MCSchemeCatalog
    tlc -workers 2 -config master.cfg MCMasterCatalog
    tlc -workers 2 -config accounts.cfg MCSignIn
    tlc -workers 2 -config chunks.cfg MCChunking
    tlapm DocPipeline_proofs.tla
    tlapm DocPipeline_contract.tla
    tlapm ReviewContent_proofs.tla
    tlapm SchemeCatalog_proofs.tla
    tlapm MasterCatalog_proofs.tla
    tlapm SignIn_proofs.tla
    tlapm Chunking_proofs.tla
    tlapm Chunking_splitter.tla

A run takes from seconds to two minutes; the proofs of a module take from one to
ten.
