--------------------------- MODULE SchemeCatalog ----------------------------
(***************************************************************************)
(* The catalog of schemes: which scheme codes consumers are told they can  *)
(* search for.                                                             *)
(*                                                                         *)
(* The entries are recomputed from the documents, one transaction per      *)
(* entry, by the API (metadata edits, removal, administrators) and by the  *)
(* worker (promotion), two processes that know nothing of each other.      *)
(* Neither awaits anything while it does so: each is at one catalog        *)
(* operation at a time. Consumers poll the version and fetch a snapshot    *)
(* when it has changed.                                                    *)
(*                                                                         *)
(* DocPipeline has the stages and who may move a document along them; here *)
(* those before approval_for_prod are one, and so are those between it and *)
(* completed.                                                              *)
(*                                                                         *)
(* settled, overtaken, torn and astray are history variables.              *)
(***************************************************************************)
EXTENDS Naturals

CONSTANTS
  Docs,       \* documents
  Codes,      \* scheme codes
  Bootstrap,  \* the codes that are seeded
  Ops,        \* what users ask for
  MaxOps,     \* how often
  MaxFaults,  \* failed attempts and stopped processes
  NoCode,     \* a document that has no scheme code
  NoDoc       \* an operation that is about no document

ASSUME CodesAssumption == Bootstrap \subseteq Codes /\ NoCode \notin Codes
ASSUME DocsAssumption == NoDoc \notin Docs
ASSUME OpsAssumption ==
  Ops \subseteq {"approve", "reingest", "code", "kind", "visible", "disable",
                 "hide", "restore", "mark", "clear", "rebuild", "force"}
ASSUME BoundsAssumption == MaxOps \in Nat /\ MaxFaults \in Nat

VARIABLES
  doc,       \* the documents rows
  job,       \* promotions at work: step, code in the records that were prepared
  prod,      \* the code under which the points in schemes-index are found
  entries,   \* the table scheme_catalog_entries
  version,   \* scheme_catalog_meta
  act,       \* what the API and the worker are doing with the catalog
  cache,     \* the snapshot a consumer has
  ops,       \* operations so far
  faults,    \* faults so far
  settled,   \* history: the last rebuild saw every document as it is now
  overtaken, \* history: whose rebuild something else was written beside
  torn,      \* history: entries were written and then no version
  astray     \* history: documents that changed their code without being flagged

rowVars == <<doc, astray>>
promotionVars == <<job, prod>>
catalogVars == <<entries, version, torn>>
boundVars == <<ops, faults>>
historyVars == <<settled, overtaken>>
vars == <<doc, job, prod, entries, version, act, cache, ops, faults,
          settled, overtaken, torn, astray>>

-----------------------------------------------------------------------------
Actors == {"api", "worker"}

Stages == {"draft", "approval_for_prod", "ingesting_prod", "completed", "failed"}
Row == [scheme : BOOLEAN, code : Codes \cup {NoCode}, stage : Stages,
        visible : BOOLEAN, disabled : BOOLEAN, reindex : BOOLEAN]

Entry == [status : {"absent", "live", "pending_prod", "pending_reindex", "disabled"},
          source : {"none", "bootstrap", "pipeline", "import"}, docs : SUBSET Docs]
NoEntry == [status |-> "absent", source |-> "none", docs |-> {}]
Seed == [status |-> "live", source |-> "bootstrap", docs |-> {}]

Change == [code : Codes \cup {NoCode}, scheme : BOOLEAN, visible : BOOLEAN,
           flag : BOOLEAN, rebuild : BOOLEAN]
NoChange == [code |-> NoCode, scheme |-> FALSE, visible |-> FALSE,
             flag |-> FALSE, rebuild |-> FALSE]

\* pc: the next transaction. todo: entries still to be written. carried: the
\* codes some document carries. then: what follows when seeds are written.
Action ==
  [pc : {"idle", "patch", "delete", "clear", "scan", "write", "rest", "seed",
         "version", "read"},
   doc : Docs \cup {NoDoc}, change : Change,
   todo : SUBSET (Codes \X Entry), carried : SUBSET Codes,
   then : {"idle", "scan", "version"}, num : Nat]
Idle == [pc |-> "idle", doc |-> NoDoc, change |-> NoChange, todo |-> {},
         carried |-> {}, then |-> "idle", num |-> 0]

Promotion == [step : {"none", "reading", "sending", "updating", "closing"},
              code : Codes \cup {NoCode}]
NoPromotion == [step |-> "none", code |-> NoCode]

\* The only type invariant of this module.
TypeOK ==
  /\ doc \in [Docs -> Row]
  /\ job \in [Docs -> Promotion]
  /\ prod \in [Docs -> Codes \cup {NoCode}]
  /\ entries \in [Codes -> Entry]
  /\ version \in Nat
  /\ act \in [Actors -> Action]
  /\ cache \in [version : Nat, live : SUBSET Codes]
  /\ ops \in 0..MaxOps /\ faults \in 0..MaxFaults
  /\ settled \in BOOLEAN /\ torn \in BOOLEAN
  /\ overtaken \subseteq Actors /\ astray \subseteq Docs

\* Documents arrive classified or not, and unreviewed; the catalog is empty.
Init ==
  /\ doc \in [Docs -> [scheme : BOOLEAN, code : Codes \cup {NoCode},
                       stage : {"draft"}, visible : {TRUE}, disabled : {FALSE},
                       reindex : {FALSE}]]
  /\ job = [d \in Docs |-> NoPromotion]
  /\ prod = [d \in Docs |-> NoCode]
  /\ entries = [c \in Codes |-> NoEntry]
  /\ version = 0
  /\ act = [a \in Actors |-> Idle]
  /\ cache = [version |-> 0, live |-> {}]
  /\ ops = 0 /\ faults = 0
  /\ settled = FALSE /\ torn = FALSE
  /\ overtaken = {} /\ astray = {}

-----------------------------------------------------------------------------
(* The rows and the catalog. *)

\* Whatever is written into a row may be too late for a rebuild at work.
WriteRow(d, row) ==
  /\ doc' = [doc EXCEPT ![d] = row]
  /\ settled' = FALSE
  /\ overtaken' = Actors

Group(c) == {d \in Docs : doc[d].code = c}

LiveDocs(c) ==
  {d \in Group(c) : /\ doc[d].scheme /\ doc[d].stage = "completed"
                    /\ doc[d].visible /\ ~doc[d].disabled}

\* (defect) a code is listed although its documents wait for a re-index.
Status_unflagged(c) == IF LiveDocs(c) # {} THEN "live" ELSE "disabled"

Status(c) ==
  IF LiveDocs(c) # {}
  THEN IF \E d \in LiveDocs(c) : doc[d].reindex THEN "pending_reindex" ELSE "live"
  ELSE IF \E d \in Group(c) : doc[d].stage = "approval_for_prod" /\ ~doc[d].disabled
       THEN "pending_prod" ELSE "disabled"

GroupEntry(c) ==
  [status |-> Status(c),
   source |-> IF \E d \in Group(c) : doc[d].scheme THEN "pipeline" ELSE "import",
   docs   |-> IF LiveDocs(c) # {} THEN LiveDocs(c) ELSE Group(c)]

\* What becomes of the entry of a code that no document carries.
Retired(c) == [entries[c] EXCEPT !.status = "disabled",
                                 !.docs = IF c \in Bootstrap THEN @ ELSE {}]

\* (defect) only the seeded codes are looked at.
LeftOver_seeds(carried) ==
  {<<c, IF entries[c].source = "pipeline" THEN Retired(c) ELSE Seed>> :
     c \in Bootstrap \ carried}

LeftOver(carried) ==
  {<<c, IF entries[c].source = "pipeline" THEN Retired(c) ELSE Seed>> :
     c \in Bootstrap \ carried}
  \cup
  {<<c, Retired(c)>> : c \in {b \in Codes \ (Bootstrap \cup carried) :
                               entries[b].status \notin {"absent", "disabled"}}}

Listed == {c \in Codes : entries[c].status = "live"}
Empty == \A c \in Codes : entries[c].status = "absent"

Do(a, changes) == act' = [act EXCEPT ![a] = changes]

\* (defect) documents without a code make a group, too.
Carried_uncoded == {doc[d].code : d \in Docs}

\* The codes some document carries.
Carried == {doc[d].code : d \in Docs} \ {NoCode}

\* rebuild_catalog_from_documents, from its first read to its last write. It
\* reads all documents at once, writes the groups, reads the entries, writes
\* those left over, raises the version.
Scan(a) ==
  /\ act[a].pc = "scan"
  /\ Do(a, [act[a] EXCEPT !.pc = "write", !.carried = Carried,
                          !.todo = {<<c, GroupEntry(c)>> : c \in Carried}])
  /\ overtaken' = overtaken \ {a}
  /\ UNCHANGED <<rowVars, promotionVars, catalogVars, cache, boundVars, settled>>

WriteEntry(a) ==
  /\ \E e \in act[a].todo :
       /\ entries' = [entries EXCEPT ![e[1]] = e[2]]
       /\ Do(a, [act[a] EXCEPT !.todo = @ \ {e}])
  /\ settled' = FALSE
  /\ overtaken' = overtaken \cup (Actors \ {a})
  /\ UNCHANGED <<rowVars, promotionVars, version, torn, cache, boundVars>>

ReadEntries(a) ==
  /\ act[a].pc = "write" /\ act[a].todo = {}
  /\ Do(a, [act[a] EXCEPT !.pc = "rest", !.todo = LeftOver(act[a].carried)])
  /\ UNCHANGED <<rowVars, promotionVars, catalogVars, cache, boundVars, historyVars>>

\* The activity goes on, whether or not its catalog update succeeded.
Updated(a) ==
  IF a = "worker"
  THEN job' = [job EXCEPT ![act[a].doc] = [@ EXCEPT !.step = "closing"]]
  ELSE UNCHANGED job

\* (defect) only promotions raise the version.
NextVersion_promotions(a) == IF a = "worker" THEN version + 1 ELSE version

NextVersion(a) == version + 1

BumpVersion(a) ==
  /\ act[a].pc = "rest" /\ act[a].todo = {}
  /\ version' = NextVersion(a)
  /\ torn' = FALSE
  /\ settled' = (a \notin overtaken)
  /\ Do(a, Idle)
  /\ Updated(a)
  /\ UNCHANGED <<rowVars, prod, entries, cache, boundVars, overtaken>>

\* bootstrap_catalog_if_empty, when it found the table empty, or was forced.
BumpSeeded ==
  /\ act["api"].pc = "seed" /\ act["api"].todo = {}
  /\ version' = NextVersion("api")
  /\ torn' = FALSE
  /\ Do("api", [Idle EXCEPT !.pc = act["api"].then])
  /\ UNCHANGED <<rowVars, promotionVars, entries, cache, boundVars, historyVars>>

Rebuilding(a) == Scan(a) \/ WriteEntry(a) \/ ReadEntries(a) \/ BumpVersion(a)

-----------------------------------------------------------------------------
(* Requests. The API is one process: while it writes the catalog it serves *)
(* nothing else. That removal waits for Temporal before it marks the row   *)
(* is left out.                                                            *)
Request(o) ==
  /\ o \in Ops /\ ops < MaxOps
  /\ ops' = ops + 1
  /\ act["api"].pc = "idle"
  /\ UNCHANGED <<cache, faults>>

\* approve_prod: the gate of the pipeline opens, or a promotion of its own
\* starts; either way the row says ingesting_prod.
ApproveProd(d) ==
  /\ Request("approve")
  /\ doc[d].stage \in {"approval_for_prod", "completed"} /\ job[d].step = "none"
  /\ WriteRow(d, [doc[d] EXCEPT !.stage = "ingesting_prod"])
  /\ job' = [job EXCEPT ![d].step = "reading"]
  /\ UNCHANGED <<prod, catalogVars, act, astray>>

Reingest(d) ==
  /\ Request("reingest")
  /\ doc[d].stage \in {"approval_for_prod", "completed", "failed"} /\ job[d].step = "none"
  /\ doc[d].scheme \/ doc[d].code # NoCode
  /\ WriteRow(d, [doc[d] EXCEPT !.stage = "draft"])
  /\ UNCHANGED <<promotionVars, catalogVars, act, astray>>

UsedCodes(d) == {doc[e].code : e \in Docs \ {d}}
                \cup {c \in Codes : entries[c].status # "absent"}

\* The code of a scheme that has a name and none yet is made up.
Derived(d, scheme) ==
  IF scheme /\ doc[d].code = NoCode THEN {NoCode} \cup (Codes \ UsedCodes(d))
  ELSE {doc[d].code}

\* What a request may want of code, kind and visibility: a change of one.
Wanted(o, d) ==
  {w \in [code : Codes \cup {NoCode}, scheme : BOOLEAN, visible : BOOLEAN] :
     /\ (w.scheme # doc[d].scheme) <=> (o = "kind")
     /\ (w.visible # doc[d].visible) <=> (o = "visible")
     /\ IF o = "code" THEN w.code # doc[d].code ELSE w.code \in Derived(d, w.scheme)}

Renamed(d, c) == doc[d].code # NoCode /\ c # NoCode /\ doc[d].code # c

\* Only the rename of a document that is completed hides its code.
NeedsReindex(d, c) ==
  Renamed(d, c) /\ doc[d].stage = "completed" /\ ~doc[d].disabled

\* apply_scheme_metadata decides by the row it reads first ...
OpenPatch(d) ==
  \E o \in {"code", "kind", "visible"} : \E w \in Wanted(o, d) :
    /\ Request(o)
    /\ Do("api", [Idle EXCEPT !.pc = "patch", !.doc = d, !.change =
         [code |-> w.code, scheme |-> w.scheme, visible |-> w.visible,
          flag |-> NeedsReindex(d, w.code),
          rebuild |-> w.scheme \/ doc[d].scheme \/ Renamed(d, w.code)]])
    /\ UNCHANGED <<rowVars, promotionVars, catalogVars, historyVars>>

\* ... and then writes what it changes, of which nobody else changes more
\* than the flag.
WritePatch ==
  /\ act["api"].pc = "patch"
  /\ LET d == act["api"].doc
         to == act["api"].change
     IN /\ WriteRow(d, [doc[d] EXCEPT !.code = to.code, !.scheme = to.scheme,
                                     !.visible = to.visible,
                                     !.reindex = @ \/ to.flag])
        /\ astray' = IF to.flag \/ (to.code = doc[d].code /\ to.scheme = doc[d].scheme)
                     THEN astray ELSE astray \cup {d}
        /\ Do("api", [Idle EXCEPT !.pc = IF to.rebuild THEN "scan" ELSE "idle"])
  /\ UNCHANGED <<promotionVars, catalogVars, cache, boundVars>>

\* disable_document, keeping the points (hide) or not; only the latter rebuilds.
Disable(d) ==
  \E o \in {"disable", "hide"} :
    /\ Request(o)
    /\ WriteRow(d, [doc[d] EXCEPT !.disabled = TRUE])
    /\ IF o = "disable" /\ (doc[d].scheme \/ doc[d].code # NoCode)
       THEN Do("api", [Idle EXCEPT !.pc = "delete", !.doc = d])
       ELSE UNCHANGED act
    /\ UNCHANGED <<promotionVars, catalogVars, astray>>

\* _delete_scheme_points_from_prod: best effort.
DeletePoints ==
  /\ act["api"].pc = "delete"
  /\ \/ prod' = [prod EXCEPT ![act["api"].doc] = NoCode]
     \/ UNCHANGED prod
  /\ Do("api", [Idle EXCEPT !.pc = "scan"])
  /\ UNCHANGED <<rowVars, job, catalogVars, cache, boundVars, historyVars>>

\* restore_document brings back the row, not the points.
Restore(d) ==
  /\ Request("restore")
  /\ doc[d].disabled
  /\ WriteRow(d, [doc[d] EXCEPT !.disabled = FALSE])
  /\ astray' = astray \cup {d}
  /\ UNCHANGED <<promotionVars, catalogVars, act>>

\* mark_reindex_required, clear_reindex_required, edits of chunks.
SetFlag(d) ==
  \E o \in {"mark", "clear"} :
    /\ Request(o)
    /\ WriteRow(d, [doc[d] EXCEPT !.reindex = (o = "mark")])
    /\ astray' = IF o = "clear" /\ doc[d].reindex THEN astray \cup {d} ELSE astray
    /\ UNCHANGED <<promotionVars, catalogVars, act>>

\* bootstrap_catalog_if_empty
Seeding(then) ==
  Do("api", [Idle EXCEPT !.pc = "seed", !.then = then,
                         !.todo = {<<c, Seed>> : c \in Bootstrap}])
SeededFirst(then) ==
  IF Empty THEN Seeding(then) ELSE Do("api", [Idle EXCEPT !.pc = then])

AdminRebuild ==
  /\ Request("rebuild")
  /\ SeededFirst("scan")
  /\ UNCHANGED <<rowVars, promotionVars, catalogVars, historyVars>>

ForceBootstrap ==
  /\ Request("force")
  /\ Seeding("idle")
  /\ UNCHANGED <<rowVars, promotionVars, catalogVars, historyVars>>

\* A consumer polls the version and fetches the snapshot when it is another:
\* build_snapshot reads the version, then the entries.
Poll ==
  /\ act["api"].pc = "idle"
  /\ Empty \/ cache.version # version
  /\ SeededFirst("version")
  /\ UNCHANGED <<rowVars, promotionVars, catalogVars, cache, boundVars, historyVars>>

SnapshotVersion ==
  /\ act["api"].pc = "version"
  /\ Do("api", [Idle EXCEPT !.pc = "read", !.num = version])
  /\ UNCHANGED <<rowVars, promotionVars, catalogVars, cache, boundVars, historyVars>>

SnapshotEntries ==
  /\ act["api"].pc = "read"
  /\ cache' = [version |-> act["api"].num, live |-> Listed]
  /\ Do("api", Idle)
  /\ UNCHANGED <<rowVars, promotionVars, catalogVars, boundVars, historyVars>>

ApiStep ==
  \/ \E d \in Docs : \/ ApproveProd(d) \/ Reingest(d) \/ OpenPatch(d)
                     \/ Disable(d) \/ Restore(d) \/ SetFlag(d)
  \/ WritePatch \/ DeletePoints \/ AdminRebuild \/ ForceBootstrap
  \/ Poll \/ SnapshotVersion \/ SnapshotEntries \/ BumpSeeded

-----------------------------------------------------------------------------
(* The worker. *)
ReachGate(d) ==
  /\ doc[d].stage = "draft"
  /\ WriteRow(d, [doc[d] EXCEPT !.stage = "approval_for_prod"])
  /\ UNCHANGED <<promotionVars, catalogVars, act, cache, boundVars, astray>>

\* Where PROD was disabled when the workflow was started.
SkipProd(d) ==
  /\ doc[d].stage = "draft"
  /\ WriteRow(d, [doc[d] EXCEPT !.stage = "completed"])
  /\ astray' = astray \cup {d}
  /\ UNCHANGED <<promotionVars, catalogVars, act, cache, boundVars>>

\* promote_document_to_prod_qdrant reads the row once, prepares the records,
\* sends them in its own time; the id of a point does not depend on the code.
PrepareRecords(d) ==
  /\ job[d].step = "reading"
  /\ job' = [job EXCEPT ![d] =
       [step |-> "sending", code |-> IF doc[d].scheme THEN doc[d].code ELSE NoCode]]
  /\ UNCHANGED <<rowVars, prod, catalogVars, act, cache, boundVars, historyVars>>

SendRecords(d) ==
  /\ job[d].step = "sending"
  /\ IF job[d].code = NoCode
     THEN /\ job' = [job EXCEPT ![d].step = "closing"]
          /\ UNCHANGED <<prod, astray>>
     ELSE /\ job' = [job EXCEPT ![d].step = "updating"]
          /\ prod' = [prod EXCEPT ![d] = job[d].code]
          /\ astray' = IF doc[d].scheme /\ doc[d].code = job[d].code
                       THEN astray \ {d} ELSE astray
  /\ UNCHANGED <<doc, catalogVars, act, cache, boundVars, historyVars>>

\* on_scheme_document_promoted: the flag is cleared if it is set, and the
\* catalog rebuilt, while the row still says ingesting_prod.
OnPromoted(d) ==
  /\ job[d].step = "updating" /\ act["worker"].pc = "idle"
  /\ IF doc[d].scheme
     THEN /\ Do("worker", [Idle EXCEPT !.doc = d,
                                       !.pc = IF doc[d].reindex THEN "clear" ELSE "scan"])
          /\ UNCHANGED job
     ELSE /\ job' = [job EXCEPT ![d].step = "closing"]
          /\ UNCHANGED act
  /\ UNCHANGED <<rowVars, prod, catalogVars, cache, boundVars, historyVars>>

ClearFlag ==
  /\ act["worker"].pc = "clear"
  /\ WriteRow(act["worker"].doc, [doc[act["worker"].doc] EXCEPT !.reindex = FALSE])
  /\ Do("worker", [act["worker"] EXCEPT !.pc = "scan"])
  /\ UNCHANGED <<promotionVars, catalogVars, cache, boundVars, astray>>

Complete(d) ==
  /\ job[d].step = "closing"
  /\ job' = [job EXCEPT ![d] = NoPromotion]
  /\ WriteRow(d, [doc[d] EXCEPT !.stage = "completed"])
  /\ UNCHANGED <<prod, catalogVars, act, cache, boundVars, astray>>

\* An attempt fails, perhaps after it sent its records, and is retried or was
\* the last one.
AttemptFails(d) ==
  /\ job[d].step \in {"reading", "sending", "closing"}
  /\ faults < MaxFaults /\ faults' = faults + 1
  /\ \/ UNCHANGED prod
     \/ job[d].step = "sending" /\ job[d].code # NoCode
        /\ prod' = [prod EXCEPT ![d] = job[d].code]
  /\ \/ /\ job' = [job EXCEPT ![d] = [NoPromotion EXCEPT !.step = "reading"]]
        /\ UNCHANGED <<doc, historyVars>>
     \/ /\ job' = [job EXCEPT ![d] = NoPromotion]
        /\ WriteRow(d, [doc[d] EXCEPT !.stage = "failed"])
  /\ UNCHANGED <<catalogVars, act, cache, ops, astray>>

WorkerStep ==
  \/ \E d \in Docs : \/ ReachGate(d) \/ SkipProd(d) \/ PrepareRecords(d)
                     \/ SendRecords(d) \/ OnPromoted(d) \/ Complete(d) \/ AttemptFails(d)
  \/ ClearFlag

\* A process stops, or a transaction raises, in the middle of an operation on
\* the catalog. The promotion swallows the latter and repeats after the former.
Interrupted(a) ==
  /\ act[a].pc # "idle"
  /\ faults < MaxFaults /\ faults' = faults + 1
  /\ Do(a, Idle)
  /\ torn' = (torn \/ act[a].pc \in {"write", "rest", "seed"})
  /\ \/ Updated(a)
     \/ /\ a = "worker"
        /\ job' = [job EXCEPT ![act[a].doc] = [NoPromotion EXCEPT !.step = "reading"]]
  /\ UNCHANGED <<rowVars, prod, entries, version, cache, ops, historyVars>>

Next ==
  \/ ApiStep
  \/ WorkerStep
  \/ \E a \in Actors : Rebuilding(a) \/ Interrupted(a)

Spec == Init /\ [][Next]_vars

-----------------------------------------------------------------------------
(* Properties *)

\* What MASTER_SCHEME_CATALOG_AND_AI_SYNC_DESIGN.md calls a member: a document
\* consumers can be sent to.
Member(d, c) ==
  /\ doc[d].scheme /\ doc[d].code = c
  /\ doc[d].stage = "completed" /\ doc[d].visible /\ ~doc[d].disabled

\* A rebuild beside which nothing was written brings the catalog in order
\* whatever was left behind: by a rebuild that was interrupted or overtaken, a
\* forced bootstrap, a removal that did not rebuild. A code that a document
\* carries is listed if it has members and none waits for a re-index, and with
\* exactly these; any other only if it is seeded and was never a document's
\* (rebuild_catalog_from_documents).
CatalogByRule ==
  settled => \A c \in Codes :
    LET members == {d \in Docs : Member(d, c)}
    IN /\ c \in Listed <=>
            IF \E d \in Docs : doc[d].code = c
            THEN members # {} /\ \A d \in members : ~doc[d].reindex
            ELSE c \in Bootstrap /\ entries[c].source = "bootstrap"
       /\ c \in Listed /\ entries[c].source # "bootstrap" => entries[c].docs = members

\* Consumers are not sent to a code that PROD cannot serve: when the catalog is
\* in order, some document of a listed code has its points under that code. The
\* flag of a rename, hiding its code until the next promotion, is what keeps
\* this; exempt are documents that got another code or kind without one being
\* set, whose flag was cleared by hand, that skipped PROD, or that were restored
\* without points
\* (NeedsReindex, GroupEntry, on_scheme_document_promoted).
LiveIsServed ==
  settled => \A c \in Listed : entries[c].source # "bootstrap" =>
    \E d \in entries[c].docs : prod[d] = c \/ d \in astray

\* A consumer that sees its version unchanged has missed nothing: with nobody
\* at work on the catalog and no rebuild abandoned, a cached snapshot of the
\* current version lists what the table lists. It needs the order of writes in
\* a rebuild and of reads in build_snapshot.
CacheFresh ==
  (/\ \A a \in Actors : act[a].pc \notin {"write", "rest", "seed"}
   /\ ~torn /\ cache.version = version)
  => cache.live = Listed

-----------------------------------------------------------------------------
(* Why the catalog is in order.                                            *)

\* An entry of a code that no document carries.
Spare(c, entry) == entry.status = "live" <=> c \in Bootstrap /\ entry.source = "bootstrap"

InOrder ==
  /\ \A c \in Carried : entries[c] = GroupEntry(c)
  /\ \A c \in Codes \ Carried : Spare(c, entries[c])

\* A rebuild that nothing was written beside knows which codes are carried, has
\* in hand what is still to be written, and has written the rest.
SeenBy(a) ==
  /\ act[a].pc \in {"write", "rest"} => act[a].carried = Carried
  /\ act[a].pc = "write" =>
       /\ \A e \in act[a].todo : e[1] \in Carried /\ e[2] = GroupEntry(e[1])
       /\ \A c \in Carried :
            entries[c] = GroupEntry(c) \/ <<c, GroupEntry(c)>> \in act[a].todo
  /\ act[a].pc = "rest" =>
       /\ \A c \in Carried : entries[c] = GroupEntry(c)
       /\ \A e \in act[a].todo : e[1] \notin Carried /\ Spare(e[1], e[2])
       /\ \A c \in Codes \ Carried :
            Spare(c, entries[c]) \/ \E e \in act[a].todo : e[1] = c

RebuildInv == (\A a \in Actors \ overtaken : SeenBy(a)) /\ (settled => InOrder)

-----------------------------------------------------------------------------
(* Why a listed code is served.                                            *)

\* A row says ingesting_prod as long as its promotion is at work, and the worker
\* is at the catalog for one that has sent its records.
PromotionsShown ==
  /\ \A d \in Docs : doc[d].stage = "ingesting_prod" <=> job[d].step # "none"
  /\ act["worker"].pc # "idle" =>
       act["worker"].doc \in Docs /\ job[act["worker"].doc].step = "updating"

\* What the API has read of a row still holds when it goes on: the worker does
\* not move a completed document, and nobody else restores one.
ApiUpToDate ==
  /\ act["api"].pc = "patch" /\ act["api"].change.flag =>
       doc[act["api"].doc].stage = "completed"
  /\ act["api"].pc = "delete" => act["api"].doc \in Docs /\ doc[act["api"].doc].disabled

ForProd(d) == doc[d].scheme /\ doc[d].code # NoCode /\ ~doc[d].disabled
Reached(d) == prod[d] = doc[d].code \/ d \in astray

\* A promotion sends the code the row has, and afterwards the document can be
\* found under it, or has strayed; a completed one can, or is flagged.
ServedUnlessFlagged ==
  \A d \in Docs :
    /\ job[d].step = "sending" =>
         job[d].code = (IF doc[d].scheme THEN doc[d].code ELSE NoCode) \/ d \in astray
    /\ job[d].step \in {"updating", "closing"} /\ ForProd(d) => Reached(d)
    /\ doc[d].stage = "completed" /\ ForProd(d) /\ ~doc[d].reindex => Reached(d)

ServedInv == PromotionsShown /\ ApiUpToDate /\ ServedUnlessFlagged

\* Both, with the types, are inductive.
SchemeInv == TypeOK /\ RebuildInv /\ ServedInv
=============================================================================
