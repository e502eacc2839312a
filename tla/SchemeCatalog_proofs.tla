------------------------ MODULE SchemeCatalog_proofs ------------------------
(***************************************************************************)
(* That a consumer whose version is unchanged has missed nothing, that a   *)
(* rebuild nobody overtook leaves the catalog in order, and that what the  *)
(* catalog then lists is served: for any number of documents, codes,       *)
(* operations and faults.                                                  *)
(*                                                                         *)
(* TypeSteps goes through the steps once for the types. What a step can do *)
(* to the catalog and to the caches is said by CatalogMoves, and CacheFresh *)
(* follows from that alone.                                                *)
(***************************************************************************)
EXTENDS SchemeCatalog, TLAPS

Writing == {"write", "rest", "seed"}

\* Versions only grow, and whoever has one has it from the table.
VersionsBehind == cache.version <= version /\ act["api"].num <= version

\* Entries are only written by those who say so; a patch, and
\* a flag that is cleared, is some document's.
ActShape ==
  /\ \A a \in Actors : act[a].todo # {} => act[a].pc \in Writing
  /\ act["api"].pc = "patch" => act["api"].doc \in Docs
  /\ act["worker"].pc = "clear" => act["worker"].doc \in Docs

IInv == TypeOK /\ VersionsBehind /\ ActShape /\ CacheFresh

-----------------------------------------------------------------------------
(* Types of what the steps write.                                          *)

LEMMA IdleTyped ==
  /\ Idle \in Action
  /\ \A p \in {"idle", "scan", "version"} : [Idle EXCEPT !.pc = p] \in Action
BY DEF Idle, Action, NoChange, Change

LEMMA DoTyped ==
  ASSUME TypeOK, NEW a \in Actors, NEW r \in Action, Do(a, r)
  PROVE  act' \in [Actors -> Action]
BY DEF TypeOK, Do

LEMMA ActionUpdated ==
  ASSUME NEW x \in Action, NEW plan \in SUBSET (Codes \X Entry),
         NEW codes \in SUBSET Codes
  PROVE  /\ [x EXCEPT !.pc = "write", !.carried = codes, !.todo = plan] \in Action
         /\ [x EXCEPT !.pc = "rest", !.todo = plan] \in Action
BY DEF Action

LEMMA RowPatched ==
  ASSUME NEW row \in Row, NEW to \in Change, NEW flag \in BOOLEAN
  PROVE  [row EXCEPT !.code = to.code, !.scheme = to.scheme,
                     !.visible = to.visible, !.reindex = flag] \in Row
BY DEF Row, Change

LEMMA WriteRowTyped ==
  ASSUME TypeOK, NEW d \in Docs, NEW row \in Row, WriteRow(d, row)
  PROVE  /\ doc' \in [Docs -> Row]
         /\ settled' \in BOOLEAN
         /\ overtaken' \subseteq Actors
BY DEF TypeOK, WriteRow

LEMMA GroupEntryTyped ==
  ASSUME TypeOK, NEW c \in Codes
  PROVE  GroupEntry(c) \in Entry
<1>1. Status(c) \in {"absent", "live", "pending_prod", "pending_reindex", "disabled"}
  BY DEF Status
<1>2. LiveDocs(c) \subseteq Docs /\ Group(c) \subseteq Docs
  BY DEF LiveDocs, Group
<1> QED BY <1>1, <1>2 DEF GroupEntry, Entry

LEMMA LeftOverTyped ==
  ASSUME TypeOK, NEW carried
  PROVE  LeftOver(carried) \subseteq Codes \X Entry
<1>1. Bootstrap \subseteq Codes
  BY CodesAssumption
<1>2. \A c \in Codes : Retired(c) \in Entry
  BY DEF TypeOK, Retired, Entry
<1>3. Seed \in Entry
  BY DEF Seed, Entry
<1> QED BY <1>1, <1>2, <1>3 DEF LeftOver

LEMMA SeedingTyped ==
  ASSUME NEW then \in {"idle", "scan", "version"}
  PROVE  [Idle EXCEPT !.pc = "seed", !.then = then,
                      !.todo = {<<c, Seed>> : c \in Bootstrap}] \in Action
<1>1. {<<c, Seed>> : c \in Bootstrap} \subseteq Codes \X Entry
  BY CodesAssumption DEF Seed, Entry
<1> QED BY <1>1 DEF Idle, Action, NoChange, Change

LEMMA UpdatedTyped ==
  ASSUME TypeOK, NEW a \in Actors, Updated(a)
  PROVE  job' \in [Docs -> Promotion]
BY DEF TypeOK, Updated, Promotion

-----------------------------------------------------------------------------
(* Every step keeps the types.                                             *)

LEMMA RebuildTyped ==
  ASSUME TypeOK, NEW a \in Actors, Rebuilding(a)
  PROVE  TypeOK'
<1>1. CASE Scan(a)
  <2>1. Carried \subseteq Codes
    BY DEF Carried, TypeOK, Row
  <2>2. {<<c, GroupEntry(c)>> : c \in Carried} \subseteq Codes \X Entry
    BY <2>1, GroupEntryTyped
  <2>3. act' \in [Actors -> Action]
    <3> DEFINE r == [act[a] EXCEPT !.pc = "write", !.carried = Carried,
                                   !.todo = {<<c, GroupEntry(c)>> : c \in Carried}]
    <3>1. r \in Action
      BY <2>1, <2>2, ActionUpdated DEF TypeOK
    <3>2. Do(a, r)
      BY <1>1 DEF Scan
    <3> QED BY <3>1, <3>2, DoTyped
  <2> QED BY <1>1, <2>3 DEF Scan, TypeOK, rowVars, promotionVars, catalogVars, boundVars
<1>2. CASE WriteEntry(a)
  <2>1. PICK e \in act[a].todo :
               /\ entries' = [entries EXCEPT ![e[1]] = e[2]]
               /\ Do(a, [act[a] EXCEPT !.todo = @ \ {e}])
    BY <1>2 DEF WriteEntry
  <2>2. e[1] \in Codes /\ e[2] \in Entry
    BY DEF TypeOK, Action
  <2>3. entries' \in [Codes -> Entry]
    BY <2>1, <2>2 DEF TypeOK
  <2>4. [act[a] EXCEPT !.todo = @ \ {e}] \in Action
    BY DEF TypeOK, Action
  <2>5. act' \in [Actors -> Action]
    BY <2>1, <2>4, DoTyped
  <2> QED BY <1>2, <2>3, <2>5
          DEF WriteEntry, TypeOK, rowVars, promotionVars, boundVars, Actors
<1>3. CASE ReadEntries(a)
  <2>1. [act[a] EXCEPT !.pc = "rest", !.todo = LeftOver(act[a].carried)] \in Action
    <3>1. LeftOver(act[a].carried) \in SUBSET (Codes \X Entry)
      BY LeftOverTyped
    <3>2. act[a] \in Action
      BY DEF TypeOK
    <3> QED BY <3>1, <3>2, ActionUpdated
  <2>2. act' \in [Actors -> Action]
    BY <1>3, <2>1, DoTyped DEF ReadEntries
  <2> QED BY <1>3, <2>2 DEF ReadEntries, TypeOK, rowVars, promotionVars,
                            catalogVars, boundVars, historyVars
<1>4. CASE BumpVersion(a)
  <2>1. act' \in [Actors -> Action]
    BY <1>4, IdleTyped, DoTyped DEF BumpVersion
  <2>2. job' \in [Docs -> Promotion]
    BY <1>4, UpdatedTyped DEF BumpVersion
  <2>3. settled' \in BOOLEAN
    BY <1>4 DEF BumpVersion
  <2>4. /\ version' \in Nat /\ torn' = FALSE
        /\ UNCHANGED <<doc, astray, prod, entries, cache, ops, faults, overtaken>>
    BY <1>4 DEF BumpVersion, NextVersion, TypeOK, rowVars, boundVars
  <2> QED BY <2>1, <2>2, <2>3, <2>4 DEF TypeOK
<1> QED BY <1>1, <1>2, <1>3, <1>4 DEF Rebuilding

LEMMA RequestTyped ==
  ASSUME TypeOK, NEW o, Request(o)
  PROVE  /\ ops' \in 0..MaxOps /\ faults' \in 0..MaxFaults
         /\ cache' \in [version : Nat, live : SUBSET Codes]
BY BoundsAssumption DEF TypeOK, Request

\* Requests that change a row and nothing of the catalog.
LEMMA RowRequestTyped ==
  ASSUME TypeOK, NEW d \in Docs,
         ApproveProd(d) \/ Reingest(d) \/ Disable(d) \/ Restore(d) \/ SetFlag(d)
  PROVE  TypeOK'
<1>1. CASE ApproveProd(d)
  <2>1. [doc[d] EXCEPT !.stage = "ingesting_prod"] \in Row
    BY DEF TypeOK, Row, Stages
  <2>2. job' \in [Docs -> Promotion]
    BY <1>1 DEF ApproveProd, TypeOK, Promotion
  <2> QED BY <1>1, <2>1, <2>2, WriteRowTyped, RequestTyped
          DEF ApproveProd, TypeOK, catalogVars
<1>2. CASE Reingest(d)
  <2>1. [doc[d] EXCEPT !.stage = "draft"] \in Row
    BY DEF TypeOK, Row, Stages
  <2> QED BY <1>2, <2>1, WriteRowTyped, RequestTyped
          DEF Reingest, TypeOK, promotionVars, catalogVars
<1>3. CASE Disable(d)
  <2>1. [doc[d] EXCEPT !.disabled = TRUE] \in Row
    BY ZenonT(60) DEF TypeOK, Row
  <2>2. [Idle EXCEPT !.pc = "delete", !.doc = d] \in Action
    BY DEF Idle, Action, NoChange, Change
  <2>3. act' \in [Actors -> Action]
    <3>1. \/ Do("api", [Idle EXCEPT !.pc = "delete", !.doc = d])
          \/ UNCHANGED act
      BY <1>3 DEF Disable
    <3> QED BY <3>1, <2>2, DoTyped DEF TypeOK, Actors
  <2> QED BY <1>3, <2>1, <2>3, WriteRowTyped, RequestTyped
          DEF Disable, TypeOK, promotionVars, catalogVars
<1>4. CASE Restore(d)
  <2>1. [doc[d] EXCEPT !.disabled = FALSE] \in Row
    BY ZenonT(60) DEF TypeOK, Row
  <2> QED BY <1>4, <2>1, WriteRowTyped, RequestTyped
          DEF Restore, TypeOK, promotionVars, catalogVars
<1>5. CASE SetFlag(d)
  <2>1. PICK o \in {"mark", "clear"} :
               /\ Request(o)
               /\ WriteRow(d, [doc[d] EXCEPT !.reindex = (o = "mark")])
               /\ astray' \in {astray, astray \cup {d}}
    BY <1>5 DEF SetFlag
  <2>2. [doc[d] EXCEPT !.reindex = (o = "mark")] \in Row
    <3>1. doc[d] \in Row /\ (o = "mark") \in BOOLEAN
      BY DEF TypeOK
    <3>2. ASSUME NEW r \in Row, NEW b \in BOOLEAN
          PROVE  [r EXCEPT !.reindex = b] \in Row
      BY DEF Row
    <3> QED BY <3>1, <3>2
  <2> QED BY <1>5, <2>1, <2>2, WriteRowTyped, RequestTyped
          DEF SetFlag, TypeOK, promotionVars, catalogVars
<1> QED BY <1>1, <1>2, <1>3, <1>4, <1>5

LEMMA PatchTyped ==
  ASSUME TypeOK, ActShape, (\E d \in Docs : OpenPatch(d)) \/ WritePatch
  PROVE  TypeOK'
<1>1. ASSUME NEW d \in Docs, OpenPatch(d) PROVE TypeOK'
  <2>0. PICK o \in {"code", "kind", "visible"} :
          \E w \in Wanted(o, d) :
            /\ Request(o)
            /\ Do("api", [Idle EXCEPT !.pc = "patch", !.doc = d, !.change =
                 [code |-> w.code, scheme |-> w.scheme, visible |-> w.visible,
                  flag |-> NeedsReindex(d, w.code),
                  rebuild |-> w.scheme \/ doc[d].scheme \/ Renamed(d, w.code)]])
    BY <1>1 DEF OpenPatch
  <2>1. PICK w \in Wanted(o, d) :
          /\ Request(o)
          /\ Do("api", [Idle EXCEPT !.pc = "patch", !.doc = d, !.change =
               [code |-> w.code, scheme |-> w.scheme, visible |-> w.visible,
                flag |-> NeedsReindex(d, w.code),
                rebuild |-> w.scheme \/ doc[d].scheme \/ Renamed(d, w.code)]])
    BY <2>0
  <2> DEFINE ch == [code |-> w.code, scheme |-> w.scheme, visible |-> w.visible,
                    flag |-> NeedsReindex(d, w.code),
                    rebuild |-> w.scheme \/ doc[d].scheme \/ Renamed(d, w.code)]
  <2>2. w \in [code : Codes \cup {NoCode}, scheme : BOOLEAN, visible : BOOLEAN]
    BY DEF Wanted
  <2>3. NeedsReindex(d, w.code) \in BOOLEAN /\ Renamed(d, w.code) \in BOOLEAN
    BY DEF NeedsReindex, Renamed
  <2>4. (w.scheme \/ doc[d].scheme \/ Renamed(d, w.code)) \in BOOLEAN
    OBVIOUS
  <2>5. ch \in Change
    BY <2>2, <2>3, <2>4 DEF Change
  <2> HIDE DEF ch
  <2>6. [Idle EXCEPT !.pc = "patch", !.doc = d, !.change = ch] \in Action
    BY <2>5 DEF Idle, Action
  <2>7. act' \in [Actors -> Action]
    BY <2>1, <2>6, DoTyped DEF ch, Actors
  <2> QED BY <1>1, <2>1, <2>7, RequestTyped
          DEF OpenPatch, TypeOK, rowVars, promotionVars, catalogVars, historyVars
<1>2. CASE WritePatch
  <2> DEFINE d == act["api"].doc
             to == act["api"].change
             row == [doc[d] EXCEPT !.code = to.code, !.scheme = to.scheme,
                                   !.visible = to.visible,
                                   !.reindex = @ \/ to.flag]
  <2>1. /\ WriteRow(d, row)
        /\ astray' \in {astray, astray \cup {d}}
        /\ Do("api", [Idle EXCEPT !.pc = IF to.rebuild THEN "scan" ELSE "idle"])
    BY <1>2 DEF WritePatch
  <2>2. to \in Change
    BY DEF TypeOK, Action, Actors
  <2>3. d \in Docs
    BY <1>2 DEF WritePatch, ActShape
  <2>4. row \in Row
    <3>1. (doc[d].reindex \/ to.flag) \in BOOLEAN
      OBVIOUS
    <3>2. doc[d] \in Row
      BY <2>3 DEF TypeOK
    <3> QED BY <2>2, <3>1, <3>2, RowPatched
  <2>5. [Idle EXCEPT !.pc = IF to.rebuild THEN "scan" ELSE "idle"] \in Action
    BY IdleTyped
  <2>6. act' \in [Actors -> Action]
    BY <2>1, <2>5, DoTyped DEF Actors
  <2>7. doc' \in [Docs -> Row] /\ settled' \in BOOLEAN /\ overtaken' \subseteq Actors
    BY <2>1, <2>3, <2>4, WriteRowTyped
  <2>8. astray' \subseteq Docs
    BY <2>1, <2>3 DEF TypeOK
  <2> QED BY <1>2, <2>6, <2>7, <2>8
          DEF WritePatch, TypeOK, promotionVars, catalogVars, boundVars
<1> QED BY <1>1, <1>2

LEMMA CatalogRequestTyped ==
  ASSUME TypeOK, AdminRebuild \/ ForceBootstrap \/ Poll
  PROVE  TypeOK'
<1>1. \A then \in {"scan", "idle", "version"} :
        Seeding(then) \/ SeededFirst(then) => act' \in [Actors -> Action]
  <2> SUFFICES ASSUME NEW then \in {"scan", "idle", "version"},
                      Seeding(then) \/ SeededFirst(then)
               PROVE  act' \in [Actors -> Action]
    OBVIOUS
  <2>1. CASE Seeding(then)
    BY <2>1, SeedingTyped, DoTyped DEF Seeding, Actors
  <2>2. CASE Do("api", [Idle EXCEPT !.pc = then])
    BY <2>2, IdleTyped, DoTyped DEF Actors
  <2> QED BY <2>1, <2>2 DEF SeededFirst
<1>2. CASE AdminRebuild
  <2>1. Request("rebuild") /\ SeededFirst("scan")
    BY <1>2 DEF AdminRebuild
  <2> QED BY <1>1, <1>2, <2>1, RequestTyped
          DEF AdminRebuild, TypeOK, rowVars, promotionVars, catalogVars, historyVars
<1>3. CASE ForceBootstrap
  <2>1. Request("force") /\ Seeding("idle")
    BY <1>3 DEF ForceBootstrap
  <2> QED BY <1>1, <1>3, <2>1, RequestTyped
          DEF ForceBootstrap, TypeOK, rowVars, promotionVars, catalogVars, historyVars
<1>4. CASE Poll
  BY <1>1, <1>4 DEF Poll, TypeOK, rowVars, promotionVars, catalogVars, boundVars, historyVars
<1> QED BY <1>2, <1>3, <1>4

LEMMA ApiRestTyped ==
  ASSUME TypeOK, DeletePoints \/ SnapshotVersion \/ SnapshotEntries \/ BumpSeeded
  PROVE  TypeOK'
<1>1. CASE DeletePoints
  <2>1. act' \in [Actors -> Action]
    BY <1>1, IdleTyped, DoTyped DEF DeletePoints, Actors
  <2>2. prod' \in [Docs -> Codes \cup {NoCode}]
    BY <1>1 DEF DeletePoints, TypeOK
  <2> QED BY <1>1, <2>1, <2>2
          DEF DeletePoints, TypeOK, rowVars, catalogVars, boundVars, historyVars
<1>2. CASE SnapshotVersion
  <2>1. [Idle EXCEPT !.pc = "read", !.num = version] \in Action
    BY DEF TypeOK, Idle, Action, NoChange, Change
  <2>2. act' \in [Actors -> Action]
    BY <1>2, <2>1, DoTyped DEF SnapshotVersion, Actors
  <2> QED BY <1>2, <2>2
          DEF SnapshotVersion, TypeOK, rowVars, promotionVars, catalogVars, boundVars, historyVars
<1>3. CASE SnapshotEntries
  <2>1. act' \in [Actors -> Action]
    BY <1>3, IdleTyped, DoTyped DEF SnapshotEntries, Actors
  <2>2. cache' \in [version : Nat, live : SUBSET Codes]
    BY <1>3 DEF SnapshotEntries, TypeOK, Action, Actors, Listed
  <2> QED BY <1>3, <2>1, <2>2
          DEF SnapshotEntries, TypeOK, rowVars, promotionVars, catalogVars, boundVars, historyVars
<1>4. CASE BumpSeeded
  <2>1. act["api"].then \in {"idle", "scan", "version"}
    BY DEF TypeOK, Action, Actors
  <2>2. act' \in [Actors -> Action]
    BY <1>4, <2>1, IdleTyped, DoTyped DEF BumpSeeded, Actors
  <2>3. /\ version' \in Nat /\ torn' = FALSE
        /\ UNCHANGED <<doc, astray, job, prod, entries, cache, ops, faults,
                       settled, overtaken>>
    BY <1>4 DEF BumpSeeded, NextVersion, TypeOK, rowVars, promotionVars, boundVars, historyVars
  <2> QED BY <2>2, <2>3 DEF TypeOK
<1> QED BY <1>1, <1>2, <1>3, <1>4

LEMMA PromotionTyped ==
  ASSUME TypeOK, NEW d \in Docs,
         ReachGate(d) \/ SkipProd(d) \/ PrepareRecords(d) \/ SendRecords(d)
           \/ OnPromoted(d) \/ Complete(d) \/ AttemptFails(d)
  PROVE  TypeOK'
<1>0. \A s \in Stages : [doc[d] EXCEPT !.stage = s] \in Row
  BY DEF TypeOK, Row
<1>1. CASE ReachGate(d)
  BY <1>0, <1>1, WriteRowTyped
     DEF ReachGate, Stages, TypeOK, promotionVars, catalogVars, boundVars
<1>2. CASE SkipProd(d)
  BY <1>0, <1>2, WriteRowTyped
     DEF SkipProd, Stages, TypeOK, promotionVars, catalogVars, boundVars
<1>3. CASE PrepareRecords(d)
  <2>1. job' \in [Docs -> Promotion]
    BY <1>3 DEF PrepareRecords, TypeOK, Promotion, Row
  <2> QED BY <1>3, <2>1
          DEF PrepareRecords, TypeOK, rowVars, catalogVars, boundVars, historyVars
<1>4. CASE SendRecords(d)
  <2>1. job' \in [Docs -> Promotion]
    BY <1>4 DEF SendRecords, TypeOK, Promotion
  <2>2. prod' \in [Docs -> Codes \cup {NoCode}] /\ astray' \subseteq Docs
    BY <1>4 DEF SendRecords, TypeOK, Promotion
  <2> QED BY <1>4, <2>1, <2>2
          DEF SendRecords, TypeOK, catalogVars, boundVars, historyVars
<1>5. CASE OnPromoted(d)
  <2>1. job' \in [Docs -> Promotion]
    <3>1. job' = job \/ job' = [job EXCEPT ![d].step = "closing"]
      BY <1>5 DEF OnPromoted
    <3>2. job \in [Docs -> Promotion]
      BY DEF TypeOK
    <3>3. [job EXCEPT ![d].step = "closing"] \in [Docs -> Promotion]
      BY <3>2 DEF Promotion
    <3> QED BY <3>1, <3>2, <3>3
  <2>2. \A p \in {"clear", "scan"} : [Idle EXCEPT !.doc = d, !.pc = p] \in Action
    BY DEF Idle, Action, NoChange, Change
  <2>3. act' \in [Actors -> Action]
    <3>1. \/ Do("worker", [Idle EXCEPT !.doc = d,
                                       !.pc = IF doc[d].reindex THEN "clear" ELSE "scan"])
          \/ UNCHANGED act
      BY <1>5 DEF OnPromoted
    <3> QED BY <2>2, <3>1, DoTyped DEF TypeOK, Actors
  <2> QED BY <1>5, <2>1, <2>3
          DEF OnPromoted, TypeOK, rowVars, catalogVars, boundVars, historyVars
<1>6. CASE Complete(d)
  <2>1. job' \in [Docs -> Promotion]
    BY <1>6 DEF Complete, TypeOK, Promotion, NoPromotion
  <2> QED BY <1>0, <1>6, <2>1, WriteRowTyped
          DEF Complete, Stages, TypeOK, catalogVars, boundVars
<1>7. CASE AttemptFails(d)
  <2>1. job' \in [Docs -> Promotion]
    BY <1>7 DEF AttemptFails, TypeOK, Promotion, NoPromotion
  <2>2. prod' \in [Docs -> Codes \cup {NoCode}]
    BY <1>7 DEF AttemptFails, TypeOK, Promotion
  <2>3. faults' \in 0..MaxFaults
    BY <1>7, BoundsAssumption DEF AttemptFails, TypeOK
  <2>4. doc' \in [Docs -> Row] /\ settled' \in BOOLEAN /\ overtaken' \subseteq Actors
    BY <1>0, <1>7, WriteRowTyped DEF AttemptFails, Stages, TypeOK, historyVars
  <2> QED BY <1>7, <2>1, <2>2, <2>3, <2>4 DEF AttemptFails, TypeOK, catalogVars
<1> QED BY <1>1, <1>2, <1>3, <1>4, <1>5, <1>6, <1>7

LEMMA ClearFlagTyped ==
  ASSUME TypeOK, ActShape, ClearFlag
  PROVE  TypeOK'
<1> DEFINE d == act["worker"].doc
<1>1. d \in Docs
  BY DEF ClearFlag, ActShape
<1>2. [doc[d] EXCEPT !.reindex = FALSE] \in Row
  <2> HIDE DEF d
  <2>1. doc[d] \in Row
    BY <1>1 DEF TypeOK
  <2> QED BY <2>1 DEF Row
<1>3. [act["worker"] EXCEPT !.pc = "scan"] \in Action
  BY DEF TypeOK, Action, Actors
<1>4. act' \in [Actors -> Action]
  BY <1>3, DoTyped DEF ClearFlag, Actors
<1> QED BY <1>1, <1>2, <1>4, WriteRowTyped
        DEF ClearFlag, TypeOK, promotionVars, catalogVars, boundVars

LEMMA InterruptedTyped ==
  ASSUME TypeOK, NEW a \in Actors, Interrupted(a)
  PROVE  TypeOK'
<1>1. act' \in [Actors -> Action]
  BY IdleTyped, DoTyped DEF Interrupted
<1>2. job' \in [Docs -> Promotion]
  <2>1. CASE Updated(a)
    BY <2>1, UpdatedTyped
  <2>2. CASE job' = [job EXCEPT ![act[a].doc] = [NoPromotion EXCEPT !.step = "reading"]]
    BY <2>2 DEF TypeOK, Promotion, NoPromotion
  <2> QED BY <2>1, <2>2 DEF Interrupted
<1>3. faults' \in 0..MaxFaults
  BY BoundsAssumption DEF Interrupted, TypeOK
<1>4. torn' \in BOOLEAN
  BY DEF Interrupted, TypeOK
<1>5. UNCHANGED <<doc, astray, prod, entries, version, cache, ops, settled, overtaken>>
  BY DEF Interrupted, rowVars, historyVars
<1> QED BY <1>1, <1>2, <1>3, <1>4, <1>5 DEF TypeOK

LEMMA TypeSteps ==
  ASSUME TypeOK, ActShape, [Next]_vars
  PROVE  TypeOK'
<1>1. CASE ApiStep
  BY <1>1, RowRequestTyped, PatchTyped, CatalogRequestTyped, ApiRestTyped DEF ApiStep
<1>2. CASE WorkerStep
  BY <1>2, PromotionTyped, ClearFlagTyped DEF WorkerStep
<1>3. CASE \E a \in Actors : Rebuilding(a) \/ Interrupted(a)
  BY <1>3, RebuildTyped, InterruptedTyped
<1>4. CASE UNCHANGED vars
  BY <1>4 DEF vars, TypeOK
<1> QED BY <1>1, <1>2, <1>3, <1>4 DEF Next

-----------------------------------------------------------------------------
(* What a step can do to the catalog and to the consumer.                  *)

\* Nobody who writes entries stops doing so.
WritersStay == \A a \in Actors : act[a].pc \in Writing => act'[a].pc \in Writing

Keeps    == UNCHANGED <<entries, version, torn, cache>> /\ WritersStay
Writes   == UNCHANGED <<version, torn, cache>>
            /\ \E a \in Actors : act'[a].pc \in Writing
Raises   == UNCHANGED <<cache>> /\ version' = version + 1
Abandons == UNCHANGED <<version, cache>> /\ torn' = TRUE
Fetches  == /\ UNCHANGED <<entries, version, torn>> /\ WritersStay
            /\ cache' = [version |-> act["api"].num, live |-> Listed]

CatalogMoves == Keeps \/ Writes \/ Raises \/ Abandons \/ Fetches

\* What becomes of the two actors and of the version one of them holds.
Shaped == ActShape' /\ act'["api"].num <= version'

LEMMA Doing ==
  ASSUME TypeOK, NEW a \in Actors, NEW r, Do(a, r)
  PROVE  act'[a] = r /\ \A b \in Actors \ {a} : act'[b] = act[b]
BY DEF TypeOK, Do

LEMMA DoesIdly ==
  ASSUME TypeOK, VersionsBehind, ActShape, NEW a \in Actors, NEW r \in Action, Do(a, r),
         r.todo # {} => r.pc \in Writing,
         r.pc \in {"patch", "clear"} => r.doc \in Docs,
         a = "api" => r.num <= version,
         version' \in {version, version + 1}
  PROVE  /\ Shaped
         /\ (r.pc \in Writing \/ act[a].pc \notin Writing) => WritersStay
         /\ r.pc \in Writing => \E b \in Actors : act'[b].pc \in Writing
<1>1. act'[a] = r /\ \A b \in Actors \ {a} : act'[b] = act[b]
  BY Doing
<1>2. act["api"].num \in Nat /\ version \in Nat /\ r.num \in Nat
  BY DEF TypeOK, Action, Actors
<1>3. act'["api"].num <= version'
  BY <1>1, <1>2 DEF VersionsBehind, Actors
<1>4. ActShape'
  BY <1>1 DEF ActShape, Actors
<1> QED BY <1>1, <1>3, <1>4 DEF Shaped, WritersStay

LEMMA ActUnchanged ==
  ASSUME TypeOK, VersionsBehind, ActShape, UNCHANGED <<act, version>>
  PROVE  Shaped /\ WritersStay
BY DEF Shaped, ActShape, VersionsBehind, WritersStay

\* A step that leaves the catalog and the consumer alone.
LEMMA KeepingStep ==
  ASSUME TypeOK, VersionsBehind, ActShape, NEW a \in Actors, NEW r \in Action, Do(a, r),
         UNCHANGED <<entries, version, torn, cache>>,
         r.todo # {} => r.pc \in Writing,
         r.pc \in {"patch", "clear"} => r.doc \in Docs,
         a = "api" => r.num <= version,
         act[a].pc \in Writing => r.pc \in Writing
  PROVE  CatalogMoves /\ Shaped
BY DoesIdly DEF CatalogMoves, Keeps

LEMMA RestingStep ==
  ASSUME TypeOK, VersionsBehind, ActShape, UNCHANGED act,
         UNCHANGED <<entries, version, torn, cache>>
  PROVE  CatalogMoves /\ Shaped
BY ActUnchanged DEF CatalogMoves, Keeps

\* What an actor that is given something to do starts from.
LEMMA FromIdle ==
  ASSUME TypeOK
  PROVE  /\ Idle.num <= version /\ Idle.todo = {} /\ Idle.pc = "idle"
         /\ \A a \in Actors : act[a] \in Action
         /\ "api" \in Actors /\ "worker" \in Actors
BY DEF TypeOK, Idle, Actors

LEMMA RebuildMoves ==
  ASSUME TypeOK, VersionsBehind, ActShape, NEW a \in Actors, Rebuilding(a)
  PROVE  CatalogMoves /\ Shaped
<1>0. act[a] \in Action /\ (a = "api" => act[a].num <= version)
  BY DEF TypeOK, VersionsBehind
<1>1. CASE Scan(a)
  <2> DEFINE plan == {<<c, GroupEntry(c)>> : c \in Carried}
             r == [act[a] EXCEPT !.pc = "write", !.carried = Carried, !.todo = plan]
  <2>1. Carried \in SUBSET Codes
    BY DEF Carried, TypeOK, Row
  <2>2. plan \in SUBSET (Codes \X Entry)
    BY <2>1, GroupEntryTyped
  <2>3. Do(a, r) /\ UNCHANGED <<entries, version, torn, cache>>
    BY <1>1 DEF Scan, catalogVars
  <2> HIDE DEF plan
  <2>4. r \in Action
    BY <1>0, <2>1, <2>2, ActionUpdated
  <2>5. r.pc = "write" /\ r.num = act[a].num
    BY <1>0 DEF Action
  <2> HIDE DEF r
  <2> QED BY <1>0, <2>3, <2>4, <2>5, KeepingStep DEF Writing
<1>2. CASE WriteEntry(a)
  <2>1. PICK e \in act[a].todo : Do(a, [act[a] EXCEPT !.todo = @ \ {e}])
    BY <1>2 DEF WriteEntry
  <2> DEFINE r == [act[a] EXCEPT !.todo = @ \ {e}]
  <2>2. r \in Action /\ r.pc = act[a].pc /\ r.num = act[a].num
    BY <1>0 DEF Action
  <2>3. act[a].pc \in Writing
    BY <2>1 DEF ActShape
  <2>4. UNCHANGED <<version, torn, cache>>
    BY <1>2 DEF WriteEntry
  <2> HIDE DEF r
  <2>5. Do(a, r)
    BY <2>1 DEF r
  <2>6. Shaped /\ \E b \in Actors : act'[b].pc \in Writing
    <3>1. r.pc \in Writing /\ r.pc \notin {"patch", "clear"}
      BY <2>2, <2>3 DEF Writing
    <3>2. a = "api" => r.num <= version
      BY <1>0, <2>2
    <3> QED BY <2>2, <2>4, <2>5, <3>1, <3>2, DoesIdly
  <2> QED BY <2>4, <2>6 DEF CatalogMoves, Writes
<1>3. CASE ReadEntries(a)
  <2> DEFINE plan == LeftOver(act[a].carried)
             r == [act[a] EXCEPT !.pc = "rest", !.todo = plan]
  <2>1. plan \in SUBSET (Codes \X Entry)
    BY LeftOverTyped
  <2>2. Do(a, r) /\ UNCHANGED <<entries, version, torn, cache>>
    BY <1>3 DEF ReadEntries, catalogVars
  <2> HIDE DEF plan
  <2>3. r \in Action
    BY <1>0, <2>1, ActionUpdated
  <2>4. r.pc = "rest" /\ r.num = act[a].num
    BY <1>0 DEF Action
  <2> HIDE DEF r
  <2> QED BY <1>0, <2>2, <2>3, <2>4, KeepingStep DEF Writing
<1>4. CASE BumpVersion(a)
  <2>1. Do(a, Idle) /\ version' = version + 1 /\ UNCHANGED cache
    BY <1>4 DEF BumpVersion, NextVersion
  <2>2. Shaped
    BY <2>1, FromIdle, IdleTyped, DoesIdly
  <2> QED BY <2>1, <2>2 DEF CatalogMoves, Raises
<1> QED BY <1>1, <1>2, <1>3, <1>4 DEF Rebuilding

\* A step by which an actor that writes no entries begins or ends something
\* that writes none, or is about to.
LEMMA BeginningStep ==
  ASSUME TypeOK, VersionsBehind, ActShape, NEW a \in Actors, act[a].pc \notin Writing,
         UNCHANGED <<entries, version, torn, cache>>,
         NEW r \in Action, Do(a, r), r.todo # {} => r.pc \in Writing,
         r.pc \in {"patch", "clear"} => r.doc \in Docs, r.num <= version
  PROVE  CatalogMoves /\ Shaped
BY KeepingStep

LEMMA RowRequestMoves ==
  ASSUME TypeOK, VersionsBehind, ActShape, NEW d \in Docs,
         ApproveProd(d) \/ Reingest(d) \/ Disable(d) \/ Restore(d) \/ SetFlag(d)
  PROVE  CatalogMoves /\ Shaped
<1>1. UNCHANGED <<entries, version, torn, cache>>
  BY DEF ApproveProd, Reingest, Disable, Restore, SetFlag, Request, catalogVars
<1>2. CASE UNCHANGED act
  BY <1>1, <1>2, RestingStep
<1>3. ASSUME act["api"].pc = "idle", Do("api", [Idle EXCEPT !.pc = "delete", !.doc = d])
      PROVE  CatalogMoves /\ Shaped
  <2> DEFINE r == [Idle EXCEPT !.pc = "delete", !.doc = d]
  <2>1. r \in Action /\ r.pc = "delete" /\ r.todo = {} /\ r.num = Idle.num
    BY DEF Idle, Action, NoChange, Change
  <2>2. Do("api", r)
    BY <1>3
  <2> HIDE DEF r
  <2> QED BY <1>1, <1>3, <2>1, <2>2, FromIdle, BeginningStep DEF Writing
<1> QED BY <1>2, <1>3 DEF ApproveProd, Reingest, Disable, Restore, SetFlag, Request

LEMMA PatchMoves ==
  ASSUME TypeOK, VersionsBehind, ActShape, (\E d \in Docs : OpenPatch(d)) \/ WritePatch
  PROVE  CatalogMoves /\ Shaped
<1>1. ASSUME NEW d \in Docs, OpenPatch(d) PROVE CatalogMoves /\ Shaped
  <2>1. TypeOK'
    BY <1>1, PatchTyped
  <2>2. PICK ch : Do("api", [Idle EXCEPT !.pc = "patch", !.doc = d, !.change = ch])
    BY <1>1 DEF OpenPatch
  <2>3. UNCHANGED <<entries, version, torn, cache>> /\ act["api"].pc = "idle"
    BY <1>1 DEF OpenPatch, Request, catalogVars
  <2> DEFINE r == [Idle EXCEPT !.pc = "patch", !.doc = d, !.change = ch]
  <2>4. r.pc = "patch" /\ r.doc = d /\ r.todo = {} /\ r.num = Idle.num
    BY DEF Idle
  <2> HIDE DEF r
  <2>5. Do("api", r)
    BY <2>2 DEF r
  <2>6. r \in Action
    BY <2>1, <2>5, FromIdle, Doing DEF TypeOK
  <2> QED BY <2>3, <2>4, <2>5, <2>6, FromIdle, BeginningStep DEF Writing
<1>2. CASE WritePatch
  <2>1. /\ UNCHANGED <<entries, version, torn, cache>> /\ act["api"].pc = "patch"
        /\ \E p \in {"scan", "idle"} : Do("api", [Idle EXCEPT !.pc = p])
    BY <1>2 DEF WritePatch, catalogVars
  <2>2. PICK p \in {"scan", "idle"} : Do("api", [Idle EXCEPT !.pc = p])
    BY <2>1
  <2> DEFINE r == [Idle EXCEPT !.pc = p]
  <2>3. r \in Action /\ r.pc = p /\ r.todo = {} /\ r.num = Idle.num
    BY IdleTyped DEF Idle
  <2>4. Do("api", r)
    BY <2>2
  <2> HIDE DEF r
  <2> QED BY <2>1, <2>3, <2>4, FromIdle, BeginningStep DEF Writing
<1> QED BY <1>1, <1>2

\* A rebuild or a snapshot that begins, perhaps with seeds.
LEMMA CatalogRequestMoves ==
  ASSUME TypeOK, VersionsBehind, ActShape, AdminRebuild \/ ForceBootstrap \/ Poll
  PROVE  CatalogMoves /\ Shaped
<1>1. /\ UNCHANGED <<entries, version, torn, cache>> /\ act["api"].pc = "idle"
      /\ \E then \in {"idle", "scan", "version"} :
            Seeding(then) \/ Do("api", [Idle EXCEPT !.pc = then])
  BY DEF AdminRebuild, ForceBootstrap, Poll, SeededFirst, Request, catalogVars
<1>2. PICK then \in {"idle", "scan", "version"} :
        Seeding(then) \/ Do("api", [Idle EXCEPT !.pc = then])
  BY <1>1
<1>3. CASE Seeding(then)
  <2> DEFINE plan == {<<c, Seed>> : c \in Bootstrap}
             r == [Idle EXCEPT !.pc = "seed", !.then = then, !.todo = plan]
  <2>1. r \in Action
    BY SeedingTyped
  <2>2. Do("api", r)
    BY <1>3 DEF Seeding
  <2> HIDE DEF plan
  <2>3. r.pc = "seed" /\ r.num = Idle.num
    BY DEF Idle
  <2> HIDE DEF r
  <2> QED BY <1>1, <2>1, <2>2, <2>3, FromIdle, BeginningStep DEF Writing
<1>4. CASE Do("api", [Idle EXCEPT !.pc = then])
  <2> DEFINE r == [Idle EXCEPT !.pc = then]
  <2>1. r \in Action /\ r.pc = then /\ r.todo = {} /\ r.num = Idle.num
    BY IdleTyped DEF Idle
  <2>2. Do("api", r)
    BY <1>4
  <2> HIDE DEF r
  <2> QED BY <1>1, <2>1, <2>2, FromIdle, BeginningStep DEF Writing
<1> QED BY <1>2, <1>3, <1>4

LEMMA ApiRestMoves ==
  ASSUME TypeOK, VersionsBehind, ActShape,
         DeletePoints \/ SnapshotVersion \/ SnapshotEntries \/ BumpSeeded
  PROVE  CatalogMoves /\ Shaped
<1>1. CASE DeletePoints
  <2> DEFINE r == [Idle EXCEPT !.pc = "scan"]
  <2>1. r \in Action /\ r.pc = "scan" /\ r.todo = {} /\ r.num = Idle.num
    BY IdleTyped DEF Idle
  <2>2. /\ Do("api", r) /\ act["api"].pc = "delete"
        /\ UNCHANGED <<entries, version, torn, cache>>
    BY <1>1 DEF DeletePoints, catalogVars
  <2> HIDE DEF r
  <2> QED BY <2>1, <2>2, FromIdle, BeginningStep DEF Writing
<1>2. CASE SnapshotVersion
  <2> DEFINE r == [Idle EXCEPT !.pc = "read", !.num = version]
  <2>1. r \in Action /\ r.pc = "read" /\ r.todo = {} /\ r.num = version
    BY DEF TypeOK, Idle, Action, NoChange, Change
  <2>2. /\ Do("api", r) /\ act["api"].pc = "version"
        /\ UNCHANGED <<entries, version, torn, cache>>
    BY <1>2 DEF SnapshotVersion, catalogVars
  <2>3. r.num <= version
    BY <2>1 DEF TypeOK
  <2> HIDE DEF r
  <2> QED BY <2>1, <2>2, <2>3, FromIdle, BeginningStep DEF Writing
<1>3. CASE SnapshotEntries
  <2>1. /\ Do("api", Idle) /\ act["api"].pc = "read"
        /\ UNCHANGED <<entries, version, torn>>
        /\ cache' = [version |-> act["api"].num, live |-> Listed]
    BY <1>3 DEF SnapshotEntries, catalogVars
  <2>2. Shaped /\ WritersStay
    BY <2>1, FromIdle, IdleTyped, DoesIdly DEF Writing
  <2> QED BY <2>1, <2>2 DEF CatalogMoves, Fetches
<1>4. CASE BumpSeeded
  <2> DEFINE r == [Idle EXCEPT !.pc = act["api"].then]
  <2>1. act["api"].then \in {"idle", "scan", "version"}
    BY DEF TypeOK, Action, Actors
  <2>2. r \in Action /\ r.pc = act["api"].then /\ r.todo = {} /\ r.num = Idle.num
    BY <2>1, IdleTyped DEF Idle
  <2>3. Do("api", r) /\ version' = version + 1 /\ UNCHANGED cache
    BY <1>4 DEF BumpSeeded, NextVersion
  <2> HIDE DEF r
  <2>4. Shaped
    BY <2>1, <2>2, <2>3, FromIdle, DoesIdly
  <2> QED BY <2>3, <2>4 DEF CatalogMoves, Raises
<1> QED BY <1>1, <1>2, <1>3, <1>4

LEMMA WorkerMoves ==
  ASSUME TypeOK, VersionsBehind, ActShape, WorkerStep
  PROVE  CatalogMoves /\ Shaped
<1>0. act["worker"] \in Action
  BY FromIdle
<1>1. ASSUME NEW d \in Docs,
             ReachGate(d) \/ SkipProd(d) \/ PrepareRecords(d) \/ SendRecords(d)
               \/ Complete(d) \/ AttemptFails(d)
      PROVE  CatalogMoves /\ Shaped
  <2>1. UNCHANGED <<act, entries, version, torn, cache>>
    BY <1>1 DEF ReachGate, SkipProd, PrepareRecords, SendRecords, Complete,
                AttemptFails, catalogVars
  <2> QED BY <2>1, RestingStep
<1>2. ASSUME NEW d \in Docs, OnPromoted(d) PROVE CatalogMoves /\ Shaped
  <2>1. UNCHANGED <<entries, version, torn, cache>> /\ act["worker"].pc = "idle"
    BY <1>2 DEF OnPromoted, catalogVars
  <2>2. CASE UNCHANGED act
    BY <2>1, <2>2, RestingStep
  <2>3. ASSUME NEW p \in {"clear", "scan"},
               Do("worker", [Idle EXCEPT !.doc = d, !.pc = p])
        PROVE  CatalogMoves /\ Shaped
    <3> DEFINE r == [Idle EXCEPT !.doc = d, !.pc = p]
    <3>1. r \in Action /\ r.pc = p /\ r.doc = d /\ r.todo = {} /\ r.num = Idle.num
      BY DEF Idle, Action, NoChange, Change
    <3>2. Do("worker", r)
      BY <2>3
    <3> HIDE DEF r
    <3> QED BY <2>1, <3>1, <3>2, FromIdle, BeginningStep DEF Writing
  <2> QED BY <1>2, <2>2, <2>3 DEF OnPromoted
<1>3. CASE ClearFlag
  <2> DEFINE r == [act["worker"] EXCEPT !.pc = "scan"]
  <2>1. r \in Action /\ r.pc = "scan" /\ r.todo = act["worker"].todo
    BY <1>0 DEF Action
  <2>2. /\ Do("worker", r) /\ act["worker"].pc = "clear"
        /\ UNCHANGED <<entries, version, torn, cache>>
    BY <1>3 DEF ClearFlag, catalogVars
  <2>3. act["worker"].todo = {}
    BY <2>2, FromIdle DEF ActShape, Writing
  <2> HIDE DEF r
  <2> QED BY <2>1, <2>2, <2>3, FromIdle, KeepingStep DEF Writing
<1> QED BY <1>1, <1>2, <1>3 DEF WorkerStep

LEMMA InterruptedMoves ==
  ASSUME TypeOK, VersionsBehind, ActShape, NEW a \in Actors, Interrupted(a)
  PROVE  CatalogMoves /\ Shaped
<1>1. Do(a, Idle) /\ UNCHANGED <<entries, version, cache>>
  BY DEF Interrupted
<1>2. CASE act[a].pc \in Writing
  <2>0. torn' = TRUE
    BY <1>2, Zenon DEF Interrupted, Writing
  <2>1. Shaped
    BY <1>1, FromIdle, IdleTyped, DoesIdly
  <2> QED BY <1>1, <2>0, <2>1 DEF CatalogMoves, Abandons
<1>3. CASE act[a].pc \notin Writing
  <2>1. UNCHANGED torn
    <3>1. torn \in BOOLEAN /\ torn' = (torn \/ act[a].pc \in Writing)
      BY Zenon DEF Interrupted, Writing, TypeOK
    <3> QED BY <1>3, <3>1
  <2> QED BY <1>1, <1>3, <2>1, FromIdle, IdleTyped, BeginningStep
<1> QED BY <1>2, <1>3

LEMMA EveryMove ==
  ASSUME TypeOK, VersionsBehind, ActShape, [Next]_vars
  PROVE  CatalogMoves /\ Shaped
<1>1. CASE ApiStep
  BY <1>1, RowRequestMoves, PatchMoves, CatalogRequestMoves, ApiRestMoves DEF ApiStep
<1>2. CASE WorkerStep
  BY <1>2, WorkerMoves
<1>3. CASE \E a \in Actors : Rebuilding(a) \/ Interrupted(a)
  BY <1>3, RebuildMoves, InterruptedMoves
<1>4. CASE UNCHANGED vars
  BY <1>4, RestingStep DEF vars
<1> QED BY <1>1, <1>2, <1>3, <1>4 DEF Next

\* CacheFresh is about the catalog and the consumer alone.
LEMMA MovesKeepFresh ==
  ASSUME TypeOK, VersionsBehind, CacheFresh, CatalogMoves, Shaped
  PROVE  VersionsBehind' /\ CacheFresh'
<1> DEFINE writes == \E a \in Actors : act[a].pc \in Writing
<1>0. /\ version \in Nat /\ cache.version \in Nat /\ act["api"].num \in Nat
      /\ CacheFresh <=> (~writes /\ ~torn /\ cache.version = version => cache.live = Listed)
      /\ CacheFresh' <=>
           (~writes' /\ ~torn' /\ cache'.version = version' => cache'.live = Listed')
  BY DEF TypeOK, CacheFresh, Writing, Action, Actors
<1>1. CASE Keeps
  <2>1. (writes => writes') /\ Listed' = Listed
    BY <1>1 DEF Keeps, WritersStay, Listed
  <2> QED BY <1>0, <1>1, <2>1 DEF Keeps, VersionsBehind, Shaped
<1>2. CASE Writes
  BY <1>0, <1>2 DEF Writes, VersionsBehind, Shaped
<1>3. CASE Raises
  BY <1>0, <1>3 DEF Raises, VersionsBehind, Shaped
<1>4. CASE Abandons
  BY <1>0, <1>4 DEF Abandons, VersionsBehind, Shaped
<1>5. CASE Fetches
  <2>1. Listed' = Listed
    BY <1>5 DEF Fetches, Listed
  <2> QED BY <1>0, <1>5, <2>1 DEF Fetches, VersionsBehind, Shaped
<1> QED BY <1>1, <1>2, <1>3, <1>4, <1>5 DEF CatalogMoves

LEMMA Starts ==
  ASSUME Init
  PROVE  IInv
<1>1. TypeOK
  <2>1. doc \in [Docs -> Row]
    BY DEF Init, Row, Stages
  <2>2. NoEntry \in Entry /\ NoPromotion \in Promotion
    BY DEF NoEntry, Entry, NoPromotion, Promotion
  <2>3. /\ job \in [Docs -> Promotion] /\ prod \in [Docs -> Codes \cup {NoCode}]
        /\ entries \in [Codes -> Entry] /\ act \in [Actors -> Action]
    BY <2>2, IdleTyped DEF Init
  <2>4. /\ cache \in [version : Nat, live : SUBSET Codes] /\ version \in Nat
        /\ ops \in 0..MaxOps /\ faults \in 0..MaxFaults
    BY BoundsAssumption DEF Init
  <2> QED BY <2>1, <2>3, <2>4 DEF Init, TypeOK
<1>2. VersionsBehind /\ ActShape
  BY DEF Init, VersionsBehind, ActShape, Actors, Idle
<1>3. CacheFresh
  BY DEF Init, CacheFresh, Listed, NoEntry
<1> QED BY <1>1, <1>2, <1>3 DEF IInv

LEMMA IInvSteps ==
  ASSUME IInv, [Next]_vars
  PROVE  IInv'
<1>1. TypeOK'
  BY TypeSteps DEF IInv
<1>2. CatalogMoves /\ Shaped
  BY EveryMove DEF IInv
<1>3. VersionsBehind' /\ CacheFresh'
  BY <1>2, MovesKeepFresh DEF IInv
<1> QED BY <1>1, <1>2, <1>3 DEF IInv, Shaped

LEMMA IInvHolds == Spec => []IInv
BY Starts, IInvSteps, PTL DEF Spec

\* The variables keep their types: no promotion, rebuild, seeding or
\* interruption of one leaves a row, an entry, a version or a consumer's
\* snapshot that the code has no case for.
THEOREM CatalogTypeCorrect == Spec => []TypeOK
<1>1. IInv => TypeOK
  BY DEF IInv
<1> QED BY IInvHolds, <1>1, PTL

\* A consumer that sees its version unchanged has missed nothing, whatever the
\* two processes write between its two reads and in whatever order
\* (build_snapshot, bump_catalog_version).
THEOREM VersionTellsAll == Spec => []CacheFresh
<1>1. IInv => CacheFresh
  BY DEF IInv
<1> QED BY IInvHolds, <1>1, PTL

-----------------------------------------------------------------------------
(***************************************************************************)
(* That the catalog is in order after a rebuild nothing was written        *)
(* beside, and that a code it then lists is served by PROD.                *)
(*                                                                         *)
(* A step writes a row, which overtakes every rebuild, or lets rows and    *)
(* entries rest, or is one of the four steps of a rebuild. For what is     *)
(* served, a step is about one document at most.                           *)
(***************************************************************************)
\* Whatever was in hand is overtaken.
Overtakes == settled' = FALSE /\ overtaken' = Actors

\* Rows and entries rest, and nobody goes on with a rebuild.
Rests ==
  /\ doc' = doc /\ entries' = entries /\ settled' = settled /\ overtaken' = overtaken
  /\ \A a \in Actors : act'[a] = act[a] \/ act'[a].pc \notin {"write", "rest"}

LEMMA SameRows ==
  ASSUME doc' = doc
  PROVE  Carried' = Carried /\ \A c \in Codes : GroupEntry(c)' = GroupEntry(c)
BY DEF Carried, GroupEntry, Status, LiveDocs, Group

LEMMA CarriedCodes ==
  ASSUME TypeOK
  PROVE  Carried \subseteq Codes
BY DEF TypeOK, Carried, Row

LEMMA OvertakesKeeps ==
  ASSUME Overtakes
  PROVE  RebuildInv'
BY DEF Overtakes, RebuildInv

LEMMA InOrderRests ==
  ASSUME TypeOK, doc' = doc, entries' = entries
  PROVE  InOrder' <=> InOrder
BY SameRows, CarriedCodes DEF InOrder, Spare

LEMMA SeenStill ==
  ASSUME TypeOK, NEW a \in Actors, SeenBy(a), doc' = doc, entries' = entries, act'[a] = act[a]
  PROVE  SeenBy(a)'
<1>1. /\ Carried' = Carried /\ Carried \subseteq Codes
      /\ \A c \in Codes : GroupEntry(c)' = GroupEntry(c)
  BY SameRows, CarriedCodes
<1>2. act[a].pc \in {"write", "rest"} => act'[a].carried = Carried'
  BY <1>1 DEF SeenBy
<1>3. ASSUME act[a].pc = "write"
      PROVE  /\ \A e \in act'[a].todo : e[1] \in Carried' /\ e[2] = GroupEntry(e[1])'
             /\ \A c \in Carried' :
                  entries'[c] = GroupEntry(c)' \/ <<c, GroupEntry(c)'>> \in act'[a].todo
  BY <1>1, <1>3 DEF SeenBy
<1>4. ASSUME act[a].pc = "rest"
      PROVE  /\ \A c \in Carried' : entries'[c] = GroupEntry(c)'
             /\ \A e \in act'[a].todo : e[1] \notin Carried' /\ Spare(e[1], e[2])
             /\ \A c \in Codes \ Carried' :
                  Spare(c, entries'[c]) \/ \E e \in act'[a].todo : e[1] = c
  BY <1>1, <1>4 DEF SeenBy
<1> QED BY <1>2, <1>3, <1>4 DEF SeenBy

LEMMA RestsKeeps ==
  ASSUME TypeOK, RebuildInv, Rests
  PROVE  RebuildInv'
<1>1. ASSUME NEW a \in Actors \ overtaken PROVE SeenBy(a)'
  <2>1. CASE act'[a] = act[a]
    BY <2>1, SeenStill DEF RebuildInv, Rests
  <2>2. CASE act'[a].pc \notin {"write", "rest"}
    BY <2>2 DEF SeenBy
  <2> QED BY <2>1, <2>2 DEF Rests
<1>2. settled' => InOrder'
  BY InOrderRests DEF RebuildInv, Rests
<1> QED BY <1>1, <1>2 DEF RebuildInv, Rests

-----------------------------------------------------------------------------
(* The steps of a rebuild.                                                 *)

LEMMA ScanKeeps ==
  ASSUME TypeOK, RebuildInv, NEW a \in Actors, Scan(a)
  PROVE  RebuildInv'
<1> DEFINE plan == {<<c, GroupEntry(c)>> : c \in Carried}
           r == [act[a] EXCEPT !.pc = "write", !.carried = Carried, !.todo = plan]
<1>1. /\ doc' = doc /\ entries' = entries /\ settled' = settled
      /\ overtaken' = overtaken \ {a}
  BY DEF Scan, rowVars, catalogVars
<1>2. act'[a] = r /\ \A b \in Actors \ {a} : act'[b] = act[b]
  BY Doing DEF Scan
<1>3. act'[a].pc = "write" /\ act'[a].carried = Carried /\ act'[a].todo = plan
  <2> HIDE DEF plan
  <2> QED BY <1>2 DEF TypeOK, Action
<1>4. ASSUME NEW b \in Actors \ overtaken, b # a PROVE SeenBy(b)'
  BY <1>1, <1>2, <1>4, SeenStill DEF RebuildInv
<1>5. SeenBy(a)'
  <2>1. /\ Carried' = Carried /\ Carried \subseteq Codes
        /\ \A c \in Codes : GroupEntry(c)' = GroupEntry(c)
    BY <1>1, SameRows, CarriedCodes
  <2>2. \A e \in act'[a].todo : e[1] \in Carried' /\ e[2] = GroupEntry(e[1])'
    BY <1>3, <2>1
  <2>3. \A c \in Carried' : <<c, GroupEntry(c)'>> \in act'[a].todo
    BY <1>3, <2>1
  <2> HIDE DEF plan
  <2> QED BY <1>3, <2>1, <2>2, <2>3 DEF SeenBy
<1>6. settled' => InOrder'
  BY <1>1, InOrderRests DEF RebuildInv
<1> QED BY <1>1, <1>4, <1>5, <1>6 DEF RebuildInv

LEMMA WriteEntryKeeps ==
  ASSUME TypeOK, RebuildInv, NEW a \in Actors, WriteEntry(a)
  PROVE  RebuildInv'
<1>1. doc' = doc /\ settled' = FALSE /\ overtaken' = overtaken \cup (Actors \ {a})
  BY DEF WriteEntry, rowVars
<1> SUFFICES ASSUME a \notin overtaken PROVE SeenBy(a)'
  BY <1>1 DEF RebuildInv
<1>2. PICK e \in act[a].todo :
        /\ entries' = [entries EXCEPT ![e[1]] = e[2]]
        /\ Do(a, [act[a] EXCEPT !.todo = @ \ {e}])
  BY DEF WriteEntry
<1>3. act[a] \in Action /\ e[1] \in Codes
  BY DEF TypeOK, Action
<1>4. act'[a] = [act[a] EXCEPT !.todo = @ \ {e}]
  BY <1>2, Doing
<1>5. /\ act'[a].pc = act[a].pc /\ act'[a].carried = act[a].carried
      /\ act'[a].todo = act[a].todo \ {e}
  BY <1>3, <1>4 DEF Action
<1>6. \A c \in Codes : entries'[c] = (IF c = e[1] THEN e[2] ELSE entries[c])
  BY <1>2, <1>3 DEF TypeOK
<1>7. /\ Carried' = Carried /\ Carried \subseteq Codes
      /\ \A c \in Codes : GroupEntry(c)' = GroupEntry(c)
  BY <1>1, SameRows, CarriedCodes
<1>8. SeenBy(a)
  BY DEF RebuildInv
<1>9. ASSUME act[a].pc = "write"
      PROVE  /\ \A x \in act'[a].todo : x[1] \in Carried' /\ x[2] = GroupEntry(x[1])'
             /\ \A c \in Carried' :
                  entries'[c] = GroupEntry(c)' \/ <<c, GroupEntry(c)'>> \in act'[a].todo
  <2>1. /\ \A x \in act[a].todo : x[1] \in Carried /\ x[2] = GroupEntry(x[1])
        /\ \A c \in Carried : entries[c] = GroupEntry(c) \/ <<c, GroupEntry(c)>> \in act[a].todo
    BY <1>8, <1>9 DEF SeenBy
  <2>2. ASSUME NEW c \in Carried
        PROVE  entries'[c] = GroupEntry(c) \/ <<c, GroupEntry(c)>> \in act'[a].todo
    <3>1. CASE c = e[1]
      BY <1>6, <1>7, <2>1, <3>1
    <3>2. CASE c # e[1]
      <4>1. <<c, GroupEntry(c)>> # e
        BY <3>2
      <4> QED BY <1>5, <1>6, <1>7, <2>1, <3>2, <4>1
    <3> QED BY <3>1, <3>2
  <2> QED BY <1>5, <1>7, <2>1, <2>2
<1>10. ASSUME act[a].pc = "rest"
       PROVE  /\ \A c \in Carried' : entries'[c] = GroupEntry(c)'
              /\ \A x \in act'[a].todo : x[1] \notin Carried' /\ Spare(x[1], x[2])
              /\ \A c \in Codes \ Carried' :
                   Spare(c, entries'[c]) \/ \E x \in act'[a].todo : x[1] = c
  <2>1. /\ \A c \in Carried : entries[c] = GroupEntry(c)
        /\ \A x \in act[a].todo : x[1] \notin Carried /\ Spare(x[1], x[2])
        /\ \A c \in Codes \ Carried :
             Spare(c, entries[c]) \/ \E x \in act[a].todo : x[1] = c
    BY <1>8, <1>10 DEF SeenBy
  <2>2. \A c \in Carried' : entries'[c] = GroupEntry(c)'
    BY <1>6, <1>7, <2>1
  <2>3. ASSUME NEW c \in Codes \ Carried
        PROVE  Spare(c, entries'[c]) \/ \E x \in act'[a].todo : x[1] = c
    <3>1. CASE c = e[1]
      BY <1>6, <2>1, <3>1
    <3>2. CASE c # e[1]
      BY <1>5, <1>6, <2>1, <3>2
    <3> QED BY <3>1, <3>2
  <2> QED BY <1>5, <1>7, <2>1, <2>2, <2>3
<1>11. act'[a].pc \in {"write", "rest"} => act'[a].carried = Carried'
  BY <1>5, <1>7, <1>8 DEF SeenBy
<1> QED BY <1>5, <1>9, <1>10, <1>11 DEF SeenBy

\* What is left over gets entries that are in order.
LEMMA LeftOverInOrder ==
  ASSUME TypeOK, NEW carried \in SUBSET Codes
  PROVE  /\ \A e \in LeftOver(carried) : e[1] \in Codes \ carried /\ Spare(e[1], e[2])
         /\ \A c \in Codes \ carried :
              Spare(c, entries[c]) \/ \E e \in LeftOver(carried) : e[1] = c
<1> DEFINE seeded(c) == <<c, IF entries[c].source = "pipeline" THEN Retired(c) ELSE Seed>>
           stale == {b \in Codes \ (Bootstrap \cup carried) :
                       entries[b].status \notin {"absent", "disabled"}}
<1>0. Bootstrap \subseteq Codes
  BY CodesAssumption
<1>1. LeftOver(carried) = {seeded(c) : c \in Bootstrap \ carried}
                            \cup {<<c, Retired(c)>> : c \in stale}
  BY DEF LeftOver
<1>2. ASSUME NEW c \in Codes
      PROVE  /\ entries[c].source = "pipeline" => Spare(c, Retired(c))
             /\ c \notin Bootstrap => Spare(c, Retired(c))
             /\ c \in Bootstrap => Spare(c, Seed)
  <2>1. entries[c] \in Entry
    BY DEF TypeOK
  <2>2. Retired(c).status = "disabled" /\ Retired(c).source = entries[c].source
    BY <2>1 DEF Retired, Entry
  <2>3. Seed.status = "live" /\ Seed.source = "bootstrap"
    BY DEF Seed
  <2> QED BY <2>2, <2>3 DEF Spare
<1>3. \A c \in Bootstrap : seeded(c)[1] = c /\ Spare(c, seeded(c)[2])
  BY <1>0, <1>2
<1>4. \A c \in stale : c \in Codes /\ c \notin Bootstrap /\ c \notin carried
  OBVIOUS
<1>5. \A e \in LeftOver(carried) : e[1] \in Codes \ carried /\ Spare(e[1], e[2])
  <2> SUFFICES ASSUME NEW e \in LeftOver(carried)
               PROVE  e[1] \in Codes \ carried /\ Spare(e[1], e[2])
    OBVIOUS
  <2>1. CASE \E c \in Bootstrap \ carried : e = seeded(c)
    <3> HIDE DEF seeded
    <3> QED BY <1>0, <1>3, <2>1
  <2>2. CASE \E c \in stale : e = <<c, Retired(c)>>
    <3> HIDE DEF stale
    <3> QED BY <1>2, <1>4, <2>2
  <2> QED BY <1>1, <2>1, <2>2
<1>6. ASSUME NEW c \in Codes \ carried
      PROVE  Spare(c, entries[c]) \/ \E e \in LeftOver(carried) : e[1] = c
  <2>1. CASE c \in Bootstrap
    <3>1. seeded(c) \in LeftOver(carried) /\ seeded(c)[1] = c
      BY <1>1, <1>3, <2>1
    <3> HIDE DEF seeded
    <3> QED BY <3>1
  <2>2. CASE c \in stale
    <3>1. <<c, Retired(c)>> \in LeftOver(carried) /\ <<c, Retired(c)>>[1] = c
      BY <1>1, <2>2
    <3> QED BY <3>1
  <2>3. CASE c \notin Bootstrap /\ c \notin stale
    <3>1. entries[c].status # "live"
      BY <2>3
    <3> QED BY <2>3, <3>1 DEF Spare
  <2> QED BY <2>1, <2>2, <2>3
<1> QED BY <1>5, <1>6

LEMMA ReadEntriesKeeps ==
  ASSUME TypeOK, RebuildInv, NEW a \in Actors, ReadEntries(a)
  PROVE  RebuildInv'
<1> DEFINE plan == LeftOver(act[a].carried)
           r == [act[a] EXCEPT !.pc = "rest", !.todo = plan]
<1>1. /\ doc' = doc /\ entries' = entries /\ settled' = settled /\ overtaken' = overtaken
      /\ act[a].pc = "write" /\ act[a].todo = {}
  BY DEF ReadEntries, rowVars, catalogVars, historyVars
<1>2. act'[a] = r /\ \A b \in Actors \ {a} : act'[b] = act[b]
  BY Doing DEF ReadEntries
<1>3. act'[a].pc = "rest" /\ act'[a].carried = act[a].carried /\ act'[a].todo = plan
  <2> HIDE DEF plan
  <2> QED BY <1>2 DEF TypeOK, Action
<1>4. ASSUME NEW b \in Actors \ overtaken, b # a PROVE SeenBy(b)'
  BY <1>1, <1>2, <1>4, SeenStill DEF RebuildInv
<1>5. ASSUME a \notin overtaken PROVE SeenBy(a)'
  <2>1. /\ Carried' = Carried /\ Carried \subseteq Codes
        /\ \A c \in Codes : GroupEntry(c)' = GroupEntry(c)
    BY <1>1, SameRows, CarriedCodes
  <2>2. act[a].carried = Carried /\ \A c \in Carried : entries[c] = GroupEntry(c)
    BY <1>1, <1>5 DEF RebuildInv, SeenBy
  <2>3. /\ \A e \in plan : e[1] \in Codes \ Carried /\ Spare(e[1], e[2])
        /\ \A c \in Codes \ Carried : Spare(c, entries[c]) \/ \E e \in plan : e[1] = c
    BY <2>1, <2>2, LeftOverInOrder
  <2> HIDE DEF plan
  <2> QED BY <1>1, <1>3, <2>1, <2>2, <2>3 DEF SeenBy
<1>6. settled' => InOrder'
  BY <1>1, InOrderRests DEF RebuildInv
<1> QED BY <1>1, <1>4, <1>5, <1>6 DEF RebuildInv

LEMMA BumpVersionKeeps ==
  ASSUME TypeOK, RebuildInv, NEW a \in Actors, BumpVersion(a)
  PROVE  RebuildInv'
<1>1. /\ doc' = doc /\ entries' = entries /\ overtaken' = overtaken
      /\ settled' = (a \notin overtaken) /\ act[a].pc = "rest" /\ act[a].todo = {}
  BY DEF BumpVersion, rowVars
<1>2. act'[a] = Idle /\ \A b \in Actors \ {a} : act'[b] = act[b]
  BY Doing DEF BumpVersion
<1>3. ASSUME NEW b \in Actors \ overtaken, b # a PROVE SeenBy(b)'
  BY <1>1, <1>2, <1>3, SeenStill DEF RebuildInv
<1>4. SeenBy(a)'
  BY <1>2 DEF SeenBy, Idle
<1>5. ASSUME a \notin overtaken PROVE InOrder'
  <2>1. InOrder
    BY <1>1, <1>5 DEF RebuildInv, SeenBy, InOrder
  <2> QED BY <1>1, <2>1, InOrderRests
<1> QED BY <1>1, <1>3, <1>4, <1>5 DEF RebuildInv

-----------------------------------------------------------------------------
(* The other steps.                                                        *)

LEMMA GivenToDo ==
  ASSUME TypeOK, NEW a \in Actors, NEW r, Do(a, r), r.pc \notin {"write", "rest"},
         doc' = doc, entries' = entries, settled' = settled, overtaken' = overtaken
  PROVE  Rests
BY Doing DEF Rests

LEMMA ApiOvertakesOrRests ==
  ASSUME TypeOK, ApiStep
  PROVE  Overtakes \/ Rests
<1>0. "api" \in Actors
  BY DEF Actors
<1>1. ASSUME NEW d \in Docs,
             ApproveProd(d) \/ Reingest(d) \/ Disable(d) \/ Restore(d) \/ SetFlag(d)
      PROVE  Overtakes
  BY <1>1 DEF ApproveProd, Reingest, Disable, Restore, SetFlag, WriteRow, Overtakes
<1>2. CASE WritePatch
  BY <1>2 DEF WritePatch, WriteRow, Overtakes
<1>3. ASSUME NEW d \in Docs, OpenPatch(d) PROVE Rests
  <2>1. PICK ch : Do("api", [Idle EXCEPT !.pc = "patch", !.doc = d, !.change = ch])
    BY <1>3 DEF OpenPatch
  <2>2. [Idle EXCEPT !.pc = "patch", !.doc = d, !.change = ch].pc = "patch"
    BY DEF Idle
  <2> QED BY <1>0, <1>3, <2>1, <2>2, GivenToDo DEF OpenPatch, rowVars, catalogVars, historyVars
<1>4. CASE DeletePoints \/ SnapshotVersion \/ SnapshotEntries \/ BumpSeeded
  <2>1. PICK r : Do("api", r) /\ r.pc \notin {"write", "rest"}
    <3>1. CASE DeletePoints
      BY <3>1 DEF DeletePoints, Idle
    <3>2. CASE SnapshotVersion
      <4>1. [Idle EXCEPT !.pc = "read", !.num = version].pc = "read"
        BY DEF Idle
      <4> QED BY <3>2, <4>1 DEF SnapshotVersion
    <3>3. CASE SnapshotEntries
      BY <3>3 DEF SnapshotEntries, Idle
    <3>4. CASE BumpSeeded
      <4>1. act["api"].then \in {"idle", "scan", "version"}
        BY <1>0 DEF TypeOK, Action
      <4>2. [Idle EXCEPT !.pc = act["api"].then].pc = act["api"].then
        BY DEF Idle
      <4> QED BY <3>4, <4>1, <4>2 DEF BumpSeeded
    <3> QED BY <1>4, <3>1, <3>2, <3>3, <3>4
  <2>2. doc' = doc /\ entries' = entries /\ settled' = settled /\ overtaken' = overtaken
    BY <1>4 DEF DeletePoints, SnapshotVersion, SnapshotEntries, BumpSeeded,
                rowVars, catalogVars, historyVars
  <2> QED BY <1>0, <2>1, <2>2, GivenToDo
<1>5. CASE AdminRebuild \/ ForceBootstrap \/ Poll
  <2>1. PICK r : Do("api", r) /\ r.pc \notin {"write", "rest"}
    <3>1. PICK then \in {"idle", "scan", "version"} :
            Seeding(then) \/ Do("api", [Idle EXCEPT !.pc = then])
      BY <1>5 DEF AdminRebuild, ForceBootstrap, Poll, SeededFirst
    <3>2. [Idle EXCEPT !.pc = then].pc = then
      BY DEF Idle
    <3>3. [Idle EXCEPT !.pc = "seed", !.then = then,
                       !.todo = {<<c, Seed>> : c \in Bootstrap}].pc = "seed"
      BY DEF Idle
    <3> QED BY <3>1, <3>2, <3>3 DEF Seeding
  <2>2. doc' = doc /\ entries' = entries /\ settled' = settled /\ overtaken' = overtaken
    BY <1>5 DEF AdminRebuild, ForceBootstrap, Poll, rowVars, catalogVars, historyVars
  <2> QED BY <1>0, <2>1, <2>2, GivenToDo
<1> QED BY <1>1, <1>2, <1>3, <1>4, <1>5 DEF ApiStep

LEMMA WorkerOvertakesOrRests ==
  ASSUME TypeOK, WorkerStep
  PROVE  Overtakes \/ Rests
<1>1. ASSUME NEW d \in Docs, ReachGate(d) \/ SkipProd(d) \/ Complete(d)
      PROVE  Overtakes
  BY <1>1 DEF ReachGate, SkipProd, Complete, WriteRow, Overtakes
<1>2. CASE ClearFlag
  BY <1>2 DEF ClearFlag, WriteRow, Overtakes
<1>3. ASSUME NEW d \in Docs, AttemptFails(d) PROVE Overtakes \/ Rests
  BY <1>3 DEF AttemptFails, WriteRow, Overtakes, Rests, catalogVars, historyVars
<1>4. ASSUME NEW d \in Docs, PrepareRecords(d) \/ SendRecords(d) PROVE Rests
  BY <1>4 DEF PrepareRecords, SendRecords, Rests, rowVars, catalogVars, historyVars
<1>5. ASSUME NEW d \in Docs, OnPromoted(d) PROVE Rests
  <2>1. doc' = doc /\ entries' = entries /\ settled' = settled /\ overtaken' = overtaken
    BY <1>5 DEF OnPromoted, rowVars, catalogVars, historyVars
  <2>2. CASE act' = act
    BY <2>1, <2>2 DEF Rests
  <2>3. ASSUME NEW p \in {"clear", "scan"}, Do("worker", [Idle EXCEPT !.doc = d, !.pc = p])
        PROVE  Rests
    <3>1. [Idle EXCEPT !.doc = d, !.pc = p].pc = p
      BY DEF Idle
    <3> QED BY <2>1, <2>3, <3>1, GivenToDo DEF Actors
  <2> QED BY <1>5, <2>2, <2>3 DEF OnPromoted
<1> QED BY <1>1, <1>2, <1>3, <1>4, <1>5 DEF WorkerStep

LEMMA RebuildSteps ==
  ASSUME TypeOK, RebuildInv, [Next]_vars
  PROVE  RebuildInv'
<1>1. CASE ApiStep
  BY <1>1, ApiOvertakesOrRests, OvertakesKeeps, RestsKeeps
<1>2. CASE WorkerStep
  BY <1>2, WorkerOvertakesOrRests, OvertakesKeeps, RestsKeeps
<1>3. ASSUME NEW a \in Actors, Rebuilding(a) PROVE RebuildInv'
  BY <1>3, ScanKeeps, WriteEntryKeeps, ReadEntriesKeeps, BumpVersionKeeps DEF Rebuilding
<1>4. ASSUME NEW a \in Actors, Interrupted(a) PROVE RebuildInv'
  <2>1. Do(a, Idle) /\ Idle.pc = "idle"
    BY <1>4 DEF Interrupted, Idle
  <2>2. doc' = doc /\ entries' = entries /\ settled' = settled /\ overtaken' = overtaken
    BY <1>4 DEF Interrupted, rowVars, historyVars
  <2> QED BY <2>1, <2>2, GivenToDo, RestsKeeps
<1>5. CASE UNCHANGED vars
  <2>1. Rests
    BY <1>5 DEF vars, Rests
  <2> QED BY <2>1, RestsKeeps
<1> QED BY <1>1, <1>2, <1>3, <1>4, <1>5 DEF Next

LEMMA RebuildInit == Init => RebuildInv
BY DEF Init, RebuildInv, SeenBy, Idle

LEMMA RuleFollows ==
  ASSUME TypeOK, RebuildInv
  PROVE  CatalogByRule
<1> SUFFICES ASSUME settled, NEW c \in Codes
             PROVE  LET members == {d \in Docs : Member(d, c)}
                    IN /\ c \in Listed <=>
                            IF \E d \in Docs : doc[d].code = c
                            THEN members # {} /\ \A d \in members : ~doc[d].reindex
                            ELSE c \in Bootstrap /\ entries[c].source = "bootstrap"
                       /\ c \in Listed /\ entries[c].source # "bootstrap" =>
                            entries[c].docs = members
  BY DEF CatalogByRule
<1> DEFINE members == {d \in Docs : Member(d, c)}
<1>1. c \in Listed <=> entries[c].status = "live"
  BY DEF Listed
<1>2. c \in Carried <=> \E d \in Docs : doc[d].code = c
  BY CodesAssumption DEF Carried
<1>3. CASE c \in Carried
  <2>1. entries[c] = GroupEntry(c)
    BY <1>3 DEF RebuildInv, InOrder
  <2>2. members = LiveDocs(c)
    BY DEF Member, LiveDocs, Group
  <2>3. entries[c].status = Status(c)
    BY <2>1 DEF GroupEntry
  <2>4. Status(c) = "live" <=> members # {} /\ \A d \in members : ~doc[d].reindex
    BY <2>2 DEF Status
  <2>5. members # {} => entries[c].docs = members
    BY <2>1, <2>2 DEF GroupEntry
  <2> QED BY <1>1, <1>2, <1>3, <2>3, <2>4, <2>5
<1>4. CASE c \notin Carried
  <2>1. c \in Listed <=> c \in Bootstrap /\ entries[c].source = "bootstrap"
    BY <1>1, <1>4 DEF RebuildInv, InOrder, Spare
  <2> QED BY <1>2, <1>4, <2>1
<1> QED BY <1>3, <1>4

\* A rebuild that nothing was written beside brings the catalog in order,
\* whatever others left behind and for any number of documents and codes.
THEOREM RebuildsByRule == Spec => []CatalogByRule
<1>1. Init => RebuildInv
  BY RebuildInit
<1>2. IInv /\ RebuildInv /\ [Next]_vars => RebuildInv'
  BY RebuildSteps DEF IInv
<1>3. IInv /\ RebuildInv => CatalogByRule
  BY RuleFollows DEF IInv
<1> QED BY IInvHolds, <1>1, <1>2, <1>3, PTL DEF Spec

-----------------------------------------------------------------------------
(* What is served.                                                         *)

\* ServedInv, of one document.
Fine(d) ==
  /\ doc[d].stage = "ingesting_prod" <=> job[d].step # "none"
  /\ job[d].step = "sending" =>
       job[d].code = (IF doc[d].scheme THEN doc[d].code ELSE NoCode) \/ d \in astray
  /\ job[d].step \in {"updating", "closing"} /\ ForProd(d) => Reached(d)
  /\ doc[d].stage = "completed" /\ ForProd(d) /\ ~doc[d].reindex => Reached(d)

WorkerAt ==
  act["worker"].pc # "idle" =>
    act["worker"].doc \in Docs /\ job[act["worker"].doc].step = "updating"

LEMMA FineEach ==
  ServedInv <=> WorkerAt /\ ApiUpToDate /\ \A d \in Docs : Fine(d)
BY DEF ServedInv, PromotionsShown, ServedUnlessFlagged, Fine, WorkerAt

LEMMA ServedNext ==
  ASSUME WorkerAt', ApiUpToDate', \A d \in Docs : Fine(d)'
  PROVE  ServedInv'
BY DEF ServedInv, PromotionsShown, ServedUnlessFlagged, Fine, WorkerAt

\* A step is about one document, and leaves the others alone.
OnlyAbout(d) ==
  \A x \in Docs \ {d} :
    /\ doc'[x] = doc[x] /\ job'[x] = job[x] /\ prod'[x] = prod[x]
    /\ x \in astray' <=> x \in astray

LEMMA FineElsewhere ==
  ASSUME ServedInv, NEW d \in Docs, OnlyAbout(d), Fine(d)'
  PROVE  \A x \in Docs : Fine(x)'
<1> SUFFICES ASSUME NEW x \in Docs, x # d PROVE Fine(x)'
  OBVIOUS
<1>1. Fine(x)
  BY FineEach
<1>2. /\ doc'[x] = doc[x] /\ job'[x] = job[x] /\ prod'[x] = prod[x]
      /\ x \in astray' <=> x \in astray
  BY DEF OnlyAbout
<1> QED BY <1>1, <1>2 DEF Fine, ForProd, Reached

LEMMA FineStill ==
  ASSUME ServedInv, doc' = doc, job' = job, prod' = prod, astray' = astray
  PROVE  \A x \in Docs : Fine(x)'
BY FineEach DEF Fine, ForProd, Reached

LEMMA RowWritten ==
  ASSUME TypeOK, NEW d \in Docs, NEW row, WriteRow(d, row)
  PROVE  doc'[d] = row /\ \A x \in Docs \ {d} : doc'[x] = doc[x]
BY DEF TypeOK, WriteRow

\* Of a row, one field is written.
LEMMA StageWritten ==
  ASSUME TypeOK, NEW d \in Docs, NEW v, WriteRow(d, [doc[d] EXCEPT !.stage = v])
  PROVE  /\ doc'[d].stage = v
         /\ doc'[d].scheme = doc[d].scheme
         /\ doc'[d].code = doc[d].code
         /\ doc'[d].disabled = doc[d].disabled
         /\ doc'[d].reindex = doc[d].reindex
         /\ \A x \in Docs \ {d} : doc'[x] = doc[x]
<1>1. doc[d] \in Row
  BY DEF TypeOK
<1> DEFINE row == [doc[d] EXCEPT !.stage = v]
<1>2. /\ row.stage = v /\ row.scheme = doc[d].scheme /\ row.code = doc[d].code
      /\ row.disabled = doc[d].disabled /\ row.reindex = doc[d].reindex
  BY <1>1 DEF Row
<1> HIDE DEF row
<1>3. WriteRow(d, row)
  BY DEF row
<1> QED BY <1>2, <1>3, RowWritten

LEMMA RemovalWritten ==
  ASSUME TypeOK, NEW d \in Docs, NEW v, WriteRow(d, [doc[d] EXCEPT !.disabled = v])
  PROVE  /\ doc'[d].stage = doc[d].stage
         /\ doc'[d].scheme = doc[d].scheme
         /\ doc'[d].code = doc[d].code
         /\ doc'[d].disabled = v
         /\ doc'[d].reindex = doc[d].reindex
         /\ \A x \in Docs \ {d} : doc'[x] = doc[x]
<1>1. doc[d] \in Row
  BY DEF TypeOK
<1> DEFINE row == [doc[d] EXCEPT !.disabled = v]
<1>2. /\ row.stage = doc[d].stage /\ row.scheme = doc[d].scheme /\ row.code = doc[d].code
      /\ row.disabled = v /\ row.reindex = doc[d].reindex
  BY <1>1 DEF Row
<1> HIDE DEF row
<1>3. WriteRow(d, row)
  BY DEF row
<1> QED BY <1>2, <1>3, RowWritten

LEMMA FlagWritten ==
  ASSUME TypeOK, NEW d \in Docs, NEW v, WriteRow(d, [doc[d] EXCEPT !.reindex = v])
  PROVE  /\ doc'[d].stage = doc[d].stage
         /\ doc'[d].scheme = doc[d].scheme
         /\ doc'[d].code = doc[d].code
         /\ doc'[d].disabled = doc[d].disabled
         /\ doc'[d].reindex = v
         /\ \A x \in Docs \ {d} : doc'[x] = doc[x]
<1>1. doc[d] \in Row
  BY DEF TypeOK
<1> DEFINE row == [doc[d] EXCEPT !.reindex = v]
<1>2. /\ row.stage = doc[d].stage /\ row.scheme = doc[d].scheme /\ row.code = doc[d].code
      /\ row.disabled = doc[d].disabled /\ row.reindex = v
  BY <1>1 DEF Row
<1> HIDE DEF row
<1>3. WriteRow(d, row)
  BY DEF row
<1> QED BY <1>2, <1>3, RowWritten

\* The promotion the worker is at the catalog for goes on updating.
LEMMA WorkerStays ==
  ASSUME ServedInv, act'["worker"] = act["worker"],
         \A x \in Docs : job[x].step = "updating" => job'[x].step = "updating"
  PROVE  WorkerAt'
BY FineEach DEF WorkerAt

LEMMA ApiRowRequestsServe ==
  ASSUME TypeOK, ServedInv, NEW d \in Docs,
         ApproveProd(d) \/ Reingest(d) \/ Disable(d) \/ Restore(d) \/ SetFlag(d)
  PROVE  ServedInv'
<1>0. Fine(d) /\ doc[d] \in Row
  BY FineEach DEF TypeOK
<1>1. CASE ApproveProd(d)
  <2>1. /\ job' = [job EXCEPT ![d].step = "reading"] /\ prod' = prod /\ astray' = astray
        /\ act' = act /\ act["api"].pc = "idle" /\ job[d].step = "none"
        /\ WriteRow(d, [doc[d] EXCEPT !.stage = "ingesting_prod"])
    BY <1>1 DEF ApproveProd, Request
  <2>2. job'[d].step = "reading" /\ \A x \in Docs \ {d} : job'[x] = job[x]
    BY <2>1 DEF TypeOK, Promotion
  <2>3. doc'[d].stage = "ingesting_prod" /\ \A x \in Docs \ {d} : doc'[x] = doc[x]
    BY <2>1, StageWritten
  <2>4. Fine(d)' /\ OnlyAbout(d)
    BY <2>1, <2>2, <2>3 DEF Fine, OnlyAbout
  <2>5. WorkerAt'
    BY <2>1, <2>2, WorkerStays
  <2>6. ApiUpToDate'
    BY <2>1 DEF ApiUpToDate
  <2> QED BY <2>4, <2>5, <2>6, FineElsewhere, ServedNext
<1>2. CASE Reingest(d)
  <2>1. /\ job' = job /\ prod' = prod /\ astray' = astray
        /\ act' = act /\ act["api"].pc = "idle" /\ job[d].step = "none"
        /\ WriteRow(d, [doc[d] EXCEPT !.stage = "draft"])
    BY <1>2 DEF Reingest, Request, promotionVars
  <2>2. doc'[d].stage = "draft" /\ \A x \in Docs \ {d} : doc'[x] = doc[x]
    BY <2>1, StageWritten
  <2>3. Fine(d)' /\ OnlyAbout(d)
    BY <2>1, <2>2 DEF Fine, OnlyAbout
  <2>4. WorkerAt'
    BY <2>1, WorkerStays
  <2>5. ApiUpToDate'
    BY <2>1 DEF ApiUpToDate
  <2> QED BY <2>3, <2>4, <2>5, FineElsewhere, ServedNext
<1>3. CASE Disable(d)
  <2>1. /\ job' = job /\ prod' = prod /\ astray' = astray
        /\ WriteRow(d, [doc[d] EXCEPT !.disabled = TRUE])
    BY <1>3 DEF Disable, promotionVars
  <2>2. /\ doc'[d].stage = doc[d].stage /\ doc'[d].scheme = doc[d].scheme
        /\ doc'[d].code = doc[d].code /\ doc'[d].disabled = TRUE
        /\ \A x \in Docs \ {d} : doc'[x] = doc[x]
    BY <2>1, RemovalWritten
  <2>3. Fine(d)' /\ OnlyAbout(d)
    BY <1>0, <2>1, <2>2 DEF Fine, OnlyAbout, ForProd
  <2>4. /\ act["api"].pc = "idle"
        /\ act' = act \/ Do("api", [Idle EXCEPT !.pc = "delete", !.doc = d])
    BY <1>3 DEF Disable, Request
  <2>5. CASE act' = act
    <3>1. WorkerAt' /\ ApiUpToDate'
      BY <2>1, <2>4, <2>5, WorkerStays DEF ApiUpToDate
    <3> QED BY <2>3, <3>1, FineElsewhere, ServedNext
  <2>6. CASE Do("api", [Idle EXCEPT !.pc = "delete", !.doc = d])
    <3>1. /\ act'["api"] = [Idle EXCEPT !.pc = "delete", !.doc = d]
          /\ act'["worker"] = act["worker"]
      BY <2>6, Doing DEF Actors
    <3>2. act'["api"].pc = "delete" /\ act'["api"].doc = d
      BY <3>1 DEF Idle
    <3>3. WorkerAt'
      BY <2>1, <3>1, WorkerStays
    <3>4. ApiUpToDate'
      BY <2>2, <3>2 DEF ApiUpToDate
    <3> QED BY <2>3, <3>3, <3>4, FineElsewhere, ServedNext
  <2> QED BY <2>4, <2>5, <2>6
<1>4. CASE Restore(d)
  <2>1. /\ job' = job /\ prod' = prod /\ astray' = astray \cup {d}
        /\ act' = act /\ act["api"].pc = "idle"
        /\ WriteRow(d, [doc[d] EXCEPT !.disabled = FALSE])
    BY <1>4 DEF Restore, Request, promotionVars
  <2>2. doc'[d].stage = doc[d].stage /\ \A x \in Docs \ {d} : doc'[x] = doc[x]
    BY <2>1, RemovalWritten
  <2>3. Fine(d)' /\ OnlyAbout(d)
    BY <1>0, <2>1, <2>2 DEF Fine, OnlyAbout, Reached
  <2>4. WorkerAt' /\ ApiUpToDate'
    BY <2>1, WorkerStays DEF ApiUpToDate
  <2> QED BY <2>3, <2>4, FineElsewhere, ServedNext
<1>5. CASE SetFlag(d)
  <2>1. PICK o \in {"mark", "clear"} :
          /\ Request(o)
          /\ WriteRow(d, [doc[d] EXCEPT !.reindex = (o = "mark")])
          /\ astray' = IF o = "clear" /\ doc[d].reindex THEN astray \cup {d} ELSE astray
          /\ job' = job /\ prod' = prod /\ act' = act
    BY <1>5 DEF SetFlag, promotionVars
  <2>2. /\ doc'[d].stage = doc[d].stage /\ doc'[d].scheme = doc[d].scheme
        /\ doc'[d].code = doc[d].code /\ doc'[d].disabled = doc[d].disabled
        /\ doc'[d].reindex = (o = "mark")
        /\ \A x \in Docs \ {d} : doc'[x] = doc[x]
    BY <2>1, FlagWritten
  <2>3. OnlyAbout(d)
    BY <2>1, <2>2 DEF OnlyAbout
  <2>4. Fine(d)'
    <3>1. CASE d \in astray'
      BY <1>0, <2>1, <2>2, <3>1 DEF Fine, Reached
    <3>2. CASE d \notin astray'
      <4>1. d \notin astray /\ (~doc'[d].reindex => ~doc[d].reindex)
        BY <2>1, <2>2, <3>2
      <4> QED BY <1>0, <2>1, <2>2, <4>1 DEF Fine, ForProd, Reached
    <3> QED BY <3>1, <3>2
  <2>5. WorkerAt' /\ ApiUpToDate'
    BY <2>1, WorkerStays DEF ApiUpToDate, Request
  <2> QED BY <2>3, <2>4, <2>5, FineElsewhere, ServedNext
<1> QED BY <1>1, <1>2, <1>3, <1>4, <1>5

LEMMA PatchServes ==
  ASSUME TypeOK, ActShape, ServedInv, (\E d \in Docs : OpenPatch(d)) \/ WritePatch
  PROVE  ServedInv'
<1>1. ASSUME NEW d \in Docs, OpenPatch(d) PROVE ServedInv'
  <2>1. doc' = doc /\ job' = job /\ prod' = prod /\ astray' = astray
    BY <1>1 DEF OpenPatch, rowVars, promotionVars
  <2>2. PICK c, ch : /\ Do("api", [Idle EXCEPT !.pc = "patch", !.doc = d, !.change = ch])
                     /\ ch.flag = NeedsReindex(d, c)
    <3>1. PICK o \in {"code", "kind", "visible"} : \E w \in Wanted(o, d) :
            Do("api", [Idle EXCEPT !.pc = "patch", !.doc = d, !.change =
              [code |-> w.code, scheme |-> w.scheme, visible |-> w.visible,
               flag |-> NeedsReindex(d, w.code),
               rebuild |-> w.scheme \/ doc[d].scheme \/ Renamed(d, w.code)]])
      BY <1>1 DEF OpenPatch
    <3>2. PICK w \in Wanted(o, d) :
            Do("api", [Idle EXCEPT !.pc = "patch", !.doc = d, !.change =
              [code |-> w.code, scheme |-> w.scheme, visible |-> w.visible,
               flag |-> NeedsReindex(d, w.code),
               rebuild |-> w.scheme \/ doc[d].scheme \/ Renamed(d, w.code)]])
      BY <3>1
    <3> DEFINE ch == [code |-> w.code, scheme |-> w.scheme, visible |-> w.visible,
                      flag |-> NeedsReindex(d, w.code),
                      rebuild |-> w.scheme \/ doc[d].scheme \/ Renamed(d, w.code)]
    <3>3. Do("api", [Idle EXCEPT !.pc = "patch", !.doc = d, !.change = ch])
      BY <3>2
    <3>4. ch.flag = NeedsReindex(d, w.code)
      OBVIOUS
    <3> HIDE DEF ch
    <3> QED BY <3>3, <3>4
  <2>3. /\ act'["api"] = [Idle EXCEPT !.pc = "patch", !.doc = d, !.change = ch]
        /\ act'["worker"] = act["worker"]
    BY <2>2, Doing DEF Actors
  <2>4. act'["api"].pc = "patch" /\ act'["api"].doc = d /\ act'["api"].change = ch
    BY <2>3 DEF Idle
  <2>5. ApiUpToDate'
    BY <2>1, <2>2, <2>4 DEF ApiUpToDate, NeedsReindex
  <2>6. WorkerAt'
    BY <2>1, <2>3, WorkerStays
  <2> QED BY <2>1, <2>5, <2>6, FineStill, ServedNext
<1>2. CASE WritePatch
  <2>0. act["api"].doc \in Docs /\ act["api"].pc = "patch"
    BY <1>2 DEF WritePatch, ActShape
  <2>1. PICK d, to : d \in Docs /\ d = act["api"].doc /\ to = act["api"].change
    BY <2>0
  <2> DEFINE row == [doc[d] EXCEPT !.code = to.code, !.scheme = to.scheme,
                                   !.visible = to.visible, !.reindex = @ \/ to.flag]
  <2>2. Fine(d) /\ doc[d] \in Row
    BY <2>1, FineEach DEF TypeOK
  <2>3. /\ job' = job /\ prod' = prod /\ WriteRow(d, row)
        /\ astray' = IF to.flag \/ (to.code = doc[d].code /\ to.scheme = doc[d].scheme)
                     THEN astray ELSE astray \cup {d}
    BY <1>2, <2>1 DEF WritePatch, promotionVars
  <2>4. /\ row.stage = doc[d].stage /\ row.disabled = doc[d].disabled
        /\ row.code = to.code /\ row.scheme = to.scheme
        /\ row.reindex = (doc[d].reindex \/ to.flag)
    BY <2>2 DEF Row
  <2>5. /\ doc'[d].stage = doc[d].stage /\ doc'[d].disabled = doc[d].disabled
        /\ doc'[d].code = to.code /\ doc'[d].scheme = to.scheme
        /\ doc'[d].reindex = (doc[d].reindex \/ to.flag)
        /\ \A x \in Docs \ {d} : doc'[x] = doc[x]
    <3> HIDE DEF row
    <3> QED BY <2>1, <2>3, <2>4, RowWritten
  <2>6. OnlyAbout(d)
    BY <2>3, <2>5 DEF OnlyAbout
  <2>7. Fine(d)'
    <3>1. CASE to.flag
      <4>1. doc[d].stage = "completed"
        BY <2>0, <2>1, <3>1, FineEach DEF ApiUpToDate
      <4>2. job[d].step = "none"
        BY <2>2, <4>1 DEF Fine
      <4> QED BY <2>3, <2>5, <3>1, <4>1, <4>2 DEF Fine
    <3>2. CASE ~to.flag /\ to.code = doc[d].code /\ to.scheme = doc[d].scheme
      BY <2>2, <2>3, <2>5, <3>2 DEF Fine, ForProd, Reached
    <3>3. CASE ~to.flag /\ ~(to.code = doc[d].code /\ to.scheme = doc[d].scheme)
      BY <2>2, <2>3, <2>5, <3>3 DEF Fine, Reached
    <3> QED BY <3>1, <3>2, <3>3
  <2>8. PICK p \in {"scan", "idle"} : Do("api", [Idle EXCEPT !.pc = p])
    BY <1>2 DEF WritePatch
  <2>9. act'["api"] = [Idle EXCEPT !.pc = p] /\ act'["worker"] = act["worker"]
    BY <2>8, Doing DEF Actors
  <2>10. act'["api"].pc = p
    BY <2>9 DEF Idle
  <2>11. ApiUpToDate'
    BY <2>10 DEF ApiUpToDate
  <2>12. WorkerAt'
    BY <2>3, <2>9, WorkerStays
  <2> HIDE DEF row
  <2> QED BY <2>1, <2>6, <2>7, <2>11, <2>12, FineElsewhere, ServedNext
<1> QED BY <1>1, <1>2

LEMMA ApiRestServes ==
  ASSUME TypeOK, ServedInv,
         \/ DeletePoints \/ SnapshotVersion \/ SnapshotEntries \/ BumpSeeded
         \/ AdminRebuild \/ ForceBootstrap \/ Poll
  PROVE  ServedInv'
<1>1. PICK r : Do("api", r) /\ r.pc \notin {"patch", "delete"}
  <2>1. CASE DeletePoints
    BY <2>1 DEF DeletePoints, Idle
  <2>2. CASE SnapshotVersion
    <3>1. [Idle EXCEPT !.pc = "read", !.num = version].pc = "read"
      BY DEF Idle
    <3> QED BY <2>2, <3>1 DEF SnapshotVersion
  <2>3. CASE SnapshotEntries
    BY <2>3 DEF SnapshotEntries, Idle
  <2>4. CASE BumpSeeded
    <3>1. act["api"].then \in {"idle", "scan", "version"}
      BY DEF TypeOK, Action, Actors
    <3>2. [Idle EXCEPT !.pc = act["api"].then].pc = act["api"].then
      BY DEF Idle
    <3> QED BY <2>4, <3>1, <3>2 DEF BumpSeeded
  <2>5. CASE AdminRebuild \/ ForceBootstrap \/ Poll
    <3>1. PICK then \in {"idle", "scan", "version"} :
            Seeding(then) \/ Do("api", [Idle EXCEPT !.pc = then])
      BY <2>5 DEF AdminRebuild, ForceBootstrap, Poll, SeededFirst
    <3>2. [Idle EXCEPT !.pc = then].pc = then
      BY DEF Idle
    <3>3. [Idle EXCEPT !.pc = "seed", !.then = then,
                       !.todo = {<<c, Seed>> : c \in Bootstrap}].pc = "seed"
      BY DEF Idle
    <3> QED BY <3>1, <3>2, <3>3 DEF Seeding
  <2> QED BY <2>1, <2>2, <2>3, <2>4, <2>5
<1>2. act'["api"] = r /\ act'["worker"] = act["worker"]
  BY <1>1, Doing DEF Actors
<1>3. ApiUpToDate'
  BY <1>1, <1>2 DEF ApiUpToDate
<1>4. CASE DeletePoints
  <2>1. PICK d : d \in Docs /\ d = act["api"].doc /\ doc[d].disabled
    BY <1>4, FineEach DEF DeletePoints, ApiUpToDate
  <2>2. /\ doc' = doc /\ job' = job /\ astray' = astray
        /\ \A x \in Docs \ {d} : prod'[x] = prod[x]
    BY <1>4, <2>1 DEF DeletePoints, rowVars, TypeOK
  <2>3. Fine(d)' /\ OnlyAbout(d)
    BY <2>1, <2>2, FineEach DEF Fine, ForProd, OnlyAbout
  <2>4. WorkerAt'
    BY <1>2, <2>2, WorkerStays
  <2> QED BY <1>3, <2>1, <2>3, <2>4, FineElsewhere, ServedNext
<1>5. CASE ~DeletePoints
  <2>1. doc' = doc /\ job' = job /\ prod' = prod /\ astray' = astray
    BY <1>5 DEF SnapshotVersion, SnapshotEntries, BumpSeeded, AdminRebuild, ForceBootstrap,
                Poll, rowVars, promotionVars
  <2>2. WorkerAt'
    BY <1>2, <2>1, WorkerStays
  <2> QED BY <1>3, <2>1, <2>2, FineStill, ServedNext
<1> QED BY <1>4, <1>5

\* What the worker does to rows leaves what the API has read of one true.
LEMMA ApiStays ==
  ASSUME ServedInv, ActShape, act'["api"] = act["api"],
         \A x \in Docs : /\ doc[x].stage = "completed" => doc'[x].stage = "completed"
                         /\ doc[x].disabled => doc'[x].disabled
  PROVE  ApiUpToDate'
BY DEF ServedInv, ApiUpToDate, ActShape

LEMMA WorkerRowsServe ==
  ASSUME TypeOK, ActShape, ServedInv, NEW d \in Docs,
         ReachGate(d) \/ SkipProd(d) \/ Complete(d)
  PROVE  ServedInv'
<1>0. Fine(d)
  BY FineEach
<1>1. CASE ReachGate(d)
  <2>1. /\ job' = job /\ prod' = prod /\ astray' = astray /\ act' = act
        /\ doc[d].stage = "draft" /\ WriteRow(d, [doc[d] EXCEPT !.stage = "approval_for_prod"])
    BY <1>1 DEF ReachGate, promotionVars
  <2>2. /\ doc'[d].stage = "approval_for_prod" /\ doc'[d].disabled = doc[d].disabled
        /\ \A x \in Docs \ {d} : doc'[x] = doc[x]
    BY <2>1, StageWritten
  <2>3. Fine(d)' /\ OnlyAbout(d)
    BY <1>0, <2>1, <2>2 DEF Fine, OnlyAbout
  <2>4. WorkerAt' /\ ApiUpToDate'
    BY <2>1, <2>2, WorkerStays, ApiStays
  <2> QED BY <2>3, <2>4, FineElsewhere, ServedNext
<1>2. CASE SkipProd(d)
  <2>1. /\ job' = job /\ prod' = prod /\ astray' = astray \cup {d} /\ act' = act
        /\ doc[d].stage = "draft" /\ WriteRow(d, [doc[d] EXCEPT !.stage = "completed"])
    BY <1>2 DEF SkipProd, promotionVars
  <2>2. /\ doc'[d].stage = "completed" /\ doc'[d].disabled = doc[d].disabled
        /\ \A x \in Docs \ {d} : doc'[x] = doc[x]
    BY <2>1, StageWritten
  <2>3. Fine(d)' /\ OnlyAbout(d)
    BY <1>0, <2>1, <2>2 DEF Fine, OnlyAbout, Reached
  <2>4. WorkerAt' /\ ApiUpToDate'
    BY <2>1, <2>2, WorkerStays, ApiStays
  <2> QED BY <2>3, <2>4, FineElsewhere, ServedNext
<1>3. CASE Complete(d)
  <2>1. /\ job' = [job EXCEPT ![d] = NoPromotion] /\ prod' = prod /\ astray' = astray
        /\ act' = act /\ job[d].step = "closing"
        /\ WriteRow(d, [doc[d] EXCEPT !.stage = "completed"])
    BY <1>3 DEF Complete
  <2>2. job'[d].step = "none" /\ \A x \in Docs \ {d} : job'[x] = job[x]
    BY <2>1 DEF TypeOK, NoPromotion
  <2>3. /\ doc'[d].stage = "completed" /\ doc'[d].scheme = doc[d].scheme
        /\ doc'[d].code = doc[d].code /\ doc'[d].disabled = doc[d].disabled
        /\ \A x \in Docs \ {d} : doc'[x] = doc[x]
    BY <2>1, StageWritten
  <2>4. Fine(d)' /\ OnlyAbout(d)
    BY <1>0, <2>1, <2>2, <2>3 DEF Fine, OnlyAbout, ForProd, Reached
  <2>5. WorkerAt' /\ ApiUpToDate'
    BY <2>1, <2>2, <2>3, WorkerStays, ApiStays
  <2> QED BY <2>4, <2>5, FineElsewhere, ServedNext
<1> QED BY <1>1, <1>2, <1>3

LEMMA PromotionServes ==
  ASSUME TypeOK, ActShape, ServedInv, NEW d \in Docs,
         PrepareRecords(d) \/ SendRecords(d) \/ AttemptFails(d)
  PROVE  ServedInv'
<1>0. Fine(d) /\ job[d] \in Promotion
  BY FineEach DEF TypeOK
<1>1. CASE PrepareRecords(d)
  <2>1. /\ job[d].step = "reading" /\ doc' = doc /\ prod' = prod /\ astray' = astray /\ act' = act
        /\ job' = [job EXCEPT ![d] =
             [step |-> "sending", code |-> IF doc[d].scheme THEN doc[d].code ELSE NoCode]]
    BY <1>1 DEF PrepareRecords, rowVars
  <2>2. /\ job'[d].step = "sending"
        /\ job'[d].code = (IF doc[d].scheme THEN doc[d].code ELSE NoCode)
        /\ \A x \in Docs \ {d} : job'[x] = job[x]
    BY <2>1 DEF TypeOK
  <2>3. Fine(d)' /\ OnlyAbout(d)
    BY <1>0, <2>1, <2>2 DEF Fine, OnlyAbout, ForProd, Reached
  <2>4. WorkerAt' /\ ApiUpToDate'
    BY <2>1, <2>2, WorkerStays, ApiStays
  <2> QED BY <2>3, <2>4, FineElsewhere, ServedNext
<1>2. CASE SendRecords(d)
  <2>1. job[d].step = "sending" /\ doc' = doc /\ act' = act
    BY <1>2 DEF SendRecords
  <2>2. job'[d].step \in {"updating", "closing"} /\ \A x \in Docs \ {d} : job'[x] = job[x]
    BY <1>2 DEF SendRecords, TypeOK, Promotion
  <2>3. doc[d].stage = "ingesting_prod"
    BY <1>0, <2>1 DEF Fine
  <2>4. OnlyAbout(d)
    BY <1>2, <2>1, <2>2 DEF SendRecords, OnlyAbout, TypeOK
  <2>5. ForProd(d) => (prod'[d] = doc[d].code \/ d \in astray')
    <3> SUFFICES ASSUME ForProd(d), d \notin astray' PROVE prod'[d] = doc[d].code
      OBVIOUS
    <3>1. doc[d].scheme /\ doc[d].code # NoCode
      BY DEF ForProd
    <3>2. CASE job[d].code = doc[d].code
      <4>1. prod' = [prod EXCEPT ![d] = job[d].code]
        BY <1>2, <3>1, <3>2 DEF SendRecords
      <4> QED BY <3>2, <4>1 DEF TypeOK
    <3>3. CASE job[d].code # doc[d].code
      <4>1. d \in astray
        BY <1>0, <2>1, <3>1, <3>3 DEF Fine
      <4>2. d \in astray'
        BY <1>2, <3>3, <4>1 DEF SendRecords
      <4> QED BY <4>2
    <3> QED BY <3>2, <3>3
  <2>6. Fine(d)'
    BY <2>1, <2>2, <2>3, <2>5 DEF Fine, ForProd, Reached
  <2>7. WorkerAt' /\ ApiUpToDate'
    BY <2>1, <2>2, WorkerStays, ApiStays
  <2> QED BY <2>4, <2>6, <2>7, FineElsewhere, ServedNext
<1>3. CASE AttemptFails(d)
  <2>1. /\ job[d].step \in {"reading", "sending", "closing"}
        /\ act' = act /\ astray' = astray /\ \A x \in Docs \ {d} : prod'[x] = prod[x]
    BY <1>3 DEF AttemptFails, TypeOK
  <2>2. doc[d].stage = "ingesting_prod"
    BY <1>0, <2>1 DEF Fine
  <2>3. \/ job' = [job EXCEPT ![d] = [NoPromotion EXCEPT !.step = "reading"]] /\ doc' = doc
        \/ /\ job' = [job EXCEPT ![d] = NoPromotion]
           /\ WriteRow(d, [doc[d] EXCEPT !.stage = "failed"])
    BY <1>3 DEF AttemptFails
  <2>4. CASE job' = [job EXCEPT ![d] = [NoPromotion EXCEPT !.step = "reading"]] /\ doc' = doc
    <3>1. job'[d].step = "reading" /\ \A x \in Docs \ {d} : job'[x] = job[x]
      BY <2>4 DEF TypeOK, NoPromotion
    <3>2. Fine(d)' /\ OnlyAbout(d)
      BY <2>1, <2>2, <2>4, <3>1 DEF Fine, OnlyAbout
    <3>3. WorkerAt' /\ ApiUpToDate'
      BY <2>1, <2>4, <3>1, WorkerStays, ApiStays
    <3> QED BY <3>2, <3>3, FineElsewhere, ServedNext
  <2>5. CASE /\ job' = [job EXCEPT ![d] = NoPromotion]
             /\ WriteRow(d, [doc[d] EXCEPT !.stage = "failed"])
    <3>1. job'[d].step = "none" /\ \A x \in Docs \ {d} : job'[x] = job[x]
      BY <2>5 DEF TypeOK, NoPromotion
    <3>2. /\ doc'[d].stage = "failed" /\ doc'[d].disabled = doc[d].disabled
          /\ \A x \in Docs \ {d} : doc'[x] = doc[x]
      BY <2>5, StageWritten
    <3>3. Fine(d)' /\ OnlyAbout(d)
      BY <2>1, <3>1, <3>2 DEF Fine, OnlyAbout
    <3>4. WorkerAt' /\ ApiUpToDate'
      BY <2>1, <2>2, <3>1, <3>2, WorkerStays, ApiStays
    <3> QED BY <3>3, <3>4, FineElsewhere, ServedNext
  <2> QED BY <2>3, <2>4, <2>5
<1> QED BY <1>1, <1>2, <1>3

\* The worker comes to the catalog, clears the flag, and is through with it.
LEMMA UpdateServes ==
  ASSUME TypeOK, ActShape, ServedInv, (\E d \in Docs : OnPromoted(d)) \/ ClearFlag
  PROVE  ServedInv'
<1>1. ASSUME NEW d \in Docs, OnPromoted(d) PROVE ServedInv'
  <2>0. Fine(d) /\ job[d] \in Promotion
    BY FineEach DEF TypeOK
  <2>1. /\ job[d].step = "updating" /\ act["worker"].pc = "idle"
        /\ doc' = doc /\ prod' = prod /\ astray' = astray
    BY <1>1 DEF OnPromoted, rowVars
  <2>2. CASE doc[d].scheme
    <3>1. job' = job /\ Do("worker", [Idle EXCEPT !.doc = d,
                            !.pc = IF doc[d].reindex THEN "clear" ELSE "scan"])
      BY <1>1, <2>2 DEF OnPromoted
    <3>2. /\ act'["worker"] = [Idle EXCEPT !.doc = d,
                                !.pc = IF doc[d].reindex THEN "clear" ELSE "scan"]
          /\ act'["api"] = act["api"]
      BY <3>1, Doing DEF Actors
    <3>3. act'["worker"].doc = d
      BY <3>2 DEF Idle
    <3>4. WorkerAt' /\ ApiUpToDate'
      BY <2>1, <3>1, <3>2, <3>3, ApiStays DEF WorkerAt
    <3> QED BY <2>1, <3>1, <3>4, FineStill, ServedNext
  <2>3. CASE ~doc[d].scheme
    <3>1. job' = [job EXCEPT ![d].step = "closing"] /\ act' = act
      BY <1>1, <2>3 DEF OnPromoted
    <3>2. job'[d].step = "closing" /\ \A x \in Docs \ {d} : job'[x] = job[x]
      BY <2>0, <3>1 DEF TypeOK, Promotion
    <3>3. Fine(d)' /\ OnlyAbout(d)
      BY <2>0, <2>1, <3>2 DEF Fine, OnlyAbout, ForProd, Reached
    <3>4. WorkerAt' /\ ApiUpToDate'
      BY <2>1, <3>1, ApiStays DEF WorkerAt
    <3> QED BY <3>3, <3>4, FineElsewhere, ServedNext
  <2> QED BY <2>2, <2>3
<1>2. CASE ClearFlag
  <2>1. PICK d : d \in Docs /\ d = act["worker"].doc
    BY <1>2 DEF ClearFlag, ActShape
  <2>2. /\ act["worker"].pc = "clear" /\ job' = job /\ prod' = prod /\ astray' = astray
        /\ WriteRow(d, [doc[d] EXCEPT !.reindex = FALSE])
        /\ Do("worker", [act["worker"] EXCEPT !.pc = "scan"])
    BY <1>2, <2>1 DEF ClearFlag, promotionVars
  <2>3. Fine(d) /\ job[d].step = "updating"
    BY <2>1, <2>2, FineEach DEF WorkerAt
  <2>4. /\ doc'[d].stage = doc[d].stage /\ doc'[d].scheme = doc[d].scheme
        /\ doc'[d].code = doc[d].code /\ doc'[d].disabled = doc[d].disabled
        /\ \A x \in Docs \ {d} : doc'[x] = doc[x]
    BY <2>1, <2>2, FlagWritten
  <2>5. Fine(d)' /\ OnlyAbout(d)
    BY <2>2, <2>3, <2>4 DEF Fine, OnlyAbout, ForProd, Reached
  <2>6. /\ act'["worker"] = [act["worker"] EXCEPT !.pc = "scan"]
        /\ act'["api"] = act["api"]
    BY <2>2, Doing DEF Actors
  <2>7. act'["worker"].doc = d
    BY <2>1, <2>6, FromIdle DEF Action
  <2>8. WorkerAt' /\ ApiUpToDate'
    BY <2>1, <2>2, <2>3, <2>4, <2>6, <2>7, ApiStays DEF WorkerAt
  <2> QED BY <2>1, <2>5, <2>8, FineElsewhere, ServedNext
<1> QED BY <1>1, <1>2

\* A rebuild goes on, ends, or is given up. The worker's takes its promotion to
\* closing then, or back to reading.
LEMMA RebuildServes ==
  ASSUME TypeOK, ActShape, ServedInv, NEW a \in Actors, Rebuilding(a) \/ Interrupted(a)
  PROVE  ServedInv'
<1>1. doc' = doc /\ prod' = prod /\ astray' = astray
  BY DEF Rebuilding, Scan, WriteEntry, ReadEntries, BumpVersion, Interrupted,
         rowVars, promotionVars
<1>2. \A b \in Actors : act[b] \in Action
  BY DEF TypeOK
<1>3. PICK r : /\ Do(a, r) /\ r.pc \notin {"patch", "delete"}
               /\ \/ r.pc = "idle"
                  \/ r.doc = act[a].doc /\ act[a].pc # "idle" /\ job' = job
  <2>1. CASE Scan(a)
    <3> DEFINE plan == {<<c, GroupEntry(c)>> : c \in Carried}
               r == [act[a] EXCEPT !.pc = "write", !.carried = Carried, !.todo = plan]
    <3>1. Do(a, r) /\ act[a].pc = "scan" /\ job' = job
      BY <2>1 DEF Scan, promotionVars
    <3> HIDE DEF plan
    <3>2. r.pc = "write" /\ r.doc = act[a].doc
      BY <1>2 DEF Action
    <3> HIDE DEF r
    <3> QED BY <3>1, <3>2
  <2>2. CASE WriteEntry(a)
    <3>1. PICK e \in act[a].todo : Do(a, [act[a] EXCEPT !.todo = @ \ {e}])
      BY <2>2 DEF WriteEntry
    <3> DEFINE r == [act[a] EXCEPT !.todo = @ \ {e}]
    <3>2. r.pc = act[a].pc /\ r.doc = act[a].doc
      BY <1>2 DEF Action
    <3>3. act[a].pc \in Writing /\ job' = job
      BY <2>2, <3>1 DEF WriteEntry, ActShape, promotionVars
    <3>4. Do(a, r)
      BY <3>1
    <3> HIDE DEF r
    <3> QED BY <3>2, <3>3, <3>4 DEF Writing
  <2>3. CASE ReadEntries(a)
    <3> DEFINE plan == LeftOver(act[a].carried)
               r == [act[a] EXCEPT !.pc = "rest", !.todo = plan]
    <3>1. Do(a, r) /\ act[a].pc = "write" /\ job' = job
      BY <2>3 DEF ReadEntries, promotionVars
    <3> HIDE DEF plan
    <3>2. r.pc = "rest" /\ r.doc = act[a].doc
      BY <1>2 DEF Action
    <3> HIDE DEF r
    <3> QED BY <3>1, <3>2
  <2>4. CASE BumpVersion(a) \/ Interrupted(a)
    BY <2>4 DEF BumpVersion, Interrupted, Idle
  <2> QED BY <2>1, <2>2, <2>3, <2>4 DEF Rebuilding
<1>4. act'[a] = r /\ \A b \in Actors \ {a} : act'[b] = act[b]
  BY <1>3, Doing
<1>5. ApiUpToDate'
  <2>1. CASE a = "api"
    BY <1>3, <1>4, <2>1 DEF ApiUpToDate
  <2>2. CASE a = "worker"
    BY <1>1, <1>4, <2>2, ApiStays DEF Actors
  <2> QED BY <2>1, <2>2 DEF Actors
<1>6. CASE job' = job
  <2>1. WorkerAt'
    <3>1. CASE a = "api"
      BY <1>4, <1>6, <3>1, WorkerStays DEF Actors
    <3>2. CASE a = "worker"
      BY <1>3, <1>4, <1>6, <3>2, FineEach DEF WorkerAt
    <3> QED BY <3>1, <3>2 DEF Actors
  <2> QED BY <1>1, <1>5, <1>6, <2>1, FineStill, ServedNext
<1>7. CASE job' # job
  <2>1. (BumpVersion(a) \/ Interrupted(a)) /\ a = "worker"
    <3>1. BumpVersion(a) \/ Interrupted(a)
      BY <1>7 DEF Rebuilding, Scan, WriteEntry, ReadEntries, promotionVars
    <3> QED BY <1>7, <3>1 DEF BumpVersion, Interrupted, Updated
  <2>2. PICK d : d \in Docs /\ d = act["worker"].doc /\ job[d].step = "updating"
    BY <2>1, FineEach DEF BumpVersion, Interrupted, WorkerAt
  <2>3. Fine(d) /\ job[d] \in Promotion
    BY <2>2, FineEach DEF TypeOK
  <2>4. \/ job' = [job EXCEPT ![d] = [@ EXCEPT !.step = "closing"]]
        \/ job' = [job EXCEPT ![d] = [NoPromotion EXCEPT !.step = "reading"]]
    BY <2>1, <2>2 DEF BumpVersion, Interrupted, Updated
  <2>5. /\ job'[d].step \in {"closing", "reading"}
        /\ \A x \in Docs \ {d} : job'[x] = job[x]
    BY <2>2, <2>3, <2>4 DEF TypeOK, Promotion, NoPromotion
  <2>6. Fine(d)' /\ OnlyAbout(d)
    BY <1>1, <2>2, <2>3, <2>5 DEF Fine, OnlyAbout, ForProd, Reached
  <2>7. WorkerAt'
    <3>1. act'["worker"] = Idle
      BY <2>1, Doing DEF BumpVersion, Interrupted
    <3> QED BY <3>1 DEF WorkerAt, Idle
  <2> QED BY <1>5, <2>2, <2>6, <2>7, FineElsewhere, ServedNext
<1> QED BY <1>6, <1>7

LEMMA ServedSteps ==
  ASSUME TypeOK, ActShape, ServedInv, [Next]_vars
  PROVE  ServedInv'
<1>1. CASE ApiStep
  BY <1>1, ApiRowRequestsServe, PatchServes, ApiRestServes DEF ApiStep
<1>2. CASE WorkerStep
  BY <1>2, WorkerRowsServe, PromotionServes, UpdateServes DEF WorkerStep
<1>3. CASE \E a \in Actors : Rebuilding(a) \/ Interrupted(a)
  BY <1>3, RebuildServes
<1>4. CASE UNCHANGED vars
  <2>1. doc' = doc /\ job' = job /\ prod' = prod /\ astray' = astray /\ act' = act
    BY <1>4 DEF vars
  <2>2. WorkerAt' /\ ApiUpToDate'
    BY <2>1, WorkerStays, ApiStays
  <2> QED BY <2>1, <2>2, FineStill, ServedNext
<1> QED BY <1>1, <1>2, <1>3, <1>4 DEF Next

LEMMA ServedInit == Init => ServedInv
<1> SUFFICES ASSUME Init PROVE ServedInv
  OBVIOUS
<1>1. \A d \in Docs : doc[d].stage = "draft" /\ job[d].step = "none"
  BY DEF Init, NoPromotion
<1>2. \A a \in Actors : act[a].pc = "idle"
  BY DEF Init, Idle
<1> QED BY <1>1, <1>2 DEF ServedInv, PromotionsShown, ApiUpToDate, ServedUnlessFlagged, Actors

\* The inductive invariants of both: a rebuild that nothing was written beside
\* has in hand, or has written, what the rows demand; and a promotion sends the
\* code its document has unless the document strays.
THEOREM SchemeInvariant == Spec => []SchemeInv
<1> DEFINE Inv == IInv /\ RebuildInv /\ ServedInv
<1>1. Init => Inv
  BY Starts, RebuildInit, ServedInit
<1>2. Inv /\ [Next]_vars => Inv'
  <2> SUFFICES ASSUME Inv, [Next]_vars PROVE Inv'
    OBVIOUS
  <2>1. IInv'
    BY IInvSteps
  <2>2. TypeOK /\ ActShape
    BY DEF IInv
  <2> QED BY <2>1, <2>2, RebuildSteps, ServedSteps
<1>3. Inv => SchemeInv
  BY DEF IInv, SchemeInv
<1> HIDE DEF Inv
<1> QED BY <1>1, <1>2, <1>3, PTL DEF Spec

\* When the catalog is in order, each of a listed code's documents has its points
\* in PROD under that code, or has strayed: for any number of promotions,
\* renames, removals and interruptions of the two processes.
THEOREM ListedIsServed == Spec => []LiveIsServed
<1>1. SchemeInv => LiveIsServed
  <2> SUFFICES ASSUME SchemeInv, settled, NEW c \in Listed, entries[c].source # "bootstrap"
               PROVE  \E d \in entries[c].docs : prod[d] = c \/ d \in astray
    BY DEF LiveIsServed
  <2>1. CatalogByRule
    BY RuleFollows DEF SchemeInv
  <2>2. c \in Codes /\ c # NoCode
    BY CodesAssumption DEF Listed
  <2> DEFINE members == {d \in Docs : Member(d, c)}
  <2>3. /\ entries[c].docs = members
        /\ members # {} /\ \A d \in members : ~doc[d].reindex
    BY <2>1, <2>2 DEF CatalogByRule
  <2>4. PICK d \in members : TRUE
    BY <2>3
  <2>5. /\ d \in Docs /\ doc[d].code = c /\ doc[d].stage = "completed"
        /\ ForProd(d) /\ ~doc[d].reindex
    BY <2>2, <2>3 DEF Member, ForProd
  <2>6. Reached(d)
    BY <2>5 DEF SchemeInv, ServedInv, ServedUnlessFlagged
  <2> QED BY <2>3, <2>5, <2>6 DEF Reached
<1> QED BY <1>1, SchemeInvariant, PTL
=============================================================================
