--------------------------- MODULE MasterCatalog ----------------------------
(***************************************************************************)
(* The master catalog: one row for each code in Postgres, and two          *)
(* snapshots of the rows in Redis, which is all the AI layer sees.         *)
(*                                                                         *)
(* The activities that fill DEV and PROD and the removal of a document each *)
(* make one call of sync_catalog_entry or remove_catalog_entry, in a thread *)
(* of their own. Every statement of a call commits by itself, and nothing  *)
(* keeps two calls apart.                                                  *)
(*                                                                         *)
(* writes, done, shown, settled, overtaken and strayed are history         *)
(* variables.                                                              *)
(***************************************************************************)
EXTENDS Naturals

CONSTANTS
  Docs,       \* documents
  Codes,      \* scheme codes
  Calls,      \* calls that may be at work at once
  MaxOps,     \* calls and renames
  MaxFaults,  \* calls that do not come to their end
  NoCode,     \* a document that has no scheme code
  Purged,     \* a document that has no row any more
  NoDoc       \* nobody's

ASSUME KeysAssumption ==
  /\ Codes \cap Docs = {} /\ NoDoc \notin Docs \cup Codes
  /\ {NoCode, Purged} \cap (Docs \cup Codes) = {} /\ NoCode # Purged
ASSUME LimitsAssumption == MaxOps \in Nat /\ MaxFaults \in Nat

VARIABLES
  code,      \* the documents rows: their scheme_code
  rows,      \* the table master_catalog
  version,   \* master_catalog_meta
  redis,     \* the snapshots
  call,      \* the calls at work
  ops,       \* operations so far
  faults,    \* faults so far
  writes,    \* history: how often the table was written
  done,      \* history: the write that each version was made for
  shown,     \* history: where a document was synced since it was removed
  settled,   \* history: the snapshots were written beside no other call
  overtaken, \* history: calls beside which something was written
  strayed    \* history: documents whose row is not under their code alone

bookVars == <<writes, done, shown, strayed>>
limitVars == <<ops, faults>>
vars == <<code, rows, version, redis, call, ops, faults,
          writes, done, shown, settled, overtaken, strayed>>

-----------------------------------------------------------------------------
Tiers == {"dev", "live"}
Keys == Codes \cup Docs

Row == [status : SUBSET Tiers, doc : Docs \cup {NoDoc}]
NoRow == [status |-> {}, doc |-> NoDoc]

Entry == [key : Keys, doc : Docs]

\* asof is history: what had been written when the rows were read.
Snapshot == [version : Nat, entries : SUBSET Entry, asof : Nat]
NoSnapshot == [version |-> 0, entries |-> {}, asof |-> 0]

CallRecord ==
  [pc : {"idle", "find", "write", "bump", "read", "push", "purge"},
   op : {"none", "dev", "live", "remove", "purge"},
   doc : Docs \cup {NoDoc}, key : Keys \cup {NoDoc}, tier : Tiers,
   num : Nat, write : Nat, entries : SUBSET Entry, asof : Nat]
Idle == [pc |-> "idle", op |-> "none", doc |-> NoDoc, key |-> NoDoc, tier |-> "dev",
         num |-> 0, write |-> 0, entries |-> {}, asof |-> 0]

\* The only type invariant of this module.
TypeOK ==
  /\ code \in [Docs -> Codes \cup {NoCode, Purged}]
  /\ rows \in [Keys -> Row]
  /\ version \in Nat
  /\ redis \in [Tiers -> Snapshot]
  /\ call \in [Calls -> CallRecord]
  /\ ops \in 0..MaxOps /\ faults \in 0..MaxFaults
  /\ writes \in Nat /\ done \in [1..version -> Nat]
  /\ shown \in [Docs -> SUBSET Tiers]
  /\ settled \in BOOLEAN
  /\ overtaken \subseteq Calls /\ strayed \subseteq Docs

Init ==
  /\ code \in [Docs -> Codes \cup {NoCode}]
  /\ rows = [k \in Keys |-> NoRow]
  /\ version = 0
  /\ redis = [t \in Tiers |-> NoSnapshot]
  /\ call = [c \in Calls |-> Idle]
  /\ ops = 0 /\ faults = 0
  /\ writes = 0 /\ done = [v \in 1..0 |-> 0]
  /\ shown = [d \in Docs |-> {}]
  /\ settled = FALSE
  /\ overtaken = {} /\ strayed = {}

-----------------------------------------------------------------------------
\* (defect) a removal looks for the id of the document first.
Key_ofRemoval(d, op) ==
  IF code[d] \in Codes /\ op \in Tiers THEN code[d] ELSE d

\* The key of a document's row: its code, or else its own id.
Key(d, op) == IF code[d] \in Codes THEN code[d] ELSE d

Present == {k \in Keys : rows[k].status # {}}
RowsOf(d) == {k \in Present : rows[k].doc = d}

\* Testers see what is live, too.
Included(t) == IF t = "dev" THEN Tiers ELSE {"live"}

Fetched(t) ==
  {[key |-> k, doc |-> rows[k].doc] : k \in {p \in Keys : rows[p].status \cap Included(t) # {}}}

\* (defect) the tier replaces those of before.
Accumulated_last(k, tier) == {tier}

Accumulated(k, tier) == rows[k].status \cup {tier}

Step(c, record) == call' = [call EXCEPT ![c] = record]

\* A call is over; a purge goes on to delete the row of the document.
Ended(c) == IF call[c].op = "purge" THEN [call[c] EXCEPT !.pc = "purge"] ELSE Idle

\* Whatever is written into the table is too late for a snapshot at work.
Written(c) ==
  /\ settled' = FALSE
  /\ overtaken' = overtaken \cup (Calls \ {c})
  /\ writes' = writes + 1
  /\ Step(c, [call[c] EXCEPT !.pc = "bump", !.write = writes + 1])

\* An activity has sent its points, or an administrator removes a document.
\* Only a scheme's points in PROD are told to the catalog.
Begin(c) ==
  \E d \in Docs, op \in {"dev", "live", "remove", "purge"} :
    /\ call[c].pc = "idle" /\ code[d] # Purged
    /\ op = "live" => code[d] \in Codes
    /\ ops < MaxOps /\ ops' = ops + 1
    /\ Step(c, [Idle EXCEPT !.pc = "find", !.op = op, !.doc = d])
    /\ UNCHANGED <<code, rows, version, redis, faults, bookVars, settled, overtaken>>

\* db.get_document. A removal goes by the workflow id when the row is gone.
Find(c) ==
  /\ call[c].pc = "find"
  /\ LET d == call[c].doc
     IN Step(c, IF code[d] # Purged
                THEN [call[c] EXCEPT !.pc = "write", !.key = Key(d, call[c].op)]
                ELSE IF call[c].op \in Tiers THEN Idle
                ELSE [call[c] EXCEPT !.pc = "write"])
  /\ UNCHANGED <<code, rows, version, redis, limitVars, bookVars, settled, overtaken>>

Upsert(c) ==
  /\ call[c].pc = "write" /\ call[c].op \in Tiers
  /\ LET d == call[c].doc
         k == call[c].key
     IN /\ rows' = [rows EXCEPT ![k] = [status |-> Accumulated(k, call[c].op), doc |-> d]]
        /\ shown' = [shown EXCEPT ![d] = @ \cup {call[c].op}]
        /\ strayed' = IF k \in Present /\ rows[k].doc # d
                      THEN strayed \cup {d, rows[k].doc} ELSE strayed
  /\ Written(c)
  /\ UNCHANGED <<code, version, redis, limitVars, done>>

\* Without a row there is nothing to do, not even for the snapshots.
Delete(c) ==
  /\ call[c].pc = "write" /\ call[c].op \in {"remove", "purge"}
  /\ LET d == call[c].doc
         k == call[c].key
         gone == IF k = NoDoc THEN RowsOf(d) ELSE {k} \cap Present
     IN /\ rows' = [p \in Keys |-> IF p \in gone THEN NoRow ELSE rows[p]]
        /\ shown' = [shown EXCEPT ![d] = {}]
        /\ strayed' = strayed \cup ({rows[p].doc : p \in gone} \ {d})
        /\ IF gone = {}
           THEN Step(c, Ended(c)) /\ UNCHANGED <<writes, settled, overtaken>>
           ELSE Written(c)
  /\ UNCHANGED <<code, version, redis, limitVars, done>>

Bump(c) ==
  /\ call[c].pc = "bump"
  /\ version' = version + 1
  /\ done' = [v \in 1..(version + 1) |-> IF v = version + 1 THEN call[c].write ELSE done[v]]
  /\ Step(c, [call[c] EXCEPT !.pc = "read", !.num = version + 1])
  /\ UNCHANGED <<code, rows, redis, limitVars, writes, shown, settled, overtaken, strayed>>

\* _push_snapshots_to_redis: the tiers one after the other, each read and set.
ReadRows(c) ==
  /\ call[c].pc = "read"
  /\ Step(c, [call[c] EXCEPT !.pc = "push", !.entries = Fetched(call[c].tier), !.asof = writes])
  /\ overtaken' = IF call[c].tier = "dev" THEN overtaken \ {c} ELSE overtaken
  /\ UNCHANGED <<code, rows, version, redis, limitVars, bookVars, settled>>

\* (defect) the version is asked for when the snapshot is sent.
Numbered_late(c) == version

Numbered(c) == call[c].num

\* (defect) the tiers have one key.
Target_shared(c) == "live"

Target(c) == call[c].tier

Push(c) ==
  /\ call[c].pc = "push"
  /\ redis' = [redis EXCEPT ![Target(c)] =
       [version |-> Numbered(c), entries |-> call[c].entries, asof |-> call[c].asof]]
  /\ IF call[c].tier = "dev"
     THEN /\ Step(c, [call[c] EXCEPT !.pc = "read", !.tier = "live"])
          /\ settled' = FALSE
     ELSE /\ Step(c, Ended(c))
          /\ settled' = (c \notin overtaken)
  /\ overtaken' = overtaken \cup (Calls \ {c})
  /\ UNCHANGED <<code, rows, version, limitVars, bookVars>>

\* purge_document
PurgeRow(c) ==
  /\ call[c].pc = "purge"
  /\ code' = [code EXCEPT ![call[c].doc] = Purged]
  /\ Step(c, Idle)
  /\ UNCHANGED <<rows, version, redis, limitVars, bookVars, settled, overtaken>>

\* Postgres or Redis raises, which the caller swallows, or the process stops.
Stops(c) ==
  /\ call[c].pc # "idle"
  /\ faults < MaxFaults /\ faults' = faults + 1
  /\ \/ Step(c, Idle)
     \/ call[c].pc # "purge" /\ Step(c, Ended(c))
  /\ UNCHANGED <<code, rows, version, redis, ops, bookVars, settled, overtaken>>

\* apply_scheme_metadata changes the code of a document and not the catalog.
Rename(d) ==
  /\ code[d] # Purged
  /\ ops < MaxOps /\ ops' = ops + 1
  /\ \E k \in (Codes \cup {NoCode}) \ {code[d]} : code' = [code EXCEPT ![d] = k]
  /\ strayed' = IF RowsOf(d) # {} \/ \E c \in Calls : call[c].doc = d
                THEN strayed \cup {d} ELSE strayed
  /\ UNCHANGED <<rows, version, redis, call, faults, writes, done, shown, settled, overtaken>>

\* The time to live of a snapshot runs out.
Expire(t) ==
  /\ redis[t] # NoSnapshot
  /\ redis' = [redis EXCEPT ![t] = NoSnapshot]
  /\ settled' = FALSE /\ overtaken' = Calls
  /\ UNCHANGED <<code, rows, version, call, limitVars, bookVars>>

CallStep(c) ==
  \/ Begin(c) \/ Find(c) \/ Upsert(c) \/ Delete(c) \/ Bump(c)
  \/ ReadRows(c) \/ Push(c) \/ PurgeRow(c) \/ Stops(c)

Next ==
  \/ \E c \in Calls : CallStep(c)
  \/ \E d \in Docs : Rename(d)
  \/ \E t \in Tiers : Expire(t)

Spec == Init /\ [][Next]_vars

-----------------------------------------------------------------------------
(* Properties *)

\* "The next catalog event repairs it": a call beside which nothing else was
\* written leaves both snapshots as the table is, whatever failed or was
\* overtaken before, and with the same version, so that "they never drift
\* relative to each other" (_push_snapshots_to_redis).
MirrorInOrder ==
  settled => /\ \A t \in Tiers : redis[t].entries = Fetched(t)
             /\ redis["dev"].version = redis["live"].version

\* The version of a snapshot can be trusted, also when calls overtake each
\* other: what was written under this version, or one before, was in the table
\* when the rows of the snapshot were read (sync_catalog_entry writes, then
\* raises the version, then reads).
SnapshotHasItsVersion ==
  \A t \in Tiers : \A v \in 1..version :
    v <= redis[t].version => done[v] <= redis[t].asof

\* What the table says by codes is true of the documents: in order, a snapshot
\* shows a document to testers if it was synced since it was removed, and to
\* users if it was promoted since, however it was synced afterwards. Exempt are
\* documents whose row lies under an old code or whose code is another's, too.
CatalogByDocument ==
  settled => \A t \in Tiers, d \in Docs \ strayed :
    (\E e \in redis[t].entries : e.doc = d) <=> shown[d] \cap Included(t) # {}

-----------------------------------------------------------------------------
(* Why the snapshots are in order.                                         *)

\* A call comes to its snapshots with the one for testers.
TestersFirst ==
  \A c \in Calls : call[c].pc \in {"find", "write", "bump"} => call[c].tier = "dev"

\* What a call has read and sent so far is right as long as nothing else was
\* written beside it.
RightSoFar ==
  \A c \in Calls \ overtaken :
    /\ call[c].pc = "push" => call[c].entries = Fetched(call[c].tier)
    /\ call[c].pc \in {"read", "push"} /\ call[c].tier = "live" =>
         redis["dev"].entries = Fetched("dev") /\ redis["dev"].version = call[c].num

\* A document that has not strayed has its row under key k or none, and a call
\* that is about to write knows no other key. That is its code, or the one it
\* had when it was purged.
KeptUnder(d, k) ==
  /\ RowsOf(d) \subseteq {k}
  /\ shown[d] = (IF k \in RowsOf(d) THEN rows[k].status ELSE {})
  /\ \A c \in Calls :
       call[c].pc \in {"find", "write"} /\ call[c].doc = d => call[c].key \in {k, NoDoc}
  /\ code[d] # Purged => k = Key(d, "dev")

OneKeyEach == \A d \in Docs \ strayed : \E k \in Keys : KeptUnder(d, k)

\* Inductive, together with MirrorInOrder: the call that settles the snapshots
\* has read each of them from the table as it still is, and the table has each
\* document under one key, with the tiers it was synced for.
CatalogInv == TypeOK /\ TestersFirst /\ RightSoFar /\ OneKeyEach
=============================================================================
