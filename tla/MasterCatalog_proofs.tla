------------------------ MODULE MasterCatalog_proofs -------------------------
(***************************************************************************)
(* Types of MasterCatalog; that the version of a snapshot can be trusted;  *)
(* that a call nothing was written beside leaves the snapshots in order;   *)
(* and that they then tell of each document what is true of it: for any    *)
(* number of documents, codes, calls and faults.                           *)
(*                                                                         *)
(* TypeSteps goes through the steps for the types. What a step can do to   *)
(* versions, writes and snapshots is one of five moves (VersionMoves), and *)
(* their invariant is looked at only for these. The two others hold for    *)
(* every step by one argument where a step is calm (Calm) or lets table    *)
(* and keys rest (TableRests), and by one of their own where it is not.    *)
(***************************************************************************)
EXTENDS MasterCatalog, TLAPS

\* Only a row that is there has a document.
RowShape == \A k \in Keys : rows[k].status # {} => rows[k].doc \in Docs

\* A call at work is about a document, and knows the row it is about to write.
CallShape ==
  \A c \in Calls :
    /\ call[c].pc # "idle" => call[c].doc \in Docs /\ call[c].op # "none"
    /\ call[c].pc = "write" /\ call[c].op \in Tiers => call[c].key \in Keys

TypeInv == TypeOK /\ RowShape /\ CallShape

\* A version is made for a write that has happened.
VersionsWritten ==
  /\ \A v \in 1..version : done[v] <= writes
  /\ \A c \in Calls : call[c].pc = "bump" => call[c].write <= writes

\* Nobody has a version that is still to come.
VersionsTaken ==
  /\ \A t \in Tiers : redis[t].version <= version
  /\ \A c \in Calls : call[c].pc \in {"read", "push"} => call[c].num <= version

\* A call that sends its rows has read them after every write of its version
\* or one before: what SnapshotHasItsVersion says, said of the call.
RowsReadAfter ==
  \A c \in Calls : call[c].pc = "push" =>
    \A v \in 1..version : v <= call[c].num => done[v] <= call[c].asof

VersionInv == VersionsWritten /\ VersionsTaken /\ RowsReadAfter /\ SnapshotHasItsVersion

-----------------------------------------------------------------------------
(* Types                                                                   *)

LEMMA IdleTyped == Idle \in CallRecord
BY DEF Idle, CallRecord, Tiers

LEMMA NoSnapshotTyped == NoSnapshot \in Snapshot
BY DEF NoSnapshot, Snapshot

LEMMA NoRowTyped == NoRow \in Row
BY DEF NoRow, Row

LEMMA KeyTyped ==
  ASSUME NEW d \in Docs, NEW op
  PROVE  Key(d, op) \in Keys
BY DEF Key, Keys

LEMMA FetchedTyped ==
  ASSUME TypeInv, NEW t \in Tiers
  PROVE  Fetched(t) \subseteq Entry
BY DEF TypeInv, RowShape, Fetched, Entry

\* A call goes on with a record that has its type and is well shaped.
WellShaped(r) ==
  /\ r.pc # "idle" => r.doc \in Docs /\ r.op # "none"
  /\ r.pc = "write" /\ r.op \in Tiers => r.key \in Keys

LEMMA StepTyped ==
  ASSUME TypeInv, NEW c \in Calls, NEW r \in CallRecord, Step(c, r), WellShaped(r)
  PROVE  call' \in [Calls -> CallRecord] /\ CallShape'
BY DEF TypeInv, TypeOK, CallShape, Step, WellShaped

LEMMA EndedTyped ==
  ASSUME TypeInv, NEW c \in Calls, call[c].pc # "idle"
  PROVE  Ended(c) \in CallRecord /\ WellShaped(Ended(c))
<1>1. CASE call[c].op = "purge"
  <2>1. call[c] \in CallRecord
    BY DEF TypeInv, TypeOK
  <2>2. Ended(c) = [call[c] EXCEPT !.pc = "purge"]
    BY <1>1 DEF Ended
  <2>3. Ended(c) \in CallRecord
    BY <2>1, <2>2 DEF CallRecord
  <2>4. WellShaped(Ended(c))
    BY <2>1, <2>2 DEF TypeInv, CallShape, WellShaped, CallRecord
  <2> QED BY <2>3, <2>4
<1>2. CASE call[c].op # "purge"
  <2>1. Ended(c) = Idle
    BY <1>2 DEF Ended
  <2>2. WellShaped(Idle)
    BY DEF WellShaped, Idle
  <2> QED BY <2>1, <2>2, IdleTyped
<1> QED BY <1>1, <1>2

LEMMA CallGoesOn ==
  ASSUME NEW x \in CallRecord, NEW n \in Nat, NEW rowsRead \in SUBSET Entry,
         NEW k \in Keys \cup {NoDoc}
  PROVE  /\ [x EXCEPT !.pc = "write", !.key = k] \in CallRecord
         /\ [x EXCEPT !.pc = "write"] \in CallRecord
         /\ [x EXCEPT !.pc = "bump", !.write = n] \in CallRecord
         /\ [x EXCEPT !.pc = "read", !.num = n] \in CallRecord
         /\ [x EXCEPT !.pc = "push", !.entries = rowsRead, !.asof = n] \in CallRecord
         /\ [x EXCEPT !.pc = "read", !.tier = "live"] \in CallRecord
BY DEF CallRecord, Tiers

LEMMA WrittenTyped ==
  ASSUME TypeInv, NEW c \in Calls, Written(c), call[c].pc = "write"
  PROVE  /\ call' \in [Calls -> CallRecord] /\ CallShape'
         /\ settled' \in BOOLEAN /\ overtaken' \subseteq Calls /\ writes' \in Nat
<1> DEFINE r == [call[c] EXCEPT !.pc = "bump", !.write = writes + 1]
<1>1. call[c] \in CallRecord /\ writes + 1 \in Nat
  BY DEF TypeInv, TypeOK
<1>2. r \in CallRecord
  BY <1>1, CallGoesOn
<1>3. WellShaped(r)
  BY <1>1 DEF TypeInv, CallShape, WellShaped, CallRecord
<1>4. Step(c, r)
  BY DEF Written
<1>5. call' \in [Calls -> CallRecord] /\ CallShape'
  <2> HIDE DEF r
  <2> QED BY <1>2, <1>3, <1>4, StepTyped
<1>6. settled' \in BOOLEAN /\ writes' \in Nat
  BY <1>1 DEF Written
<1>7. overtaken' \subseteq Calls
  BY DEF Written, TypeInv, TypeOK
<1> QED BY <1>5, <1>6, <1>7

LEMMA TypeInit == Init => TypeInv
<1> SUFFICES ASSUME Init PROVE TypeInv
  OBVIOUS
<1>1. TypeOK
  <2>1. done \in [1..version -> Nat] /\ version \in Nat
    BY DEF Init
  <2>2. rows \in [Keys -> Row] /\ redis \in [Tiers -> Snapshot] /\ call \in [Calls -> CallRecord]
    BY NoRowTyped, NoSnapshotTyped, IdleTyped DEF Init
  <2>3. ops \in 0..MaxOps /\ faults \in 0..MaxFaults /\ writes \in Nat
    BY LimitsAssumption DEF Init
  <2>4. /\ code \in [Docs -> Codes \cup {NoCode, Purged}] /\ shown \in [Docs -> SUBSET Tiers]
        /\ settled \in BOOLEAN /\ overtaken \subseteq Calls /\ strayed \subseteq Docs
    BY DEF Init
  <2> QED BY <2>1, <2>2, <2>3, <2>4 DEF TypeOK
<1>2. RowShape
  BY DEF Init, RowShape, NoRow
<1>3. CallShape
  BY DEF Init, CallShape, Idle
<1> QED BY <1>1, <1>2, <1>3 DEF TypeInv

LEMMA BeginTyped ==
  ASSUME TypeInv, NEW c \in Calls, Begin(c)
  PROVE  TypeInv'
<1>1. PICK d \in Docs, op \in {"dev", "live", "remove", "purge"} :
        /\ ops < MaxOps /\ ops' = ops + 1
        /\ Step(c, [Idle EXCEPT !.pc = "find", !.op = op, !.doc = d])
  BY DEF Begin
<1>2. UNCHANGED <<code, rows, version, redis, faults, bookVars, settled, overtaken>>
  BY DEF Begin
<1> DEFINE r == [Idle EXCEPT !.pc = "find", !.op = op, !.doc = d]
<1>3. r \in CallRecord /\ WellShaped(r)
  BY DEF Idle, CallRecord, WellShaped, Tiers
<1>4. call' \in [Calls -> CallRecord] /\ CallShape'
  <2> HIDE DEF r
  <2>1. Step(c, r)
    BY <1>1 DEF r
  <2> QED BY <1>3, <2>1, StepTyped
<1>5. ops' \in 0..MaxOps
  BY <1>1, LimitsAssumption DEF TypeInv, TypeOK
<1> QED BY <1>2, <1>4, <1>5 DEF TypeInv, TypeOK, RowShape, bookVars

LEMMA FindTyped ==
  ASSUME TypeInv, NEW c \in Calls, Find(c)
  PROVE  TypeInv'
<1> DEFINE d == call[c].doc
           found == [call[c] EXCEPT !.pc = "write", !.key = Key(d, call[c].op)]
           missing == [call[c] EXCEPT !.pc = "write"]
           r == IF code[d] # Purged THEN found ELSE IF call[c].op \in Tiers THEN Idle ELSE missing
<1>1. call[c] \in CallRecord /\ d \in Docs /\ call[c].op # "none"
  BY DEF Find, TypeInv, TypeOK, CallShape
<1>2. found \in CallRecord /\ WellShaped(found)
  <2>1. Key(d, call[c].op) \in Keys
    BY <1>1, KeyTyped
  <2>2. found \in CallRecord
    BY <1>1, <2>1, CallGoesOn
  <2> QED BY <1>1, <2>1, <2>2 DEF WellShaped, CallRecord
<1>3. missing \in CallRecord /\ (call[c].op \notin Tiers => WellShaped(missing))
  <2>1. missing \in CallRecord
    BY <1>1, CallGoesOn
  <2> QED BY <1>1, <2>1 DEF WellShaped, CallRecord
<1>4. r \in CallRecord /\ WellShaped(r)
  <2>1. WellShaped(Idle)
    BY DEF WellShaped, Idle
  <2> HIDE DEF found, missing
  <2> QED BY <1>2, <1>3, <2>1, IdleTyped
<1>5. Step(c, r)
  BY DEF Find
<1>6. call' \in [Calls -> CallRecord] /\ CallShape'
  <2> HIDE DEF r
  <2> QED BY <1>4, <1>5, StepTyped
<1> QED BY <1>6 DEF Find, TypeInv, TypeOK, RowShape, bookVars, limitVars

LEMMA UpsertTyped ==
  ASSUME TypeInv, NEW c \in Calls, Upsert(c)
  PROVE  TypeInv'
<1> DEFINE d == call[c].doc
           k == call[c].key
<1>1. d \in Docs /\ k \in Keys /\ call[c].op \in Tiers /\ call[c].pc = "write" /\ Written(c)
  BY DEF Upsert, TypeInv, CallShape
<1>2. rows' \in [Keys -> Row] /\ RowShape'
  <2>1. [status |-> Accumulated(k, call[c].op), doc |-> d] \in Row
    BY <1>1 DEF Accumulated, Row, TypeInv, TypeOK
  <2>2. rows' = [rows EXCEPT ![k] = [status |-> Accumulated(k, call[c].op), doc |-> d]]
    BY DEF Upsert
  <2> QED BY <1>1, <2>1, <2>2 DEF TypeInv, TypeOK, RowShape
<1>3. shown' \in [Docs -> SUBSET Tiers]
  <2>1. shown' = [shown EXCEPT ![d] = @ \cup {call[c].op}]
    BY DEF Upsert
  <2> QED BY <1>1, <2>1 DEF TypeInv, TypeOK
<1>4. strayed' \subseteq Docs
  <2>1. k \in Present => rows[k].doc \in Docs
    BY <1>1 DEF Present, TypeInv, RowShape
  <2> QED BY <1>1, <2>1 DEF Upsert, TypeInv, TypeOK
<1>5. /\ call' \in [Calls -> CallRecord] /\ CallShape'
      /\ settled' \in BOOLEAN /\ overtaken' \subseteq Calls /\ writes' \in Nat
  BY <1>1, WrittenTyped
<1> QED BY <1>2, <1>3, <1>4, <1>5 DEF Upsert, TypeInv, TypeOK, limitVars

LEMMA DeleteTyped ==
  ASSUME TypeInv, NEW c \in Calls, Delete(c)
  PROVE  TypeInv'
<1> DEFINE d == call[c].doc
           k == call[c].key
           gone == IF k = NoDoc THEN RowsOf(d) ELSE {k} \cap Present
<1>1. d \in Docs /\ call[c].pc = "write" /\ gone \subseteq Present
  BY DEF Delete, TypeInv, CallShape, RowsOf
<1>2. rows' \in [Keys -> Row] /\ RowShape'
  <2>1. rows' = [p \in Keys |-> IF p \in gone THEN NoRow ELSE rows[p]]
    BY DEF Delete
  <2>2. NoRow.status = {}
    BY DEF NoRow
  <2> HIDE DEF gone
  <2> QED BY <2>1, <2>2, NoRowTyped DEF TypeInv, TypeOK, RowShape
<1>3. shown' \in [Docs -> SUBSET Tiers]
  <2>1. shown' = [shown EXCEPT ![d] = {}]
    BY DEF Delete
  <2> QED BY <1>1, <2>1 DEF TypeInv, TypeOK
<1>4. strayed' \subseteq Docs
  <2>1. strayed' = strayed \cup ({rows[p].doc : p \in gone} \ {d})
    BY DEF Delete
  <2>2. \A p \in gone : rows[p].doc \in Docs
    BY <1>1 DEF Present, TypeInv, RowShape
  <2> HIDE DEF gone
  <2> QED BY <2>1, <2>2 DEF TypeInv, TypeOK
<1>5. /\ call' \in [Calls -> CallRecord] /\ CallShape'
      /\ settled' \in BOOLEAN /\ overtaken' \subseteq Calls /\ writes' \in Nat
  <2>1. CASE gone = {}
    <3>1. Step(c, Ended(c)) /\ UNCHANGED <<writes, settled, overtaken>>
      BY <2>1 DEF Delete
    <3>2. call' \in [Calls -> CallRecord] /\ CallShape'
      BY <1>1, <3>1, EndedTyped, StepTyped
    <3> QED BY <3>1, <3>2 DEF TypeInv, TypeOK
  <2>2. CASE gone # {}
    BY <1>1, <2>2, WrittenTyped DEF Delete
  <2> QED BY <2>1, <2>2
<1> QED BY <1>2, <1>3, <1>4, <1>5 DEF Delete, TypeInv, TypeOK, limitVars

LEMMA BumpTyped ==
  ASSUME TypeInv, NEW c \in Calls, Bump(c)
  PROVE  TypeInv'
<1> DEFINE r == [call[c] EXCEPT !.pc = "read", !.num = version + 1]
<1>1. call[c] \in CallRecord /\ version + 1 \in Nat /\ call[c].pc = "bump" /\ Step(c, r)
  BY DEF Bump, TypeInv, TypeOK
<1>2. r \in CallRecord
  BY <1>1, CallGoesOn
<1>3. WellShaped(r)
  BY <1>1 DEF TypeInv, CallShape, WellShaped, CallRecord
<1>4. call' \in [Calls -> CallRecord] /\ CallShape'
  <2> HIDE DEF r
  <2> QED BY <1>1, <1>2, <1>3, StepTyped
<1>5. version' \in Nat /\ done' \in [1..version' -> Nat]
  <2>1. call[c].write \in Nat
    BY <1>1 DEF CallRecord
  <2>2. \A v \in 1..(version + 1) : v # version + 1 => v \in 1..version
    BY <1>1 DEF TypeInv, TypeOK
  <2> QED BY <1>1, <2>1, <2>2 DEF Bump, TypeInv, TypeOK
<1> QED BY <1>4, <1>5 DEF Bump, TypeInv, TypeOK, RowShape, limitVars

LEMMA ReadRowsTyped ==
  ASSUME TypeInv, NEW c \in Calls, ReadRows(c)
  PROVE  TypeInv'
<1> DEFINE r == [call[c] EXCEPT !.pc = "push", !.entries = Fetched(call[c].tier), !.asof = writes]
<1>1. call[c] \in CallRecord /\ writes \in Nat /\ call[c].pc = "read" /\ Step(c, r)
  BY DEF ReadRows, TypeInv, TypeOK
<1>2. Fetched(call[c].tier) \in SUBSET Entry
  BY <1>1, FetchedTyped DEF CallRecord
<1>3. r \in CallRecord
  BY <1>1, <1>2, CallGoesOn
<1>4. WellShaped(r)
  BY <1>1 DEF TypeInv, CallShape, WellShaped, CallRecord
<1>5. call' \in [Calls -> CallRecord] /\ CallShape'
  <2> HIDE DEF r
  <2> QED BY <1>1, <1>3, <1>4, StepTyped
<1>6. overtaken' \subseteq Calls
  BY DEF ReadRows, TypeInv, TypeOK
<1> QED BY <1>5, <1>6 DEF ReadRows, TypeInv, TypeOK, RowShape, bookVars, limitVars

LEMMA PushTyped ==
  ASSUME TypeInv, NEW c \in Calls, Push(c)
  PROVE  TypeInv'
<1>1. call[c] \in CallRecord /\ call[c].pc = "push"
  BY DEF Push, TypeInv, TypeOK
<1>2. redis' \in [Tiers -> Snapshot]
  <2>1. [version |-> Numbered(c), entries |-> call[c].entries, asof |-> call[c].asof] \in Snapshot
    BY <1>1 DEF Numbered, Snapshot, CallRecord
  <2> QED BY <2>1 DEF Push, TypeInv, TypeOK
<1>3. call' \in [Calls -> CallRecord] /\ CallShape' /\ settled' \in BOOLEAN
  <2>1. CASE call[c].tier = "dev"
    <3> DEFINE r == [call[c] EXCEPT !.pc = "read", !.tier = "live"]
    <3>1. Step(c, r) /\ settled' = FALSE
      BY <2>1 DEF Push
    <3>2. r \in CallRecord
      BY <1>1, CallGoesOn
    <3>3. WellShaped(r)
      BY <1>1 DEF TypeInv, CallShape, WellShaped, CallRecord
    <3> HIDE DEF r
    <3> QED BY <3>1, <3>2, <3>3, StepTyped
  <2>2. CASE call[c].tier # "dev"
    <3>1. Step(c, Ended(c)) /\ settled' \in BOOLEAN
      BY <2>2 DEF Push
    <3> QED BY <1>1, <3>1, EndedTyped, StepTyped
  <2> QED BY <2>1, <2>2
<1>4. overtaken' \subseteq Calls
  BY DEF Push, TypeInv, TypeOK
<1> QED BY <1>2, <1>3, <1>4 DEF Push, TypeInv, TypeOK, RowShape, bookVars, limitVars

LEMMA PurgeRowTyped ==
  ASSUME TypeInv, NEW c \in Calls, PurgeRow(c)
  PROVE  TypeInv'
<1>1. WellShaped(Idle) /\ Step(c, Idle)
  BY DEF PurgeRow, WellShaped, Idle
<1>2. call' \in [Calls -> CallRecord] /\ CallShape'
  BY <1>1, IdleTyped, StepTyped
<1>3. code' \in [Docs -> Codes \cup {NoCode, Purged}]
  BY DEF PurgeRow, TypeInv, TypeOK
<1> QED BY <1>2, <1>3 DEF PurgeRow, TypeInv, TypeOK, RowShape, bookVars, limitVars

LEMMA StopsTyped ==
  ASSUME TypeInv, NEW c \in Calls, Stops(c)
  PROVE  TypeInv'
<1>1. WellShaped(Idle) /\ Idle \in CallRecord
  BY IdleTyped DEF WellShaped, Idle
<1>2. Ended(c) \in CallRecord /\ WellShaped(Ended(c))
  BY EndedTyped DEF Stops
<1>3. Step(c, Idle) \/ Step(c, Ended(c))
  BY DEF Stops
<1>4. call' \in [Calls -> CallRecord] /\ CallShape'
  BY <1>1, <1>2, <1>3, StepTyped
<1>5. faults' \in 0..MaxFaults
  BY LimitsAssumption DEF Stops, TypeInv, TypeOK
<1> QED BY <1>4, <1>5 DEF Stops, TypeInv, TypeOK, RowShape, bookVars

LEMMA RenameTyped ==
  ASSUME TypeInv, NEW d \in Docs, Rename(d)
  PROVE  TypeInv'
<1>1. code' \in [Docs -> Codes \cup {NoCode, Purged}]
  BY DEF Rename, TypeInv, TypeOK
<1>2. ops' \in 0..MaxOps
  BY LimitsAssumption DEF Rename, TypeInv, TypeOK
<1>3. strayed' \subseteq Docs
  BY DEF Rename, TypeInv, TypeOK
<1> QED BY <1>1, <1>2, <1>3 DEF Rename, TypeInv, TypeOK, RowShape, CallShape

LEMMA ExpireTyped ==
  ASSUME TypeInv, NEW t \in Tiers, Expire(t)
  PROVE  TypeInv'
<1>1. redis' \in [Tiers -> Snapshot]
  BY NoSnapshotTyped DEF Expire, TypeInv, TypeOK
<1> QED BY <1>1 DEF Expire, TypeInv, TypeOK, RowShape, CallShape, bookVars, limitVars

LEMMA TypeSteps == TypeInv /\ [Next]_vars => TypeInv'
<1> SUFFICES ASSUME TypeInv, [Next]_vars PROVE TypeInv'
  OBVIOUS
<1>1. ASSUME NEW c \in Calls, CallStep(c) PROVE TypeInv'
  BY <1>1, BeginTyped, FindTyped, UpsertTyped, DeleteTyped, BumpTyped, ReadRowsTyped,
     PushTyped, PurgeRowTyped, StopsTyped DEF CallStep
<1>2. ASSUME NEW d \in Docs, Rename(d) PROVE TypeInv'
  BY <1>2, RenameTyped
<1>3. ASSUME NEW t \in Tiers, Expire(t) PROVE TypeInv'
  BY <1>3, ExpireTyped
<1>4. CASE UNCHANGED vars
  BY <1>4 DEF vars, TypeInv, TypeOK, RowShape, CallShape, Present
<1> QED BY <1>1, <1>2, <1>3, <1>4 DEF Next

\* Every variable keeps its type, whatever calls do to each other: a snapshot has
\* only entries of documents, and a call knows the row it writes.
THEOREM MasterTypeCorrect == Spec => []TypeOK
<1>1. TypeInv => TypeOK
  BY DEF TypeInv
<1> QED BY <1>1, TypeInit, TypeSteps, PTL DEF Spec

-----------------------------------------------------------------------------
(* Versions                                                                *)

\* Nothing is written, numbered, read or sent; a snapshot may expire and a call
\* may begin, end, or come to its write.
Rests ==
  /\ version' = version /\ done' = done /\ writes' = writes
  /\ \A t \in Tiers : redis'[t] = redis[t] \/ redis'[t].version = 0
  /\ \A c \in Calls : call'[c] = call[c] \/ call'[c].pc \notin {"bump", "read", "push"}

\* Every other call stays as it is, and this one goes on with record r.
Alone(c, r) ==
  /\ call'[c] = r
  /\ \A b \in Calls \ {c} : call'[b] = call[b]

Writes(c) ==
  /\ version' = version /\ done' = done /\ redis' = redis
  /\ writes' = writes + 1
  /\ Alone(c, [call[c] EXCEPT !.pc = "bump", !.write = writes + 1])

\* A version is taken, rows are read, and a snapshot is sent.
Counts(c) ==
  /\ call[c].pc = "bump"
  /\ writes' = writes /\ redis' = redis
  /\ version' = version + 1
  /\ done' = [v \in 1..(version + 1) |-> IF v = version + 1 THEN call[c].write ELSE done[v]]
  /\ Alone(c, [call[c] EXCEPT !.pc = "read", !.num = version + 1])

Reads(c) ==
  /\ call[c].pc = "read"
  /\ version' = version /\ done' = done /\ redis' = redis /\ writes' = writes
  /\ Alone(c, [call[c] EXCEPT !.pc = "push", !.entries = Fetched(call[c].tier), !.asof = writes])

Sends(c) ==
  /\ call[c].pc = "push"
  /\ version' = version /\ done' = done /\ writes' = writes
  /\ redis' = [redis EXCEPT ![call[c].tier] =
       [version |-> call[c].num, entries |-> call[c].entries, asof |-> call[c].asof]]
  /\ \/ call'[c].pc = "read" /\ call'[c].num = call[c].num
     \/ call'[c].pc \notin {"bump", "read", "push"}
  /\ \A b \in Calls \ {c} : call'[b] = call[b]

VersionMoves == Rests \/ \E c \in Calls : Writes(c) \/ Counts(c) \/ Reads(c) \/ Sends(c)

LEMMA StepAlone ==
  ASSUME TypeInv, NEW c \in Calls, NEW r, Step(c, r)
  PROVE  Alone(c, r)
BY DEF TypeInv, TypeOK, Step, Alone

LEMMA EndedRests ==
  ASSUME NEW c \in Calls, TypeInv
  PROVE  Ended(c).pc \notin {"bump", "read", "push"}
<1>1. call[c] \in CallRecord
  BY DEF TypeInv, TypeOK
<1> QED BY <1>1 DEF Ended, Idle, CallRecord

LEMMA CallMoves ==
  ASSUME TypeInv, NEW c \in Calls, CallStep(c)
  PROVE  VersionMoves
<1>0. call[c] \in CallRecord
  BY DEF TypeInv, TypeOK
<1>1. CASE Begin(c)
  <2>1. PICK r : Step(c, r) /\ r.pc = "find"
    <3>1. PICK d \in Docs, op \in {"dev", "live", "remove", "purge"} :
            Step(c, [Idle EXCEPT !.pc = "find", !.op = op, !.doc = d])
      BY <1>1 DEF Begin
    <3>2. [Idle EXCEPT !.pc = "find", !.op = op, !.doc = d].pc = "find"
      BY DEF Idle
    <3> QED BY <3>1, <3>2
  <2>2. Alone(c, r)
    BY <2>1, StepAlone
  <2> QED BY <1>1, <2>1, <2>2 DEF Begin, Alone, Rests, VersionMoves, bookVars
<1>2. CASE Find(c)
  <2>1. PICK r : Step(c, r) /\ r.pc \in {"write", "idle"}
    <3> DEFINE found == [call[c] EXCEPT !.pc = "write", !.key = Key(call[c].doc, call[c].op)]
               missing == [call[c] EXCEPT !.pc = "write"]
    <3>1. found.pc = "write" /\ missing.pc = "write" /\ Idle.pc = "idle"
      BY <1>0 DEF CallRecord, Idle
    <3>2. Step(c, found) \/ Step(c, missing) \/ Step(c, Idle)
      BY <1>2 DEF Find
    <3> HIDE DEF found, missing
    <3> QED BY <3>1, <3>2
  <2>2. Alone(c, r)
    BY <2>1, StepAlone
  <2> QED BY <1>2, <2>1, <2>2 DEF Find, Alone, Rests, VersionMoves, bookVars
<1>3. CASE Upsert(c)
  BY <1>3, StepAlone DEF Upsert, Written, Writes, VersionMoves
<1>4. CASE Delete(c)
  <2>1. version' = version /\ done' = done /\ redis' = redis
    BY <1>4 DEF Delete
  <2>2. Written(c) \/ (Step(c, Ended(c)) /\ writes' = writes)
    BY <1>4 DEF Delete
  <2>3. CASE Written(c)
    BY <2>1, <2>3, StepAlone DEF Written, Writes, VersionMoves
  <2>4. CASE Step(c, Ended(c)) /\ writes' = writes
    BY <2>1, <2>4, StepAlone, EndedRests DEF Alone, Rests, VersionMoves
  <2> QED BY <2>2, <2>3, <2>4
<1>5. CASE Bump(c)
  BY <1>5, StepAlone DEF Bump, Counts, VersionMoves
<1>6. CASE ReadRows(c)
  BY <1>6, StepAlone DEF ReadRows, Reads, VersionMoves, bookVars
<1>7. CASE Push(c)
  <2>1. PICK r : /\ Step(c, r)
                 /\ \/ r.pc = "read" /\ r.num = call[c].num
                    \/ r.pc \notin {"bump", "read", "push"}
    <3> DEFINE next == [call[c] EXCEPT !.pc = "read", !.tier = "live"]
    <3>1. next.pc = "read" /\ next.num = call[c].num
      BY <1>0 DEF CallRecord
    <3>2. Step(c, next) \/ Step(c, Ended(c))
      BY <1>7 DEF Push
    <3> HIDE DEF next
    <3> QED BY <3>1, <3>2, EndedRests
  <2>2. Alone(c, r)
    BY <2>1, StepAlone
  <2>3. Sends(c)
    BY <1>7, <2>1, <2>2 DEF Push, Alone, Sends, Numbered, Target, bookVars
  <2> QED BY <2>3 DEF VersionMoves
<1>8. CASE PurgeRow(c)
  <2>1. Alone(c, Idle) /\ Idle.pc = "idle"
    BY <1>8, StepAlone DEF PurgeRow, Idle
  <2> QED BY <1>8, <2>1 DEF PurgeRow, Alone, Rests, VersionMoves, bookVars
<1>9. CASE Stops(c)
  <2>1. PICK r : Step(c, r) /\ r.pc \notin {"bump", "read", "push"}
    BY <1>9, EndedRests DEF Stops, Idle
  <2>2. Alone(c, r)
    BY <2>1, StepAlone
  <2> QED BY <1>9, <2>1, <2>2 DEF Stops, Alone, Rests, VersionMoves, bookVars
<1> QED BY <1>1, <1>2, <1>3, <1>4, <1>5, <1>6, <1>7, <1>8, <1>9 DEF CallStep

LEMMA EveryMove ==
  ASSUME TypeInv, [Next]_vars
  PROVE  VersionMoves
<1>1. ASSUME NEW d \in Docs, Rename(d) PROVE Rests
  BY <1>1 DEF Rename, Rests
<1>2. ASSUME NEW t \in Tiers, Expire(t) PROVE Rests
  <2>1. redis' = [redis EXCEPT ![t] = NoSnapshot] /\ NoSnapshot.version = 0
    BY <1>2 DEF Expire, NoSnapshot
  <2> QED BY <1>2, <2>1 DEF Expire, Rests, TypeInv, TypeOK, bookVars
<1>3. CASE UNCHANGED vars
  BY <1>3 DEF vars, Rests, VersionMoves
<1> QED BY <1>1, <1>2, <1>3, CallMoves DEF Next, VersionMoves

LEMMA RestsKeep ==
  ASSUME TypeInv, TypeInv', VersionInv, Rests
  PROVE  VersionInv'
<1>1. version \in Nat /\ writes \in Nat /\ done \in [1..version -> Nat]
  BY DEF TypeInv, TypeOK
<1>2. VersionsWritten'
  BY DEF Rests, VersionInv, VersionsWritten
<1>3. VersionsTaken'
  BY <1>1 DEF Rests, VersionInv, VersionsTaken
<1>4. RowsReadAfter'
  BY DEF Rests, VersionInv, RowsReadAfter
<1>5. SnapshotHasItsVersion'
  <2> SUFFICES ASSUME NEW t \in Tiers, NEW v \in 1..version, v <= redis'[t].version
               PROVE  done[v] <= redis'[t].asof
    BY DEF Rests, SnapshotHasItsVersion
  <2>1. redis'[t] = redis[t]
    BY <1>1 DEF Rests
  <2> QED BY <2>1 DEF VersionInv, SnapshotHasItsVersion
<1> QED BY <1>2, <1>3, <1>4, <1>5 DEF VersionInv

LEMMA WritesKeep ==
  ASSUME TypeInv, TypeInv', VersionInv, NEW c \in Calls, Writes(c)
  PROVE  VersionInv'
<1>1. version \in Nat /\ writes \in Nat /\ done \in [1..version -> Nat]
  BY DEF TypeInv, TypeOK
<1>2. call[c] \in CallRecord /\ \A b \in Calls : call[b] \in CallRecord
  BY DEF TypeInv, TypeOK
<1>3. /\ call'[c].pc = "bump" /\ call'[c].write = writes + 1
      /\ \A b \in Calls \ {c} : call'[b] = call[b]
  BY <1>2 DEF Writes, Alone, CallRecord
<1>4. VersionsWritten'
  <2>1. \A b \in Calls : call[b].write \in Nat
    BY <1>2 DEF CallRecord
  <2> QED BY <1>1, <1>3, <2>1 DEF Writes, VersionInv, VersionsWritten
<1>5. VersionsTaken'
  BY <1>3 DEF Writes, VersionInv, VersionsTaken
<1>6. RowsReadAfter'
  BY <1>3 DEF Writes, VersionInv, RowsReadAfter
<1>7. SnapshotHasItsVersion'
  BY DEF Writes, VersionInv, SnapshotHasItsVersion
<1> QED BY <1>4, <1>5, <1>6, <1>7 DEF VersionInv

LEMMA CountsKeep ==
  ASSUME TypeInv, TypeInv', VersionInv, NEW c \in Calls, Counts(c)
  PROVE  VersionInv'
<1>1. version \in Nat /\ writes \in Nat /\ done \in [1..version -> Nat]
  BY DEF TypeInv, TypeOK
<1>2. /\ \A b \in Calls : call[b] \in CallRecord /\ call[b].num \in Nat
      /\ \A t \in Tiers : redis[t].version \in Nat
  BY DEF TypeInv, TypeOK, CallRecord, Snapshot
<1>3. /\ call'[c].pc = "read" /\ call'[c].num = version + 1
      /\ \A b \in Calls \ {c} : call'[b] = call[b]
  BY <1>2 DEF Counts, Alone, CallRecord
<1>4. version' = version + 1 /\ \A v \in 1..version : v \in 1..version' /\ done'[v] = done[v]
  BY <1>1 DEF Counts
<1>5. \A v \in 1..version' : v \in 1..version \/ (v = version + 1 /\ done'[v] = call[c].write)
  BY <1>1, <1>4 DEF Counts
<1>6. VersionsWritten'
  BY <1>3, <1>4, <1>5 DEF Counts, VersionInv, VersionsWritten
<1>7. VersionsTaken'
  BY <1>1, <1>2, <1>3, <1>4 DEF Counts, VersionInv, VersionsTaken
<1>8. RowsReadAfter'
  <2> SUFFICES ASSUME NEW b \in Calls, call'[b].pc = "push",
                      NEW v \in 1..version', v <= call'[b].num
               PROVE  done'[v] <= call'[b].asof
    BY DEF RowsReadAfter
  <2>1. call'[b] = call[b] /\ call[b].num <= version
    BY <1>3 DEF VersionInv, VersionsTaken
  <2>2. v \in 1..version
    BY <1>1, <1>2, <1>5, <2>1
  <2> QED BY <1>4, <2>1, <2>2 DEF VersionInv, RowsReadAfter
<1>9. SnapshotHasItsVersion'
  <2> SUFFICES ASSUME NEW t \in Tiers, NEW v \in 1..version', v <= redis'[t].version
               PROVE  done'[v] <= redis'[t].asof
    BY DEF SnapshotHasItsVersion
  <2>1. redis'[t] = redis[t] /\ redis[t].version <= version
    BY DEF Counts, VersionInv, VersionsTaken
  <2>2. v \in 1..version
    BY <1>1, <1>2, <1>5, <2>1
  <2> QED BY <1>4, <2>1, <2>2 DEF VersionInv, SnapshotHasItsVersion
<1> QED BY <1>6, <1>7, <1>8, <1>9 DEF VersionInv

LEMMA ReadsKeep ==
  ASSUME TypeInv, TypeInv', VersionInv, NEW c \in Calls, Reads(c)
  PROVE  VersionInv'
<1>1. \A b \in Calls : call[b] \in CallRecord
  BY DEF TypeInv, TypeOK
<1>2. /\ call'[c].pc = "push" /\ call'[c].num = call[c].num /\ call'[c].asof = writes
      /\ \A b \in Calls \ {c} : call'[b] = call[b]
  BY <1>1 DEF Reads, Alone, CallRecord
<1>3. VersionsWritten'
  BY <1>2 DEF Reads, VersionInv, VersionsWritten
<1>4. VersionsTaken'
  BY <1>2 DEF Reads, VersionInv, VersionsTaken
<1>5. RowsReadAfter'
  BY <1>2 DEF Reads, VersionInv, VersionsWritten, RowsReadAfter
<1>6. SnapshotHasItsVersion'
  BY DEF Reads, VersionInv, SnapshotHasItsVersion
<1> QED BY <1>3, <1>4, <1>5, <1>6 DEF VersionInv

LEMMA SendsKeep ==
  ASSUME TypeInv, TypeInv', VersionInv, NEW c \in Calls, Sends(c)
  PROVE  VersionInv'
<1>1. \A b \in Calls \ {c} : call'[b] = call[b]
  BY DEF Sends
<1>2. \/ call'[c].pc = "read" /\ call'[c].num = call[c].num
      \/ call'[c].pc \notin {"bump", "read", "push"}
  BY DEF Sends
<1>3. \A t \in Tiers : \/ redis'[t] = redis[t]
                       \/ redis'[t].version = call[c].num /\ redis'[t].asof = call[c].asof
  BY DEF Sends, TypeInv, TypeOK
<1>4. VersionsWritten'
  BY <1>1, <1>2 DEF Sends, VersionInv, VersionsWritten
<1>5. VersionsTaken'
  BY <1>1, <1>2, <1>3 DEF Sends, VersionInv, VersionsTaken
<1>6. RowsReadAfter'
  BY <1>1, <1>2 DEF Sends, VersionInv, RowsReadAfter
<1>7. SnapshotHasItsVersion'
  BY <1>3 DEF Sends, VersionInv, RowsReadAfter, SnapshotHasItsVersion
<1> QED BY <1>4, <1>5, <1>6, <1>7 DEF VersionInv

LEMMA VersionInit == Init => VersionInv
<1> SUFFICES ASSUME Init PROVE VersionInv
  OBVIOUS
<1>1. version = 0 /\ \A v \in 1..version : FALSE
  BY DEF Init
<1>2. \A c \in Calls : call[c].pc = "idle"
  BY DEF Init, Idle
<1>3. \A t \in Tiers : redis[t].version = 0
  BY DEF Init, NoSnapshot
<1> QED BY <1>1, <1>2, <1>3
    DEF VersionInv, VersionsWritten, VersionsTaken, RowsReadAfter, SnapshotHasItsVersion

\* The version of a snapshot can be trusted: every write that was made under it,
\* or under one before it, was in the table when the rows of the snapshot were
\* read, in whatever order calls write, count, read and send.
THEOREM VersionsCanBeTrusted == Spec => []SnapshotHasItsVersion
<1>1. Init => TypeInv /\ VersionInv
  BY TypeInit, VersionInit
<1>2. (TypeInv /\ VersionInv) /\ [Next]_vars => (TypeInv /\ VersionInv)'
  <2> SUFFICES ASSUME TypeInv, VersionInv, [Next]_vars PROVE TypeInv' /\ VersionInv'
    OBVIOUS
  <2>1. TypeInv'
    BY TypeSteps
  <2>2. VersionMoves
    BY EveryMove
  <2>3. VersionInv'
    BY <2>1, <2>2, RestsKeep, WritesKeep, CountsKeep, ReadsKeep, SendsKeep DEF VersionMoves
  <2> QED BY <2>1, <2>3
<1>3. VersionInv => SnapshotHasItsVersion
  BY DEF VersionInv
<1> QED BY <1>1, <1>2, <1>3, PTL DEF Spec

-----------------------------------------------------------------------------
(* Snapshots                                                               *)

MirrorInv == TestersFirst /\ RightSoFar /\ MirrorInOrder

\* Nothing of the catalog is written; calls may begin, come to their write, or
\* end.
Calm ==
  /\ rows' = rows /\ redis' = redis /\ settled' = settled /\ overtaken' = overtaken
  /\ \A c \in Calls :
       \/ call'[c] = call[c]
       \/ call'[c].pc \in {"find", "write"} /\ call'[c].tier = "dev"
       \/ call'[c].pc \in {"idle", "purge"}

\* Something is written beside every call but one, which comes to its version.
Disturbs ==
  /\ settled' = FALSE
  /\ \A c \in Calls : c \in overtaken' \/ call'[c].pc = "bump"
  /\ \A c \in Calls : call'[c] = call[c] \/ (call'[c].pc = "bump" /\ call'[c].tier = "dev")

LEMMA EndedIsOver ==
  ASSUME TypeInv, NEW c \in Calls
  PROVE  Ended(c).pc \in {"idle", "purge"}
<1>1. call[c] \in CallRecord
  BY DEF TypeInv, TypeOK
<1> QED BY <1>1 DEF Ended, Idle, CallRecord

LEMMA CalmKeeps ==
  ASSUME MirrorInv, Calm
  PROVE  MirrorInv'
<1>1. TestersFirst'
  BY DEF MirrorInv, TestersFirst, Calm
<1>2. RightSoFar'
  <2> SUFFICES ASSUME NEW c \in Calls \ overtaken, call'[c].pc \in {"read", "push"}
               PROVE  /\ call'[c].pc = "push" => call'[c].entries = Fetched(call[c].tier)'
                      /\ call'[c].tier = "live" =>
                           /\ redis'["dev"].entries = Fetched("dev")'
                           /\ redis'["dev"].version = call'[c].num
    BY DEF RightSoFar, Calm
  <2>1. call'[c] = call[c]
    BY DEF Calm
  <2> QED BY <2>1 DEF MirrorInv, RightSoFar, Calm, Fetched
<1>3. MirrorInOrder'
  BY DEF MirrorInv, MirrorInOrder, Calm, Fetched
<1> QED BY <1>1, <1>2, <1>3 DEF MirrorInv

LEMMA DisturbsKeeps ==
  ASSUME MirrorInv, Disturbs
  PROVE  MirrorInv'
<1>1. TestersFirst'
  BY DEF MirrorInv, TestersFirst, Disturbs
<1>2. RightSoFar'
  BY DEF RightSoFar, Disturbs
<1>3. MirrorInOrder'
  BY DEF MirrorInOrder, Disturbs
<1> QED BY <1>1, <1>2, <1>3 DEF MirrorInv

LEMMA WrittenDisturbs ==
  ASSUME TypeInv, MirrorInv, NEW c \in Calls, call[c].pc = "write", Written(c)
  PROVE  Disturbs
<1>1. call[c] \in CallRecord /\ call[c].tier = "dev"
  BY DEF TypeInv, TypeOK, MirrorInv, TestersFirst
<1>2. Alone(c, [call[c] EXCEPT !.pc = "bump", !.write = writes + 1])
  BY StepAlone DEF Written
<1>3. /\ call'[c].pc = "bump" /\ call'[c].tier = "dev"
      /\ \A b \in Calls \ {c} : call'[b] = call[b]
  BY <1>1, <1>2 DEF Alone, CallRecord
<1>4. settled' = FALSE /\ overtaken' = overtaken \cup (Calls \ {c})
  BY DEF Written
<1> QED BY <1>3, <1>4 DEF Disturbs

LEMMA CalmSteps ==
  ASSUME TypeInv, MirrorInv, NEW c \in Calls,
         Begin(c) \/ Find(c) \/ PurgeRow(c) \/ Stops(c)
  PROVE  Calm
<1>0. call[c] \in CallRecord
  BY DEF TypeInv, TypeOK
<1>1. PICK r : /\ Step(c, r)
               /\ \/ r.pc \in {"find", "write"} /\ r.tier = "dev"
                  \/ r.pc \in {"idle", "purge"}
  <2>1. CASE Begin(c)
    <3>1. PICK d \in Docs, op \in {"dev", "live", "remove", "purge"} :
            Step(c, [Idle EXCEPT !.pc = "find", !.op = op, !.doc = d])
      BY <2>1 DEF Begin
    <3>2. /\ [Idle EXCEPT !.pc = "find", !.op = op, !.doc = d].pc = "find"
          /\ [Idle EXCEPT !.pc = "find", !.op = op, !.doc = d].tier = "dev"
      BY DEF Idle
    <3> QED BY <3>1, <3>2
  <2>2. CASE Find(c)
    <3> DEFINE found == [call[c] EXCEPT !.pc = "write", !.key = Key(call[c].doc, call[c].op)]
               missing == [call[c] EXCEPT !.pc = "write"]
    <3>1. call[c].tier = "dev"
      BY <2>2 DEF Find, MirrorInv, TestersFirst
    <3>2. /\ found.pc = "write" /\ missing.pc = "write" /\ Idle.pc = "idle"
          /\ found.tier = "dev" /\ missing.tier = "dev"
      BY <1>0, <3>1 DEF CallRecord, Idle
    <3>3. Step(c, found) \/ Step(c, missing) \/ Step(c, Idle)
      BY <2>2 DEF Find
    <3> HIDE DEF found, missing
    <3> QED BY <3>2, <3>3
  <2>3. CASE PurgeRow(c)
    BY <2>3 DEF PurgeRow, Idle
  <2>4. CASE Stops(c)
    BY <2>4, EndedIsOver DEF Stops, Idle
  <2> QED BY <2>1, <2>2, <2>3, <2>4
<1>2. Alone(c, r)
  BY <1>1, StepAlone
<1>3. rows' = rows /\ redis' = redis /\ settled' = settled /\ overtaken' = overtaken
  BY DEF Begin, Find, PurgeRow, Stops
<1> QED BY <1>1, <1>2, <1>3 DEF Calm, Alone

LEMMA DeleteMirrors ==
  ASSUME TypeInv, MirrorInv, NEW c \in Calls, Delete(c)
  PROVE  MirrorInv'
<1> DEFINE d == call[c].doc
           k == call[c].key
           gone == IF k = NoDoc THEN RowsOf(d) ELSE {k} \cap Present
<1>1. CASE gone = {}
  <2>1. rows' = rows
    BY <1>1 DEF Delete, TypeInv, TypeOK
  <2>2. Step(c, Ended(c)) /\ settled' = settled /\ overtaken' = overtaken /\ redis' = redis
    BY <1>1 DEF Delete
  <2>3. Alone(c, Ended(c))
    BY <2>2, StepAlone
  <2>4. Calm
    BY <2>1, <2>2, <2>3, EndedIsOver DEF Calm, Alone
  <2> QED BY <2>4, CalmKeeps
<1>2. CASE gone # {}
  BY <1>2, WrittenDisturbs, DisturbsKeeps DEF Delete
<1> QED BY <1>1, <1>2

LEMMA BumpMirrors ==
  ASSUME TypeInv, MirrorInv, NEW c \in Calls, Bump(c)
  PROVE  MirrorInv'
<1>0. call[c] \in CallRecord /\ call[c].pc = "bump" /\ call[c].tier = "dev"
  BY DEF TypeInv, TypeOK, Bump, MirrorInv, TestersFirst
<1>1. Alone(c, [call[c] EXCEPT !.pc = "read", !.num = version + 1])
  BY StepAlone DEF Bump
<1>2. /\ call'[c].pc = "read" /\ call'[c].tier = "dev"
      /\ \A b \in Calls \ {c} : call'[b] = call[b]
  BY <1>0, <1>1 DEF Alone, CallRecord
<1>3. rows' = rows /\ redis' = redis /\ settled' = settled /\ overtaken' = overtaken
  BY DEF Bump
<1>4. TestersFirst'
  BY <1>2 DEF MirrorInv, TestersFirst
<1>5. RightSoFar'
  BY <1>2, <1>3 DEF MirrorInv, RightSoFar, Fetched
<1>6. MirrorInOrder'
  BY <1>3 DEF MirrorInv, MirrorInOrder, Fetched
<1> QED BY <1>4, <1>5, <1>6 DEF MirrorInv

LEMMA ReadRowsMirrors ==
  ASSUME TypeInv, MirrorInv, NEW c \in Calls, ReadRows(c)
  PROVE  MirrorInv'
<1> DEFINE t == call[c].tier
           r == [call[c] EXCEPT !.pc = "push", !.entries = Fetched(t), !.asof = writes]
<1>0. call[c] \in CallRecord /\ call[c].pc = "read"
  BY DEF TypeInv, TypeOK, ReadRows
<1>1. Alone(c, r)
  BY StepAlone DEF ReadRows
<1>2. /\ r.pc = "push" /\ r.tier = t /\ r.num = call[c].num /\ r.entries = Fetched(t)
  BY <1>0 DEF CallRecord
<1>3. /\ call'[c].pc = "push" /\ call'[c].tier = t /\ call'[c].num = call[c].num
      /\ call'[c].entries = Fetched(t)
      /\ \A b \in Calls \ {c} : call'[b] = call[b]
  <2> HIDE DEF r
  <2> QED BY <1>1, <1>2 DEF Alone
<1>4. /\ rows' = rows /\ redis' = redis /\ settled' = settled
      /\ overtaken' = (IF t = "dev" THEN overtaken \ {c} ELSE overtaken)
  BY DEF ReadRows
<1>5. TestersFirst'
  BY <1>3 DEF MirrorInv, TestersFirst
<1>6. RightSoFar'
  <2> SUFFICES ASSUME NEW b \in Calls, b \notin overtaken', call'[b].pc \in {"read", "push"}
               PROVE  /\ call'[b].pc = "push" => call'[b].entries = Fetched(call[b].tier)'
                      /\ call'[b].tier = "live" =>
                           /\ redis'["dev"].entries = Fetched("dev")'
                           /\ redis'["dev"].version = call'[b].num
    BY DEF RightSoFar
  <2>1. CASE b # c
    <3>1. call'[b] = call[b] /\ b \notin overtaken
      BY <1>3, <1>4, <2>1
    <3> QED BY <1>4, <3>1 DEF MirrorInv, RightSoFar, Fetched
  <2>2. CASE b = c
    <3>1. call'[b].entries = Fetched(call[b].tier)'
      BY <1>3, <1>4, <2>2 DEF Fetched
    <3>2. ASSUME t = "live" PROVE b \notin overtaken
      BY <1>4, <3>2
    <3>3. ASSUME t = "live"
          PROVE  redis'["dev"].entries = Fetched("dev")' /\ redis'["dev"].version = call'[b].num
      BY <1>0, <1>3, <1>4, <2>2, <3>2, <3>3 DEF MirrorInv, RightSoFar, Fetched
    <3> QED BY <1>3, <2>2, <3>1, <3>3
  <2> QED BY <2>1, <2>2
<1>7. MirrorInOrder'
  BY <1>4 DEF MirrorInv, MirrorInOrder, Fetched
<1> QED BY <1>5, <1>6, <1>7 DEF MirrorInv

LEMMA PushMirrors ==
  ASSUME TypeInv, MirrorInv, NEW c \in Calls, Push(c)
  PROVE  MirrorInv'
<1> DEFINE t == call[c].tier
           sent == [version |-> call[c].num, entries |-> call[c].entries, asof |-> call[c].asof]
<1>0. call[c] \in CallRecord /\ call[c].pc = "push" /\ t \in Tiers
  BY DEF TypeInv, TypeOK, Push, CallRecord
<1>1. /\ redis' = [redis EXCEPT ![t] = sent] /\ rows' = rows
      /\ overtaken' = overtaken \cup (Calls \ {c})
  BY DEF Push, Target, Numbered
<1>2. redis'[t].version = call[c].num /\ redis'[t].entries = call[c].entries
  BY <1>0, <1>1 DEF TypeInv, TypeOK
<1>3. CASE t = "dev"
  <2>1. Alone(c, [call[c] EXCEPT !.pc = "read", !.tier = "live"]) /\ settled' = FALSE
    BY <1>3, StepAlone DEF Push
  <2>2. /\ call'[c].pc = "read" /\ call'[c].tier = "live" /\ call'[c].num = call[c].num
        /\ \A b \in Calls \ {c} : call'[b] = call[b]
    BY <1>0, <2>1 DEF Alone, CallRecord
  <2>3. TestersFirst'
    BY <2>2 DEF MirrorInv, TestersFirst
  <2>4. ASSUME c \notin overtaken
        PROVE  redis'["dev"].entries = Fetched("dev")'
    BY <1>0, <1>1, <1>2, <1>3, <2>4 DEF MirrorInv, RightSoFar, Fetched
  <2>5. RightSoFar'
    BY <1>1, <1>2, <1>3, <2>2, <2>4 DEF RightSoFar
  <2>6. MirrorInOrder'
    BY <2>1 DEF MirrorInOrder
  <2> QED BY <2>3, <2>5, <2>6 DEF MirrorInv
<1>4. CASE t = "live"
  <2>1. Alone(c, Ended(c)) /\ settled' = (c \notin overtaken)
    BY <1>4, StepAlone DEF Push
  <2>2. /\ call'[c].pc \in {"idle", "purge"}
        /\ \A b \in Calls \ {c} : call'[b] = call[b]
    BY <2>1, EndedIsOver DEF Alone
  <2>3. TestersFirst'
    BY <2>2 DEF MirrorInv, TestersFirst
  <2>4. RightSoFar'
    BY <1>1, <2>2 DEF RightSoFar
  <2>5. MirrorInOrder'
    <3> SUFFICES ASSUME c \notin overtaken
                 PROVE  /\ \A u \in Tiers : redis'[u].entries = Fetched(u)'
                        /\ redis'["dev"].version = redis'["live"].version
      BY <2>1 DEF MirrorInOrder
    <3>1. /\ redis["dev"].entries = Fetched("dev") /\ redis["dev"].version = call[c].num
          /\ call[c].entries = Fetched("live")
      BY <1>0, <1>4 DEF MirrorInv, RightSoFar
    <3>2. redis'["dev"] = redis["dev"]
      BY <1>1, <1>4 DEF TypeInv, TypeOK, Tiers
    <3>3. \A u \in Tiers : Fetched(u)' = Fetched(u)
      BY <1>1 DEF Fetched
    <3> QED BY <1>2, <1>4, <3>1, <3>2, <3>3 DEF Tiers
  <2> QED BY <2>3, <2>4, <2>5 DEF MirrorInv
<1> QED BY <1>0, <1>3, <1>4 DEF Tiers

LEMMA MirrorSteps ==
  ASSUME TypeInv, MirrorInv, [Next]_vars
  PROVE  MirrorInv'
<1>1. ASSUME NEW c \in Calls, CallStep(c) PROVE MirrorInv'
  <2>1. ASSUME Begin(c) \/ Find(c) \/ PurgeRow(c) \/ Stops(c) PROVE MirrorInv'
    BY <2>1, CalmSteps, CalmKeeps
  <2>2. ASSUME Upsert(c) PROVE MirrorInv'
    BY <2>2, WrittenDisturbs, DisturbsKeeps DEF Upsert
  <2> QED BY <1>1, <2>1, <2>2, DeleteMirrors, BumpMirrors, ReadRowsMirrors, PushMirrors
      DEF CallStep
<1>2. ASSUME NEW d \in Docs, Rename(d) PROVE Calm
  BY <1>2 DEF Rename, Calm
<1>3. ASSUME NEW t \in Tiers, Expire(t) PROVE MirrorInv'
  <2>1. settled' = FALSE /\ overtaken' = Calls /\ call' = call
    BY <1>3 DEF Expire
  <2> QED BY <2>1 DEF MirrorInv, TestersFirst, RightSoFar, MirrorInOrder
<1>4. CASE UNCHANGED vars
  <2>1. Calm
    BY <1>4 DEF vars, Calm
  <2> QED BY <2>1, CalmKeeps
<1> QED BY <1>1, <1>2, <1>3, <1>4, CalmKeeps DEF Next

LEMMA MirrorInit == Init => MirrorInv
BY DEF Init, Idle, MirrorInv, TestersFirst, RightSoFar, MirrorInOrder

\* A call beside which nothing else was written leaves both snapshots as the
\* table is, and with the same version, for any number of calls at work and
\* whatever failed, expired or was overtaken before it.
THEOREM MirrorsTheTable == Spec => []MirrorInOrder
<1>1. Init => TypeInv /\ MirrorInv
  BY TypeInit, MirrorInit
<1>2. (TypeInv /\ MirrorInv) /\ [Next]_vars => (TypeInv /\ MirrorInv)'
  BY TypeSteps, MirrorSteps
<1>3. MirrorInv => MirrorInOrder
  BY DEF MirrorInv
<1> QED BY <1>1, <1>2, <1>3, PTL DEF Spec

-----------------------------------------------------------------------------
(* Documents and their rows                                                *)

\* Table and history of the documents rest, and no call comes to a key.
TableRests ==
  /\ rows' = rows /\ shown' = shown /\ strayed' = strayed
  /\ \A d \in Docs : code'[d] = code[d] \/ code'[d] = Purged
  /\ \A c \in Calls :
       \/ call'[c] = call[c]
       \/ call'[c].pc = "find" /\ call'[c].key = NoDoc
       \/ call'[c].pc \notin {"find", "write"}

\* What is to be shown of a document and its key.
LEMMA KeepsKey ==
  ASSUME NEW d \in Docs, NEW k \in Keys,
         \A p \in Keys : rows'[p].status # {} /\ rows'[p].doc = d => p = k,
         rows'[k].status # {} /\ rows'[k].doc = d => shown'[d] = rows'[k].status,
         ~(rows'[k].status # {} /\ rows'[k].doc = d) => shown'[d] = {},
         \A c \in Calls : call'[c].pc \in {"find", "write"} /\ call'[c].doc = d =>
                            call'[c].key \in {k, NoDoc},
         code'[d] # Purged => k = (IF code'[d] \in Codes THEN code'[d] ELSE d)
  PROVE  KeptUnder(d, k)'
<1>1. RowsOf(d)' \subseteq {k}
  BY DEF RowsOf, Present
<1>2. k \in RowsOf(d)' <=> rows'[k].status # {} /\ rows'[k].doc = d
  BY DEF RowsOf, Present
<1>3. (code[d] # Purged => k = Key(d, "dev"))'
  BY DEF Key
<1>4. shown'[d] = (IF k \in RowsOf(d)' THEN rows'[k].status ELSE {})
  BY <1>2
<1> QED BY <1>1, <1>3, <1>4 DEF KeptUnder

\* And what may be used of it.
LEMMA KeyKept ==
  ASSUME NEW d \in Docs, NEW k \in Keys, KeptUnder(d, k)
  PROVE  /\ \A p \in Keys : rows[p].status # {} /\ rows[p].doc = d => p = k
         /\ rows[k].status # {} /\ rows[k].doc = d => shown[d] = rows[k].status
         /\ ~(rows[k].status # {} /\ rows[k].doc = d) => shown[d] = {}
         /\ \A c \in Calls : call[c].pc \in {"find", "write"} /\ call[c].doc = d =>
                               call[c].key \in {k, NoDoc}
         /\ code[d] # Purged => k = (IF code[d] \in Codes THEN code[d] ELSE d)
BY DEF KeptUnder, RowsOf, Present, Key

LEMMA TableRestsKeeps ==
  ASSUME OneKeyEach, TableRests
  PROVE  OneKeyEach'
<1> SUFFICES ASSUME NEW d \in Docs \ strayed PROVE \E k \in Keys : KeptUnder(d, k)'
  BY DEF OneKeyEach, TableRests
<1>1. PICK k \in Keys : KeptUnder(d, k)
  BY DEF OneKeyEach
<1>2. KeptUnder(d, k)'
  <2> USE <1>1, KeyKept
  <2>1. \A p \in Keys : rows'[p].status # {} /\ rows'[p].doc = d => p = k
    BY DEF TableRests
  <2>2. rows'[k].status # {} /\ rows'[k].doc = d => shown'[d] = rows'[k].status
    BY DEF TableRests
  <2>3. ~(rows'[k].status # {} /\ rows'[k].doc = d) => shown'[d] = {}
    BY DEF TableRests
  <2>4. \A c \in Calls : call'[c].pc \in {"find", "write"} /\ call'[c].doc = d =>
                           call'[c].key \in {k, NoDoc}
    BY DEF TableRests
  <2>5. code'[d] # Purged => k = (IF code'[d] \in Codes THEN code'[d] ELSE d)
    BY DEF TableRests
  <2> QED BY <2>1, <2>2, <2>3, <2>4, <2>5, KeepsKey
<1> QED BY <1>2

LEMMA RestingSteps ==
  ASSUME TypeInv, NEW c \in Calls,
         Begin(c) \/ Bump(c) \/ ReadRows(c) \/ Push(c) \/ PurgeRow(c) \/ Stops(c)
  PROVE  TableRests
<1>0. call[c] \in CallRecord
  BY DEF TypeInv, TypeOK
<1>1. PICK r : /\ Step(c, r)
               /\ \/ r.pc = "find" /\ r.key = NoDoc
                  \/ r.pc \notin {"find", "write"}
  <2>1. CASE Begin(c)
    <3>1. PICK d \in Docs, op \in {"dev", "live", "remove", "purge"} :
            Step(c, [Idle EXCEPT !.pc = "find", !.op = op, !.doc = d])
      BY <2>1 DEF Begin
    <3>2. /\ [Idle EXCEPT !.pc = "find", !.op = op, !.doc = d].pc = "find"
          /\ [Idle EXCEPT !.pc = "find", !.op = op, !.doc = d].key = NoDoc
      BY DEF Idle
    <3> QED BY <3>1, <3>2
  <2>2. CASE Bump(c)
    <3>1. [call[c] EXCEPT !.pc = "read", !.num = version + 1].pc = "read"
      BY <1>0 DEF CallRecord
    <3> QED BY <2>2, <3>1 DEF Bump
  <2>3. CASE ReadRows(c)
    <3>1. [call[c] EXCEPT !.pc = "push", !.entries = Fetched(call[c].tier),
                          !.asof = writes].pc = "push"
      BY <1>0 DEF CallRecord
    <3> QED BY <2>3, <3>1 DEF ReadRows
  <2>4. CASE Push(c)
    <3>1. [call[c] EXCEPT !.pc = "read", !.tier = "live"].pc = "read"
      BY <1>0 DEF CallRecord
    <3> QED BY <2>4, <3>1, EndedIsOver DEF Push
  <2>5. CASE PurgeRow(c) \/ Stops(c)
    BY <2>5, EndedIsOver DEF PurgeRow, Stops, Idle
  <2> QED BY <2>1, <2>2, <2>3, <2>4, <2>5
<1>2. Alone(c, r)
  BY <1>1, StepAlone
<1>3. rows' = rows /\ shown' = shown /\ strayed' = strayed
  BY DEF Begin, Bump, ReadRows, Push, PurgeRow, Stops, bookVars
<1>4. \A d \in Docs : code'[d] = code[d] \/ code'[d] = Purged
  BY DEF Begin, Bump, ReadRows, Push, PurgeRow, Stops, TypeInv, TypeOK
<1> QED BY <1>1, <1>2, <1>3, <1>4 DEF TableRests, Alone

LEMMA FindKeepsKeys ==
  ASSUME TypeInv, OneKeyEach, NEW c \in Calls, Find(c)
  PROVE  OneKeyEach'
<1>0. call[c] \in CallRecord /\ call[c].pc = "find"
  BY DEF TypeInv, TypeOK, Find
<1>1. rows' = rows /\ shown' = shown /\ strayed' = strayed /\ code' = code
  BY DEF Find, bookVars
<1>2. PICK r : /\ Step(c, r)
               /\ \/ r.pc = "idle"
                  \/ r.doc = call[c].doc /\ r.key = call[c].key
                  \/ /\ r.doc = call[c].doc /\ code[call[c].doc] # Purged
                     /\ r.key = Key(call[c].doc, call[c].op)
  <2> DEFINE found == [call[c] EXCEPT !.pc = "write", !.key = Key(call[c].doc, call[c].op)]
             missing == [call[c] EXCEPT !.pc = "write"]
  <2>1. /\ found.doc = call[c].doc /\ found.key = Key(call[c].doc, call[c].op)
        /\ missing.doc = call[c].doc /\ missing.key = call[c].key
        /\ Idle.pc = "idle"
    BY <1>0 DEF CallRecord, Idle
  <2>2. \/ code[call[c].doc] # Purged /\ Step(c, found)
        \/ Step(c, missing)
        \/ Step(c, Idle)
    BY DEF Find
  <2> HIDE DEF found, missing
  <2> QED BY <2>1, <2>2
<1>3. Alone(c, r)
  BY <1>2, StepAlone
<1> SUFFICES ASSUME NEW d \in Docs \ strayed PROVE \E k \in Keys : KeptUnder(d, k)'
  BY <1>1 DEF OneKeyEach
<1>4. PICK k \in Keys : KeptUnder(d, k)
  BY DEF OneKeyEach
<1>5. \A b \in Calls : call'[b].pc \in {"find", "write"} /\ call'[b].doc = d =>
                         call'[b].key \in {k, NoDoc}
  <2> SUFFICES ASSUME NEW b \in Calls, call'[b].pc \in {"find", "write"}, call'[b].doc = d
               PROVE  call'[b].key \in {k, NoDoc}
    OBVIOUS
  <2>1. CASE b # c
    BY <1>3, <1>4, <2>1, KeyKept DEF Alone
  <2>2. CASE b = c
    <3>1. call'[c] = r /\ call[c].doc = d
      BY <1>2, <1>3, <2>2 DEF Alone
    <3>2. call[c].key \in {k, NoDoc}
      BY <1>0, <1>4, <3>1, KeyKept
    <3>3. code[d] # Purged => Key(d, call[c].op) = k
      BY <1>4, KeyKept DEF Key
    <3> QED BY <1>2, <2>2, <3>1, <3>2, <3>3
  <2> QED BY <2>1, <2>2
<1>6. KeptUnder(d, k)'
  <2>1. /\ \A p \in Keys : rows'[p].status # {} /\ rows'[p].doc = d => p = k
        /\ rows'[k].status # {} /\ rows'[k].doc = d => shown'[d] = rows'[k].status
        /\ ~(rows'[k].status # {} /\ rows'[k].doc = d) => shown'[d] = {}
        /\ code'[d] # Purged => k = (IF code'[d] \in Codes THEN code'[d] ELSE d)
    BY <1>1, <1>4, KeyKept
  <2> QED BY <1>5, <2>1, KeepsKey
<1> QED BY <1>6

\* A call that has written, or found nothing to write, is past its key.
LEMMA PastItsKey ==
  ASSUME TypeInv, NEW c \in Calls, Written(c) \/ Step(c, Ended(c))
  PROVE  /\ call'[c].pc \notin {"find", "write"}
         /\ \A b \in Calls \ {c} : call'[b] = call[b]
<1>0. call[c] \in CallRecord
  BY DEF TypeInv, TypeOK
<1>1. CASE Written(c)
  <2>1. Alone(c, [call[c] EXCEPT !.pc = "bump", !.write = writes + 1])
    BY <1>1, StepAlone DEF Written
  <2>2. [call[c] EXCEPT !.pc = "bump", !.write = writes + 1].pc = "bump"
    BY <1>0 DEF CallRecord
  <2> QED BY <2>1, <2>2 DEF Alone
<1>2. CASE Step(c, Ended(c))
  <2>1. Alone(c, Ended(c))
    BY <1>2, StepAlone
  <2> QED BY <2>1, EndedIsOver DEF Alone
<1> QED BY <1>1, <1>2

LEMMA UpsertKeepsKeys ==
  ASSUME TypeInv, OneKeyEach, NEW c \in Calls, Upsert(c)
  PROVE  OneKeyEach'
<1> DEFINE e == call[c].doc
           q == call[c].key
           op == call[c].op
<1>0. /\ e \in Docs /\ q \in Keys /\ q # NoDoc /\ op \in Tiers /\ call[c].pc = "write"
  BY KeysAssumption DEF Upsert, TypeInv, CallShape, Keys
<1>1. rows' = [rows EXCEPT ![q] = [status |-> rows[q].status \cup {op}, doc |-> e]]
  BY DEF Upsert, Accumulated
<1>2. /\ rows'[q].status = rows[q].status \cup {op} /\ rows'[q].doc = e
      /\ \A p \in Keys \ {q} : rows'[p] = rows[p]
  BY <1>0, <1>1 DEF TypeInv, TypeOK
<1>3. /\ shown'[e] = shown[e] \cup {op}
      /\ \A d \in Docs \ {e} : shown'[d] = shown[d]
  BY <1>0 DEF Upsert, TypeInv, TypeOK
<1>4. code' = code
  BY DEF Upsert
<1>5. /\ strayed \subseteq strayed'
      /\ rows[q].status # {} /\ rows[q].doc # e => e \in strayed' /\ rows[q].doc \in strayed'
  BY <1>0 DEF Upsert, Present
<1>6. /\ call'[c].pc \notin {"find", "write"}
      /\ \A b \in Calls \ {c} : call'[b] = call[b]
  BY PastItsKey DEF Upsert
<1> HIDE DEF op
<1> SUFFICES ASSUME NEW d \in Docs, d \notin strayed' PROVE \E k \in Keys : KeptUnder(d, k)'
  BY DEF OneKeyEach
<1>7. PICK k \in Keys : KeptUnder(d, k)
  BY <1>5 DEF OneKeyEach
<1>8. /\ \A b \in Calls : call'[b].pc \in {"find", "write"} /\ call'[b].doc = d =>
                            call'[b].key \in {k, NoDoc}
      /\ code'[d] # Purged => k = (IF code'[d] \in Codes THEN code'[d] ELSE d)
  BY <1>4, <1>6, <1>7, KeyKept
<1>9. CASE d = e
  <2>1. k = q
    BY <1>0, <1>7, <1>9, KeyKept
  <2>2. shown[d] = rows[k].status
    <3>1. CASE rows[k].status = {}
      BY <1>7, <3>1, KeyKept
    <3>2. CASE rows[k].status # {}
      <4>1. rows[k].doc = d
        BY <1>5, <1>9, <2>1, <3>2
      <4> QED BY <1>7, <3>2, <4>1, KeyKept
    <3> QED BY <3>1, <3>2
  <2>3. rows'[k].doc = d /\ rows'[k].status # {} /\ shown'[d] = rows'[k].status
    BY <1>2, <1>3, <1>9, <2>1, <2>2
  <2>4. \A p \in Keys : rows'[p].status # {} /\ rows'[p].doc = d => p = k
    BY <1>2, <1>7, <2>1, KeyKept
  <2>5. KeptUnder(d, k)'
    BY <1>8, <2>3, <2>4, KeepsKey
  <2> QED BY <2>5
<1>10. CASE d # e
  <2>1. ~(rows[q].status # {} /\ rows[q].doc = d)
    BY <1>5, <1>10
  <2>2. \A p \in Keys : rows'[p].status # {} /\ rows'[p].doc = d =>
                          p # q /\ rows'[p] = rows[p]
    BY <1>2, <1>10
  <2>3. /\ \A p \in Keys : rows'[p].status # {} /\ rows'[p].doc = d => p = k
        /\ rows'[k].status # {} /\ rows'[k].doc = d => shown'[d] = rows'[k].status
        /\ ~(rows'[k].status # {} /\ rows'[k].doc = d) => shown'[d] = {}
    BY <1>2, <1>3, <1>7, <1>10, <2>1, <2>2, KeyKept
  <2>4. KeptUnder(d, k)'
    BY <1>8, <2>3, KeepsKey
  <2> QED BY <2>4
<1> QED BY <1>9, <1>10

LEMMA DeleteKeepsKeys ==
  ASSUME TypeInv, OneKeyEach, NEW c \in Calls, Delete(c)
  PROVE  OneKeyEach'
<1> DEFINE e == call[c].doc
           q == call[c].key
           gone == IF q = NoDoc THEN RowsOf(e) ELSE {q} \cap Present
<1>0. e \in Docs /\ call[c].pc = "write"
  BY DEF Delete, TypeInv, CallShape
<1>1. \A p \in Keys : rows'[p] = (IF p \in gone THEN NoRow ELSE rows[p])
  BY DEF Delete
<1>2. /\ shown'[e] = {}
      /\ \A d \in Docs \ {e} : shown'[d] = shown[d]
  BY <1>0 DEF Delete, TypeInv, TypeOK
<1>3. code' = code
  BY DEF Delete
<1>4. /\ strayed \subseteq strayed'
      /\ \A p \in gone : rows[p].doc # e => rows[p].doc \in strayed'
  BY DEF Delete
<1>5. /\ call'[c].pc \notin {"find", "write"}
      /\ \A b \in Calls \ {c} : call'[b] = call[b]
  BY PastItsKey DEF Delete
<1>6. NoRow.status = {}
  BY DEF NoRow
<1>7. \A p \in Keys : p \in gone <=> /\ rows[p].status # {}
                                     /\ IF q = NoDoc THEN rows[p].doc = e ELSE p = q
  BY DEF RowsOf, Present
<1> HIDE DEF gone
<1> SUFFICES ASSUME NEW d \in Docs, d \notin strayed' PROVE \E k \in Keys : KeptUnder(d, k)'
  BY DEF OneKeyEach
<1>8. PICK k \in Keys : KeptUnder(d, k)
  BY <1>4 DEF OneKeyEach
<1>9. /\ \A b \in Calls : call'[b].pc \in {"find", "write"} /\ call'[b].doc = d =>
                            call'[b].key \in {k, NoDoc}
      /\ code'[d] # Purged => k = (IF code'[d] \in Codes THEN code'[d] ELSE d)
  BY <1>3, <1>5, <1>8, KeyKept
<1>10. CASE d = e
  <2>1. q \in {k, NoDoc}
    BY <1>0, <1>8, <1>10, KeyKept
  <2>2. \A p \in Keys : ~(rows'[p].status # {} /\ rows'[p].doc = d)
    <3> SUFFICES ASSUME NEW p \in Keys, rows'[p].status # {}, rows'[p].doc = d PROVE FALSE
      OBVIOUS
    <3>1. p \notin gone /\ rows'[p] = rows[p]
      BY <1>1, <1>6
    <3>2. p = k
      BY <1>8, <3>1, KeyKept
    <3> QED BY <1>7, <1>10, <2>1, <3>1, <3>2
  <2>3. KeptUnder(d, k)'
    BY <1>2, <1>9, <1>10, <2>2, KeepsKey
  <2> QED BY <2>3
<1>11. CASE d # e
  <2>1. \A p \in gone : rows[p].doc # d
    BY <1>4, <1>11
  <2>2. \A p \in Keys : rows'[p].status # {} /\ rows'[p].doc = d => rows'[p] = rows[p]
    BY <1>1, <1>6
  <2>3. /\ \A p \in Keys : rows'[p].status # {} /\ rows'[p].doc = d => p = k
        /\ rows'[k].status # {} /\ rows'[k].doc = d => shown'[d] = rows'[k].status
    BY <1>2, <1>8, <1>11, <2>2, KeyKept
  <2>4. ~(rows'[k].status # {} /\ rows'[k].doc = d) => shown'[d] = {}
    <3> SUFFICES ASSUME ~(rows'[k].status # {} /\ rows'[k].doc = d) PROVE shown[d] = {}
      BY <1>2, <1>11
    <3>1. ~(rows[k].status # {} /\ rows[k].doc = d)
      BY <1>1, <2>1
    <3> QED BY <1>8, <3>1, KeyKept
  <2>5. KeptUnder(d, k)'
    BY <1>9, <2>3, <2>4, KeepsKey
  <2> QED BY <2>5
<1> QED BY <1>10, <1>11

LEMMA RenameKeepsKeys ==
  ASSUME TypeInv, OneKeyEach, NEW e \in Docs, Rename(e)
  PROVE  OneKeyEach'
<1>1. rows' = rows /\ shown' = shown /\ call' = call /\ strayed \subseteq strayed'
  BY DEF Rename
<1>2. \A d \in Docs \ {e} : code'[d] = code[d]
  BY DEF Rename, TypeInv, TypeOK
<1> SUFFICES ASSUME NEW d \in Docs, d \notin strayed' PROVE \E k \in Keys : KeptUnder(d, k)'
  BY DEF OneKeyEach
<1>3. PICK k \in Keys : KeptUnder(d, k)
  BY <1>1 DEF OneKeyEach
<1>4. CASE d # e
  <2>1. KeptUnder(d, k)'
    BY <1>1, <1>2, <1>3, <1>4, KeyKept, KeepsKey
  <2> QED BY <2>1
<1>5. CASE d = e
  <2>1. PICK new \in Keys : new = (IF code'[d] \in Codes THEN code'[d] ELSE d)
    BY DEF Keys
  <2>2. RowsOf(d) = {} /\ \A c \in Calls : call[c].doc # d
    BY <1>5 DEF Rename
  <2>3. \A p \in Keys : ~(rows[p].status # {} /\ rows[p].doc = d)
    BY <2>2 DEF RowsOf, Present
  <2>4. shown[d] = {}
    BY <1>3, <2>3, KeyKept
  <2>5. KeptUnder(d, new)'
    <3>1. \A b \in Calls : call'[b].doc # d
      BY <1>1, <2>2
    <3>2. \A p \in Keys : ~(rows'[p].status # {} /\ rows'[p].doc = d)
      BY <1>1, <2>3
    <3>3. shown'[d] = {}
      BY <1>1, <2>4
    <3> QED BY <2>1, <3>1, <3>2, <3>3, KeepsKey
  <2> QED BY <2>5
<1> QED BY <1>4, <1>5

LEMMA KeySteps ==
  ASSUME TypeInv, OneKeyEach, [Next]_vars
  PROVE  OneKeyEach'
<1>1. ASSUME NEW c \in Calls, CallStep(c) PROVE OneKeyEach'
  <2>1. ASSUME Begin(c) \/ Bump(c) \/ ReadRows(c) \/ Push(c) \/ PurgeRow(c) \/ Stops(c)
        PROVE  OneKeyEach'
    BY <2>1, RestingSteps, TableRestsKeeps
  <2> QED BY <1>1, <2>1, FindKeepsKeys, UpsertKeepsKeys, DeleteKeepsKeys DEF CallStep
<1>2. ASSUME NEW d \in Docs, Rename(d) PROVE OneKeyEach'
  BY <1>2, RenameKeepsKeys
<1>3. ASSUME NEW t \in Tiers, Expire(t) PROVE OneKeyEach'
  <2>1. TableRests
    BY <1>3 DEF Expire, TableRests, bookVars
  <2> QED BY <2>1, TableRestsKeeps
<1>4. CASE UNCHANGED vars
  <2>1. TableRests
    BY <1>4 DEF vars, TableRests
  <2> QED BY <2>1, TableRestsKeeps
<1> QED BY <1>1, <1>2, <1>3, <1>4 DEF Next

LEMMA KeyInit == Init => OneKeyEach
<1> SUFFICES ASSUME Init, NEW d \in Docs PROVE \E k \in Keys : KeptUnder(d, k)
  BY DEF OneKeyEach
<1> DEFINE k == Key(d, "dev")
<1>1. k \in Keys
  BY KeyTyped
<1>2. RowsOf(d) = {}
  BY DEF Init, RowsOf, Present, NoRow
<1>3. \A c \in Calls : call[c].pc = "idle"
  BY DEF Init, Idle
<1>4. KeptUnder(d, k)
  BY <1>2, <1>3 DEF Init, KeptUnder
<1> QED BY <1>1, <1>4

\* Whatever calls do beside each other, a document keeps to one row, with the
\* tiers it was synced for since it was removed, and a snapshot that a call
\* leaves is what the table was when it was read, unless something was written
\* beside the call.
THEOREM CatalogInvariant == Spec => [](CatalogInv /\ MirrorInOrder)
<1> DEFINE Inv == TypeInv /\ MirrorInv /\ OneKeyEach
<1>1. Init => Inv
  BY TypeInit, MirrorInit, KeyInit
<1>2. Inv /\ [Next]_vars => Inv'
  BY TypeSteps, MirrorSteps, KeySteps
<1>3. Inv => CatalogInv /\ MirrorInOrder
  BY DEF TypeInv, MirrorInv, CatalogInv
<1> HIDE DEF Inv
<1> QED BY <1>1, <1>2, <1>3, PTL DEF Spec

LEMMA RowsAndSnapshots ==
  ASSUME CatalogInv, MirrorInOrder
  PROVE  CatalogByDocument
<1> SUFFICES ASSUME settled, NEW t \in Tiers, NEW d \in Docs \ strayed
             PROVE  (\E e \in redis[t].entries : e.doc = d) <=> shown[d] \cap Included(t) # {}
  BY DEF CatalogByDocument
<1>1. PICK k \in Keys : KeptUnder(d, k)
  BY DEF CatalogInv, OneKeyEach
<1>2. (\E e \in redis[t].entries : e.doc = d)
        <=> \E p \in Keys : rows[p].status \cap Included(t) # {} /\ rows[p].doc = d
  <2>1. redis[t].entries = Fetched(t)
    BY DEF MirrorInOrder
  <2>2. (\E e \in Fetched(t) : e.doc = d)
          <=> \E p \in Keys : rows[p].status \cap Included(t) # {} /\ rows[p].doc = d
    <3> DEFINE entry(p) == [key |-> p, doc |-> rows[p].doc]
               listed == {p \in Keys : rows[p].status \cap Included(t) # {}}
    <3>1. Fetched(t) = {entry(p) : p \in listed} /\ \A p \in listed : entry(p).doc = rows[p].doc
      BY DEF Fetched
    <3>2. (\E e \in {entry(p) : p \in listed} : e.doc = d) <=> \E p \in listed : entry(p).doc = d
      <4> HIDE DEF entry, listed
      <4> QED OBVIOUS
    <3> QED BY <3>1, <3>2
  <2> QED BY <2>1, <2>2
<1>3. \A p \in Keys : rows[p].status \cap Included(t) # {} => rows[p].status # {}
  OBVIOUS
<1>4. (\E p \in Keys : rows[p].status \cap Included(t) # {} /\ rows[p].doc = d)
        <=> shown[d] \cap Included(t) # {}
  BY <1>1, <1>3, KeyKept
<1> QED BY <1>2, <1>4

\* In order, the snapshots show a document to testers if it was synced since it
\* was removed, and to users if it was promoted since, unless its row lies under
\* an old code or its code is another's, too: for any documents, codes and calls.
THEOREM SnapshotsByDocument == Spec => []CatalogByDocument
<1>1. CatalogInv /\ MirrorInOrder => CatalogByDocument
  BY RowsAndSnapshots
<1> QED BY <1>1, CatalogInvariant, PTL
=============================================================================
