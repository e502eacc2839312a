-------------------------- MODULE DeliveryContract --------------------------
(***************************************************************************)
(* What the pipeline promises about a document, whatever its workflows,    *)
(* requests and rows are doing:                                            *)
(*                                                                         *)
(*   - reviewers approve the gates of DEV in their order, unless the       *)
(*     upload asked for automatic approval;                                *)
(*   - nothing enters the DEV index before the last of these approvals,    *)
(*     or a user's re-ingestion;                                           *)
(*   - the superadmin approves PROD only for what DEV has received;        *)
(*   - nothing enters PROD before that, and nothing is announced to the    *)
(*     network before it entered PROD.                                     *)
(***************************************************************************)
EXTENDS Stages

VARIABLES
  auto,    \* automatic approval of the gates of DEV
  granted, \* decisions taken
  did      \* deliveries made

vars == <<auto, granted, did>>

Init ==
  /\ auto = FALSE
  /\ granted = {}
  /\ did = {}

\* The upload chooses, before anything else happens.
Choose ==
  /\ granted = {} /\ did = {}
  /\ auto' \in BOOLEAN
  /\ UNCHANGED <<granted, did>>

Grant(g) ==
  /\ g \in DevGates =>
       auto \/ \A h \in DevGates : Rank[h] < Rank[g] => h \in granted
  /\ g = "approval_for_prod" => "ingest" \in did
  /\ granted' = granted \cup {g}
  /\ UNCHANGED <<auto, did>>

Ingest ==
  /\ auto \/ granted \cap {"ready_for_ingestion", "reingest"} # {}
  /\ did' = did \cup {"ingest"}
  /\ UNCHANGED <<auto, granted>>

Promote ==
  /\ "approval_for_prod" \in granted
  /\ did' = did \cup {"promote"}
  /\ UNCHANGED <<auto, granted>>

Announce ==
  /\ "promote" \in did
  /\ did' = did \cup {"announce"}
  /\ UNCHANGED <<auto, granted>>

Next ==
  \/ Choose
  \/ \E g \in ReviewStages \cup {"reingest"} : Grant(g)
  \/ Ingest
  \/ Promote
  \/ Announce

Spec == Init /\ [][Next]_vars
=============================================================================
