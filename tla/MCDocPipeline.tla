--------------------------- MODULE MCDocPipeline ----------------------------
(* Instances of DocPipeline for TLC.                                       *)
EXTENDS DocPipeline, TLC

\* Every upload option; a reviewed document in a deployment with PROD.
Everything == [auto : BOOLEAN, ocrOnly : BOOLEAN, skipProd : BOOLEAN]
Reviewed == {[auto |-> FALSE, ocrOnly |-> FALSE, skipProd |-> FALSE]}

DeliveryOps == {"upload", "approve", "approve_prod"}
ReconcileOps == DeliveryOps \cup RerunKinds \cup {"reconcile"}
RemovalOps == DeliveryOps \cup {"disable", "hide_only", "purge", "restore"}
LateOps == RemovalOps \cup {"reconcile"}

Symmetry == Permutations(Extra) \cup Permutations(Requests)
=============================================================================
