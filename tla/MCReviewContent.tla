-------------------------- MODULE MCReviewContent ---------------------------
(* Instances of ReviewContent for TLC.                                     *)
EXTENDS ReviewContent

EveryEdit == PageOps \cup ChunkOps
IndexOps == EveryEdit \cup {"reingest"}
=============================================================================
