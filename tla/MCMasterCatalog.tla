-------------------------- MODULE MCMasterCatalog ---------------------------
(* Instances of MasterCatalog for TLC.                                     *)
EXTENDS MasterCatalog, TLC

Symmetry == Permutations(Docs) \cup Permutations(Codes) \cup Permutations(Calls)
=============================================================================
