-------------------------- MODULE MCSchemeCatalog ---------------------------
(* Instances of SchemeCatalog for TLC.                                     *)
EXTENDS SchemeCatalog, TLC

\* For instances with several documents.
Symmetry == Permutations(Docs)

Everything == {"approve", "reingest", "code", "kind", "visible", "disable",
               "hide", "restore", "mark", "clear", "rebuild", "force"}
JustApprove == {"approve"}
=============================================================================
