SPECIFICATION Spec
CONSTANTS
  Docs = {d1, d2}
  Codes = {k1, k2}
  Calls = {c1, c2}
  NoCode = NoCode
  Purged = Purged
  NoDoc = NoDoc
  MaxOps = 3
  MaxFaults = 1
INVARIANTS
  CatalogInv
  MirrorInOrder
  SnapshotHasItsVersion
  CatalogByDocument
SYMMETRY Symmetry
CHECK_DEADLOCK FALSE
