SPECIFICATION Spec
CONSTANTS
  Docs = {d1}
  Codes = {k1, k2}
  Bootstrap = {k1}
  Ops <- Everything
  NoCode = NoCode
  NoDoc = NoDoc
  MaxOps = 3
  MaxFaults = 1
INVARIANTS
  SchemeInv
  CatalogByRule
  
  CacheFresh
CHECK_DEADLOCK FALSE
