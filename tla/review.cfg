SPECIFICATION FairSpec
CONSTANTS
  Pages = {1, 2}
  Foreign = {1}
  Spreadsheet = TRUE
  Scheme = FALSE
  Extra = {x}
  Ops <- IndexOps
  MaxEdits = 1
  MaxAttempts = 1
  Late = {}
INVARIANTS
  ContentInv
  ProjectionOrFlagged
PROPERTIES
  ReingestTakesEffect
CHECK_DEADLOCK FALSE
