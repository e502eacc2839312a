SPECIFICATION Spec
CONSTANTS
  Pages = {1}
  Foreign = {1}
  Spreadsheet = FALSE
  Scheme = TRUE
  Extra = {}
  Ops <- EveryEdit
  MaxEdits = 1
  MaxAttempts = 2
  Late = {l}
INVARIANTS
  ReviewedEditsSurvive
CHECK_DEADLOCK FALSE
