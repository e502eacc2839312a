\* The pipeline alone, two requests at once: every upload option, approvals,
\* failures and retries, removal and restoration at any point.
CONSTANTS
  q1 = q1
  q2 = q2
  Extra = {}
  Requests = {q1, q2}
  Ops <- RemovalOps
  Options <- Everything
  DISABLE_PROD = FALSE
  ENABLE_PUBLISH_TO_NETWORK = TRUE
  CallsMayFail = FALSE
  MaxAttempts = 2
  MaxStray = 0
SPECIFICATION Spec
SYMMETRY Symmetry
INVARIANTS
  RowInv
  GatesInOrder
  ApprovalNotEarly
  RowAgreesWhenQuiet
  PurgedStaysPurged
PROPERTIES
  RowMovesForward
  
CHECK_DEADLOCK FALSE
