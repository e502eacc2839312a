\* A purge while an attempt of the pipeline is at work.
CONSTANTS
  q1 = q1
  Extra = {}
  Requests = {q1}
  Ops <- RemovalOps
  Options <- Reviewed
  DISABLE_PROD = FALSE
  ENABLE_PUBLISH_TO_NETWORK = TRUE
  CallsMayFail = FALSE
  MaxAttempts = 1
  MaxStray = 1
SPECIFICATION Spec
INVARIANTS
  PurgedStaysPurged
CHECK_DEADLOCK FALSE
