\* Fair workers, retries, and a promotion beside the pipeline.
CONSTANTS
  p1 = p1
  q1 = q1
  Extra = {p1}
  Requests = {q1}
  Ops <- DeliveryOps
  Options <- Reviewed
  DISABLE_PROD = FALSE
  ENABLE_PUBLISH_TO_NETWORK = TRUE
  CallsMayFail = FALSE
  MaxAttempts = 2
  MaxStray = 0
SPECIFICATION FairSpec
PROPERTIES
  WorkflowsSettle
  ApprovalTakesEffect
CHECK_DEADLOCK FALSE
