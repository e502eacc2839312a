\* Attempts that outlive their timeout, a cancellation or a purge.
CONSTANTS
  q1 = q1
  Extra = {}
  Requests = {q1}
  Ops <- LateOps
  Options <- Reviewed
  DISABLE_PROD = FALSE
  ENABLE_PUBLISH_TO_NETWORK = TRUE
  CallsMayFail = TRUE
  MaxAttempts = 2
  MaxStray = 1
SPECIFICATION Spec
INVARIANTS
  DeliveryInv
  ProdOnlyByApproval
  NetworkOnlyAfterProd
CHECK_DEADLOCK FALSE
