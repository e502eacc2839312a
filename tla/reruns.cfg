\* One re-run of any kind beside a reviewed pipeline, and reconciliation.
CONSTANTS
  r1 = r1
  q1 = q1
  Extra = {r1}
  Requests = {q1}
  Ops <- ReconcileOps
  Options <- Reviewed
  DISABLE_PROD = FALSE
  ENABLE_PUBLISH_TO_NETWORK = TRUE
  CallsMayFail = TRUE
  MaxAttempts = 1
  MaxStray = 0
SPECIFICATION Spec
INVARIANTS
  CompletedMeansDelivered
  ContractInv
PROPERTIES
  DeliversByContract
CHECK_DEADLOCK FALSE
