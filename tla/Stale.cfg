SPECIFICATION Spec
CONSTANTS
  a = a
  b = b
  c = c
  Steps = {a, b, c}
  Deps <- Apart
  Manual = {b}
  ContinueOnFailure = {}
  When <- IfAFails
  RetryLimit <- Zeros
  Backoff <- AtOnce
  Timeout <- Never
  ActiveDeadline <- NoDeadline
  BackoffLimit = 0
  TTL = 10
  Validity <- Accepted
  Schema <- MarkedSchema
  MayFail = {a}
  PodRetries = TRUE
  Parallel = TRUE
  Resyncs = TRUE
  Budget <- OneRefusal
  MaxTime = 0
  MaxConditions = 2
INVARIANTS
  PlannedStepsHaveNoJob
  QuiescentIsReconciled
