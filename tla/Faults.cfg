SPECIFICATION Spec
CONSTANTS
  a = a
  b = b
  c = c
  Steps = {a, b, c}
  Deps <- Join
  Manual = {c}
  ContinueOnFailure = {a}
  When <- Always
  RetryLimit <- Zeros
  Backoff <- AtOnce
  Timeout <- Never
  ActiveDeadline <- NoDeadline
  BackoffLimit = 0
  TTL = 10
  Validity <- Accepted
  Schema <- MarkedSchema
  MayFail = {a}
  PodRetries = FALSE
  Parallel = FALSE
  Resyncs = FALSE
  Budget <- Faults
  MaxTime = 0
  MaxConditions = 2
INVARIANTS
  TypeOK
  DependencyOrder
  SuccessIsReal
PROPERTIES
  ImplementsOrder
CHECK_DEADLOCK FALSE
