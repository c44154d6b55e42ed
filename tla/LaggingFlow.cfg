SPECIFICATION Spec
CONSTANTS
  a = a
  b = b
  c = c
  Steps = {a, b, c}
  Deps <- Apart
  Manual = {}
  ContinueOnFailure = {}
  When <- Always
  RetryLimit <- Zeros
  Backoff <- AtOnce
  Timeout <- Never
  ActiveDeadline <- NoDeadline
  BackoffLimit = 0
  TTL = 10
  Validity <- Accepted
  Schema <- MarkedSchema
  MayFail = {}
  PodRetries = FALSE
  Parallel = FALSE
  Resyncs = FALSE
  Budget <- NoDisturbance
  MaxTime = 0
  MaxConditions = 2
INVARIANTS
  NoOrphanedJob
CHECK_DEADLOCK FALSE
