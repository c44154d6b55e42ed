SPECIFICATION FairSpec
CONSTANTS
  a = a
  b = b
  c = c
  Steps = {a, b}
  Deps <- Chain
  Manual = {}
  ContinueOnFailure = {}
  When <- Always
  RetryLimit <- Zeros
  Backoff <- AtOnce
  Timeout <- Never
  ActiveDeadline <- NoDeadline
  BackoffLimit = 0
  TTL = 10
  Validity <- Accepted
  Schema <- MarkedSchema
  MayFail = {a}
  PodRetries = FALSE
  Parallel = FALSE
  Resyncs = TRUE
  Budget <- NoDisturbance
  MaxTime = 0
  MaxConditions = 2
PROPERTIES
  FailedJobFailsFlow
CHECK_DEADLOCK FALSE
