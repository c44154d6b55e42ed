SPECIFICATION FairSpec
CONSTANTS
  a = a
  b = b
  c = c
  Steps = {a}
  Deps <- Chain
  Manual = {}
  ContinueOnFailure = {}
  When <- Always
  RetryLimit <- Ones
  Backoff <- Doubling
  Timeout <- Never
  ActiveDeadline <- NoDeadline
  BackoffLimit = 1
  TTL = 10
  Validity <- Accepted
  Schema <- MarkedSchema
  MayFail = {a}
  PodRetries = FALSE
  Parallel = FALSE
  Resyncs = TRUE
  Budget <- NoDisturbance
  MaxTime = 3
  MaxConditions = 2
PROPERTIES
  FailedStepIsRetried
CHECK_DEADLOCK FALSE
