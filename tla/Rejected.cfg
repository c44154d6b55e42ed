SPECIFICATION FairSpec
CONSTANTS
  a = a
  b = b
  c = c
  Steps = {a, b, c}
  Deps <- Cycle
  Manual = {}
  ContinueOnFailure = {}
  When <- Always
  RetryLimit <- Zeros
  Backoff <- AtOnce
  Timeout <- Never
  ActiveDeadline <- NoDeadline
  BackoffLimit = 0
  TTL = 10
  Validity <- Edited
  Schema <- MarkedSchema
  MayFail = {}
  PodRetries = FALSE
  Parallel = FALSE
  Resyncs = FALSE
  Budget <- AllFaults
  MaxTime = 0
  MaxConditions = 3
PROPERTIES
  RejectedFlowFails
CHECK_DEADLOCK FALSE
