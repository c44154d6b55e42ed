SPECIFICATION FairSpec
CONSTANTS
  a = a
  b = b
  c = c
  Steps = {a, b}
  Deps <- Chain
  Manual = {b}
  ContinueOnFailure = {}
  When <- Always
  RetryLimit <- Ones
  Backoff <- AtOnce
  Timeout <- Never
  ActiveDeadline <- NoDeadline
  BackoffLimit = 1
  TTL = 10
  Validity <- Edited
  Schema <- MarkedSchema
  MayFail = {}
  PodRetries = FALSE
  Parallel = FALSE
  Resyncs = FALSE
  Budget <- EditAndError
  MaxTime = 1
  MaxConditions = 2
PROPERTIES
  QuietWithinASecond
  RejectedFlowFails
  ApprovedGateOpens
  EventuallySucceeds
CHECK_DEADLOCK FALSE
