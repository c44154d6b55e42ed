SPECIFICATION Spec
CONSTANTS
  a = a
  b = b
  c = c
  Steps = {a, b}
  Deps <- Chain
  Manual = {b}
  ContinueOnFailure = {a}
  When <- Always
  RetryLimit <- Ones
  Backoff <- AtOnce
  Timeout <- ShortForA
  ActiveDeadline = 1
  BackoffLimit = 1
  TTL = 1
  Validity <- Edited
  Schema <- MarkedSchema
  MayFail = {}
  PodRetries = FALSE
  Parallel = FALSE
  Resyncs = FALSE
  Budget <- OneOfBoth
  MaxTime = 2
  MaxConditions = 2
PROPERTIES
  DeadlineIsFinal
  OnlyLateJobsDeleted
  TTLDeletesFinishedFlow
CHECK_DEADLOCK FALSE
