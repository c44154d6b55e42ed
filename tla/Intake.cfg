SPECIFICATION Spec
CONSTANTS
  a = a
  b = b
  c = c
  Blank = Blank
  Malformed = Malformed
  Undecodable = Undecodable
  StepNames = {a, b, c}
  MaxTimeout = 2
  Specs <- Created
  Revisions <- Revised
  FailurePolicy = "Ignore"
  DefaultTTL = 86400
  DefaultBackoffLimit = 6
  MaxChanges = 2
INVARIANTS
  AdmittedIsPlannable
  CycleIsReal
  PlanFitsCopy
  AdmittedMeetsAssumptions
  DefaultsChangeNothing
CHECK_DEADLOCK FALSE
