SPECIFICATION Spec
CONSTANTS
  Steps = {"producer", "consumer"}
  Identifiers = {"x", "y"}
  Flows <- MCFlows
  Edits <- MCEdits
  Budget = 2
INVARIANTS
  TypeOK
  ResourcesBeforeJobs
  
  JobCarriesItsParameters
CHECK_DEADLOCK FALSE
