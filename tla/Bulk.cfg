SPECIFICATION FairSpec
CONSTANTS
  None = None
  BulkIds = {a, b, c}
  Operations = 3
  MaxFailures = 2
INVARIANTS
  CyclesNeverExecute
  DependenciesFirst
  AnswersExplained
  FailOnErrorsStops
PROPERTIES
  Answered
CHECK_DEADLOCK FALSE
