CONSTANTS
  Tasks <- MCTasks
  MaxSessions = 2
  MaxPublications = 1
  MaxCuts = 1
  MaxExpiries = 1
SPECIFICATION Spec
INVARIANTS
  CompleteIsVerified
  MismatchExplained
  ParametersLossExplained
PROPERTIES
  NotifyHasFile
  SessionEnds
CHECK_DEADLOCK FALSE
