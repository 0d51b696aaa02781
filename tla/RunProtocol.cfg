SPECIFICATION Spec
CONSTANTS
  Profiles = {p1}
  MaxRuns = 2
  Books = 1
  MaxStarts = 1
  MaxFaults = 1
  MaxRestarts = 1
  MaxShutdowns = 1
  Retention = 1
  DryRuns = {TRUE, FALSE}
INVARIANTS
  ExecutionOrder
  CancellationWins
  SuccessIsReal
  RestIsSettled
  StatusMatchesReport
PROPERTIES
  DeletedReportsFrozen
  ImplementsLedger
CHECK_DEADLOCK FALSE
