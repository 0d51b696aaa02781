SPECIFICATION FairSpec
CONSTANTS
  Profiles = {p1}
  MaxRuns = 2
  Books = 0
  MaxStarts = 1
  MaxFaults = 1
  MaxRestarts = 0
  MaxShutdowns = 2
  Retention = 1
  DryRuns = {FALSE}
INVARIANTS
  ShutdownDrains
PROPERTIES
  ShutdownEnds
  WorkersEnd
  DeletionEnds
CHECK_DEADLOCK FALSE
