SPECIFICATION Spec
CONSTANTS
  Positions <- MCFirstMinutes
  FirstPosition = 8
  Minute = 3
  Configs <- MCConfigs
  MaxDay = 2
  Retries = 1
  MaxReads = 4
  MaxListens = 2
  MaxEdits = 1
  MaxFaults = 1
  MaxEvents = 3
INVARIANTS
  GuardPreventsDuplicates
CHECK_DEADLOCK FALSE
