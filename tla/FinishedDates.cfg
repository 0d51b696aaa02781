SPECIFICATION FairSpec
CONSTANTS
  a = a
  b = b
  Items <- MCItems
  MaxReads = 3
  Dates <- MCDates
  Target = "target"
  Today = "today"
  PreserveDNF = TRUE
  Setups <- MCSetups
  Retries = 1
  MaxStops = 1
INVARIANTS
  OneReadInserted
  DatesCovered
PROPERTIES
  UserReadsKept
  CheckpointAfterRepair
  RepairsEnd
