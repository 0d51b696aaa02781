SPECIFICATION Spec
CONSTANTS
  a = a
  b = b
  Items <- MCItems
  MaxReads = 3
  Dates <- MCDates
  Target = "target"
  Today = "today"
  PreserveDNF = TRUE
  Setups <- MCStaleSetups
  Retries = 1
  MaxStops = 1
INVARIANTS
  DatesPreserved
