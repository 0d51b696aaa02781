SPECIFICATION Spec
CONSTANTS
  e1 = e1
  e2 = e2
  e3 = e3
  b1 = b1
  b2 = b2
  i1 = i1
  i2 = i2
  i3 = i3
  u1 = u1
  u2 = u2
  u3 = u3
  u4 = u4
  None = None
  NoEdition = NoEdition
  NoItem = NoItem
  Items <- MCItems
  Editions <- MCEditions
  BookOf <- MCBookOf
  Rows <- MCRows
  Runs <- MCRuns
  MaxSends = 2
  MaxRows = 2
  MaxFaults = 1
  MaxStops = 1
  MaxEdits = 1
SYMMETRY MCSwaps
PROPERTIES
  ResolvedHasEdition
