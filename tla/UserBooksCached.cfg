SPECIFICATION Spec
CONSTANTS
  e1 = e1
  e2 = e2
  e3 = e3
  b1 = b1
  b2 = b2
  i1 = i1
  i2 = i2
  i3 = i3
  u1 = u1
  u2 = u2
  u3 = u3
  u4 = u4
  None = None
  NoEdition = NoEdition
  NoItem = NoItem
  Items <- MCItems
  Editions <- MCEditions
  BookOf <- MCBookOf
  Rows <- MCRows
  Runs <- MCPlain
  MaxSends = 2
  MaxRows = 0
  MaxFaults = 0
  MaxStops = 0
  MaxEdits = 0
SYMMETRY MCSwaps
INVARIANTS
  OneUserBookPerBook
