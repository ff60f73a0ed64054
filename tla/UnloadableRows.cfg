SPECIFICATION Spec
CONSTANTS
  e1 = e1
  e2 = e2
  x1 = x1
  x2 = x2
  b1 = b1
  k1 = k1
  None = None
  EntryIds <- TwoEntries
  ExitIds = {}
  Batches <- OneBatch
  Keys <- OneKey
  KeyOf <- SameKey
  Start <- Flat
  MaxQty = 1
SYMMETRY Symmetry
INVARIANT RowsCanBeLoaded
CHECK_DEADLOCK FALSE
