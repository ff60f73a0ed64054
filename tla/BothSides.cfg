SPECIFICATION Spec
CONSTANTS
  e1 = e1
  e2 = e2
  x1 = x1
  x2 = x2
  b1 = b1
  k1 = k1
  None = None
  EntryIds <- OneEntry
  ExitIds <- OneExit
  Batches <- OneBatch
  Keys <- OneKey
  KeyOf <- SameKey
  Start <- HoldsOne
  MaxQty = 1
INVARIANTS
  NeverAheadOfExchange
  BatchesAddUp
  RunningIsSafe
  NothingMissed
  Durable
PROPERTIES
  NeverUndone
CHECK_DEADLOCK FALSE
