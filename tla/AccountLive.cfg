SPECIFICATION FairSpec
CONSTANTS
  e1 = e1
  e2 = e2
  x1 = x1
  x2 = x2
  b1 = b1
  k1 = k1
  None = None
  EntryIds <- OneEntry
  ExitIds = {}
  Batches <- OneBatch
  Keys <- OneKey
  KeyOf <- SameKey
  Start <- Flat
  MaxQty = 1
PROPERTIES
  SubmissionsReturn
  OutcomeLearned
CHECK_DEADLOCK FALSE
