SPECIFICATION Spec
CONSTANTS
  e1 = e1
  e2 = e2
  x1 = x1
  x2 = x2
  b1 = b1
  k1 = k1
  None = None
  EntryIds = {}
  ExitIds <- TwoExits
  Batches <- OneBatch
  Keys <- OneKey
  KeyOf <- SameKey
  Start <- HoldsTwo
  MaxQty = 2
SYMMETRY Symmetry
INVARIANTS
  TypeOK
  ReservationExact
  LocksMatchOrders
  NeverOversold
PROPERTIES
  ImplementsLots
CHECK_DEADLOCK FALSE
