SPECIFICATION FairSpec
CONSTANTS
  e1 = e1
  None = None
  EntryIds <- OneSlot
  MaxLots = 1
  MaxRestarts = 0
PROPERTIES
  LimitIsWithdrawn
CHECK_DEADLOCK FALSE
