SPECIFICATION FairSpec
CONSTANTS
  Window = 2
  SendRoom = 1
  ReadRoom = 2
  MaxSeq = 6
  MaxEpoch = 2
PROPERTIES
  ImplementsFeed
  RefusedOnlyIfLost
  CatchesUp
CHECK_DEADLOCK FALSE
