SPECIFICATION FairSpec
CONSTANTS
  c1 = c1
  c2 = c2
  q = q
  k1 = k1
  None = None
  Conns <- TwoConns
  QuoteConn = q
  Keys <- OneKey
  TradeSizes <- One
  QuoteSize <- Growing
  MaxEvents = 2
  MaxBytes = 3
  MaxBatch = 2
  MaxId = 3
  MaxQuotes = 2
INVARIANTS
  BytesAreExact
  ArchivedOrExplained
  AcceptedIsKept
  WaitersAreWoken
PROPERTIES
  NewestIsTaken
  StopReturns
CHECK_DEADLOCK FALSE
