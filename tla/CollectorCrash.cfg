SPECIFICATION FairSpec
CONSTANTS
  MaxBucket = 4
  WindowLen = 2
  Late = 2
  Replay = 2
  QueueMax = 1
  JournalMax = 4
  MaxStreams = 1
  MaxLag = 1
  MaxEnds = 1
  FirstCursor = 0
  Selected <- AllButOne
INVARIANTS
  AcceptedIsKept
  CursorIsCovered
  NeverWedged
PROPERTIES
  Settles
  GapCloses
CHECK_DEADLOCK FALSE
