SPECIFICATION Spec
CONSTANTS
  MaxBucket = 4
  WindowLen = 2
  Late = 0
  Replay = 2
  QueueMax = 1
  JournalMax = 3
  MaxStreams = 2
  MaxLag = 0
  MaxEnds = 1
  FirstCursor = 0
  Selected <- AllButOne
INVARIANTS
  AcceptedIsKept
CHECK_DEADLOCK FALSE
