SPECIFICATION Spec
CONSTANTS
  MaxBucket = 4
  WindowLen = 2
  Late = 0
  Replay = 2
  QueueMax = 1
  JournalMax = 3
  MaxStreams = 2
  MaxLag = 0
  MaxEnds = 0
  FirstCursor = 0
  Selected <- AllButOne
INVARIANTS
  NoHoles
  InStep
PROPERTIES
  ArchiveOnlyImproves
CHECK_DEADLOCK FALSE
