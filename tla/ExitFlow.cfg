SPECIFICATION FairSpec
CONSTANTS
  e1 = e1
  None = None
  EntryIds <- OneSlot
  MaxLots = 2
  MaxRestarts = 1
INVARIANTS
  ExitsNeverCollide
PROPERTIES
  FlattenEndsFlat
  DecisionIsCarriedOut
  RestartResumes
  FlattenCompletes
CHECK_DEADLOCK FALSE
