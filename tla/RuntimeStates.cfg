SPECIFICATION Spec
CONSTANTS
  a = a
  b = b
  Symbols <- Both
  Tapes <- Some
  Quoting <- OnlyB
  Universe <- OnlyA
  Width = 2
  RtDelay = 1
  DurDelay = 2
  QueueRoom = 1
  YieldEvery = 2
  MaxClock = 7
  MaxFaults = 1
INVARIANTS
  CompleteIsWhole
  OneCopy
  GapsStick
  HubIsDense
  NothingForgotten
CHECK_DEADLOCK FALSE
