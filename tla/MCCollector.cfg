SPECIFICATION FairSpec
CONSTANTS
  Files = {a, b}
  None = None
  Broken = Broken
  Batch = 1
  Limit = 2
  MaxId = 2
  MaxChanges = 1
  MaxFaults = 1
  Attempts = 2
  Mass = 1
INVARIANTS
  CursorSound
PROPERTIES
  DoneIsKept
  OkIsComplete
  ImplementsAttachment
  CatchesUp
CHECK_DEADLOCK FALSE
