\* Batches of two, as many turns as it takes to merge merged chunks, and one
\* handler at a time that has lost its job.
SPECIFICATION Spec
CONSTANTS
  Window = 1
  Batch = 2
  None = None
  MaxLost = 1
  MaxVersion = 13
INVARIANTS
  TypeOK
  PlanSound
  NoBlindSpot
  KeepsUp
PROPERTIES
  MemoryGrows
  ImplementsOrder
CHECK_DEADLOCK FALSE
