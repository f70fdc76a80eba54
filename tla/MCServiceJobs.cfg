\* Two processes, two turns with a story-memory job each, one operation.
SPECIFICATION Spec
CONSTANTS
  Processes = {p1, p2}
  Types <- MCMemory
  Operations = {o1}
  OperationType <- MCOperationType
  None = None
  MaxAttempts = 2
  MaxVersion = 2
SYMMETRY MCSymmetry
INVARIANTS
  TypeOK
  EffectsOnce
  NoneStuck
PROPERTIES
  ImplementsOrder
CHECK_DEADLOCK FALSE
