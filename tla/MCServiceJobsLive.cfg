\* One process, two turns with two automatic jobs each.
SPECIFICATION FairSpec
CONSTANTS
  Processes = {p1}
  Types <- MCTypes
  Operations = {}
  OperationType <- MCOperationType
  None = None
  MaxAttempts = 2
  MaxVersion = 2
PROPERTIES
  JobsSettle
CHECK_DEADLOCK FALSE
