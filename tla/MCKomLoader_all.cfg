SPECIFICATION Spec
CONSTANTS
  Inputs <- MCInputs
  Ignored = {"build"}
  None = None
  MaxDepth = 1
  MaxFiles = 3
  MaxSize = 2
  MaxTotal = 4
  MaxRead = 3
CHECK_DEADLOCK FALSE
INVARIANTS
  TypeOK
  SinkTrue
  ModelsTrue
  DefaultIsOurs
