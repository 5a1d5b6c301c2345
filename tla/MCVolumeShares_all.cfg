SPECIFICATION Spec
CONSTANTS
  Ops = {p1, p2}
  Parts <- MCParts
  Volumes <- MCVolumes
  Names <- MCNames
  None = None
SYMMETRY Symmetry
INVARIANTS
  TypeOK
  AssignSettles
PROPERTIES
  SharesKept
  StaysSettled
