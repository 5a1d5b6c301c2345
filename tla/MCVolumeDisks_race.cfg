SPECIFICATION Spec
CONSTANTS
  Ops = {p1, p2}
  NumVolumes = 1
  Names = {d1, d2, d3}
  Twins = {d1, d2}
  SnapNames = {}
  None = None
  AzureName <- CutNames
  Commands = {"create", "assign", "delete", "bootstrap", "deploy"}
  MaxCreates = 3
SYMMETRY Symmetry
VIEW View
INVARIANTS
  TypeOK
  CommandsSettle
PROPERTIES
  DisksKept
  SwitchToNewestKeepsOne
  DeployBindsAssigned
