SPECIFICATION Spec
CONSTANTS
  Ops = {p1}
  NumVolumes = 2
  Names = {d1, d2}
  SnapNames = {s1}
  Twins = {}
  None = None
  AzureName <- CutNames
  Commands = {"create", "assign", "snapshot", "unsnapshot"}
  MaxCreates = 2
INVARIANT
  DeletedSnapshotIsGone
