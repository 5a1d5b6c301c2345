SPECIFICATION FairSpec
CONSTANTS
  Ops = {p1}
  NumVolumes = 2
  Names = {d1, d2}
  Twins = {}
  SnapNames = {s1}
  None = None
  AzureName <- CutNames
  Commands = {"create", "assign", "delete", "bootstrap", "snapshot", "unsnapshot"}
  MaxCreates = 3
PROPERTIES
  KeepsPromise
  SnapshotTakesLatest
  CommandsEnd
