SPECIFICATION Spec
CONSTANTS
  Ops = {o1, o2}
  k1 = k1
  k2 = k2
  z1 = z1
  app = app
  v1 = v1
  v2 = v2
  range = range
  count = count
  Kinds = {k1, k2}
  Zones = {z1}
  Keys = {app}
  Vals = {v1, v2}
  Ranges = {range}
  Counts = {count}
  Files <- MCFiles
  Name = Name
  None = None
INVARIANTS
  TypeOK
  PoolLabelRight
  OkMeansDone
  UpdatesAddUp
SYMMETRY Symmetry
