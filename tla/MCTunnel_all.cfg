SPECIFICATION FairSpec
CONSTANTS
  Pods = {a, b}
  Ports = {p1, p2}
  First = p1
  None = None
  MaxForwards = 2
INVARIANTS
  TypeOK
  CleansUp
  OkHasCause
PROPERTIES
  CancelEnds
  LeavesDeadPod
CHECK_DEADLOCK FALSE
