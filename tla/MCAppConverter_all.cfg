SPECIFICATION ConvertSpec
CONSTANTS
  Inputs <- MCInputs
  Absent = Absent
  Reserved = {"me-app2"}
  Namespaces = {"own", "sys", "u", "v"}
  Trusted = {"own", "sys"}
  Ports = {1, 2}
CHECK_DEADLOCK FALSE
INVARIANTS
  ConvertTypeOK
  PodMountable
  ExposedAsWritten
