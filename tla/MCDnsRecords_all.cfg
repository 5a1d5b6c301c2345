SPECIFICATION Spec
CONSTANTS
  Ops = {o1, o2}
  Order <- MCOrder
  Foreign <- MCForeign
  IPs = {ip}
  Zones <- MCZones
  Settings <- MCSettings
  None = None
INVARIANTS
  TypeOK
  RecordsFollow
PROPERTIES
  RecordsGoWithHosts
SYMMETRY Symmetry
VIEW View
