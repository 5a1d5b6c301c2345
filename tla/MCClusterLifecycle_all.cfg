SPECIFICATION Spec
CONSTANTS
  Ops = {p1, p2}
  Commands = {"provision", "deprovision", "install", "uninstall"}
SYMMETRY Symmetry
VIEW View
INVARIANTS
  TypeOK
  ClusterFollows
  IngressFollows
PROPERTIES
  ConsentRespected
  RecordGoesFirst
