SPECIFICATION Spec
CONSTANTS
  Ops = {o1, o2}
  c1 = c1
  h1 = h1
  f1 = f1
  f2 = f2
  Confs = {c1}
  Heads = {h1}
  Orders = {sorted, other}
  Specs <- MCSpecs
  ConfTexts = {f1, f2}
  EnvTexts = {e1, e2}
  PullTexts = {q1}
  None = None
  MaxCommands = 4
CHECK_DEADLOCK FALSE
INVARIANTS
  TypeOK
  HashTrue
  DeployGives
  DestroyClears
SYMMETRY Symmetry
