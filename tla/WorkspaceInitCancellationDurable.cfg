CONSTANTS
  w1 = w1
  w2 = w2
  a1 = a1
  p1 = p1
  r1 = r1
  r2 = r2
  d1 = d1
  d2 = d2
  x1 = x1
  x2 = x2
  None = None
  Workspace = {w1}
  Agent = {}
  Project = {p1}
  ProjectOf <- MCProjectOf
  Path = {x1, x2}
  FirstPath <- MCFirstPath
  Runner = {r1, r2}
  Deleter = {d1}
SPECIFICATION Spec
INVARIANTS
  CancellationDurable
CHECK_DEADLOCK FALSE
