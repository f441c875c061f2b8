\* Two calls, of one app or of two, and two daemon processes.
SPECIFICATION Spec
CONSTANTS
  a1 = a1
  a2 = a2
  c1 = c1
  c2 = c2
  d1 = d1
  d2 = d2
  None = None
  App = {a1, a2}
  Call = {c1, c2}
  Daemon = {d1, d2}
  Socket <- MCSocket
SYMMETRY Symmetry
INVARIANTS
  NoOrphan
  LossNoticed
PROPERTIES
  NoSilentLoss
CHECK_DEADLOCK FALSE
