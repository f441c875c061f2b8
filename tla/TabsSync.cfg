CONSTANTS
  d1 = d1
  d2 = d2
  w1 = w1
  w2 = w2
  Device = {d1, d2}
  Workspace = {w1, w2}
  Late <- MCLate
  MaxEdits = 3
  MaxUnderWay = 2
  MaxTrouble = 2
SPECIFICATION Spec
INVARIANTS
  LastEditShown
PROPERTIES
  NothingDropped
CHECK_DEADLOCK FALSE
