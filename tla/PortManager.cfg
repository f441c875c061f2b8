SPECIFICATION FairSpec
CONSTANTS
  p1 = p1
  p2 = p2
  s1 = s1
  s2 = s2
  s3 = s3
  q1 = q1
  None = None
  Null = Null
  Pane = {p1, p2}
  Port = {3000}
  Process = {s1, s2, s3, q1}
  Shell = {s1, s2, s3}
  Root <- MCRoot
  Home <- MCHome
  Full = full
  Hint = {h1}
  MaxChanges = 3
  Early = {s1, s3, q1}
INVARIANT
  NoForeignPorts
PROPERTIES
  ShellsSpared
  TableCatchesUp
