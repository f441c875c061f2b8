\* Two runs of createOrAttach for one permit and two panes, in one of which sessions
\* exit, are killed and clear their scrollback.
SPECIFICATION Spec
CONSTANTS
  p1 = p1
  p2 = p2
  c1 = c1
  c2 = c2
  None = None
  Max = 1
  User = {c1, c2}
  Creation = {c1, c2}
  Pane = {p1, p2}
  Lively = {p1}
  MaxInFlight = 1
  MaxTrouble = 2
SYMMETRY Symmetry
INVARIANTS
  RunsLimited
  BelievedAlive
  KilledStaysDead
  CrashIsNoticed
PROPERTIES
  CleanupSparesLive

