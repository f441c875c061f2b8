CONSTANTS
  w1 = w1
  WorkspaceId = {w1}
  MaxClosed = 1
  MaxTabs = 2
  MaxPanes = 3
SPECIFICATION StoreSpec
INVARIANTS
  PaneShownOrKilled
  PointersLive
PROPERTIES
  DragSparesOthers
CHECK_DEADLOCK FALSE
