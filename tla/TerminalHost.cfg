CONSTANTS
  r1 = r1
  r2 = r2
  i1 = i1
  i2 = i2
  k1 = k1
  k2 = k2
  None = None
  Request <- MCRequest
  Id <- MCId
  Socket <- MCSocket
  MaxSpawns = 1
SPECIFICATION FairSpec
CHECK_DEADLOCK FALSE
INVARIANTS
  FailSafeUnlessStaleExit
  DeadSessionHasTimer
  OrphanOnlyOnOverlap
  GhostOnlyFromCreation
PROPERTIES
  AttachOnlyToLive
  SpawnLimiter
  EveryCallAnswered
  DeadSessionReaped
