SPECIFICATION Spec
CONSTANTS
  Sid = {s1, s2}
  Client = {c1}
  Gc = Gc
  Main = Main
  None = None
  MaxSessions = 2
  IdleTimeout = 1
  MaxLifetime = 2
  Uploads = FALSE
  Commands = TRUE
  SpawnMayFail = FALSE
SYMMETRY ManagerSymmetry
PROPERTIES
  GcReapsOnlyStale
CHECK_DEADLOCK FALSE
