SPECIFICATION Spec
CONSTANTS
  Sid = {s1}
  Client = {c1}
  Gc = Gc
  Main = Main
  None = None
  MaxSessions = 1
  IdleTimeout = 1
  MaxLifetime = 2
  Uploads = FALSE
  Commands = TRUE
  SpawnMayFail = FALSE
INVARIANTS
  ShutdownIsClean
CHECK_DEADLOCK FALSE
