SPECIFICATION LiveSpec
CONSTANTS
  Sid = {s1, s2}
  Client = {c1}
  Gc = Gc
  Main = Main
  None = None
  MaxSessions = 2
  IdleTimeout = 1
  MaxLifetime = 2
  Uploads = FALSE
  Commands = TRUE
  SpawnMayFail = TRUE
INVARIANTS
  NothingElseLeaks
PROPERTIES
  SessionsExpire
  ShutdownEnds
CHECK_DEADLOCK FALSE
