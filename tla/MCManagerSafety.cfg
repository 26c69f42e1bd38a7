SPECIFICATION Spec
CONSTANTS
  Sid = {s1, s2}
  Client = {c1, c2, c3}
  Gc = Gc
  Main = Main
  None = None
  MaxSessions = 1
  IdleTimeout = 1
  MaxLifetime = 1
  Uploads = TRUE
  Commands = TRUE
  SpawnMayFail = TRUE
SYMMETRY ManagerSymmetry
INVARIANTS
  TypeOK
  CapHolds
  OneTeardown
  RegisteredHasDir
  NothingElseLeaks
CHECK_DEADLOCK FALSE
