SPECIFICATION Spec
CONSTANTS
  Caller = {c1, c2}
  Create = Create
  Destroy = Destroy
  None = None
  SelfExit = {"crash"}
  IdleCrash = FALSE
  TornFrame = FALSE
  Big = {}
  SpawnMayFail = FALSE
SYMMETRY CallerSymmetry
INVARIANTS
  DestroyIsClean
CHECK_DEADLOCK FALSE
