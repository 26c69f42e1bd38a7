SPECIFICATION Spec
CONSTANTS
  Caller = {c1, c2}
  Create = Create
  Destroy = Destroy
  None = None
  SelfExit = {"crash"}
  IdleCrash = FALSE
  TornFrame = TRUE
  Big = {}
  SpawnMayFail = FALSE
SYMMETRY CallerSymmetry
INVARIANTS
  ResponseAttribution
CHECK_DEADLOCK FALSE
