SPECIFICATION LiveSpec
CONSTANTS
  Caller = {c1, c2}
  Create = Create
  Destroy = Destroy
  None = None
  SelfExit = {"xcpu"}
  IdleCrash = FALSE
  TornFrame = FALSE
  Big = {c1}
  SpawnMayFail = FALSE
PROPERTIES
  EveryCallEnds
  DestroyEnds
  ImplementsService
CHECK_DEADLOCK FALSE
