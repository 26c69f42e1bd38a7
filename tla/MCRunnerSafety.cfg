SPECIFICATION Spec
CONSTANTS
  Caller = {c1, c2}
  Create = Create
  Destroy = Destroy
  None = None
  SelfExit = {"cpu_kill", "xfsz"}
  IdleCrash = TRUE
  TornFrame = FALSE
  Big = {}
  SpawnMayFail = TRUE
SYMMETRY CallerSymmetry
INVARIANTS
  TypeOK
  ResponseAttribution
  OneExchange
  SingleRunner
  LimitIsReal
  QuietDestroyIsClean
  NoSilentRestart
PROPERTIES
  NeverForgetsLiveRunner
CHECK_DEADLOCK FALSE
