SPECIFICATION LiveSpec
CONSTANTS
  Call = {c1, c2}
  Session = {s1, s2}
  Image = Image
  MaxWrites = 2
  SpawnMayFail = TRUE
INVARIANTS
  TypeOK
  OwnWorkspace
  EnvironRestored
  CompleteOutput
  OutcomeIsFinal
PROPERTIES
  EveryCallEnds
CHECK_DEADLOCK FALSE
