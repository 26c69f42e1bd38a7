SPECIFICATION LiveSpec
CONSTANTS
  MaxCalls = 2
  MaxWrites = 2
  Texts <- MCTexts
  MaxOutput = 2
  WaitsForPipes = TRUE
INVARIANTS
  TypeOK
  OwnAnswer
  FaithfulOutput
  OutputBounded
  PartialOutputIsRaw
PROPERTIES
  CallEnds
CHECK_DEADLOCK FALSE
