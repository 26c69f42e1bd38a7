SPECIFICATION LiveSpec
CONSTANTS
  MaxCalls = 2
  MaxWrites = 2
  Texts <- MCTexts
  MaxOutput = 2
  WaitsForPipes = TRUE
INVARIANTS
  TimeoutReturnsPrinted
CHECK_DEADLOCK FALSE
