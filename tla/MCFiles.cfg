SPECIFICATION Spec
CONSTANTS
  Path = {p}
  Texts <- MCTexts
  Olds <- MCOlds
  News <- MCNews
  ToolLists <- MCToolLists
  Word = {"echo", "send"}
  TrailedWord = {"send and newline"}
  LineNos = {0, 1, 2}
  Absent = Absent
  Torn = Torn
  MaxOps = 4
  MaxForeign = 2
INVARIANTS
  TypeOK
  HistoryIsFaithful
  ReplyIsTrue
  InsertedAfterLine
  LoadedIsLatest
CHECK_DEADLOCK FALSE
