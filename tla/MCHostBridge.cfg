SPECIFICATION BridgeSpec
CONSTANTS
  Calls = {i1, i2}
  Prompts = {p}
  Responses = {k1, k2}
  MaxQuestions = 1
  MaxRequestIds = 1
  MaxOut = 1
  MaxRefusals = 2
INVARIANTS
  BridgeTypeOK
  ResultClosesCall
  OneAnswerEach
  ConsentBeforeEffect
  NoOrphanQuestion
  RowsTellTheTruth
PROPERTIES
  NoLateEffect
  HandleReturns
CHECK_DEADLOCK FALSE
