SPECIFICATION Spec
CONSTANTS
  Channels = {1, 2}
  Ids = {a, b}
  MaxCalls = 3
  MaxRequestIds <- MCMaxRequestIds
  MaxPending = 1
  MaxActive = 1
  MaxPendingCalls = 2
  MaxConnections = 1
  Sockets = {s1}
INVARIANTS
  AnswersAreTrue
  HandlerOnce
PROPERTIES
  RevokedIsSilent
  EverythingSettles
CHECK_DEADLOCK FALSE
