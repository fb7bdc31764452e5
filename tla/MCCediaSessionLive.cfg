SPECIFICATION FairSpec
CONSTANTS
  Cmds = {c1}
  NoCmd = none
  MaxInc = 2
  MaxDowns = 2
  MaxWaiting = 1
  MaxQueue = 3
  PipeMayLeak = FALSE
  JournalMayFail = TRUE
PROPERTIES
  ClaimsSettle
  DeadTurnsSettle
  ShutdownEnds
CHECK_DEADLOCK FALSE
