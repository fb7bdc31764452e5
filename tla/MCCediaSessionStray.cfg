SPECIFICATION Spec
CONSTANTS
  Cmds = {c1}
  NoCmd = none
  MaxInc = 1
  MaxDowns = 0
  MaxWaiting = 1
  MaxQueue = 3
  PipeMayLeak = FALSE
  JournalMayFail = FALSE
PROPERTY RecoveryRequiresReconcile
CHECK_DEADLOCK FALSE
