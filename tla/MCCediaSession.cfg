SPECIFICATION Spec
CONSTANTS
  Cmds = {c1, c2}
  NoCmd = none
  MaxInc = 2
  MaxDowns = 2
  MaxWaiting = 1
  MaxQueue = 3
  PipeMayLeak = TRUE
  JournalMayFail = TRUE
SYMMETRY Symmetry
CONSTRAINT SmallQueues
INVARIANTS
  TypeOK
  DeliveredAtMostOnce
  NotDispatchedIsTrue
  AnsweredWasSent
  NoFalseCompletion
  OneTurnAtOmp
  NoWorkInDoubt
  NoAbandonedCommand
CHECK_DEADLOCK FALSE
PROPERTIES
  KeepsPromise
