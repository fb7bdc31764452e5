SPECIFICATION FairSpec
CONSTANTS
  MaxLog = 3
  MaxIncarnation = 2
  PageSize = 2
  MaxTaps = 3
  MaxFaults = 1
  Catchups <- MCCatchups
  PageCap = 2
  MaxSeen = 1
  MaxSelects = 1
  Ids <- MCIds
  Calls <- MCCalls
  MaxTouches = 2
  MaxTurns = 2
  MaxPrompts = 2
  Devices <- MCDevices
INVARIANTS
  InOrderOnce
  RunsOnce
  ShownIsTrue
PROPERTIES
  DesktopFollows
  DockLearns
CHECK_DEADLOCK FALSE
