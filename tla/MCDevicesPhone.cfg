SPECIFICATION FairSpec
CONSTANTS
  MaxLog = 3
  MaxIncarnation = 2
  PageSize = 2
  MaxTaps = 3
  MaxFaults = 0
  Catchups <- MCCatchups
  PageCap = 2
  MaxSeen = 1
  MaxSelects = 0
  Ids <- MCIds
  Calls <- MCCalls
  MaxTouches = 0
  MaxTurns = 0
  MaxPrompts = 0
  Devices <- MCPhone
PROPERTIES
  PhoneRecovers
