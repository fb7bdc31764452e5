SPECIFICATION Spec
CONSTANTS
  c1 = c1
  c2 = c2
  c3 = c3
  t1 = t1
  t2 = t2
  Calls <- MCCalls
  Texts <- MCTexts
  Absent = Absent
  Empty = Empty
  MaxWindow = 1
  MaxVersion = 2
  MaxHandle = 1
PROPERTIES
  PreflightBeforeApply
CHECK_DEADLOCK FALSE
