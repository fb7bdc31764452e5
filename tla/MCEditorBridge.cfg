SPECIFICATION Spec
CONSTANTS
  c1 = c1
  c2 = c2
  c3 = c3
  Calls <- MCCalls
  Texts <- MCTexts
  t1 = t1
  t2 = t2
  Absent = Absent
  Empty = Empty
  MaxWindow = 2
  MaxVersion = 2
  MaxHandle = 2
SYMMETRY Symmetric
INVARIANTS
  OutcomeIsHonest
PROPERTIES
  NeverBackToDisk
CHECK_DEADLOCK FALSE
