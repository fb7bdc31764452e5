SPECIFICATION Spec
CONSTANTS
  Requests = {r}
  Sides = {s}
  Nego = nego
  MaxOutput = 2
  MaxNoise = 2
INVARIANTS
  TypeOK
  NotDispatchedIsFinal
  LastWordsAreRead
  CloseMeansReaped
PROPERTIES
  NoResurrection
  AllSettles
CHECK_DEADLOCK FALSE
