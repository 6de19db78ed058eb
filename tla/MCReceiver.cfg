CONSTANTS
  d1 = d1  d2 = d2
  Process = {p1, p2}
  Dir = {d1, d2}
  Last = 1
  MaxServer = 1
  MaxDrops = 0
  MaxMistold = 1
  Starts <- Meeting
  None = None
  Torn = Torn
SYMMETRY Symmetry
CHECK_DEADLOCK FALSE
SPECIFICATION Spec
INVARIANTS
  NotifiedOnce
  OneSubmission
  UnknownIsFinal
