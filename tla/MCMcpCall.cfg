CONSTANTS
  Call = {c1}
  None = None
CHECK_DEADLOCK FALSE
SPECIFICATION FairSpec
INVARIANTS
  NothingOutlivesItsServer
PROPERTIES
  IsOneAttempt
  Liveness
