CONSTANTS
  Store = {s1, s2}
  Owned = s1
  LateErrors <- Refusing
  None = None
CHECK_DEADLOCK FALSE
SPECIFICATION Spec
INVARIANT NotSubmittedIsNotQueued
