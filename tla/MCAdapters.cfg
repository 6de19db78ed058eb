CONSTANTS
  Address = {a1, a2}
  Store = {s1, s2}
  Owned = s1
  LateErrors <- Allowing
  MaxListener = 2
  MaxCall = 4
  MaxStray = 2
  None = None
CHECK_DEADLOCK FALSE
SPECIFICATION AdapterSpec
INVARIANTS
  OneServer
  OnlyInOwnedStore
  OwnConnectionOnly
PROPERTIES
  IsOneAttempt
  CodexAndClaudeAreOneAttempt
  NotifyReturns
