CONSTANTS
  Command = {c1}
  MaxRows = 0
  Sender = {s1, s2}
  Other = Other
  None = None
CHECK_DEADLOCK FALSE
SPECIFICATION SendSpec
INVARIANTS
  SavedOnce
  TurnOnlyUntilSaved
  HeirsHoldTheTurn
PROPERTIES
  SendsEnd
