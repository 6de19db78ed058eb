CONSTANTS
  Command = {c1, c2, c3}
  MaxRows = 2
  Sender = {s1}
  Other = Other
  None = None
SYMMETRY Symmetry
CHECK_DEADLOCK FALSE
SPECIFICATION OpenSpec
INVARIANTS
  UpgradeIsBackedUp
  CopiesAreWhole
  RefusedLeavesNoCopy
