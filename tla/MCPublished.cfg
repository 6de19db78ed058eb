CONSTANTS
  Publisher = {a, b}
  Profile = {q1, q2}
  Peer = {p1, p2}
  Sender = me
  MaxId = 4
  MaxChange = 1
  None = None
SYMMETRY Symmetry
CHECK_DEADLOCK FALSE
SPECIFICATION Spec
INVARIANTS
  ScopeHeld
  BindingsArePinned
PROPERTIES
  NoLostPublication
