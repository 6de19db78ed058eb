CONSTANTS
  alice = alice  bob = bob  carol = carol
  m1 = m1  m2 = m2  m3 = m3
  text = text  other = other
  None = None
  Peer = {alice, bob, carol}
  Native = {alice, bob}
  Removable = {alice}
  Id = {m1, m2}
  Body = {text, other}
  Command = {c1, c2}
  Jobs <- AllJobs
SPECIFICATION FairSpec
INVARIANTS
  SkippedOnEvidence
PROPERTIES
  Liveness
