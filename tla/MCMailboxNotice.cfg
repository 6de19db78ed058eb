CONSTANTS
  alice = alice  bob = bob  carol = carol
  m1 = m1  m2 = m2  m3 = m3
  text = text  other = other
  None = None
  Peer = {alice, bob}
  Native = {alice, bob}
  Removable = {alice}
  Id = {m1, m2, m3}
  Body = {text, other}
  Command = {c1, c2, c3}
  Jobs <- NoticeJobs
SYMMETRY Symmetry
SPECIFICATION Spec
INVARIANTS
  AtMostOneNotice
  ReportTruthful
  NoNoticeAfterEvidence
  NoLeftoverNotice
  ExitZeroMeansConfirmed
PROPERTIES
  ImplementsExchange
