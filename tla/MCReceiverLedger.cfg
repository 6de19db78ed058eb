CONSTANTS
  d1 = d1  d2 = d2
  Process = {p1}
  Dir = {d1}
  Last = 2
  MaxServer = 2
  MaxDrops = 2
  MaxMistold = 1
  Starts <- Checked
  None = None
  Torn = Torn
CHECK_DEADLOCK FALSE
SPECIFICATION FairSpec
INVARIANT
  LedgerKnows
PROPERTIES
  ReceiptsKept
  NoticeArrives
