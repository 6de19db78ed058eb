CONSTANTS
  Limit = 2
  MaxSeq = 4
  Top = 9
  Waiter = {w1, w2}
  Gap = 2
  Span = 3
  Longest = 4
  Keep = 1
  MaxTime = 5
CHECK_DEADLOCK FALSE
SPECIFICATION ReadingSpec
INVARIANTS
  NothingPassedOver
  PagesAreWhole
  NoticeWaitsForItsWait
PROPERTIES
  ShownInTheEnd
