CONSTANTS
  Pid = {leader, p}
  Leader = leader
  MaxBirths = 3
  None = None
CHECK_DEADLOCK FALSE
SPECIFICATION FairSpec
INVARIANTS
  NoStranger
  OnlyNewbornsSurvive
PROPERTIES
  Ends
