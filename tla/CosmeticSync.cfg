SPECIFICATION FairSpec
CONSTANTS
  None = None
  Pages = {p1, p2}
  MaxCommits = 2
  MaxRefreshes = 2
  MaxFaults = 1
PROPERTIES StyleNeverGoesBack EventuallyCurrent
CHECK_DEADLOCK FALSE
