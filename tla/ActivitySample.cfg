SPECIFICATION FairSpec
CONSTANTS
  None = None
  t1 = t1
  t2 = t2
  t3 = t3
  r1 = r1
  r2 = r2
  Tabs <- ThreeTabs
  Private = {t3}
  Requests <- TwoRequests
  LIMIT = 1
  MaxSequence = 100
  MaxEvents = 4
  MaxFaults = 1
INVARIANTS ClearedForGood SavedOrReported OneRowPerMatch ClosedTabsForgotten
PROPERTIES ClearAnswered EventuallySaved
CHECK_DEADLOCK FALSE
