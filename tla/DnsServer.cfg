SPECIFICATION FairSpec
CONSTANTS
  None = None
  Keys = {"k1", "k2"}
  CAPACITY = 1
  RETENTION = 3600
  d1 = d1
  d2 = d2
  t1 = t1
  Datagrams = {d1, d2}
  Connections = {t1}
  Requests <- MCRequests
  Replies <- MCReplies
  Upstreams = 2
  MAX_IN_FLIGHT = 2
  QUERIES = 2
  MaxTime = 1
INVARIANTS CacheConsistent PermitsReturned AnswersAlive AnswersOwn CompleteOverTcp
PROPERTIES TasksEnd ShutdownEnds
CHECK_DEADLOCK FALSE
