SPECIFICATION Spec
CONSTANTS
  None = None
  Tabs = {t1}
  Hosts = {h1}
  h1 = h1
  s1 = s1
  Written <- MCWritten
  Selectors = {s1}
  MaxTokens = 1
  MaxRequests = 2
  MaxFaults = 0
INVARIANTS ClosedTabsRevoked
