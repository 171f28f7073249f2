SPECIFICATION FairSpec
CONSTANTS
  None = None
  Tabs = {t1}
  Hosts = {h1, h2}
  h1 = h1
  s1 = s1
  Written <- MCWritten
  Selectors = {s1, s2}
  MaxTokens = 2
  MaxRequests = 2
  MaxFaults = 1
INVARIANTS SavedUndoable OneRulePerSession
PROPERTIES PanelAnswered
