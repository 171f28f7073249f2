SPECIFICATION Spec
CONSTANTS
  None = None
  Sources <- MCSources
  Hosts <- MCHosts
  Covered <- MCCovered
  Urls <- MCUrls
  HostOf <- MCHostOf
  Patterns <- MCPatterns
  Matched <- MCMatched
  MatchedCase <- MCMatchedCase
  Anchor <- MCAnchor
  FullHost <- MCFullHost
  Selectors = {".ad"}
  ResourceTypes <- MCTypes
  Lines <- MCLines
  Budgets = {1, 3}
  MaxLines = 3
  MAX_SCOPE = 2
  MAX_PACKED = 1
  MAX_COSMETIC = 1
  MAX_DIAGNOSTICS = 2
  PER_REASON = 1
  MAX_COUNT = 5
  Valid = {"||a^", "||b^", "||a/p", "word"}
  \* Only Paging's own specification says what an item is.
  Item = {}
  PageBytes <- MCPageBytes
  ValidItem <- Validated
  MAX_PAGE_ITEMS = 2
  MAX_PAGE_BYTES = 6
  HEADROOM = 1
  ENVELOPE = 1
  MAX_SNAPSHOT_BYTES = 12
  MAX_RECEIVED_BYTES = 13
INVARIANTS NeverOverblocks NeverOverhides ExactUnlessReported ReportsAddUp ReadBack
CHECK_DEADLOCK FALSE
