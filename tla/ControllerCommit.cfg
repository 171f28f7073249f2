SPECIFICATION FairSpec
CONSTANTS
  None = None
  easy = easy
  l1 = l1
  s1 = s1
  s2 = s2
  s3 = s3
  tok = tok
  other = other
  NoList = easy
  Lists <- OneList
  ListRules <- MCListRules
  ListCosmetics <- MCListCosmetics
  Conditions <- MCConditions
  Snapshots <- NoSnapshots
  SnapRules <- MCSnapRules
  Sites = {1}
  Covers <- MCCovers
  Blocks <- TwoBlocks
  MaxDynamicRules = 1
  MaxSubscriptionNetwork = 5
  MaxRules = 1
  MaxSites = 1
  MaxOps = 2
  MaxFaults = 3
INVARIANTS StampVouches AgreeWhenIdle RecoveryKeepsJournal
PROPERTIES ImplementsAtomicConfig EverythingSettles EventuallyEnforced
