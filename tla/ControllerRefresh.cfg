SPECIFICATION Spec
CONSTANTS
  None = None
  easy = easy
  l1 = l1
  s1 = s1
  s2 = s2
  s3 = s3
  tok = tok
  other = other
  NoList = easy
  Lists <- OneList
  ListRules <- MCListRules
  ListCosmetics <- MCListCosmetics
  Conditions <- MCConditions
  Snapshots <- ThreeSnapshots
  SnapRules <- MCSnapRules
  Sites = {1, 2}
  Covers <- MCCovers
  Blocks <- NoBlocks
  MaxDynamicRules = 6
  MaxSubscriptionNetwork = 5
  MaxRules = 1
  MaxSites = 2
  MaxOps = 2
  MaxFaults = 2
INVARIANTS QuotaNeverBlocks AttributionExact
PROPERTIES RemovedStaysRemoved
