SPECIFICATION Spec
CONSTANTS
  Prices <- MCPrices
  Diffs <- MCDiffs
  LevelFilter <- WidePct
  SnapshotDepth = 3
  MaxVersion = 4
  RestLag = 0
  Stamps = {TRUE}
INVARIANTS
  ConsistentWhenLive
