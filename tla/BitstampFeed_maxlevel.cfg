SPECIFICATION Spec
CONSTANTS
  Prices <- MCPrices
  Diffs <- MCDeepDiffs
  LevelFilter <- TwoLevels
  SnapshotDepth = 3
  MaxVersion = 4
  RestLag = 0
  Stamps = {TRUE}
INVARIANTS
  NoStaleLevel
  WithinMaxLevel
