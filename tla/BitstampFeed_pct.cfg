SPECIFICATION Spec
CONSTANTS
  Prices <- MCPrices
  Diffs <- MCDiffs
  LevelFilter <- FivePct
  SnapshotDepth = 2
  MaxVersion = 4
  RestLag = 1
  Stamps = {FALSE}
INVARIANTS
  NoInventedSize
  NoGhostLevel
