SPECIFICATION Spec
CONSTANTS
  Prices <- MCPrices
  Diffs <- MCDiffs
  LevelFilter <- WidePct
  SnapshotDepth = 3
  MaxVersion = 4
  RestLag = 1
  Stamps = {TRUE}
INVARIANTS
  TypeOK
  BookIsReported
  ReconciledBook
PROPERTIES
  ImplementsReplica
  Mirrors
