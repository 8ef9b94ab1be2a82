SPECIFICATION Spec
CONSTANTS
  Prices <- MCPrices
  Diffs <- MCDiffs
  Filters <- AnyFilter
  MaxVersion = 4
  MaxResets = 2
INVARIANTS
  TypeOK
  SideIsVersion
  NoStaleLevel
PROPERTIES
  NoGrowthAtLimit
  ImplementsReplica
  Mirrors
