SPECIFICATION Spec
CONSTANTS
  Exchanges = {"okx", "kraken", "bitstamp"}
  Prices <- MCPrices
  Sizes <- MCSizes
  Changes <- MCChanges
  Unit = 10
  Unstamped = {"snapshot"}
  FlushSize = 2
  MaxVersion = 3
  MaxSnapshots = 2
  MaxFaults = 1
INVARIANTS
  TypeOK
  ReadBack
  OutputIsReading
PROPERTIES
  PastIsSettled
CHECK_DEADLOCK FALSE
