SPECIFICATION Spec
CONSTANTS
  a = a
  b = b
  Prices <- MCPrices
  Clients <- MCClients
  Keyings <- MCKeyings
  Exchange <- MCExchange
  Books <- MCBooks
  TradePrices = {100}
  Label <- MCLabel
  GatherOrders <- MCOrders
  MaxMessages = 2
  MaxRequests = 1
INVARIANTS
  TypeOK
  GaugesFollow
  AnswerRecent
  TradesCounted
  StatusTruth
