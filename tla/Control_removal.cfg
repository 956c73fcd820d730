SPECIFICATION Spec
CONSTANTS
  btc_usdt = btc_usdt
  btcusdt = btcusdt
  eth_usdt = eth_usdt
  BTCUSDT = BTCUSDT
  ETHUSDT = ETHUSDT
  c1 = c1
  c2 = c2
  Pairs <- MCPairs
  Symbol <- MCSymbol
  Clients <- MCClients
  Commands <- MCRemovals
  MaxVersion = 2
  PairsSize = 1
  MaxFrames = 2
PROPERTY RemoveCommandStops
CHECK_DEADLOCK FALSE
