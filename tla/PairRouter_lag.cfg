SPECIFICATION Spec
CONSTANTS
  BTC_USDT = BTC_USDT
  ETH_USDT = ETH_USDT
  eth_usdt = eth_usdt
  BTCUSDT = BTCUSDT
  ETHUSDT = ETHUSDT
  ethusdt = ethusdt
  Pairs <- MCPairs
  Symbol <- MCSymbol
  Market <- MCMarket
  MaxVersion = 1
  MaxConns = 1
  MaxReads = 3
  Capacity = 2
  InboxSize = 1
  CanRemove = FALSE
INVARIANT ListenersOutliveTraffic
CHECK_DEADLOCK FALSE
