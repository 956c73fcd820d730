SPECIFICATION FairSpec
CONSTANTS
  BTC_USDT = BTC_USDT
  ETH_USDT = ETH_USDT
  eth_usdt = eth_usdt
  BTCUSDT = BTCUSDT
  ETHUSDT = ETHUSDT
  ethusdt = ethusdt
  Pairs <- MCPairs
  Symbol <- MCSymbol
  Market <- MCMarket
  MaxVersion = 2
  MaxConns = 1
  MaxReads = 2
  Capacity = 2
  InboxSize = 2
  CanRemove = FALSE
PROPERTY NewestPriceForwarded
CHECK_DEADLOCK FALSE
