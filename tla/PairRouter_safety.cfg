SPECIFICATION Spec
CONSTANTS
  BTC_USDT = BTC_USDT
  ETH_USDT = ETH_USDT
  eth_usdt = eth_usdt
  BTCUSDT = BTCUSDT
  ETHUSDT = ETHUSDT
  ethusdt = ethusdt
  Pairs <- MCNames
  Symbol <- MCSymbol
  Market <- MCMarket
  MaxVersion = 2
  MaxConns = 1
  MaxReads = 3
  Capacity = 2
  InboxSize = 1
  CanRemove = FALSE
INVARIANTS TypeOK OneListenerPerSymbol ForwardsItsSymbol OrderedUntilDisturbed
PROPERTY FeedSpec
CHECK_DEADLOCK FALSE
