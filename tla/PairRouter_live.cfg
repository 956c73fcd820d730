SPECIFICATION FairSpec
CONSTANTS
  BTC_USDT = BTC_USDT
  ETH_USDT = ETH_USDT
  eth_usdt = eth_usdt
  BTCUSDT = BTCUSDT
  ETHUSDT = ETHUSDT
  ethusdt = ethusdt
  Pairs <- MCCased
  Symbol <- MCSymbol
  Market <- MCMarket
  MaxVersion = 2
  MaxConns = 2
  MaxReads = 0
  Capacity = 1
  InboxSize = 1
  CanRemove = TRUE
INVARIANTS OneListenerPerSymbol ServesCurrentRegistry OnlyLastIsUnfed
PROPERTY EveryConnectionSubscribes
CHECK_DEADLOCK FALSE
