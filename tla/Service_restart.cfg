SPECIFICATION FairSpec
CONSTANTS
  s1 = s1
  s2 = s2
  s3 = s3
  btc_usdt = btc_usdt
  eth_usdt = eth_usdt
  binance = binance
  kraken = kraken
  Processes <- MCProcesses
  Pairs <- MCPairs
  Exchanges <- MCExchanges
  Binance = binance
  CommandLines <- MCCommandLines
  NoArgs = NoArgs
  None = None
  MaxSends = 2
INVARIANTS TypeOK PairsApart ServersApart
PROPERTIES RestartServes CommandServed SocketBound
CHECK_DEADLOCK FALSE
