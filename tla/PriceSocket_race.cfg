SPECIFICATION FairSpec
CONSTANTS
  c1 = c1
  c2 = c2
  p1 = p1
  p2 = p2
  Zero = Zero
  NaN = NaN
  NoPrice = NoPrice
  Clients <- MCOneClient
  Prices <- MCPrices
  Capacity = 2
  MaxSent = 2
PROPERTY EveryClientLatest
CHECK_DEADLOCK FALSE
