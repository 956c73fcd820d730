SPECIFICATION FairSpec
CONSTANTS
  c1 = c1
  c2 = c2
  p1 = p1
  p2 = p2
  Zero = Zero
  NaN = NaN
  NoPrice = NoPrice
  Clients <- MCClients
  Prices <- MCPricesNaN
  Capacity = 2
  MaxSent = 3
INVARIANTS TypeOK WatchFollowsKeeper NoSilentLoss CaughtUpIsLatest BroadcastIsLossless OnlyNewer
PROPERTIES FeedSpec EventuallyLatest StopReleasesClients
CHECK_DEADLOCK FALSE
