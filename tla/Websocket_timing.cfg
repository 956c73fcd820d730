SPECIFICATION FairSpec
CONSTANTS
  Interval = 2
  Timeout = 4
  Delay = 1
  QueueSize = 2
  Rtt = 1
  MaxAge = 7
  MaxMissed = 2
  Burst = 1
INVARIANTS TypeOK SilenceBounded HealthyKept
PROPERTY SilentPeerDropped
CHECK_DEADLOCK FALSE
