SPECIFICATION OnceSpec
CONSTANTS
  h1 = h1
  h2 = h2
  k1 = k1
  k2 = k2
  Handshake = {h1, h2}
  Key = {k1, k2}
  ShardOf <- TwoShards
  PendingTtl = 1
  CommittedTtl = 2
  Capacity = 1
  Slack = 0
  MaxTime = 3
  MaxUp = 4
  MaxDown = 2
  WindowBits = 2
  TicksPerSecond = 2
  TimeDifference = 1
  OpenTimeout = 1
  LineIdle = 1
  LandingIdle = 2
INVARIANT DeliveredOnce
PROPERTIES
   ExpiredArePurged
  OpenAdmittedOnce SessionEnds
CHECK_DEADLOCK FALSE
