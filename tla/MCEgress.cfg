SPECIFICATION EgressSpec
CONSTANTS
  Pool = {p}
  Caller = {c}
  MinReady = 1
  MaxReady = 2
  MaxConnecting = 2
  RefillBatch = 1
  ReadyCapacity = 2
  ConnectingCapacity = 2
  MaxStaleChecks = 1
  Request = {r1, r2, r3}
  n1 = n1
  Name = {n1, n2}
  MaxEntries = 1
  Permits = 2
  MaxAddresses = 4
  Budget = 3
  ClientSession = {s1, s2}
  Lines = 3
  TripAfter = 1
INVARIANTS
  StoppedPoolIsEmpty
  SubscribersHear FlightOwnsSlot
  OnlyTheWinnerRemains PlanIsExhausted
  DriverAgreesWithEngine
PROPERTIES ControllerEnds
CHECK_DEADLOCK FALSE
