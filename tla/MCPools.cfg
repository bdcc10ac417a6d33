SPECIFICATION PoolsSpec
CONSTANTS
  Applicant = {t1, t2}
  Pool = {"Handshake", "Direct"}
  Hard <- MCHard
  Dial = {d1, d2}
  Rate = {0, 1, 3}
  Second = 2
  MaxNanos = 4
  MaxChanges = 1
  Association = {a1, a2, a3}
  User = {u1, u2}
  GlobalId = {g1, g2}
  MaxAssociations = 1
  Grace = 1
  MaxClock = 2
  Relay = {r1, r2, r3}
  Bilateral = {r1, r2}
  Pipe = {p1, p2, p3}
  MaxBuffers = 2
  MaxSplice = 2
  Keep = 1
  Class = {k1}
  Visitor = {v1, v2}
  MaxClasses = 1
INVARIANTS CollectorIsNotStranded PoolsConserved ExcessIsOld RateHeld LeasesMatchHolders NoForeignBytes BuffersFollowPermits
CHECK_DEADLOCK FALSE
