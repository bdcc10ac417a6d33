SPECIFICATION PathsSpec
CONSTANTS
  YieldBudget = 2
  Chunks = 3
  ReadAhead = 2
  StageCap = 2
  UpdateLen = 2
  BatchSlots = 3
  KeyLimit = 4
  MaxRequests = 3
  MaxGeneration = 4
  MessageLen = 3
  Faults = {"io", "timeout", "reclaim", "refuse", "cancel"}
  MinPlpmtu = 1
  BasePlpmtu = 3
  MaxPlpmtu = 6
  Granularity = 2
  ProbeTimeout = 1
  MaxProbes = 2
  ConfirmInterval = 2
  RaiseInterval = 3
  MaxPathChanges = 2
INVARIANTS
  ByteOrder EofOnlyWhenComplete AbortIsReset IdleContract
  OwedIsRemembered RecordsAreReadable
PROPERTIES
   RawBoundaryNeverWaits ImplementsAgreement
   TransferSettles
  BlackHoleIsLeft
CHECK_DEADLOCK FALSE
