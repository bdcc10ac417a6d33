SPECIFICATION LifecycleSpec
CONSTANTS
  l1 = l1
  c1 = c1
  c2 = c2
  Listener = {l1}
  Conn = {c1, c2}
  Units = 2
  MaxGeneration = 3
  MaxEdits = 1
  MaxErrors = 1
INVARIANTS OneWarmGeneration
PROPERTIES ShutdownCompletes AcceptResumes
CHECK_DEADLOCK FALSE
