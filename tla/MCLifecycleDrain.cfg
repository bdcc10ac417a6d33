SPECIFICATION LifecycleSpec
CONSTANTS
  l1 = l1
  l2 = l2
  c1 = c1
  c2 = c2
  Listener = {l1, l2}
  Conn = {c1, c2}
  Units = 2
  MaxGeneration = 3
  MaxEdits = 1
  MaxErrors = 2
INVARIANT EveryListenerIsAwaited
CHECK_DEADLOCK FALSE
