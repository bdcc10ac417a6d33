SPECIFICATION LifecycleSpec
CONSTANTS
  l1 = l1
  c1 = c1
  Listener = {l1}
  Conn = {c1}
  Units = 2
  MaxGeneration = 3
  MaxEdits = 1
  MaxErrors = 1
PROPERTY NewestConfigurationApplies
CHECK_DEADLOCK FALSE
