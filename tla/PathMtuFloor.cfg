SPECIFICATION MtuSpec
CONSTANTS
  MinPlpmtu = 1
  BasePlpmtu = 3
  MaxPlpmtu = 6
  Granularity = 2
  ProbeTimeout = 1
  MaxProbes = 2
  ConfirmInterval = 2
  RaiseInterval = 3
  MaxPathChanges = 2
PROPERTY LowPathIsDetected
