CONSTANTS
    MessageLen = 3
    Faults = {}
SPECIFICATION TransferSpec
INVARIANT ReloadDropsNothing
CHECK_DEADLOCK FALSE
