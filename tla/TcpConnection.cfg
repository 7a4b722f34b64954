CONSTANTS
    INITSIZE = 1
    MAXSIZE = 2
    SNDCAP = 2
    MaxSent = 4
    MaxReceived = 3
    MaxFunctors = 2
    MaxRemovals = 2
    WithReset = TRUE
SPECIFICATION Spec
CHECK_DEADLOCK FALSE
INVARIANTS ConnectionInv StreamIntact UnreadOnlyWhenFull
PROPERTIES OutputDrains FinNoticed
