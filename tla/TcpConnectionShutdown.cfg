CONSTANTS
    INITSIZE = 1
    MAXSIZE = 1
    SNDCAP = 1
    MaxSent = 2
    MaxReceived = 1
    MaxFunctors = 1
    MaxRemovals = 1
    WithReset = FALSE
SPECIFICATION Spec
CHECK_DEADLOCK FALSE
PROPERTIES ShutdownSendsFin
