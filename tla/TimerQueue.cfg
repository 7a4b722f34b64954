SPECIFICATION Spec
CONSTANTS
    US_PER_MS = 2
    ZERO_DELAY = 1
    EXPIRE = 2
    UINT_MOD = 1024
    Addrs = {1, 2, 3}
    Expirations = {0, 1}
    Intervals = {0, 1}
    MaxCancels = 1
    MaxTimers = 3
    MaxTime = 3
INVARIANTS TimerInv NoDangling NoOversleep
PROPERTIES NotEarly CancelledNeverFires
