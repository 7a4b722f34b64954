SPECIFICATION Spec
CONSTANTS
    US_PER_MS = 2
    ZERO_DELAY = 1
    EXPIRE = 2
    UINT_MOD = 1024
    Addrs = {1, 2}
    Expirations = {0, 1}
    Intervals = {0, 1}
    MaxCancels = 2
    MaxTimers = 2
    MaxTime = 5
INVARIANTS NoDangling
