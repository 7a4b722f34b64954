SPECIFICATION Spec
CONSTANTS
    Followers = 1
    MaxFd = 1
    MaxConns = 2
    MaxReports = 2
    Interrupts = FALSE
INVARIANTS HandledAlive
