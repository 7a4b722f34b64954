SPECIFICATION Spec
CONSTANTS
    Followers = 2
    MaxFd = 2
    MaxConns = 2
    MaxReports = 2
    Interrupts = TRUE
INVARIANTS ServerInv RegisteredAlive
PROPERTIES RefinesLife
