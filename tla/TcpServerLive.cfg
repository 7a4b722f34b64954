SPECIFICATION FairSpec
CONSTANTS
    Followers = 1
    MaxFd = 2
    MaxConns = 2
    MaxReports = 2
    Interrupts = FALSE
PROPERTIES PeerGoneCleaned ShutdownCompletes BacklogServed
