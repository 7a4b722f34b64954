CONSTANTS
    SlotNum = 2
    tick = 2
    WheelTimers = {t1, t2}
    WheelIds = {1, 2}
    WheelDelays = {1, 5}
    MaxTicks = 6
    TVR_SIZE = 2
    TVN_SIZE = 2
    Nodes = {n1, n2}
    NodeDelays = {0, 1, 25}
    NodeIntervals = {0, 5}
    MaxJiffies = 26
    FdTimers = {1, 2, 3}
    FdDelays = {3, 104}
    FdIntervals = {0, 102}
    Wrap = 100
    MaxTime = 6
    Conns = {c1, c2, c3}
    Threads = {w1, w2}
    Clients = {k1, k2, k3}
    FD_SETSIZE = 3
    MaxSend = 1
    Total = 7
    DataLens = {2, 3}
SPECIFICATION Spec
CHECK_DEADLOCK FALSE
INVARIANTS WheelsOnTime TimerfdArmed ContextOwned TransferAccounted
PROPERTIES NobodyStuck
