CONSTANTS
    SpscN = 3
    SpscPushes = 5
    N = 2
    Pushes = 2
    MaxFail = 2
    Producers = {p1, p2}
    Consumers = {c1, c2}
    sum = 4
    SIZE = 4
    Byte = {0, 1}
    NUL = 0
    IntSizes = {1, 2}
    MaxLen = 3
    Checkers = {k1, k2}
    Buyers = {b1, b2, b3}
    Pool = {t1, t2, t3}
    Last = 3
SPECIFICATION Spec
CHECK_DEADLOCK FALSE
INVARIANTS SpscFifo MpmcExclusive DbqFifo WriterAlone WordsInOrder ShmTakeTurns
PROPERTIES RingFifo MainReturns
