CONSTANTS
    Byte = {0, 1}
    Zero = 0
    InitSize = 1
    MAXSIZE = 4
    IntSizes = {1, 2}
    MaxLen = 2
SPECIFICATION Spec
CHECK_DEADLOCK FALSE
INVARIANTS BufferInv
PROPERTIES ReadOutcome AppendContract RefinesByteQueue
