\* One frame whose program REPORTs values through CALL_ACTION 0x02.
SPECIFICATION Spec
CONSTANTS
    Streams <- MCReport
    MaxFrameLen = 112
    Capacity = 2
    Timestamps = {0, 4660}
INVARIANT ReportsKept
CHECK_DEADLOCK FALSE
