\* Reads of one byte each.
SPECIFICATION CheckSpec
CONSTANTS
    Parts = {"pipe"}
    Task = {m1, m2}
    NoOwner = NoOwner
    NONE = none
    PipeTask = {t1, t2}
    AX_FILE_LIMIT = 6
    RING_BUFFER_SIZE = 2
    Lengths = {1}
    MaxCalls = 5
INVARIANT WaitsOnlyForData
CHECK_DEADLOCK FALSE
