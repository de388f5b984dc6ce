SPECIFICATION CheckSpec
CONSTANTS
    Parts = {"mutex", "pipe"}
    Task = {m1, m2, m3, m4}
    NoOwner = NoOwner
    NONE = none
    PipeTask = {t1, t2}
    AX_FILE_LIMIT = 6
    RING_BUFFER_SIZE = 2
    Lengths = {1, 3}
    MaxCalls = 5
INVARIANTS
    MutualExclusion
    NoLostWakeup
PROPERTIES
    ImplementsMutex
    SleepersWake
    ImplementsPipe
    PipeDrains
CHECK_DEADLOCK FALSE
