SPECIFICATION CheckFairSpec
CONSTANTS
    Parts = {"smp"}
    UpCpu = {c1}
    UpOps = {}
    TimedMaxTime = 0
    AlarmTask = {main, gc}
    AlarmOps = {}
    AlarmDurations = {}
    UpDurations = {}
    Task = {main, gc, t1}
    MainTask = main
    GcTask = gc
    Cpu = {c1, c2}
    BootCpu = c1
    WaitQueue = {w}
    ExitQueue = x
    IDLE = idle
    NONE = none
    PREEMPT = TRUE
    Ops = {"spawn", "sleep", "join", "exit"}
    MaxCalls = 2
    MaxTime = 1
    Durations = {}
INVARIANTS
    RunQueueConsistent
PROPERTIES
    JoinReturns
    SleepersRun
CHECK_DEADLOCK FALSE
