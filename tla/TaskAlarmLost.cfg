SPECIFICATION CheckSpec
CONSTANTS
    Parts = {"smp"}
    UpCpu = {c1}
    UpOps = {}
    TimedMaxTime = 0
    AlarmTask = {main, gc}
    AlarmOps = {}
    AlarmDurations = {}
    UpDurations = {}
    Task = {main, gc, t1}
    MainTask = main
    GcTask = gc
    Cpu = {c1}
    BootCpu = c1
    WaitQueue = {w}
    ExitQueue = x
    IDLE = idle
    NONE = none
    PREEMPT = FALSE
    Ops = {"spawn", "wait_timeout"}
    MaxCalls = 1
    MaxTime = 1
    Durations = {1}
INVARIANTS
    TimedWaitHasAlarm
CHECK_DEADLOCK FALSE
