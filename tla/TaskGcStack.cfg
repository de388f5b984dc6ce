SPECIFICATION CheckSpec
CONSTANTS
    Parts = {"smp"}
    UpCpu = {c1}
    UpOps = {}
    TimedMaxTime = 0
    AlarmTask = {main, gc}
    AlarmOps = {}
    AlarmDurations = {}
    UpDurations = {}
    Task = {main, gc, t1, t2}
    MainTask = main
    GcTask = gc
    Cpu = {c1, c2}
    BootCpu = c1
    WaitQueue = {w}
    ExitQueue = x
    IDLE = idle
    NONE = none
    PREEMPT = FALSE
    Ops = {"spawn", "wait", "drop_handle", "exit"}
    MaxCalls = 5
    MaxTime = 0
    Durations = {}
INVARIANTS
    StackOutlivesSwitch
CHECK_DEADLOCK FALSE
