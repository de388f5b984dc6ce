SPECIFICATION CheckSpec
CONSTANTS
    Parts = {"smp", "up", "alarms"}
    Task = {main, gc, t1, t2}
    MainTask = main
    GcTask = gc
    Cpu = {c1, c2}
    BootCpu = c1
    WaitQueue = {w}
    ExitQueue = x
    IDLE = idle
    NONE = none
    PREEMPT = TRUE
    Ops = {"spawn", "yield", "wait", "wait_until", "set", "notify_one", "notify_all", "notify_task",
           "join", "drop_handle", "exit", "main_exit"}
    MaxCalls = 2
    MaxTime = 0
    Durations = {}
    UpCpu = {c1}
    UpOps = {"spawn", "sleep", "wait_timeout", "wait_timeout_until", "notify_one"}
    TimedMaxTime = 2
    UpDurations = {0, 1, 2}
    AlarmTask = {main, gc, t1}
    AlarmOps = {"spawn", "sleep", "wait", "wait_timeout", "notify_one", "exit"}
    AlarmDurations = {1}
SYMMETRY Symmetry
INVARIANTS
    QueuesMatchStates
    FreedOnce
    WaitsEndNotified
    CallsLeaveNothing
    NotEarly
    LateWakeupsHarmless
PROPERTIES
    NotificationsWake
CHECK_DEADLOCK FALSE
