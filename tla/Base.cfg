\* The kernel below its tasks. The values make every table run full and every
\* failure happen: five frames for page tables, four pages beside the heap,
\* a PCI range of twelve units.
SPECIFICATION Spec
CONSTANTS
    Parts = {"list", "spin", "boot", "irq", "clock", "tables", "alloc", "context", "probe", "memory", "queues"}
    NIL = NIL
    Node = {n1, n2, n3, n4}
    PushTwice = FALSE
    Cpu = {"c1", "c2"}
    GuardTask = {"t1", "t2", "t3"}
    SpinLock = {"l1", "l2"}
    HandlerLock = {"l1"}
    Smp = TRUE
    SMP = 4
    Methods = {"x86", "firmware", "spin"}
    IrqCpu = {0, 1}
    PPI = {"timer"}
    SPI = {"uart", "disk"}
    EnabledAtInit = {"timer", "uart"}
    Width = 8
    NANOS_PER_SEC = 100
    PERIODIC_INTERVAL_NANOS = 10
    Frequencies = {24, 33, 62, 100, 130}
    MaxLate = 14
    MaxTicks = 80
    Arch = {"x86_64", "riscv64", "aarch64"}
    ENTRY_COUNT = 2
    Frames = {1, 2, 3, 4, 5}
    VirtAddrs = {0, 1, 4}
    PhysAddrs = {0, 5}
    RegionSizes = {3}
    USIZE_BITS = 5
    UpdateUnmapped = FALSE
    MaxMapped = 2
    PAGE_SIZE = 2
    SlabSizes = {1, 2}
    SET_SIZE = 2
    HEAP_PAGES = 1
    Base = 2
    Pages = 5
    CTRL_BLK_SIZE = 1
    MaxHeld = 3
    CtxTask = {"boot", "t1"}
    BootTask = "boot"
    Rounds = 1
    MaxFrames = 1
    TdataWords = 1
    TbssWords = 2
    TlsPadding = 1
    MaxDevices = 3
    PCI_BAR_NUM = 3
    RangeBase = 10
    RangeSize = 12
    Platforms = {"x86_64-qemu-q35", "x86_64-pc-oslab", "riscv64-qemu-virt", "aarch64-qemu-virt",
                 "aarch64-raspi4", "aarch64-bsta1000b"}
    MapCpu = {0, 1, 2}
    SchedTask = {t1, t2, t3}
    IDLE = idle
    Policies = {"fifo", "rr", "cfs"}
    MAX_TIME_SLICE = 2
    Removes = {"fifo", "rr"}
    MaxId = 4
    MaxVruntime = 1
INVARIANTS
    ListIsRing
    NoSelfDeadlock
    KernelComesUp
    InterruptsServed
    TablesTranslate
    
    ContextsKept
    DevicesReady
    RoundEnds
    NewcomerNotBehind
PROPERTY ImplementsScheduler
CHECK_DEADLOCK FALSE
