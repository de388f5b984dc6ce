\* What programs use. The values make tables, queues and buffers run full.
SPECIFICATION Spec
CONSTANTS
    Parts = {"names", "races", "moves", "files", "disk", "editor", "shell", "listing", "buffers", "fds", "dups",
             "threads", "screen", "keys", "tty", "strings", "times", "printf", "wrappers"}
    NIL = NIL
    MaxNodes = 32
    WriteSizes = {1}
    ReadSizes = {2}
    MaxOffset = 3
    MAX_CMD_LEN = 4
    LineKeys = {"pwd", "bs", "cr", "ctl", "esc"}
    MaxDepth = 1
    NAME_LEN = 3
    Dirents = 3
    MayChange = FALSE
    BLOCK_SIZE = 3
    SizeHints = {4}
    Lengths = {2, 5}
    MaxPosition = 6
    Newline = 0
    BUF_SIZE = 3
    Lens = {1, 2, 4}
    MaxSent = 5
    CAP = 3
    STDIO = 1
    o1 = o1
    o2 = o2
    std = std
    MaxInput = 1
    Thread = {"main", "t1", "t2", "t3"}
    Main = "main"
    Pthreads = {"t1", "t2"}
    Values = {"v1", "v2"}
    WIDTH = 4
    HEIGHT = 2
    STDIN_BUFFER_SIZE = 2
    DebugLevels = {0, 3}
    Keys = {"k1", "k2"}
    MaxKeys = 3
    Uarts = {"pl011", "dw8250", "uart16550"}
    FifoSize = 2
    BufSize = 2
    MaxCalls = 2
    Memories = {0, 1, 2, 3, 4, 7, 9, 12}
    Bases = {0, 10, 16}
    LONG_MAX = 127
    GROW = 6
    DaySecs = {0, 43199, 86399}
    Formats = {"W", "F", "T", "I"}
    Sizes = {0, 9, 11}
    BufSizes = {0, 3, 9}
    INTBUF = 32
    PtrWidth = 6
    Features = {TRUE, FALSE}
    IntBits = 9
    Counts = {255, 300}
    Failures = {"InvalidInput"}
    NameLists = {0, 3}
    MAXADDRS = 2
    Explained = {5}
INVARIANTS
    NamesConsistent
    BytesKept
    FilesAccounted
    JoinGetsValue
    
    
    CallsReport
CHECK_DEADLOCK FALSE
