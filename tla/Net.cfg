\* All parts of axnet. Three handles and two ports make both tables run full.
SPECIFICATION Spec
CONSTANTS
    NONE = NONE
    Parts = {"tcp", "tcp_long", "stream", "udp", "locks", "device"}
    Task = {t1, t2}
    Sock = {s1, s2}
    Handles = 3
    PORT_START = 1
    PORT_END = 2
    LISTEN_QUEUE_SIZE = 3
    Nonblocking = {s1}
    MaxCalls = 4
    LongCalls = 5
    StreamTask = {t1, t2, t3}
    RxLen = 2
    TxLen = 2
    MaxSent = 4
    UdpTask = {t1, t2, t3}
    Peer = {p1, p2}
    FirstPort = 1
    LastPort = 2
    RxSlots = 2
    TxSlots = 1
    NetTask = {t1, t2, t3}
    NetOps = {"poll", "poll_syn", "transfer", "connect", "query", "listen", "accept", "can_accept", "unlisten"}
    QS = 3
    CAPACITY = 1526
    MAX_HEADER = 12
    MTU = 1514
    SPARE = 1
INVARIANTS
    SocketsAccounted
    EofAfterData
    ConnectedIsBound
    OnlyKnownCycles
    DeviceConserved
PROPERTY AcceptInOrder
CHECK_DEADLOCK FALSE
