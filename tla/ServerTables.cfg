SPECIFICATION Spec
CONSTANTS
    Ids = {a, b}
    Topics = {t}
    MaxFd = 6
    MaxConns = 2
    MaxPublish = 2
    MaxCmds = 2
    SockBuf = 1
    DatagramTypes = {"topic", "unknown"}
    CommandNames = {"subscribe", "unsubscribe", "other"}
    Lines = {}
    UdpCap = 2
    ReallocMoves = FALSE
    AllocFails = FALSE
INVARIANTS
    TypeOK
    TablesAgree
    HandlersDoNotBlock
    OnlyWhatIsDue
    EndsAreSeenInOneRound
PROPERTIES
    KeepsClientVecContract
SYMMETRY Symmetry
CHECK_DEADLOCK FALSE
