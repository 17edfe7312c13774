SPECIFICATION Spec
CONSTANTS
    Ids = {a, b}
    Topics = {t}
    MaxFd = 5
    MaxConns = 3
    MaxPublish = 2
    MaxCmds = 1
    SockBuf = 1
    DatagramTypes = {"topic", "empty"}
    CommandNames = {"subscribe"}
    Lines = {}
    UdpCap = 1
    ReallocMoves = TRUE
    AllocFails = TRUE
INVARIANTS
    TablesAgree
    EachReportedOnce
    HandlersDoNotBlock
    AtMostOnce
    StoreHoldsTheRest
    SessionOrder
SYMMETRY Symmetry
CHECK_DEADLOCK FALSE
