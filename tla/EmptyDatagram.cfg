SPECIFICATION Spec
CONSTANTS
    Ids = {a}
    Topics = {t}
    MaxFd = 6
    MaxConns = 2
    MaxPublish = 2
    MaxCmds = 1
    SockBuf = 2
    DatagramTypes = {"topic", "empty"}
    CommandNames = {"subscribe"}
    Lines = {}
    UdpCap = 2
    ReallocMoves = FALSE
    AllocFails = FALSE
INVARIANTS
    PollsTheUdpSocket
CHECK_DEADLOCK FALSE
