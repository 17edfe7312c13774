SPECIFICATION Spec
CONSTANTS
    Ids = {a}
    Topics = {t}
    MaxFd = 6
    MaxConns = 2
    MaxPublish = 2
    MaxCmds = 1
    SockBuf = 2
    DatagramTypes = {"topic"}
    CommandNames = {"subscribe"}
    Lines = {}
    UdpCap = 2
    ReallocMoves = FALSE
    AllocFails = FALSE
PROPERTIES
    TheRestWaits
CHECK_DEADLOCK FALSE
