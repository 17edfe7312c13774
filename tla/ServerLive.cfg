SPECIFICATION FairSpec
CONSTANTS
    Ids = {a}
    Topics = {t}
    MaxFd = 6
    MaxConns = 2
    MaxPublish = 2
    MaxCmds = 1
    SockBuf = 1
    DatagramTypes = {"topic"}
    CommandNames = {"subscribe"}
    Lines = {"exit", "other", "part", "end"}
    UdpCap = 2
    ReallocMoves = FALSE
    AllocFails = FALSE
PROPERTIES
    DatagramsAreTaken
    ConnectionsAreAnswered
    DeadConnectionsAreClosed
    ClaimsAreSettled
CHECK_DEADLOCK FALSE
