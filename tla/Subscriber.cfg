CONSTANTS
    Id = "a"
    Topics = {"t"}
    Stdins = {"terminal", "pipe", "file"}
    Chunks <- AllChunks
    Failures = TRUE
    MaxLines = 2
    MaxMessages = 1
    RequestBuf = 2
    SockBuf = 1
SPECIFICATION FairSpec
INVARIANTS
    TypeOK
    AsksWhatWasTyped
    NeverBlocksOnInput
PROPERTIES
    IsASubscriberOfNetwork
    LinesAreRead
    StuckOnlyInALine
CHECK_DEADLOCK FALSE
