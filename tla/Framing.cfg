CONSTANTS
    MsgLen = 3
    Capacity <- MCCapacity
    MaxMsgs <- MCMaxMsgs
SPECIFICATION FairSpec
INVARIANTS
    TypeOK
    StreamInOrder
PROPERTIES
    ImplementsChannel
    CallsReturn
CHECK_DEADLOCK FALSE
