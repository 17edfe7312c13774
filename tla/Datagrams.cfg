CONSTANTS
    Base = 16
    IntLen = 2
    ShortLen = 1
    TopicLen = 3
    StringLen = 6
    Messages <- AllMessages
    MaxMsgs = 3
SPECIFICATION Spec
INVARIANTS
    TopicAsSent
    NumberAsSent
    StringAsSent
    IpowIsThePower
CHECK_DEADLOCK FALSE
