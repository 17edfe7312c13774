CONSTANTS
    InitCapacity = 1
    MaxSlots = 2
    MaxTopics = 3
    MaxReady = 2
SPECIFICATION Spec
INVARIANTS
    WithinArrays
    FreedOnce
    NothingIsLeft
    SlotsOwnTheirBlocks
CHECK_DEADLOCK FALSE
