SPECIFICATION Spec
CONSTANTS
    Ids = {a, b}
    Topics = {t1, t2}
    Fds = {5, 6}
    Ptrs = {p1, p2}
    MaxReady = 2
    AllocFails = TRUE
INVARIANTS
    TypeOK
    OneSlotPerId
    FdNamesOneClient
    TopicsDistinct
PROPERTY ImplementsRegistry
SYMMETRY Symmetry
