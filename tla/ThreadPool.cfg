SPECIFICATION FairSpec
CONSTANTS
    c1 = c1
    c2 = c2
    Client = {c1, c2}
    Fd = {f1, f2}
    NbThreads = 2
    BatchSize = 1
    MaxRequest <- OneTalks
    EarlyReuse = FALSE
    MayClose = {{0}, {1, 3}, {2}}
INVARIANTS
    OnePlace
    OnlyGoneAreDropped
PROPERTIES
    ClientsAreHandled
    CloseReturns
CHECK_DEADLOCK FALSE
