SPECIFICATION Spec
CONSTANTS
    c1 = c1
    c2 = c2
    Client = {c1, c2}
    Fd = {f1, f2}
    NbThreads = 2
    BatchSize = 1
    MaxRequest <- OneEach
    EarlyReuse = TRUE
    MayClose = {}
INVARIANTS
    OnlyGoneAreDropped
CHECK_DEADLOCK FALSE
