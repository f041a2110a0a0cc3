SPECIFICATION KindSpec
CONSTANTS
    c1 = c1
    c2 = c2
    u1 = u1
    u2 = u2
    Client = {c1, c2}
    User = {u1, u2}
    Main = main
    MayAuth = TRUE
    Closers = {c1}
    Scenario <- Scenarios
INVARIANTS
    ThreadedWorkersAreAlive
    EndedLeavesNothing
PROPERTIES
    ClosesEnd
    ChildrenAreReaped
CHECK_DEADLOCK FALSE
