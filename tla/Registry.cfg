SPECIFICATION TransportSpec
CONSTANTS
    s1 = s1
    s2 = s2
    n1 = n1
    n2 = n2
    start = start
    Server = {s1, s2}
    Name = {n1, n2}
    Aliases <- SharedName
    Prune = 2
    MaxMissed = 1
    MaxStarts = 1
    MaxNet = 2
    Closer = {start, user}
    ClosedBy <- BothCloseOne
    MayBreak = TRUE
    MayLose = TRUE
    MayDelay = TRUE
    TcpServer = {s2}
    MaxVisit = 2
INVARIANTS
    ObserverAgrees
    Discoverable
PROPERTIES
    UnregisterIsLast
    GhostsEnd
CHECK_DEADLOCK FALSE
