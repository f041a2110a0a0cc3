SPECIFICATION MCSpec
CONSTANTS
    c1 = c1
    c2 = c2
    s1 = s1
    Client = {c1, c2}
    Server = {s1}
    MaxCall = 2
    PeerRequest = {0}
    MaxDepth = 1
    MayExpire = TRUE
    MayClose = {c1}
    PeerCloses = {"request", "eof"}
INVARIANTS
    TypeOK
    SingleReceiver
    OwnReply
    NoLostRequest
    ClosedReleases
    NoStrandedSend
PROPERTIES
    ImplementsTable
    ThreadsReturn
CHECK_DEADLOCK FALSE
