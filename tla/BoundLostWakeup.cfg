SPECIFICATION FairSpec
CONSTANTS
    c1 = c1
    c2 = c2
    c3 = c3
    s1 = s1
    nearWorker = nearWorker
    farWorker = farWorker
    Client = {c1, c2, c3}
    Server = {s1}
    Worker = {nearWorker, farWorker}
    SideOf <- Sides
    MaxCall = 3
    MayClose = {}
    MayExpire = {c1, c2}
PROPERTIES
    BoundCallsReturn
CHECK_DEADLOCK FALSE
