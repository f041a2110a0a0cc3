SPECIFICATION FairSpec
CONSTANTS
    c1 = c1
    c2 = c2
    c3 = c3
    s1 = s1
    nearWorker = nearWorker
    farWorker = farWorker
    Client = {c1, c2}
    Server = {s1}
    Worker = {nearWorker, farWorker}
    SideOf <- Sides
    MaxCall = 2
    MayClose = {c1, s1}
    MayExpire = {c2}
INVARIANTS
    OneReceiver
    BoundToThread
    SleepersAreWoken
PROPERTIES
    BoundThreadsEnd
CHECK_DEADLOCK FALSE
