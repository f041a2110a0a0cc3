SPECIFICATION MCSpec
CONSTANTS
    a = a
    b = b
    Kinds = {"socket", "simplex", "duplex"}
    Side = {a, b}
    Writes <- OneFrame
    Chunks = 2
    Capacity = 1
    MayClose = {b}
    Waits <- OneWait
    Timed = {a, b}
    End = {a, b}
    Messages <- OneEach
    Parts = 3
    PipeSize = 1
    MayHangUp = {b}
    MayWant = {b}
INVARIANTS
    SendRecvExclusive
    PollIsWoken
    PairNotFreedInUse
    FramesIntact
    PipeKeepsOrder
PROPERTIES
    StreamCallsReturn
    PipeCallsReturn
CHECK_DEADLOCK FALSE
