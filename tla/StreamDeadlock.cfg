SPECIFICATION MCSpec
CONSTANTS
    a = a
    b = b
    Kinds = {"socket"}
    Side = {a, b}
    Writes <- OneEach
    Chunks = 2
    Capacity = 2
    MayClose = {}
    Waits <- NoFrame
    Timed = {}
    End = {a, b}
    Messages <- OneEach
    Parts = 3
    PipeSize = 1
    MayHangUp = {}
    MayWant = {}
PROPERTIES
    WritesEnd
CHECK_DEADLOCK FALSE
