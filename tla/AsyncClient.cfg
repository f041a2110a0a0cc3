SPECIFICATION MCSpec
CONSTANTS
    Waiter = {w1}
    Asker = {k1}
    Adder = {a1, a2}
    Setter = {s1}
    Dispatch = d
    User <- TwoCallers
    MayPause <- TwoCallers
    MayResume <- TwoCallers
    MayStop <- TwoCallers
    HandlerCalls <- Everything
    MaxCalls = 8
    Active = FALSE
INVARIANTS
    ValueIsTheReply
    CallbacksRunOnce
    PausedIsQuiet
    ServeIsWoken
PROPERTIES
    WaitersReturn
    CallsReturn
CHECK_DEADLOCK FALSE
