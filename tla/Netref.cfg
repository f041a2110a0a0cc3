SPECIFICATION Spec
CONSTANTS
    Owner = {o1}
    Consumer = {c1}
    Proxy = {p1, p2, p3}
    None = None
    MaxBox = 4
    MaxUse = 2
INVARIANTS
    NothingLeaks
    RepliesArrive
PROPERTIES
    Refinement
CHECK_DEADLOCK FALSE
