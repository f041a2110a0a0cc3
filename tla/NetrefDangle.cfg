SPECIFICATION Spec
CONSTANTS
    Owner = {o1}
    Consumer = {c1, c2}
    Proxy = {p1, p2}
    None = None
    MaxBox = 2
    MaxUse = 0
SYMMETRY ProxySymmetry
INVARIANTS
    NeverDangles
CHECK_DEADLOCK FALSE
