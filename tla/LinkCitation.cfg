CONSTANTS
    Urls = {u1, u2}
    Versions = {v1}
    Requests = {r1, r2}
    Workers = {w1, w2}
    MaxAttempts = 2
    MaxFaults = 0
    None = None
SYMMETRY Symmetry
SPECIFICATION Spec
CHECK_DEADLOCK FALSE
INVARIANTS
    ContentIsOfItsAddress
