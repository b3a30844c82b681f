CONSTANTS
    None = None
    Readers = {r1, r2}
    Callers = {c1}
    TTL = 2
    Timeout = 1
    MaxTime = 4
    MaxChanges = 1
    MaxOutages = 1
    MaxCrashes = 1
SYMMETRY Symmetry
SPECIFICATION Spec
CHECK_DEADLOCK FALSE
INVARIANTS
    TypeOK
    StalenessBounded
