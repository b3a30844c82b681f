CONSTANTS
    None = None
    Readers = {r1}
    Callers = {c1}
    TTL = 1
    Timeout = 1
    MaxTime = 1
    MaxChanges = 1
    MaxOutages = 0
    MaxCrashes = 1
SPECIFICATION Spec
CHECK_DEADLOCK FALSE
INVARIANTS
    AckedIsHeard
