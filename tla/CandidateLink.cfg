CONSTANTS
    Urls = {u1, u2}
    Versions = {v1, v2}
    Requests = {r1, r2}
    Workers = {w1, w2}
    MaxAttempts = 2
    MaxFaults = 2
    None = None
SYMMETRY Symmetry
SPECIFICATION Spec
CHECK_DEADLOCK FALSE
INVARIANTS
    TypeOK
    SingleFetch
    
    StuckExplained
    AnalysisIsCurrent
