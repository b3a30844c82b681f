CONSTANTS
    None = None
    Readers = {c1, c2}
    Sources = {s1}
    Intents = {a1, a2}
    MaxRevision = 1
    MaxRuns = 2
    Providers = {a1, a2}
    Sweepers = {b1, b2}
    MaxJobs = 2
    Requests = {c1, c2}
    MaxTries = 2
    MaxChats = 2
    Demands = {c1, c2}
    JobAttempts = 2
    MaxDocFaults = 1
    Syncers = {c1, c2}
    MaxEdits = 3
    SyncAttempts = 2
    MaxSyncFaults = 2
SYMMETRY Symmetry
SPECIFICATION Spec
CHECK_DEADLOCK FALSE
INVARIANTS
    TypesOK
    CurrentRunIsClean
    NeverANeighboursIntent
    
    RejectedHasNoChat
    
    LeftBehindExplained
    

    
    
