CONSTANTS
    None = None
    Sessions = {a1, a2}
    Calls = {b1, b2}
    MaxSecret = 2
    Tabs = {c1, c2}
    MaxWebFaults = 1
    Keep = Keep
    Drop = Drop
    Fetches = {c1, c2}
    MaxPhoneFaults = 1
    Attempts = {c1, c2}
    FirstThreshold = 3
    SecondThreshold = 2
    MaxOutages = 1
    MaxMessages = 3
    PageSize = 2
    MaxDrops = 2
SYMMETRY Symmetry
SPECIFICATION Spec
CHECK_DEADLOCK FALSE
INVARIANTS
    TypesOK
    SignOutExplained
    
    
    GuessesBounded
    ImmortalCountExplained
    
PROPERTIES
    ChainIsLinear
