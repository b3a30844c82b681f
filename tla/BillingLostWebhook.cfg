CONSTANTS
    None = None
    PeriodLength = 2
    Grace = 0
    Users = {u1}
    Orders = {o1, o2}
    Keys = {k1, k2}
    Handlers = {h1, h2}
    MaxTime = 0
    MaxVersion = 0
    PlanSwitch = FALSE
SYMMETRY Symmetry
SPECIFICATION Spec
CHECK_DEADLOCK FALSE
INVARIANTS
    AckedIsRecorded
