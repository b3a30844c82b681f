CONSTANTS
    None = None
    PeriodLength = 2
    Grace = 0
    Users = {u1}
    Orders = {o1}
    Keys = {k1}
    Handlers = {h1, h2, h3}
    MaxTime = 0
    MaxVersion = 1
    PlanSwitch = TRUE
SYMMETRY Symmetry
SPECIFICATION Spec
CHECK_DEADLOCK FALSE
INVARIANTS
    TypeOK
    ActivatedOnce
    VerdictMatchesProvider
    OrderInv
PROPERTIES
    KeepsPurchasePromise
