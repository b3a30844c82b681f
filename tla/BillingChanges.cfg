CONSTANTS
    None = None
    PeriodLength = 1
    Grace = 0
    Users = {u1}
    Orders = {o1}
    Keys = {k1}
    Handlers = {h1, h2}
    MaxTime = 1
    MaxVersion = 3
    PlanSwitch = TRUE
SYMMETRY Symmetry
SPECIFICATION Spec
CHECK_DEADLOCK FALSE
INVARIANTS
    VersionCountsTransitions
    AnnouncedIsHeld
    ScheduledAtBoundary
PROPERTIES
    NoUnannouncedChange
