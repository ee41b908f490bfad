SPECIFICATION Spec
CONSTANTS
    Employee = {e1}
    Admin = {a1}
    NoJob = NoJob
    Debounce = 1
    MaxShift = 1
    MaxTime = 3
    MonthEnd = 3
    MaxSessions = 2
    MaxScans = 2
    MaxJobs = 2
    MaxCrashes = 1
    MaxStalled = 1
INVARIANTS
    OneOpenSession
    MonthAccounted
PROPERTIES
    ApprovedIsFrozen
    ResolutionsStand
    WaitingEnds
CHECK_DEADLOCK FALSE
