SPECIFICATION Spec
CONSTANTS
    c1 = c1
    s0 = s0
    a1 = a1
    Clients = {c1}
    Periods = {1, 2}
    Scheduler = s0
    Admins = {a1}
    NoSession = NoSession
    DueDays = 0
    SuspendDays = 1
    MaxDay = 3
    MaxOps = 2
    MaxPatches = 0
    MaxDeaths = 0
    MaxOverlaps = 1
PROPERTIES
    PaidIsFinal
