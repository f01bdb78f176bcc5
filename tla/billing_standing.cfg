SPECIFICATION FairSpec
CONSTANTS
    c1 = c1
    s0 = s0
    a1 = a1
    Clients = {c1}
    Periods = {1, 2}
    Scheduler = s0
    Admins = {a1}
    NoSession = NoSession
    DueDays = 0
    SuspendDays = 1
    MaxDay = 4
    MaxOps = 2
    MaxPatches = 1
    MaxDeaths = 1
    MaxOverlaps = 1
INVARIANTS
    StandingJustified
PROPERTIES
    PaidIsFinalInOrder
    StandingConverges
