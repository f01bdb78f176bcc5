SPECIFICATION FairSpec
CONSTANTS
    t1 = t1
    t2 = t2
    t3 = t3
    k1 = k1
    k2 = k2
    Calls = {t1, t2, t3}
    Jobs = {t3}
    Keys = {k1, k2}
    KeyOf <- MCKeyOf
    LastDay = 2
    DailyLimit = 3
    MonthlyLimit = 4
    Estimate <- MCEstimate
    Excess = 1
    RateLimit = 2
    NoCall = NoCall
    MaxMinutes = 1
    Prices = {700, 40000}
INVARIANTS
    TypeOK
    UsageCounted
    QuotaEnforcedPerKey
    RateLimited
    NeverOvercharged
    OverageBounded
PROPERTIES
    CallsEnd
CHECK_DEADLOCK FALSE
