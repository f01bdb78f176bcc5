SPECIFICATION Spec
CONSTANTS
    t1 = t1
    t2 = t2
    t3 = t3
    k1 = k1
    k2 = k2
    Calls = {t1, t2, t3}
    Jobs = {}
    Keys = {k1, k2}
    KeyOf <- MCKeyOf
    LastDay = 1
    DailyLimit = 3
    MonthlyLimit = 4
    Estimate <- MCEstimate
    Excess = 0
    RateLimit = 3
    NoCall = NoCall
    MaxMinutes = 1
    Prices = {700, 40000}
INVARIANTS
    QuotaEnforced
CHECK_DEADLOCK FALSE
