SPECIFICATION Spec
CONSTANTS
    r1 = r1
    r2 = r2
    r3 = r3
    k1 = k1
    k2 = k2
    b1 = b1
    b2 = b2
    Requests = {r1, r2}
    Streaming = {r1, r2}
    Keys = {k1, k2}
    KeyOf <- MCKeyOf
    Backends = {b1}
    Routes = {b1}
    RouteRank <- MCRouteRank
    ParallelValues = {1}
    SeededBackends = {b1}
    KeepsActive = {}
    SeedActive <- MCSeedActive
    SeedParallel <- MCSeedParallel
    NoBackend = NoBackend
    MaxQueueSize = 2
    RetryAttempts = 1
    PoolSize = 3
    MaxHeld = 1
    MaxFaults = 0
    FailureThreshold = 2
INVARIANTS
    GenerationsWithinLimit
