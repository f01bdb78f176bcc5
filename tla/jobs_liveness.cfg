SPECIFICATION FairSpec
CONSTANTS
    j1 = j1
    j2 = j2
    w1 = w1
    w2 = w2
    c1 = c1
    b1 = b1
    b2 = b2
    Jobs = {j1, j2}
    Workers = {w1, w2}
    Clients = {c1}
    ClientOf <- MCClientOf
    Backends = {b1}
    Routes = {b1}
    RouteRank <- MCRouteRank
    ParallelValues = {2}
    SeededBackends = {b1}
    KeepsActive = {b1}
    SeedActive <- MCOneSeedActive
    SeedParallel <- MCTwoParallel
    NoJob = NoJob
    NoBackend = NoBackend
    MaxSync = 2
    MaxCancels = 1
    MaxFaults = 0
PROPERTY
    JobsTerminate
