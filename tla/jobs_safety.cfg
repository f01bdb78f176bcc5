SPECIFICATION Spec
CONSTANTS
    j1 = j1
    j2 = j2
    w1 = w1
    w2 = w2
    c1 = c1
    b1 = b1
    b2 = b2
    Jobs = {j1, j2}
    Workers = {w1, w2}
    Clients = {c1}
    ClientOf <- MCClientOf
    Backends = {b1}
    Routes = {b1}
    RouteRank <- MCRouteRank
    ParallelValues = {1, 2}
    SeededBackends = {b1}
    KeepsActive = {}
    SeedActive <- MCOneSeedActive
    SeedParallel <- MCOneSeedParallel
    NoJob = NoJob
    NoBackend = NoBackend
    MaxSync = 1
    MaxCancels = 1
    MaxFaults = 1
SYMMETRY MCSymmetry
INVARIANTS
    TypeOK
    SingleCustody
    AtMostOnce
    SlotAccounting
    NoLossWithoutFault
PROPERTIES
    AcquireWithinLimit
    ImplementsJobService
