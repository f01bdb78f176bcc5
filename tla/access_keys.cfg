SPECIFICATION FairSpec
CONSTANTS
    c1 = c1
    k1 = k1
    k2 = k2
    k3 = k3
    r1 = r1
    r2 = r2
    s1 = s1
    s2 = s2
    Clients = {c1}
    Keys = {k1, k2, k3}
    Calls = {r1, r2}
    Sessions = {s1, s2}
    None = None
    MaxCalls = 2
    MaxOps = 4
INVARIANTS
    TypeOK
    DeletedKeysRevoked
    RevocationIsABarrier
    RotationHandsOver
    SuspensionStands
PROPERTIES
    EveryoneEnds
    ImplementsKeyRing
