SPECIFICATION Spec
CONSTANTS
    i1 = i1
    i2 = i2
    a1 = a1
    a2 = a2
    dn = dn
    b1 = b1
    b2 = b2
    Models = {m1, m2}
    Ids = {i1, i2}
    Aliases = {a1, a2, dn}
    NoName = NoName
    DefaultName = dn
    Backends = {b1, b2}
    NoBackend = NoBackend
    Unset = Unset
    Creations <- MCCreations
    Patches <- MCPatches
    Seeds <- MCSeeds
    SeedUp <- MCSeedUp
    Sessions = {s1, s2}
    MaxOps = 4
    MaxActive = 2
CHECK_DEADLOCK FALSE
SYMMETRY MCSymmetry
INVARIANTS
    OneDefault
    DefaultServes
PROPERTIES
    DefaultDecided
