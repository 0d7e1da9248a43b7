CONSTANTS
    w1 = w1
    w2 = w2
    NoWriter = NoWriter
    Writers <- MCWriters
    Cids <- MCCids
    MaxRev = 4
    CacheLimit = 1
    PageSize = 1
    MaxDrops = 1

SPECIFICATION Spec
SYMMETRY Symmetry

INVARIANTS
    StorageConsistent
    WalkIsComplete
    WritersSerialize
