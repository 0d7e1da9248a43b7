\* Two requests of any kind, with a failure, a restart and a second account of the DID.
CONSTANTS
    Handlers = {h1, h2}
    Uris = {u1, u2}
    Cids = {c1}
    NoCid = NoCid
    NoHandler = NoHandler
    MaxStores = 2
    MaxCommits = 3
    MaxReads = 1
    MaxFaults = 1
SPECIFICATION Spec
INVARIANTS
    StoreConsistent
    CommitsInOrder
    PrevIsTrue
CHECK_DEADLOCK FALSE
SYMMETRY Symmetry
