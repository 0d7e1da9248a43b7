\* Two handlers, the worker and one connection: three events, errors and a restart.
CONSTANTS
    Dids = {d1}
    Writers = {w1, w2}
    JobPool = TRUE
    MaxMs = 1
    MaxRand = 1
    MaxEvents = 3
    MaxFaults = 1
    MaxRestarts = 1
    Subscribers = {s1}
    Cursors = {0, 2}
    PageSize = 2
    RingSize = 1
    MpscSize = 1
    Window = 0
SPECIFICATION Spec
INVARIANTS
    TypeOK
    InsertNeverCollides
    DeliveredInOrder
    NewsIsForwarded
PROPERTIES
    ResumeRefusedOnlyAfterDeletion
    ImplementsFeed
CHECK_DEADLOCK FALSE
SYMMETRY Symmetry
