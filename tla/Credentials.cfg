CONSTANTS
    Handlers = {h1, h2}
    Threshold = 2
    LockFor = 1
    TTL = 1
    MaxRequests = 4
    MaxFaults = 1
    MaxNow = 2
SPECIFICATION Spec
SYMMETRY Symmetry
CHECK_DEADLOCK FALSE
INVARIANTS TypeOK GuessesBounded ConfirmedIsProved ResetIsFinal
