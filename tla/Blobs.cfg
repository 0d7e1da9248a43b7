\* Two actors under the one handle the server builds: writes, uploads, takedowns, deletions
\* of an account, and their failures.
CONSTANTS
    Actors = {a1, a2}
    Uris = {u1, u2}
    Cids = {c1}
    PerDid = FALSE
    MaxUploads = 2
    MaxTasks = 3
    MaxFaults = 1
SPECIFICATION Spec
INVARIANTS
    BlobRowsConsistent
    
    TakedownHides
CHECK_DEADLOCK FALSE
SYMMETRY Symmetry
