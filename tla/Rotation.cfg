CONSTANTS
    Legacy = {l1}
    Imported = {i1}
    Minted = {m1}
    MaxRuns = 3
    MaxFaults = 1
    MaxUserOps = 1
    MaxDeletes = 1
SPECIFICATION RotationSpec
CHECK_DEADLOCK FALSE
INVARIANTS KeysConsistent RewrittenOnce
PROPERTIES DryRunWritesNothing
