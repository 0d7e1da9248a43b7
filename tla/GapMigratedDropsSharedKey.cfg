\* One account from before the per-did keys, whose document lists the shared key.
CONSTANTS
    Legacy = {l1}
    Imported = {}
    Minted = {}
    MaxRuns = 2
    MaxFaults = 0
    MaxUserOps = 0
    MaxDeletes = 0
SPECIFICATION RotationSpec
CHECK_DEADLOCK FALSE
INVARIANTS MigratedDropsSharedKey
