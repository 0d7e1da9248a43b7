CONSTANTS
    Handlers = {h1, h2}
    Minted = {m1}
    Imported = {i1}
    Handles = {n1, n2, n3}
    Local = {n1, n2, n3}
    Reserved = {n3}
    Emails = {e1, e2}
    Codes = {c1, c2}
    InviteRequired = FALSE
    UnusedLimit = 1
    MaxRequests = 3
    MaxFaults = 1
    MaxNow = 1
SPECIFICATION AccountsSpec
SYMMETRY Symmetry
CHECK_DEADLOCK FALSE
INVARIANTS AccountsConsistent InviteWithinUses CodesWithinAllowance
