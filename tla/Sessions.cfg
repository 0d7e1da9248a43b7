\* Two requests at once, of the account and of an app, with failures, expiry and revocation.
CONSTANTS
    Handlers = {h1, h2}
    Apps = {a1}
    NoApp = NoApp
    Grace = 1
    Lifetime = 2
    MaxTime = 2
    MaxSessions = 1
    MaxIds = 3
    MaxFaults = 1
SPECIFICATION LiveSpec
INVARIANTS
    TypeOK
    SameSuccessor
    SuccessorOutlives
    RevokedSessionIsGone
PROPERTIES
    RotationReturns
CHECK_DEADLOCK FALSE
