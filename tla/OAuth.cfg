\* Two handlers on one request: nonces for five steps, a code and two refreshes.
CONSTANTS
    Handlers = {h1, h2}
    Requests = {q1}
    Devices = {v1, v2}
    Window = 1
    MaxNonces = 5
    MaxMinted = 4
    MaxFaults = 1
    MaxNow = 1
SPECIFICATION Spec
SYMMETRY Symmetry
CHECK_DEADLOCK FALSE
INVARIANTS ConsentConsistent CodeSurvives SpentOnce RevokedIsGone
