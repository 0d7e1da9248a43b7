CONSTANTS
    r1 = r1
    r2 = r2
    t1 = t1
    t2 = t2
    u1 = u1
    u2 = u2
    p1 = p1
    None = None
    Requests <- MCRequests
    Threads <- MCThreads
    Uris <- MCUris
    Proofs <- MCProofs
    ProofUri <- MCProofUri
    Expires <- MCExpires
    Offered <- MCOffered
    Envs <- MCEnvs
    MaxClock = 1

SPECIFICATION Spec
SYMMETRY Symmetry

INVARIANTS
    ContextConsistent
    ProofAcceptedOnce
    AdmitsOnlyItsOwn
