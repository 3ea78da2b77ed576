SPECIFICATION Spec
CONSTANTS
    r1 = r1
    r2 = r2
    kc = kc
    kt = kt
    Requests = {r1, r2}
    SigKeys <- MCKeys
    Inputs <- ChainInputs
    Listed = {1, 5, 6, 7, 13}
    Revoked = {7}
    ListNotAfter = 2
    ProofMaxAge = 2
    MaxFutureSkew = 1
    IatSkew = 1
    MaxZKLeafWindow = 2
    MaxTime = 2
    MaxClockSteps = 0
INVARIANTS AuthorityCurrent LiveAncestors
CHECK_DEADLOCK FALSE
