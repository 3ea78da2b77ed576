SPECIFICATION Spec
CONSTANTS
    r1 = r1
    r2 = r2
    kc = kc
    kt = kc
    Requests = {r1, r2}
    SigKeys <- MCKeys
    Inputs <- RaceInputs
    Listed = {}
    Revoked = {}
    ListNotAfter = 4
    ProofMaxAge = 2
    MaxFutureSkew = 1
    IatSkew = 1
    MaxZKLeafWindow = 2
    MaxTime = 5
    MaxClockSteps = 0
INVARIANT ConcurrentSingleUse
CHECK_DEADLOCK FALSE
