SPECIFICATION TrustSpec
CONSTANTS
    a = a
    b = b
    k1 = k1
    k2 = k2
    Names = {a}
    Keys = {k1, k2}
    ZeroKey = zero
    zero = zero
    Seeds <- MCSeeds
    Lifetime = 2
    MaxRecords = 1
    MaxFaults = 0
    MaxTime = 1
    Readers = {"agentsvc"}
    Copies = {}
    IssuerKeys = {"key"}
    MaxAge = 1
    FutureSkew = 0
    MaxSignDelay = 0
    MaxSnapshots = 2
    MaxSnapshotFaults = 1
    MaxSnapshotTime = 2
INVARIANT NoRollback
CHECK_DEADLOCK FALSE
