SPECIFICATION TrustSpec
CONSTANTS
    a = a
    b = b
    k1 = k1
    k2 = k2
    Names = {a, b}
    Keys = {k1, k2}
    ZeroKey = zero
    zero = zero
    Seeds <- MCSeeds
    Lifetime = 2
    MaxRecords = 2
    MaxFaults = 2
    MaxTime = 1
    Readers = {"agentsvc"}
    Copies = {}
    IssuerKeys = {"key"}
    MaxAge = 1
    FutureSkew = 1
    MaxSignDelay = 0
    MaxSnapshots = 2
    MaxSnapshotFaults = 1
    MaxSnapshotTime = 3
SYMMETRY KeySymmetry
INVARIANTS RegistrySafe NoRetiredKey SnapshotSafe RevocationReaches
CHECK_DEADLOCK FALSE
