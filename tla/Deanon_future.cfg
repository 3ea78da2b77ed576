SPECIFICATION Spec
CONSTANTS
    a = a
    b = b
    id1 = id1
    id2 = id2
    w1 = w1
    w2 = w2
    court = court
    other = other
    Anchors = {a, b}
    Identities = {id1}
    Requests <- FutureRequests
    Signers = {court}
    Workers = {w1, w2}
    MaxAge = 2
    FutureTolerance = 1
    MaxStall = 0
    MaxPresented = 3
    MaxFaults = 0
    MaxTime = 5
INVARIANT SingleUse
CHECK_DEADLOCK FALSE
