SPECIFICATION Spec
CONSTANTS
    a = a
    b = b
    id1 = id1
    id2 = id2
    w1 = w1
    w2 = w2
    court = court
    other = other
    Anchors = {a, b}
    Identities = {id1, id2}
    Requests <- MCRequests
    Signers = {court}
    Workers = {w1, w2}
    MaxAge = 4
    FutureTolerance = 1
    MaxStall = 2
    MaxPresented = 3
    MaxFaults = 1
    MaxTime = 7
INVARIANTS DeanonSafe SingleUseOnceDated
CHECK_DEADLOCK FALSE
