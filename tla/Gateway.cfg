SPECIFICATION FairSpec
CONSTANTS
    Calls = {c1, c2}
    j1 = j1
    j2 = j2
    j3 = j3
    pay = pay
    read = read
    here = here
    elsewhere = elsewhere
    Requests <- MCRequests
    Body <- Receipts
    Audience = here
    Second = 2
    MaxTokenTTL = 2
    ReplayWindow = 2
    ReplayCapacity = 1
    MaxReceived = 3
    MaxEvents = 3
    MaxTime = 4
    MaxIOFaults = 1
    MaxCrashes = 1
    MaxHeads = 1
    PowerLossAfterRecovery = FALSE
INVARIANTS ReplaySafe DeliveredIsOnRecord LogSurvives
PROPERTIES ImplementsAppendOnly AlwaysAnswered
CHECK_DEADLOCK FALSE
