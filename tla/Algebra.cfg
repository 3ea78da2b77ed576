SPECIFICATION AllSpec
CONSTANTS
    Ceilings = {"max_amount", "max_cumulative"}
    Undeclared = {}
    Exacts = {"currency"}
    Lists = {"regions"}
    ExactValues = {"USD", "EUR"}
    ListItems = {"eu"}
    Unit <- MCUnit
    Amounts = {1, 2}
    BandBudgets = {0, 1}
    AlgebraContexts <- MCContexts
    BandTime = 3
    MaxBands = 3
    MaxMembers = 3
    MaxNesting = 5
    EntryHashes = {"x", "y"}
    MaxLog = 5
    p1 = p1
    p2 = p2
    Presentations = {p1}
    CatRequests <- WideCats
    CtRequests <- WideCts
    TxnRequests <- WideTxns
    Forgeries <- WideForgeries
    Contexts <- WideContexts
    CTDefaultTTL = 4
    TxnDefaultTTL = 2
    MaxMintDelay = 0
    MaxCaps = 3
    MaxTxns = 1
    MaxChain = 3
    MaxTime = 1
INVARIANTS ForwardedIsBound CardsSafe LogProofsSound NoWidening DepthBounded IssuanceNarrows VerificationNarrows
CHECK_DEADLOCK FALSE
