SPECIFICATION Spec
CONSTANTS
    Ceilings = {"max_amount", "max_cumulative"}
    Undeclared = {}
    Exacts = {"currency"}
    Lists = {}
    ExactValues = {"USD", "EUR"}
    ListItems = {}
    Unit <- MCUnit
    p1 = p1
    p2 = p2
    Presentations = {p1, p2}
    CatRequests <- BudgetCats
    CtRequests <- BudgetCts
    TxnRequests <- BudgetTxns
    Forgeries <- BudgetForgeries
    Contexts <- BudgetContexts
    CTDefaultTTL = 4
    TxnDefaultTTL = 2
    MaxMintDelay = 1
    MaxCaps = 4
    MaxTxns = 2
    MaxChain = 2
    MaxTime = 1
INVARIANTS BudgetSafe
SYMMETRY PresentationSymmetry
CHECK_DEADLOCK FALSE
