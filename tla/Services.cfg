SPECIFICATION ServicesSpec
CONSTANTS
  Lookups = {"p", "q"}
  Kids = {"k1", "k2"}
  FirstKid = "k1"
  MaxAge = 1
  MinInterval = 2
  FetchTimeout = 1
  MaxTime = 3
  Widths = {2, 4}
  Entries = 3
  ListTTL = 2
  MaxListTime = 3
  MaxSets = 2
  Permitted <- MCPermitted
  ExchangeRequests <- MCRequests
  Second = 2
  Skew = 1
  Hour = 4
  MaxHours = 2
  WorkloadTTL = 3
  maxDelegationDepth = 2
  MaxExchangeTime = 7
  Ceilings = {"max_amount", "max_cumulative"}
  Undeclared = {}
  Exacts = {"currency"}
  Lists = {"regions"}
  ExactValues = {"USD", "EUR"}
  ListItems = {"eu", "us", "zz"}
  Unit <- MCUnit
  Transfers <- MCTransfers
  ExpectedPayment = "p"
  ConfigMembers = {"m"}
  DemoMembers = {"m", "d"}
  Fillers = {"f"}
  Reporting = 1
  AttestationTTL = 2
  ReplayTTL = 1
  MaxTravelTime = 2
  MaxSends = 2
  MaxFaults = 1
  Agents = {"a1", "a2"}
  Merchants <- MCMerchants
  Rails = {"hedera", "near"}
  Ceiling = 2
  GateCurrency = "c"
  TokenTTL = 1
  ProofAge = 2
  StandingTTL = 2
  RecordTTL = 2
  MaxPayTime = 2
  MaxBoots = 1
  MaxRelays = 1
  GateRuns = {"g1", "g2"}
  Orders <- MCOrders
  RunCeiling = 2
  MaxDecisionAge = 1
  MaxFileTime = 2
  MaxAlterations = 2
  Holders = {"h", "k"}
  Thresholds = {1}
  Roots = {"r", "s"}
  Proofs <- MCProofs
  MaxUint = 2
  MaxCalls = 5
CHECK_DEADLOCK FALSE
INVARIANTS KeyCacheSafe StatusListSafe ExchangeSafe TravelRuleSafe PaymentsSafe SettledAsDecided RwaTokenSafe
