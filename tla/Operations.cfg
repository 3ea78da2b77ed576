SPECIFICATION OpsSpec
CONSTANTS
  w1 = w1
  w2 = w2
  w3 = w3
  ClientIds = {"a", "b"}
  ServerIds = {"a", "s"}
  PipeCapacity = 2
  MaxLines = 3
  MaxUnsolicited = 1
  Witnesses = {w1, w2, w3}
  Threshold = 2
  Heads <- MCHeads
  MaxForgets = 1
  Stranger = "stranger"
  Runs = {"r1", "r2"}
  SelfIssued = {"r1", "r2"}
  MaxSignals = 1
  MaxKills = 1
  MaxOutside = 1
INVARIANTS AnswersTheirOwnCall NoSplitView DeploymentSafe ConfigSound
PROPERTIES NeverOverwrites EveryCallAnswered
CHECK_DEADLOCK FALSE
