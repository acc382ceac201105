\* One relay that dispatches two items at once, beside an operator; it may crash.
SPECIFICATION FairWorkers
CONSTANTS
  i1 = i1
  i2 = i2
  relay = relay
  d1 = d1
  d2 = d2
  op = op
  Item = {i1, i2}
  Trigger = {"build"}
  MaxConcurrent <- OneEach
  Sidecar = {}
  OneWorkerPerItem = TRUE
  Waits = {"build"}
  Reconciles = {"build"}
  Relay = {relay}
  Operator = {op}
  Dispatcher = {d1, d2}
  RelayOf <- Owned
  Faults = {"report", "provision", "launch", "record", "stop", "quit", "resolve", "observe"}
  MaxClaims = 2
  MaxCrashes = 1
CHECK_DEADLOCK FALSE
INVARIANTS
  LimitRespected
  AgentsOnRecord
PROPERTIES
  EndedForGood
  SlotsAreFreed
