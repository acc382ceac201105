\* Deadlines, cancellations and retries beside a daemon, around one plugin call.
SPECIFICATION EngineSpec
CONSTANTS
  a1 = a1
  a2 = a2
  a3 = a3
  a4 = a4
  r1 = r1
  r2 = r2
  d1 = d1
  d2 = d2
  op = op
  g1 = g1
  i1 = i1
  i2 = i2
  Attempt = {a1, a2}
  NoAttempt = NoAttempt
  LegacyToken = LegacyToken
  Run = {r1}
  JobId = {"build"}
  Group = {g1}
  NoGroup = NoGroup
  GroupOf <- Alone
  MaxResets = 1
  Needs <- SingleNeeds
  NameOf <- Itself
  Condition <- Plain
  ContinueOnError = {}
  JobOrder <- SingleOrder
  Kind <- OperationKind
  Outcomes = {"succeeded", "pending"}
  Faults = {"throw", "cancel", "observer"}
  Session = {}
  Item = {i1}
  ItemOf <- OneItem
  TimedRun = {}
  TimedJob = {"build"}
  CancelInProgress = FALSE
  Daemon = {d1}
  Operator = {op}
  NoRun = NoRun
  MaxCrashes = 1
CHECK_DEADLOCK FALSE
SYMMETRY Symmetric
INVARIANTS
  InterruptedNotRepeated
PROPERTIES
  EngineUsesLedger
