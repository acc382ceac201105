\* A session job nobody closes.
SPECIFICATION FairEngine
CONSTANTS
  a1 = a1
  a2 = a2
  a3 = a3
  a4 = a4
  r1 = r1
  r2 = r2
  d1 = d1
  d2 = d2
  op = op
  g1 = g1
  i1 = i1
  i2 = i2
  Attempt = {a1, a2}
  NoAttempt = NoAttempt
  LegacyToken = LegacyToken
  Run = {r1}
  JobId = {"plan", "build"}
  Group = {g1}
  NoGroup = NoGroup
  GroupOf <- Alone
  MaxResets = 0
  Needs <- SessionNeeds
  NameOf <- Itself
  Condition <- Plain
  ContinueOnError = {}
  JobOrder <- ChainOrder
  Kind <- SessionKinds
  Outcomes = {"succeeded", "failed"}
  Faults = {"throw", "input", "targets", "revision"}
  Session = {"plan"}
  Item = {i1}
  ItemOf <- OneItem
  TimedRun = {}
  TimedJob = {}
  CancelInProgress = FALSE
  Daemon = {d1}
  Operator = {}
  NoRun = NoRun
  MaxCrashes = 1
CHECK_DEADLOCK FALSE
PROPERTIES
  RunsComeToRest
