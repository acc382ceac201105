\* Two daemons over one run: a matrix, a job that needs all of it, one for its failure.
SPECIFICATION EngineSpec
CONSTANTS
  a1 = a1
  a2 = a2
  a3 = a3
  a4 = a4
  r1 = r1
  r2 = r2
  d1 = d1
  d2 = d2
  op = op
  g1 = g1
  i1 = i1
  i2 = i2
  Attempt = {a1, a2, a3, a4}
  NoAttempt = NoAttempt
  LegacyToken = LegacyToken
  Run = {r1}
  JobId = {"planA", "planB", "build", "report"}
  Group = {g1}
  NoGroup = NoGroup
  GroupOf <- Alone
  MaxResets = 0
  Needs <- MatrixNeeds
  NameOf <- MatrixNames
  Condition <- MatrixIfs
  ContinueOnError = {"planA"}
  JobOrder <- MatrixOrder
  Kind <- AllPlain
  Outcomes = {"succeeded", "failed"}
  Faults = {"throw", "abort"}
  Session = {}
  Item = {i1}
  ItemOf <- OneItem
  TimedRun = {}
  TimedJob = {}
  CancelInProgress = FALSE
  Daemon = {d1, d2}
  Operator = {}
  NoRun = NoRun
  MaxCrashes = 1
CHECK_DEADLOCK FALSE
SYMMETRY Symmetric
INVARIANTS
  OneExecutionPerJob
  FinishedMeansSettled
PROPERTIES
  ClaimFollowsNeeds
  OmittedForGood
  CallSettledByCaller
