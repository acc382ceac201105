\* A newer run of a group supersedes an older one; both have a deadline.
SPECIFICATION FairEngine
CONSTANTS
  a1 = a1
  a2 = a2
  a3 = a3
  a4 = a4
  r1 = r1
  r2 = r2
  d1 = d1
  d2 = d2
  op = op
  g1 = g1
  i1 = i1
  i2 = i2
  Attempt = {a1, a2}
  NoAttempt = NoAttempt
  LegacyToken = LegacyToken
  Run = {r1, r2}
  JobId = {"build"}
  Group = {g1}
  NoGroup = NoGroup
  GroupOf <- Shared
  MaxResets = 0
  Needs <- SingleNeeds
  NameOf <- Itself
  Condition <- Plain
  ContinueOnError = {}
  JobOrder <- SingleOrder
  Kind <- LaunchKind
  Outcomes = {"succeeded"}
  Faults = {"cancel", "stop", "refuse"}
  Session = {}
  Item = {i1, i2}
  ItemOf <- OwnItem
  TimedRun = {r1, r2}
  TimedJob = {}
  CancelInProgress = TRUE
  Daemon = {d1}
  Operator = {}
  NoRun = NoRun
  MaxCrashes = 1
CHECK_DEADLOCK FALSE
PROPERTIES
  SupersededWorkersStopped
  RunsComeToRest
