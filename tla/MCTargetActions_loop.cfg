\* Two relays over the workers of one job, with three attempts at it.
SPECIFICATION TargetSpec
CONSTANTS
  p1 = p1
  p2 = p2
  w1 = w1
  w2 = w2
  a1 = a1
  a2 = a2
  a3 = a3
  Attempt = {a1, a2, a3}
  NoAttempt = NoAttempt
  LegacyToken = LegacyToken
  Process = {p1, p2}
  Target = {w1, w2}
  Outcomes = {"succeeded", "failed", "retryable", "deferred", "running"}
  MaxSetbacks = 1
  MaxResets = 1
CHECK_DEADLOCK FALSE
SYMMETRY Symmetric
INVARIANTS
  OneCallPerTarget
  UnsettledHasOwner
PROPERTIES
  DoneForGood
  InterruptedStays
  SuccessCoversTargets
