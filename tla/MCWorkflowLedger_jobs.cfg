\* One run whose jobs are claimed up to three times.
SPECIFICATION Spec
CONSTANTS
  a1 = a1
  a2 = a2
  a3 = a3
  r1 = r1
  g1 = g1
  Attempt = {a1, a2, a3}
  NoAttempt = NoAttempt
  LegacyToken = LegacyToken
  Run = {r1}
  JobId = {build}
  Group = {g1}
  NoGroup = NoGroup
  GroupOf <- Alone
  MaxResets = 2
SYMMETRY AttemptSymmetry
INVARIANTS
  AttentionMatchesTrail
  UncertainNeedsRetry
PROPERTIES
  SettledUntilRetry
  AttentionSticks
  ImplementsOwnership
