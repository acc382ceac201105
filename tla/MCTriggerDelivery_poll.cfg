\* Two relays poll one workflow, whatever its fire policy and group, with outages, a crash and a retry.
SPECIFICATION TriggerSpec
CONSTANTS
  p1 = p1
  p2 = p2
  s1 = s1
  s2 = s2
  Process = {p1, p2}
  Subject = {s1}
  Policy = {"event", "once-per-match", "on-change", "every-poll"}
  Grouping = {"none", "wait", "cancel"}
  MaxPublished = 2
  MaxOccurrence = 2
  MaxFaults = 1
  MaxRetries = 1
SYMMETRY Relays
INVARIANTS
  CursorCoversInbox
  AcknowledgedHasRun
  StartedOnce
  EveryPollAlone
  GroupSharedOnlyByRetry
