\* One relay after an outage, a crash and a retry: every event and every last change is acted upon.
SPECIFICATION FairTrigger
CONSTANTS
  p1 = p1
  p2 = p2
  s1 = s1
  s2 = s2
  Process = {p1}
  Subject = {s1, s2}
  Policy = {"event", "on-change"}
  Grouping = {"none", "wait", "cancel"}
  MaxPublished = 2
  MaxOccurrence = 2
  MaxFaults = 1
  MaxRetries = 0
PROPERTIES
  EventsStart
  LastChangeStarts
