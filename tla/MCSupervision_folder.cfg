\* Two dashboards and a daemon over one folder, two requests of a dashboard at a time.
SPECIFICATION FairSupervision
CONSTANTS
  d1 = d1
  d2 = d2
  w1 = w1
  w2 = w2
  nobody = nobody
  Dashboard = {d1, d2}
  Watcher = {w1}
  Nobody = nobody
  MaxRequests = 2
  MaxFaults = 2
INVARIANTS
  OneSupervisor
  StoppedIsOver
PROPERTIES
  PollingGoesOn
