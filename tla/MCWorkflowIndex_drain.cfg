\* A relay and a dashboard drain the outbox into the index, with a failure or a crash.
SPECIFICATION FairIndex
CONSTANTS
  r1 = r1
  r2 = r2
  relay = relay
  dashboard = dashboard
  Run = {r1}
  Process = {relay, dashboard}
  Dashboard = {dashboard}
  MaxRevision = 3
  MaxFaults = 1
  MaxImports = 1
INVARIANTS
  DeliveredIsIndexed
  EventsTellTheSaves
PROPERTIES
  IndexCatchesUp
