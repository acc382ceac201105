\* Three migration commands at once, an old Relay that goes on writing, two deaths.
SPECIFICATION FairMigration
CONSTANTS
  t1 = t1
  t2 = t2
  t3 = t3
  nobody = nobody
  Terminal = {t1, t2, t3}
  Nobody = nobody
  MaxWrites = 3
  MaxCrashes = 2
PROPERTIES
  ImportKeepsOurs
  ImportResumes
CHECK_DEADLOCK FALSE
