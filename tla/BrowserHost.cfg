\* One database, one routine of the user beside that of an announcement, one
\* save and two faults.
SPECIFICATION FairSpec
CONSTANTS
  Database = {d1}
  MaxClicks = 1
  MaxSaves = 2
  Stored = {"none", "right"}
  MaxFaults = 2
INVARIANTS TypeOK LockSticks
PROPERTIES Fresh RoutinesEnd
CHECK_DEADLOCK FALSE
