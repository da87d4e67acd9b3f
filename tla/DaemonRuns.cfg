\* Two databases compete for the mutex; both are polled, one has events too.
\* Fairness; no symmetry with liveness.
CONSTANTS
  Db = {db1, db2}
  NoDb = NoDb
  Watched = {db1}
  MaxCallbacks = 1
SPECIFICATION FairSpec
INVARIANTS
  TypeOK
  KeysOutliveSyncs
PROPERTIES
  ImplementsQueue
  StopsOnSignal
  ChangesAreRead
\* The daemon really stops.
CHECK_DEADLOCK FALSE
