\* Two workers write, restore, read and delete an entry and a group.
CONSTANTS
  Worker = {w1, w2}
  EntryUuid = {e1}
  GroupUuid = {g1}
  EntryBlob = {eb}
  GroupBlob = {gb}
  NoBlob = NoBlob
  None = None
  MaxSeq = 3
SPECIFICATION Spec
SYMMETRY Symmetry
INVARIANTS
  TypeOK
  RowsAreComplete
  EntriesHaveVersions
  WritersNeverDeadlock
PROPERTY ImplementsAtomicStore
\* Once the database is deleted no request finds it: the store may stop.
CHECK_DEADLOCK FALSE
