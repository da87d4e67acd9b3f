\* More writes of one entry than it has slots.  No symmetry: a liveness run.
CONSTANTS
  Worker = {w1, w2}
  EntryUuid = {e1}
  GroupUuid = {}
  EntryBlob = {eb}
  GroupBlob = {gb}
  NoBlob = NoBlob
  None = None
  MaxSeq = 4
SPECIFICATION FairSpec
INVARIANTS
  NumbersAreCommitOrder
  SlotsHoldNewest
 
\* Once the database is deleted no request finds it: the store may stop.
CHECK_DEADLOCK FALSE
