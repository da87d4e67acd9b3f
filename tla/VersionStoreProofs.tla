------------------------- MODULE VersionStoreProofs -------------------------
(***************************************************************************)
(* Theorems about VersionStore, for any number of workers, objects, blobs    *)
(* and writes.                                                              *)
(***************************************************************************)
EXTENDS VersionStore, TLAPS

\* What the row locks and the cascade keep true of the transactions in flight
\* and of the rows they will touch.
LockInv ==
  /\ live => nextSeq >= 1
  /\ ~live => nextSeq = 0 /\ entries = {}
  /\ \A w \in Worker : pc[w] = "insert" /\ live => job[w].seq = nextSeq
  /\ \A w \in Worker : pc[w] = "insert" /\ ~live => job[w].seq = 0
  /\ \A a, b \in Worker : Numbered(a) /\ Numbered(b) => a = b
  /\ \A a \in Worker : Inserted(a) => live /\ job[a].uuid \notin entries
  /\ \A a, b \in Worker : Inserted(a) /\ Inserted(b) /\ job[a].uuid = job[b].uuid => a = b
  /\ \A a, b \in Worker : Inserted(a) => ~Deleting(b)
  /\ \A a, b \in Worker : Deleting(a) /\ Deleting(b) => a = b
  /\ \A a \in Worker : Deleting(a) => live
  /\ \A a \in Worker : pc[a] \in {"number", "insert"} /\ ~job[a].fresh /\ live
                         => job[a].uuid \in entries
  /\ \A a \in Worker : pc[a] \in {"select", "upsert"} => ~job[a].fresh
  /\ \A a \in Worker : pc[a] \in {"select", "upsert", "number"} => job[a].seq = 0

USE DEF Slot, Writing, Reading

-----------------------------------------------------------------------------
\* What a worker leaves behind when its request ends.
LEMMA LeaveType ==
  ASSUME TypeOK, NEW w \in Worker, Leave(w)
  PROVE  /\ pc' \in [Worker -> {"idle", "cascade"} \cup Writing \cup Reading]
         /\ job' \in [Worker -> Job \cup {None}]
         /\ read' \in [Worker -> Read \cup {None}]
         /\ pc'[w] = "idle"
         /\ \A x \in Worker \ {w} : pc'[x] = pc[x] /\ job'[x] = job[x] /\ read'[x] = read[x]
  BY DEF TypeOK, Leave

\* The rotated slots hold versions again.
LEMMA RotateType ==
  ASSUME NEW slots \in [Slot -> Version \cup {None}], NEW v \in Version
  PROVE  /\ rotate_entry_versions(slots, v) \in [Slot -> Version \cup {None}]
         /\ rotate_entry_versions(slots, v)[3] = v
         /\ rotate_entry_versions(slots, v)[2] = slots[3]
         /\ rotate_entry_versions(slots, v)[1] = slots[2]
  BY DEF rotate_entry_versions

\* The initial state is typed.
LEMMA InitType == Init => TypeOK
  BY DEF Init, TypeOK, Uuid

\* A new write of any kind has a well-typed job.
LEMMA BeginType ==
  ASSUME TypeOK, NEW w \in Worker, NEW step \in {"select", "upsert"},
         NEW u \in Uuid, NEW c \in Content, NEW n \in Slot, Begin(w, step, u, c, n)
  PROVE  TypeOK'
  <1>1. [uuid |-> u, content |-> c, num |-> n, fresh |-> FALSE, seq |-> 0] \in Job
    BY DEF Job
  <1>2. QED
    BY <1>1 DEF TypeOK, Begin, resolveDatabase

\* A request that arrives is typed.
LEMMA ArriveType ==
  ASSUME TypeOK, NEW w \in Worker, Arrive(w)
  PROVE  TypeOK'
  <1>1. \A b \in Blob, d \in BOOLEAN, k \in {1, 2} :
          [blob |-> b, deleted |-> d, kind |-> k] \in Content
    BY DEF Content
  <1>2. EntryBlob \subseteq Blob /\ GroupBlob \subseteq Blob /\ NoBlob \in Blob
        /\ EntryUuid \subseteq Uuid /\ GroupUuid \subseteq Uuid
    BY DEF Blob, Uuid
  <1>3. CASE \E u \in EntryUuid, b \in EntryBlob : put(w, u, b)
    <2>1. PICK u \in EntryUuid, b \in EntryBlob : put(w, u, b)
      BY <1>3
    <2>2. Begin(w, "upsert", u, [blob |-> b, deleted |-> FALSE, kind |-> 1], 3)
      BY <2>1 DEF put
    <2>3. [blob |-> b, deleted |-> FALSE, kind |-> 1] \in Content
      BY <1>1, <1>2
    <2>4. QED
      BY <1>2, <2>2, <2>3, BeginType
  <1>4. CASE \E u \in Uuid : destroy(w, u)
    <2>1. PICK u \in Uuid : destroy(w, u)
      BY <1>4
    <2>2. Begin(w, "upsert", u, [blob |-> NoBlob, deleted |-> TRUE, kind |-> 1], 3)
      BY <2>1 DEF destroy
    <2>3. [blob |-> NoBlob, deleted |-> TRUE, kind |-> 1] \in Content
      BY <1>1, <1>2
    <2>4. QED
      BY <1>2, <2>2, <2>3, BeginType
  <1>5. CASE \E u \in GroupUuid, b \in GroupBlob : putGroup(w, u, b)
    <2>1. PICK u \in GroupUuid, b \in GroupBlob : putGroup(w, u, b)
      BY <1>5
    <2>2. Begin(w, "upsert", u, [blob |-> b, deleted |-> FALSE, kind |-> 2], 3)
      BY <2>1 DEF putGroup
    <2>3. [blob |-> b, deleted |-> FALSE, kind |-> 2] \in Content
      BY <1>1, <1>2
    <2>4. QED
      BY <1>2, <2>2, <2>3, BeginType
  <1>6. CASE \E u \in GroupUuid : destroyGroup(w, u)
    <2>1. PICK u \in GroupUuid : destroyGroup(w, u)
      BY <1>6
    <2>2. Begin(w, "upsert", u, [blob |-> NoBlob, deleted |-> TRUE, kind |-> 2], 3)
      BY <2>1 DEF destroyGroup
    <2>3. [blob |-> NoBlob, deleted |-> TRUE, kind |-> 2] \in Content
      BY <1>1, <1>2
    <2>4. QED
      BY <1>2, <2>2, <2>3, BeginType
  <1>7. CASE \E u \in Uuid, n \in Slot : restore(w, u, n)
    <2>1. PICK u \in Uuid, n \in Slot : restore(w, u, n)
      BY <1>7
    <2>2. Begin(w, "select", u, [blob |-> NoBlob, deleted |-> FALSE, kind |-> 1], n)
      BY <2>1 DEF restore
    <2>3. [blob |-> NoBlob, deleted |-> FALSE, kind |-> 1] \in Content
      BY <1>1, <1>2
    <2>4. QED
      BY <1>2, <2>2, <2>3, BeginType
  <1>8. CASE \E since \in 0 .. MaxSeq, groups \in BOOLEAN : changes(w, since, groups)
    <2>1. PICK since \in 0 .. MaxSeq, groups \in BOOLEAN : changes(w, since, groups)
      BY <1>8
    <2>2. [since |-> since, groups |-> groups, rows |-> {}, base |-> 0, current |-> 0] \in Read
      BY MaxSeqAssumption DEF Read
    <2>3. QED
      BY <2>1, <2>2 DEF TypeOK, changes, resolveDatabase
  <1>9. CASE destroyDatabase(w)
    BY <1>9 DEF TypeOK, destroyDatabase
  <1>10. QED
    BY <1>3, <1>4, <1>5, <1>6, <1>7, <1>8, <1>9 DEF Arrive

\* The steps of a request keep the types.
LEMMA ProceedType ==
  ASSUME TypeOK, LockInv, NEW w \in Worker, Proceed(w)
  PROVE  TypeOK'
  <1>1. CASE SelectVersion(w)
    <2>1. job[w] \in Job /\ job[w].uuid \in Uuid /\ job[w].num \in Slot /\ job[w].content \in Content
      BY <1>1 DEF TypeOK, SelectVersion, Job
    <2>2. CASE versions[job[w].uuid][job[w].num] = None
      BY <1>1, <2>2, LeaveType DEF SelectVersion, TypeOK
    <2>3. CASE versions[job[w].uuid][job[w].num] # None
      <3> DEFINE old == versions[job[w].uuid][job[w].num]
      <3>1. old \in Version
        BY <2>1, <2>3 DEF TypeOK
      <3>2. old.content.blob \in Blob /\ old.content.deleted \in BOOLEAN
        BY <3>1 DEF Version, Content
      <3> DEFINE c == [blob |-> old.content.blob, deleted |-> old.content.deleted, kind |-> 1]
      <3>3. c \in Content
        BY <3>2 DEF Content
      <3>4. job' = [job EXCEPT ![w].content = c] /\ UNCHANGED read
        BY <1>1, <2>3 DEF SelectVersion
      <3> HIDE DEF c
      <3>5. QED
        BY <1>1, <2>1, <2>3, <3>3, <3>4 DEF SelectVersion, TypeOK, Job
    <2>4. QED
      BY <2>2, <2>3
  <1>2. CASE UpsertEntry(w)
    <2>1. CASE live
      <3> DEFINE f == job[w].uuid \notin entries
      <3>1. f \in BOOLEAN
        OBVIOUS
      <3>2. /\ pc' = [pc EXCEPT ![w] = "number"]
            /\ job' = [job EXCEPT ![w].fresh = f]
            /\ UNCHANGED <<read, live, nextSeq, entries, versions, log>>
            /\ job[w] \in Job
        BY <1>2, <2>1 DEF UpsertEntry, TypeOK
      <3> HIDE DEF f
      <3>3. QED
        BY <3>1, <3>2 DEF TypeOK, Job
    <2>2. CASE ~live
      BY <1>2, <2>2, LeaveType DEF UpsertEntry, TypeOK
    <2>3. QED
      BY <2>1, <2>2
  <1>3. CASE TakeNumber(w)
    BY <1>3 DEF TakeNumber, TypeOK, Job
  <1>4. CASE InsertVersion(w)
    <2>1. job[w] \in Job
      BY <1>4 DEF TypeOK, InsertVersion
    <2>2. CASE job[w].fresh \/ job[w].uuid \in entries
      <3>1. live
        BY <1>4, <2>2 DEF LockInv, Inserted, InsertVersion
      <3>2. job[w].seq \in Nat \ {0}
        BY <1>4, <3>1, <2>1 DEF LockInv, InsertVersion, TypeOK
      <3> DEFINE v == [uuid |-> job[w].uuid, content |-> job[w].content, seq |-> job[w].seq]
      <3>3. v \in Version /\ job[w].uuid \in Uuid
        BY <2>1, <3>2 DEF Version, Job
      <3>4. rotate_entry_versions(versions[job[w].uuid], v) \in [Slot -> Version \cup {None}]
        BY <3>3, RotateType DEF TypeOK
      <3>5. versions' = [versions EXCEPT ![job[w].uuid] =
                           rotate_entry_versions(versions[job[w].uuid], v)]
        BY <1>4, <2>2 DEF InsertVersion
      <3>6. versions' \in [Uuid -> [Slot -> Version \cup {None}]]
        BY <3>3, <3>4, <3>5 DEF TypeOK
      <3>7. log' \in Seq(Version) /\ nextSeq' \in Nat /\ entries' \in SUBSET Uuid
        <4>1. nextSeq' = job[w].seq + 1 /\ log' = Append(log, v)
              /\ entries' = entries \cup {job[w].uuid}
          BY <1>4, <2>2 DEF InsertVersion
        <4>2. log \in Seq(Version) /\ entries \in SUBSET Uuid
          BY DEF TypeOK
        <4> HIDE DEF v
        <4>3. QED
          BY <3>2, <3>3, <4>1, <4>2
      <3>8. QED
        BY <1>4, <3>6, <3>7, LeaveType DEF InsertVersion, TypeOK
    <2>3. CASE ~(job[w].fresh \/ job[w].uuid \in entries)
      BY <1>4, <2>3, LeaveType DEF InsertVersion, TypeOK
    <2>4. QED
      BY <2>2, <2>3
  <1>5. CASE SelectRows(w)
    <2>1. read[w] \in Read
      BY <1>5 DEF TypeOK, SelectRows
    <2>2. {v \in {versions[u][3] : u \in Uuid} \ {None} : Wanted(v, read[w])} \subseteq Version
      BY DEF TypeOK
    <2>3. current_seq \in Nat
      BY DEF TypeOK, LockInv, current_seq
    <2>4. QED
      BY <1>5, <2>1, <2>2, <2>3 DEF SelectRows, TypeOK, Read
  <1>6. CASE SelectCurrentSeq(w)
    <2>1. current_seq \in Nat
      BY DEF TypeOK, LockInv, current_seq
    <2>2. QED
      BY <1>6, <2>1 DEF SelectCurrentSeq, TypeOK, Read
  <1>7. CASE Respond(w)
    BY <1>7, LeaveType DEF Respond, TypeOK
  <1>8. CASE FinishCascade(w)
    BY <1>8, LeaveType DEF FinishCascade, TypeOK
  <1>9. QED
    BY <1>1, <1>2, <1>3, <1>4, <1>5, <1>6, <1>7, <1>8 DEF Proceed

-----------------------------------------------------------------------------
\* No transaction is in flight at the start.
LEMMA InitLock == Init => LockInv
  BY DEF Init, LockInv, Numbered, Inserted, Deleting

\* A request that arrives holds no lock yet; a deletion only starts while no
\* transaction has inserted an entries row.
LEMMA ArriveLock ==
  ASSUME TypeOK, LockInv, NEW w \in Worker, Arrive(w)
  PROVE  LockInv'
  <1>1. CASE destroyDatabase(w)
    BY <1>1 DEF destroyDatabase, LockInv, TypeOK, Numbered, Inserted, Deleting
  <1>2. CASE ~destroyDatabase(w)
    <2>1. /\ UNCHANGED <<live, nextSeq, entries>>
          /\ \A x \in Worker \ {w} : pc'[x] = pc[x] /\ job'[x] = job[x]
          /\ pc'[w] \in {"upsert", "select", "rows"}
      BY <1>2 DEF Arrive, put, destroy, putGroup, destroyGroup, restore, changes, Begin, TypeOK
    <2>2. pc'[w] # "rows" => ~job'[w].fresh /\ job'[w].seq = 0
      BY <1>2 DEF Arrive, put, destroy, putGroup, destroyGroup, restore, changes, Begin, TypeOK
    <2>3. ~Numbered(w)' /\ ~Inserted(w)' /\ ~Deleting(w)'
      BY <2>1, <2>2 DEF Numbered, Inserted, Deleting
    <2>4. \A x \in Worker \ {w} : /\ Numbered(x)' = Numbered(x)
                                 /\ Inserted(x)' = Inserted(x)
                                 /\ Deleting(x)' = Deleting(x)
      BY <2>1 DEF Numbered, Inserted, Deleting
    <2>5. QED
      BY <2>1, <2>2, <2>3, <2>4 DEF LockInv
  <1>3. QED
    BY <1>1, <1>2

\* A worker that ends its request without committing anything, or that reads,
\* only gives locks up.
LEMMA QuietLock ==
  ASSUME TypeOK, LockInv, NEW w \in Worker,
         UNCHANGED <<live, nextSeq, entries>>,
         \A x \in Worker \ {w} : pc'[x] = pc[x] /\ job'[x] = job[x],
         pc'[w] \in {"idle", "upsert", "current", "answer"},
         pc'[w] = "upsert" => ~job'[w].fresh /\ job'[w].seq = 0
  PROVE  LockInv'
  <1>1. ~Numbered(w)' /\ ~Inserted(w)' /\ ~Deleting(w)'
    BY DEF Numbered, Inserted, Deleting
  <1>2. \A x \in Worker \ {w} : /\ Numbered(x)' = Numbered(x)
                               /\ Inserted(x)' = Inserted(x)
                               /\ Deleting(x)' = Deleting(x)
    BY DEF Numbered, Inserted, Deleting
  <1>3. QED
    BY <1>1, <1>2 DEF LockInv

\* A rolled back transaction gives its locks back.
LEMMA RollbackLock ==
  ASSUME TypeOK, LockInv, NEW w \in Worker, Rollback(w)
  PROVE  LockInv'
  BY LeaveType, QuietLock DEF Rollback

\* Each statement takes only locks nobody holds.
LEMMA ProceedLock ==
  ASSUME TypeOK, LockInv, NEW w \in Worker, Proceed(w)
  PROVE  LockInv'
  <1>1. CASE SelectVersion(w)
    <2>1. /\ UNCHANGED <<live, nextSeq, entries>>
          /\ \A x \in Worker \ {w} : pc'[x] = pc[x] /\ job'[x] = job[x]
          /\ pc'[w] \in {"idle", "upsert"}
      BY <1>1, LeaveType DEF SelectVersion, TypeOK
    <2>2. pc'[w] = "upsert" => ~job'[w].fresh /\ job'[w].seq = 0
      <3>1. job[w] \in Job /\ ~job[w].fresh /\ job[w].seq = 0
        BY <1>1 DEF SelectVersion, LockInv, TypeOK
      <3>2. QED
        BY <1>1, <3>1, LeaveType DEF SelectVersion, TypeOK, Job
    <2>3. QED
      BY <2>1, <2>2, QuietLock
  <1>2. CASE UpsertEntry(w)
    <2>1. CASE live
      <3>1. /\ \A x \in Worker \ {w} : pc'[x] = pc[x] /\ job'[x] = job[x]
            /\ pc'[w] = "number" /\ pc[w] = "upsert"
            /\ job'[w].uuid = job[w].uuid
            /\ job'[w].fresh <=> job[w].uuid \notin entries
            /\ job'[w].seq = 0
            /\ UNCHANGED <<live, nextSeq, entries>>
        <4> DEFINE f == job[w].uuid \notin entries
        <4>1. /\ pc' = [pc EXCEPT ![w] = "number"] /\ pc[w] = "upsert"
              /\ job' = [job EXCEPT ![w].fresh = f]
              /\ UNCHANGED <<live, nextSeq, entries>>
              /\ job[w].seq = 0
          BY <1>2, <2>1 DEF UpsertEntry, LockInv
        <4> HIDE DEF f
        <4>2. /\ \A x \in Worker \ {w} : pc'[x] = pc[x] /\ job'[x] = job[x]
              /\ pc'[w] = "number" /\ job'[w].uuid = job[w].uuid /\ job'[w].fresh = f
              /\ job'[w].seq = 0
          BY <4>1 DEF TypeOK, Job
        <4>3. QED
          BY <4>1, <4>2 DEF f
      <3>2. \A b \in Worker \ {w} : ~Deleting(b) /\ ~(Inserted(b) /\ job[b].uuid = job[w].uuid)
        BY <1>2 DEF UpsertEntry, Unblocked, Blocks
      <3>3. \A x \in Worker \ {w} : /\ Numbered(x)' = Numbered(x)
                                   /\ Inserted(x)' = Inserted(x)
                                   /\ Deleting(x)' = Deleting(x)
        BY <3>1 DEF Numbered, Inserted, Deleting
      <3>4. ~Numbered(w)' /\ ~Deleting(w)' /\ (Inserted(w)' => job[w].uuid \notin entries)
        BY <3>1 DEF Numbered, Inserted, Deleting
      <3>5. /\ \A a, b \in Worker : Numbered(a)' /\ Numbered(b)' => a = b
            /\ \A a \in Worker : Inserted(a)' => live' /\ job'[a].uuid \notin entries'
            /\ \A a, b \in Worker : Inserted(a)' => ~Deleting(b)'
            /\ \A a, b \in Worker : Deleting(a)' /\ Deleting(b)' => a = b
            /\ \A a \in Worker : Deleting(a)' => live'
        BY <2>1, <3>1, <3>2, <3>3, <3>4 DEF LockInv
      <3>6. \A a, b \in Worker :
              Inserted(a)' /\ Inserted(b)' /\ job'[a].uuid = job'[b].uuid => a = b
        BY <3>1, <3>2, <3>3, <3>4 DEF LockInv
      <3>7. \A a \in Worker : pc'[a] \in {"number", "insert"} /\ ~job'[a].fresh /\ live'
                              => job'[a].uuid \in entries'
        BY <3>1 DEF LockInv
      <3>8. /\ live => nextSeq >= 1
            /\ ~live => nextSeq = 0 /\ entries = {}
            /\ \A a \in Worker : pc[a] = "insert" /\ live => job[a].seq = nextSeq
            /\ \A a \in Worker : pc[a] = "insert" /\ ~live => job[a].seq = 0
            /\ \A a \in Worker : pc[a] \in {"select", "upsert"} => ~job[a].fresh
            /\ \A a \in Worker : pc[a] \in {"select", "upsert", "number"} => job[a].seq = 0
        BY DEF LockInv
      <3>9. QED
        BY <2>1, <3>1, <3>5, <3>6, <3>7, <3>8 DEF LockInv
    <2>2. CASE ~live
      BY <1>2, <2>2, LeaveType, QuietLock DEF UpsertEntry
    <2>3. QED
      BY <2>1, <2>2
  <1>3. CASE TakeNumber(w)
    <2>1. /\ \A x \in Worker \ {w} : pc'[x] = pc[x] /\ job'[x] = job[x]
          /\ pc'[w] = "insert" /\ pc[w] = "number"
          /\ job'[w].uuid = job[w].uuid /\ job'[w].fresh = job[w].fresh
          /\ job'[w].seq = nextSeq
          /\ UNCHANGED <<live, nextSeq, entries>>
      BY <1>3 DEF TakeNumber, TypeOK, Job
    <2>2. \A b \in Worker \ {w} : ~Numbered(b)
      BY <1>3 DEF TakeNumber, Unblocked, Blocks
    <2>3. QED
      BY <2>1, <2>2 DEF LockInv, Numbered, Inserted, Deleting
  <1>4. CASE InsertVersion(w)
    <2>1. CASE job[w].fresh \/ job[w].uuid \in entries
      <3>1. /\ \A x \in Worker \ {w} : pc'[x] = pc[x] /\ job'[x] = job[x]
            /\ pc'[w] = "idle" /\ pc[w] = "insert" /\ job[w] \in Job
            /\ nextSeq' = job[w].seq + 1 /\ entries' = entries \cup {job[w].uuid}
            /\ live' = live
        BY <1>4, <2>1, LeaveType DEF InsertVersion, TypeOK
      <3>2. live /\ job[w].seq = nextSeq /\ nextSeq \in Nat /\ Numbered(w)
        BY <2>1, <3>1 DEF LockInv, Inserted, Numbered, TypeOK
      <3>3. \A x \in Worker \ {w} : ~Numbered(x)
        BY <3>2 DEF LockInv
      <3>4. \A x \in Worker \ {w} : pc[x] # "insert"
        BY <3>2, <3>3 DEF LockInv, Numbered
      <3>5. \A x \in Worker \ {w} : Inserted(x) => job[x].uuid # job[w].uuid
        BY <2>1, <3>1 DEF LockInv, Inserted
      <3>6. QED
        BY <3>1, <3>2, <3>3, <3>4, <3>5 DEF LockInv, Numbered, Inserted, Deleting
    <2>2. CASE ~(job[w].fresh \/ job[w].uuid \in entries)
      BY <1>4, <2>2, LeaveType, QuietLock DEF InsertVersion
    <2>3. QED
      BY <2>1, <2>2
  <1>5. CASE SelectRows(w)
    BY <1>5, QuietLock DEF SelectRows, TypeOK
  <1>6. CASE SelectCurrentSeq(w)
    BY <1>6, QuietLock DEF SelectCurrentSeq, TypeOK
  <1>7. CASE Respond(w)
    BY <1>7, LeaveType, QuietLock DEF Respond
  <1>8. CASE FinishCascade(w)
    <2>1. /\ \A x \in Worker \ {w} : pc'[x] = pc[x] /\ job'[x] = job[x]
          /\ pc'[w] = "idle" /\ Deleting(w)
          /\ live' = FALSE /\ nextSeq' = 0 /\ entries' = {}
      BY <1>8, LeaveType DEF FinishCascade, Deleting
    <2>2. \A x \in Worker \ {w} : ~Numbered(x) /\ ~Inserted(x) /\ ~Deleting(x)
      BY <1>8, <2>1 DEF FinishCascade, Unblocked, Blocks, LockInv, Deleting
    <2>3. QED
      BY <2>1, <2>2 DEF LockInv, Numbered, Inserted, Deleting
  <1>9. QED
    BY <1>1, <1>2, <1>3, <1>4, <1>5, <1>6, <1>7, <1>8 DEF Proceed

\* No step breaks the types or the lock discipline.
LEMMA StepTypeLock ==
  ASSUME TypeOK, LockInv, [Next]_vars
  PROVE  TypeOK' /\ LockInv'
  <1>1. CASE UNCHANGED vars
    BY <1>1 DEF vars, TypeOK, LockInv, Numbered, Inserted, Deleting
  <1>2. ASSUME NEW w \in Worker, Arrive(w)
        PROVE  TypeOK' /\ LockInv'
    BY <1>2, ArriveType, ArriveLock
  <1>3. ASSUME NEW w \in Worker, Proceed(w)
        PROVE  TypeOK' /\ LockInv'
    BY <1>3, ProceedType, ProceedLock
  <1>4. ASSUME NEW w \in Worker, Rollback(w)
        PROVE  TypeOK' /\ LockInv'
    BY <1>4, RollbackLock, LeaveType DEF Rollback, TypeOK
  <1>5. QED
    BY <1>1, <1>2, <1>3, <1>4 DEF Next

\* Every reachable state is well typed and respects the lock discipline.
THEOREM TypeCorrect == Spec => [](TypeOK /\ LockInv)
  <1>1. Init => TypeOK /\ LockInv
    BY InitType, InitLock
  <1>2. TypeOK /\ LockInv /\ [Next]_vars => (TypeOK /\ LockInv)'
    BY StepTypeLock
  <1>3. QED
    BY <1>1, <1>2, PTL DEF Spec

-----------------------------------------------------------------------------
(* What the committed rows say about the history of writes, and that the     *)
(* store implements AtomicStore.  Every step is one of three kinds for the   *)
(* committed rows (StepKinds): it leaves them alone, empties them, or        *)
(* commits one version.                                                      *)

NoRows == [u \in Uuid |-> [n \in Slot |-> None]]

\* v is committed with the next number.
Committed(v) ==
  /\ live /\ live' = live
  /\ v.seq = nextSeq /\ nextSeq' = nextSeq + 1
  /\ entries' = entries \cup {v.uuid}
  /\ versions' = [versions EXCEPT ![v.uuid] = rotate_entry_versions(@, v)]
  /\ log' = Append(log, v)

\* The database goes, and every row with it.
Dropped ==
  /\ live /\ live' = FALSE
  /\ nextSeq' = 0
  /\ entries' = {}
  /\ versions' = NoRows
  /\ UNCHANGED log

Quiet == UNCHANGED <<live, nextSeq, entries, versions, log>>

\* The version a worker inserts gets the number the counter row shows.
LEMMA InsertKind ==
  ASSUME TypeOK, LockInv, NEW w \in Worker, InsertVersion(w)
  PROVE  Quiet \/ \E v \in Version : Committed(v)
  <1>1. job[w] \in Job /\ pc[w] = "insert"
    BY DEF TypeOK, InsertVersion
  <1>2. CASE job[w].fresh \/ job[w].uuid \in entries
    <2>6. live
      BY <1>1, <1>2 DEF LockInv, Inserted
    <2>1. live /\ job[w].seq = nextSeq /\ nextSeq \in Nat \ {0}
      BY <1>1, <2>6 DEF LockInv, TypeOK
    <2> DEFINE v == [uuid |-> job[w].uuid, content |-> job[w].content, seq |-> job[w].seq]
    <2>2. v \in Version
      BY <1>1, <2>1 DEF Version, Job
    <2>3. /\ v.uuid = job[w].uuid /\ v.seq = nextSeq
          /\ entries' = entries \cup {job[w].uuid}
          /\ versions' = [versions EXCEPT ![job[w].uuid] = rotate_entry_versions(@, v)]
          /\ nextSeq' = job[w].seq + 1
          /\ log' = Append(log, v)
          /\ live' = live
      BY <1>2, <2>1 DEF InsertVersion
    <2> HIDE DEF v
    <2>4. Committed(v)
      BY <2>1, <2>3 DEF Committed
    <2>5. QED
      BY <2>2, <2>4
  <1>3. CASE ~(job[w].fresh \/ job[w].uuid \in entries)
    BY <1>3 DEF InsertVersion, Quiet
  <1>4. QED
    BY <1>2, <1>3

\* A finished cascade empties the committed rows.
LEMMA CascadeKind ==
  ASSUME TypeOK, LockInv, NEW w \in Worker, FinishCascade(w)
  PROVE  Dropped
  BY DEF FinishCascade, LockInv, Deleting, Dropped, NoRows

\* The steps of a request are of the three kinds.
LEMMA ProceedKinds ==
  ASSUME TypeOK, LockInv, NEW w \in Worker, Proceed(w)
  PROVE  Quiet \/ Dropped \/ \E v \in Version : Committed(v)
  <1>1. CASE SelectVersion(w)
    BY <1>1 DEF SelectVersion, Quiet
  <1>2. CASE UpsertEntry(w)
    BY <1>2 DEF UpsertEntry, Quiet
  <1>3. CASE TakeNumber(w)
    BY <1>3 DEF TakeNumber, Quiet
  <1>4. CASE SelectRows(w)
    BY <1>4 DEF SelectRows, Quiet
  <1>5. CASE SelectCurrentSeq(w)
    BY <1>5 DEF SelectCurrentSeq, Quiet
  <1>6. CASE Respond(w)
    BY <1>6 DEF Respond, Quiet
  <1>7. QED
    BY <1>1, <1>2, <1>3, <1>4, <1>5, <1>6, InsertKind, CascadeKind DEF Proceed

\* A request that arrives leaves the committed rows alone.
LEMMA ArriveKinds ==
  ASSUME NEW w \in Worker, Arrive(w)
  PROVE  Quiet
  BY DEF Arrive, put, destroy, putGroup, destroyGroup, restore, Begin, changes,
         destroyDatabase, Quiet

\* Every step leaves the committed rows alone, empties them or commits one
\* version.
LEMMA StepKinds ==
  ASSUME TypeOK, LockInv, [Next]_vars
  PROVE  Quiet \/ Dropped \/ \E v \in Version : Committed(v)
  <1>1. CASE UNCHANGED vars
    BY <1>1 DEF vars, Quiet
  <1>2. ASSUME NEW w \in Worker, Arrive(w)
        PROVE  Quiet
    BY <1>2, ArriveKinds
  <1>3. ASSUME NEW w \in Worker, Rollback(w)
        PROVE  Quiet
    BY <1>3 DEF Rollback, Quiet
  <1>4. QED
    BY <1>1, <1>2, <1>3, ProceedKinds DEF Next

-----------------------------------------------------------------------------
\* An empty database has number 1 to give.
LEMMA NumbersInit == Init => NumbersAreCommitOrder
  BY DEF Init, NumbersAreCommitOrder

\* A commit appends the version with the next number.
LEMMA NumbersStep ==
  ASSUME TypeOK, LockInv, NumbersAreCommitOrder, [Next]_vars
  PROVE  NumbersAreCommitOrder'
  <1>1. CASE Quiet
    BY <1>1 DEF Quiet, NumbersAreCommitOrder
  <1>2. CASE Dropped
    BY <1>2 DEF Dropped, NumbersAreCommitOrder
  <1>3. ASSUME NEW v \in Version, Committed(v)
        PROVE  NumbersAreCommitOrder'
    <2>1. log \in Seq(Version) /\ log' = Append(log, v) /\ v.seq = Len(log) + 1
      BY <1>3 DEF TypeOK, Committed, NumbersAreCommitOrder
    <2>2. Len(log') = Len(log) + 1 /\ log'[Len(log) + 1] = v
          /\ \A i \in 1 .. Len(log) : log'[i] = log[i]
      BY <2>1
    <2>3. QED
      BY <1>3, <2>1, <2>2 DEF Committed, NumbersAreCommitOrder
  <1>4. QED
    BY <1>1, <1>2, <1>3, StepKinds

\* The numbers a client sees leave no gap and are in commit order.
THEOREM NumbersInCommitOrder == Spec => []NumbersAreCommitOrder
  <1>1. TypeOK /\ LockInv /\ NumbersAreCommitOrder /\ [Next]_vars => NumbersAreCommitOrder'
    BY NumbersStep
  <1>2. QED
    BY <1>1, NumbersInit, TypeCorrect, PTL DEF Spec

-----------------------------------------------------------------------------
\* Neither table has a row at the start.
LEMMA EntriesInit == Init => EntriesHaveVersions
  BY DEF Init, EntriesHaveVersions

\* A commit adds a row to both tables, a cascade empties both.
LEMMA EntriesStep ==
  ASSUME TypeOK, LockInv, EntriesHaveVersions, [Next]_vars
  PROVE  EntriesHaveVersions'
  <1>1. CASE Quiet
    BY <1>1 DEF Quiet, EntriesHaveVersions
  <1>2. CASE Dropped
    BY <1>2 DEF Dropped, NoRows, EntriesHaveVersions
  <1>3. ASSUME NEW v \in Version, Committed(v)
        PROVE  EntriesHaveVersions'
    <2>1. v.uuid \in Uuid /\ v # None
      BY NoneAssumption DEF Version
    <2>2. versions' = [versions EXCEPT ![v.uuid] = rotate_entry_versions(versions[v.uuid], v)]
      BY <1>3 DEF Committed
    <2>3. versions[v.uuid] \in [Slot -> Version \cup {None}]
      BY <2>1 DEF TypeOK
    <2>4. rotate_entry_versions(versions[v.uuid], v)[3] = v
      BY <2>3, RotateType
    <2>5. versions'[v.uuid][3] = v /\ \A u \in Uuid \ {v.uuid} : versions'[u] = versions[u]
      BY <2>1, <2>2, <2>4 DEF TypeOK
    <2>6. entries' = {u \in Uuid : versions'[u][3] # None}
      <3>1. \A u \in Uuid \ {v.uuid} : versions'[u][3] = versions[u][3]
        BY <2>5
      <3>2. entries' = entries \cup {v.uuid}
        BY <1>3 DEF Committed
      <3>3. entries = {u \in Uuid : versions[u][3] # None}
        BY DEF EntriesHaveVersions
      <3>4. versions'[v.uuid][3] # None
        BY <2>1, <2>5
      <3>5. QED
        BY <2>1, <3>1, <3>2, <3>3, <3>4
    <2>7. QED
      BY <2>6 DEF EntriesHaveVersions
  <1>4. QED
    BY <1>1, <1>2, <1>3, StepKinds

\* No transaction leaves an entries row without versions or the reverse.
THEOREM EntriesMatchVersions == Spec => []EntriesHaveVersions
  <1>1. TypeOK /\ LockInv /\ EntriesHaveVersions /\ [Next]_vars => EntriesHaveVersions'
    BY EntriesStep
  <1>2. QED
    BY <1>1, EntriesInit, TypeCorrect, PTL DEF Spec

-----------------------------------------------------------------------------
\* A worker that writes waits only for a deletion, or for a worker that holds
\* a lock later in the order entries row, counter row, version row; the last
\* of these waits for a deletion only.
THEOREM NoDeadlockOfWriters == Spec => []WritersNeverDeadlock
  <1>1. LockInv => WritersNeverDeadlock
    <2>1. SUFFICES ASSUME LockInv, NEW S \in SUBSET Worker, S # {},
                          \A a \in S : \E b \in S \ {a} : Blocks(b, a),
                          \A d \in S : ~Deleting(d)
                   PROVE  FALSE
      BY DEF WritersNeverDeadlock
    <2>2. \A a \in S : pc[a] \in {"upsert", "number"}
      BY <2>1 DEF Blocks, Deleting
    <2>3. \A b \in S : ~Numbered(b)
      BY <2>1, <2>2 DEF LockInv, Numbered
    <2>4. \A a \in S : pc[a] = "upsert"
      BY <2>1, <2>2, <2>3 DEF Blocks
    <2>5. \A b \in S : ~Inserted(b)
      BY <2>1, <2>4 DEF LockInv, Inserted
    <2>6. QED
      BY <2>1, <2>4, <2>5 DEF Blocks
  <1>2. QED
    BY <1>1, TypeCorrect, PTL

-----------------------------------------------------------------------------
\* SlotsHoldNewest for one object u.
SlotsOf(u) ==
  /\ \A n \in Slot : versions[u][n] # None =>
       /\ versions[u][n].seq \in 1 .. Len(log)
       /\ versions[u][n] = log[versions[u][n].seq]
       /\ versions[u][n].uuid = u
  /\ \A m, n \in Slot : m < n /\ versions[u][m] # None =>
       versions[u][n] # None /\ versions[u][m].seq < versions[u][n].seq
  /\ \A i \in 1 .. Len(log) : log[i].uuid = u =>
       \/ \E n \in Slot : versions[u][n] # None /\ versions[u][n].seq = i
       \/ versions[u][1] # None /\ i < versions[u][1].seq

\* SlotsHoldNewest, one object at a time.
LEMMA SlotsUnfold == SlotsHoldNewest <=> (live => \A u \in Uuid : SlotsOf(u))
  BY DEF SlotsHoldNewest, SlotsOf

\* Empty slots hold the newest of no versions.
LEMMA SlotsInit == Init => SlotsHoldNewest
  BY DEF Init, SlotsHoldNewest

\* A commit shifts the slots of its object and leaves the others alone.
LEMMA SlotsStep ==
  ASSUME TypeOK, LockInv, NumbersAreCommitOrder, SlotsHoldNewest, [Next]_vars
  PROVE  SlotsHoldNewest'
  <1>1. CASE Quiet
    BY <1>1 DEF Quiet, SlotsHoldNewest
  <1>2. CASE Dropped
    BY <1>2 DEF Dropped, SlotsHoldNewest
  <1>3. ASSUME NEW v \in Version, Committed(v)
        PROVE  SlotsHoldNewest'
    <2> DEFINE L == Len(log)
    <2>1. /\ L \in Nat /\ Len(log') = L + 1 /\ log'[L + 1] = v
          /\ \A i \in 1 .. L : log'[i] = log[i]
          /\ v.seq = L + 1 /\ v.uuid \in Uuid /\ v # None
      <3>1. log \in Seq(Version) /\ log' = Append(log, v) /\ v.seq = Len(log) + 1
        BY <1>3 DEF TypeOK, Committed, NumbersAreCommitOrder
      <3>2. v.uuid \in Uuid /\ v # None
        BY NoneAssumption DEF Version
      <3>3. QED
        BY <3>1, <3>2
    <2>2. \A u \in Uuid : SlotsOf(u)
      BY <1>3, SlotsUnfold DEF Committed
    <2>3. /\ \A u \in Uuid \ {v.uuid} : versions'[u] = versions[u]
          /\ versions'[v.uuid][3] = v
          /\ versions'[v.uuid][2] = versions[v.uuid][3]
          /\ versions'[v.uuid][1] = versions[v.uuid][2]
      <3>1. versions[v.uuid] \in [Slot -> Version \cup {None}]
        BY <2>1 DEF TypeOK
      <3>2. versions' = [versions EXCEPT ![v.uuid] = rotate_entry_versions(versions[v.uuid], v)]
        BY <1>3 DEF Committed
      <3>3. QED
        BY <2>1, <3>1, <3>2, RotateType DEF TypeOK
    <2> HIDE DEF L
    <2>4. ASSUME NEW u \in Uuid, u # v.uuid
          PROVE  SlotsOf(u)'
      <3> DEFINE s == versions[u]
      <3>1. versions'[u] = s
        BY <2>3, <2>4
      <3>2. /\ \A n \in Slot : s[n] # None =>
                 s[n].seq \in 1 .. L /\ s[n] = log[s[n].seq] /\ s[n].uuid = u
            /\ \A m, n \in Slot : m < n /\ s[m] # None => s[n] # None /\ s[m].seq < s[n].seq
            /\ \A i \in 1 .. L : log[i].uuid = u =>
                 \/ \E n \in Slot : s[n] # None /\ s[n].seq = i
                 \/ s[1] # None /\ i < s[1].seq
        BY <2>1, <2>2 DEF SlotsOf, L
      <3> HIDE DEF s
      <3>3. \A n \in Slot : s[n] # None =>
              s[n].seq \in 1 .. (L + 1) /\ s[n] = log'[s[n].seq] /\ s[n].uuid = u
        BY <2>1, <3>2
      <3>4. \A i \in 1 .. (L + 1) : log'[i].uuid = u =>
              \/ \E n \in Slot : s[n] # None /\ s[n].seq = i
              \/ s[1] # None /\ i < s[1].seq
        <4>1. \A i \in 1 .. (L + 1) : log'[i].uuid = u => i \in 1 .. L /\ log[i].uuid = u
          BY <2>1, <2>4
        <4> QED BY <3>2, <4>1
      <3>5. QED
        BY <2>1, <3>1, <3>2, <3>3, <3>4 DEF SlotsOf
    <2>5. SlotsOf(v.uuid)'
      <3> DEFINE u == v.uuid
      <3> DEFINE s == versions[u]
      <3> DEFINE t == versions'[u]
      <3>1. /\ \A n \in Slot : s[n] # None =>
                 s[n].seq \in 1 .. L /\ s[n] = log[s[n].seq] /\ s[n].uuid = u
            /\ \A m, n \in Slot : m < n /\ s[m] # None => s[n] # None /\ s[m].seq < s[n].seq
            /\ \A i \in 1 .. L : log[i].uuid = u =>
                 \/ \E n \in Slot : s[n] # None /\ s[n].seq = i
                 \/ s[1] # None /\ i < s[1].seq
        BY <2>1, <2>2 DEF SlotsOf, L
      <3>2. t[3] = v /\ t[2] = s[3] /\ t[1] = s[2]
        BY <2>3
      <3> HIDE DEF s, t, u
      <3>3. v.uuid = u
        BY DEF u
      <3>4. \A n \in Slot : t[n] # None =>
              t[n].seq \in 1 .. (L + 1) /\ t[n] = log'[t[n].seq] /\ t[n].uuid = u
        <4>1. t[3].seq = L + 1 /\ t[3] = log'[L + 1] /\ t[3].uuid = u
          BY <2>1, <3>2, <3>3
        <4>2. \A n \in {1, 2} : t[n] = s[n + 1]
          BY <3>2
        <4>3. ASSUME NEW n \in {2, 3}, s[n] # None
              PROVE  s[n].seq \in 1 .. (L + 1) /\ s[n] = log'[s[n].seq] /\ s[n].uuid = u
          BY <2>1, <3>1, <4>3
        <4>4. QED
          BY <2>1, <3>2, <4>1, <4>3
      <3>5. \A m, n \in Slot : m < n /\ t[m] # None => t[n] # None /\ t[m].seq < t[n].seq
        <4>1. s[2] # None => s[3] # None /\ s[2].seq < s[3].seq /\ s[2].seq \in 1 .. L
          BY <3>1
        <4>2. s[3] # None => s[3].seq \in 1 .. L
          BY <3>1
        <4>3. t[1] # None => t[2] # None /\ t[1].seq < t[2].seq
          BY <3>2, <4>1
        <4>4. t[1] # None => t[3] # None /\ t[1].seq < t[3].seq
          BY <2>1, <3>2, <4>1
        <4>5. t[2] # None => t[3] # None /\ t[2].seq < t[3].seq
          BY <2>1, <3>2, <4>2
        <4>6. QED
          BY <4>3, <4>4, <4>5
      <3>6. ASSUME NEW i \in 1 .. (L + 1), log'[i].uuid = u
            PROVE  \/ \E n \in Slot : t[n] # None /\ t[n].seq = i
                   \/ t[1] # None /\ i < t[1].seq
        <4>1. CASE i = L + 1
          BY <2>1, <3>2, <4>1
        <4>2. CASE i \in 1 .. L
          <5>1. log[i].uuid = u
            BY <2>1, <3>6, <4>2
          <5>2. CASE s[3] # None /\ s[3].seq = i
            BY <3>2, <5>2
          <5>3. CASE s[2] # None /\ s[2].seq = i
            BY <3>2, <5>3
          <5>4. CASE s[1] # None /\ i <= s[1].seq
            <6>1. s[2] # None /\ s[1].seq < s[2].seq /\ s[1].seq \in 1 .. L /\ s[2].seq \in 1 .. L
              BY <3>1, <5>4
            <6>2. i < s[2].seq
              BY <2>1, <4>2, <5>4, <6>1
            <6>3. QED
              BY <3>2, <6>1, <6>2
          <5>5. \/ \E n \in Slot : s[n] # None /\ s[n].seq = i
                \/ s[1] # None /\ i < s[1].seq
            BY <3>1, <4>2, <5>1
          <5>6. s[1] # None => s[1].seq \in Nat
            BY <2>1, <3>1
          <5>7. QED
            BY <2>1, <4>2, <5>2, <5>3, <5>4, <5>5, <5>6
        <4>3. QED
          BY <2>1, <4>1, <4>2
      <3>7. QED
        BY <2>1, <3>3, <3>4, <3>5, <3>6 DEF SlotsOf, t
    <2>6. \A u \in Uuid : SlotsOf(u)'
      BY <2>4, <2>5
    <2>7. QED
      BY <2>6 DEF SlotsHoldNewest, SlotsOf
  <1>4. QED
    BY <1>1, <1>2, <1>3, StepKinds

\* The three slots of an object are its three newest versions, in order.
THEOREM SlotsAreNewest == Spec => []SlotsHoldNewest
  <1>1. TypeOK /\ LockInv /\ NumbersAreCommitOrder /\ SlotsHoldNewest /\ [Next]_vars
          => SlotsHoldNewest'
    BY SlotsStep
  <1>2. QED
    BY <1>1, SlotsInit, TypeCorrect, NumbersInCommitOrder, PTL DEF Spec

-----------------------------------------------------------------------------
\* The rows an answer carries were complete when they were read, and no later
\* step changes the part of the history they cover.
RowsInv ==
  \A w \in Worker : pc[w] \in {"current", "answer"} =>
    /\ read[w].base <= Len(log)
    /\ read[w].groups =>
         \A i \in 1 .. Len(log) : read[w].since < i /\ i <= read[w].base =>
           \E v \in read[w].rows : v.uuid = log[i].uuid /\ v.seq >= i

\* x still holds the rows it read before.
Keeps(x) ==
  /\ pc[x] \in {"current", "answer"}
  /\ read'[x].base = read[x].base /\ read'[x].since = read[x].since
  /\ read'[x].groups = read[x].groups /\ read'[x].rows = read[x].rows

\* A worker that holds rows after a step held them before it, or has just read them.
LEMMA ReadKinds ==
  ASSUME TypeOK, LockInv, [Next]_vars, NEW x \in Worker, pc'[x] \in {"current", "answer"}
  PROVE  Keeps(x) \/ SelectRows(x)
  <1>1. CASE UNCHANGED vars
    BY <1>1 DEF vars, Keeps
  <1>2. ASSUME NEW w \in Worker, Arrive(w)
        PROVE  Keeps(x)
    BY <1>2 DEF Arrive, put, destroy, putGroup, destroyGroup, restore, Begin, changes,
                destroyDatabase, Keeps, TypeOK
  <1>3. ASSUME NEW w \in Worker, Leave(w)
        PROVE  Keeps(x)
    BY <1>3, LeaveType DEF Keeps
  <1>4. ASSUME NEW w \in Worker, Proceed(w)
        PROVE  Keeps(x) \/ SelectRows(x)
    <2>1. CASE SelectVersion(w)
      BY <1>3, <2>1 DEF SelectVersion, Keeps, TypeOK
    <2>2. CASE UpsertEntry(w)
      BY <1>3, <2>2 DEF UpsertEntry, Keeps, TypeOK
    <2>3. CASE TakeNumber(w)
      BY <2>3 DEF TakeNumber, Keeps, TypeOK
    <2>4. CASE InsertVersion(w)
      BY <1>3, <2>4 DEF InsertVersion
    <2>5. CASE SelectRows(w)
      BY <2>5 DEF SelectRows, Keeps, TypeOK
    <2>6. CASE SelectCurrentSeq(w)
      <3>1. read[w] \in Read
        BY <2>6 DEF SelectCurrentSeq, TypeOK
      <3>2. QED
        BY <2>6, <3>1 DEF SelectCurrentSeq, Keeps, TypeOK, Read
    <2>7. CASE Respond(w)
      BY <1>3, <2>7 DEF Respond
    <2>8. CASE FinishCascade(w)
      BY <1>3, <2>8 DEF FinishCascade
    <2>9. QED
      BY <1>4, <2>1, <2>2, <2>3, <2>4, <2>5, <2>6, <2>7, <2>8 DEF Proceed
  <1>5. QED
    BY <1>1, <1>2, <1>3, <1>4 DEF Next, Rollback

\* The history only grows.
LEMMA LogGrows ==
  ASSUME TypeOK, LockInv, [Next]_vars
  PROVE  /\ Len(log) \in Nat /\ Len(log') \in Nat /\ Len(log) <= Len(log')
         /\ \A i \in 1 .. Len(log) : log'[i] = log[i]
  <1>1. log \in Seq(Version)
    BY DEF TypeOK
  <1>2. log' = log \/ \E v \in Version : log' = Append(log, v)
    BY StepKinds DEF Quiet, Dropped, Committed
  <1>3. QED
    BY <1>1, <1>2

\* The rows selected reach up to the number of the database.
LEMMA RowsSelected ==
  ASSUME TypeOK, LockInv, NumbersAreCommitOrder, SlotsHoldNewest,
         NEW w \in Worker, SelectRows(w)
  PROVE  /\ read'[w].base <= Len(log)
         /\ read'[w].groups =>
              \A i \in 1 .. Len(log) : read'[w].since < i /\ i <= read'[w].base =>
                \E v \in read'[w].rows : v.uuid = log[i].uuid /\ v.seq >= i
  <1>1. log \in Seq(Version) /\ Len(log) \in Nat /\ read[w] \in Read
    BY DEF TypeOK, SelectRows
  <1> DEFINE R == {v \in {versions[u][3] : u \in Uuid} \ {None} : Wanted(v, read[w])}
  <1>2. read' = [read EXCEPT ![w].rows = R, ![w].base = current_seq]
    BY DEF SelectRows
  <1> HIDE DEF R
  <1>3. /\ read'[w].rows = R /\ read'[w].base = current_seq
        /\ read'[w].since = read[w].since /\ read'[w].groups = read[w].groups
    BY <1>1, <1>2 DEF TypeOK, Read
  <1>4. CASE ~live
    BY <1>1, <1>3, <1>4 DEF current_seq
  <1>5. CASE live
    <2>1. current_seq = Len(log)
      BY <1>1, <1>5 DEF current_seq, NumbersAreCommitOrder
    <2>2. ASSUME NEW i \in 1 .. Len(log), read[w].groups, read[w].since < i
          PROVE  \E v \in R : v.uuid = log[i].uuid /\ v.seq >= i
      <3> DEFINE u == log[i].uuid
      <3>1. u \in Uuid
        <4>1. log[i] \in Version
          BY <1>1
        <4>2. QED
          BY <4>1 DEF Version
      <3>2. SlotsOf(u)
        BY <1>5, <3>1, SlotsUnfold
      <3> HIDE DEF u
      <3>3. /\ \A n \in Slot : versions[u][n] # None =>
                 versions[u][n].seq \in 1 .. Len(log) /\ versions[u][n].uuid = u
            /\ \A m, n \in Slot : m < n /\ versions[u][m] # None =>
                 versions[u][n] # None /\ versions[u][m].seq < versions[u][n].seq
            /\ \/ \E n \in Slot : versions[u][n] # None /\ versions[u][n].seq = i
               \/ versions[u][1] # None /\ i < versions[u][1].seq
        BY <3>2 DEF SlotsOf, u
      <3>4. /\ versions[u][3] # None /\ versions[u][3].seq >= i
            /\ versions[u][3].seq \in Nat /\ versions[u][3].uuid = u
        <4>1. ASSUME NEW n \in Slot, versions[u][n] # None, versions[u][n].seq >= i
              PROVE  versions[u][3] # None /\ versions[u][3].seq >= i
          <5>1. n = 3 \/ n < 3
            OBVIOUS
          <5>2. versions[u][n].seq \in Nat
            BY <1>1, <3>3, <4>1
          <5>3. CASE n < 3
            <6>1. versions[u][3] # None /\ versions[u][n].seq < versions[u][3].seq
              BY <3>3, <4>1, <5>3
            <6>2. versions[u][3].seq \in Nat
              BY <1>1, <3>3, <6>1
            <6>3. QED
              BY <4>1, <5>2, <6>1, <6>2
          <5>4. QED
            BY <4>1, <5>1, <5>3
        <4>2. \E n \in Slot : versions[u][n] # None /\ versions[u][n].seq >= i
          BY <1>1, <3>3
        <4>3. QED
          BY <1>1, <3>3, <4>1, <4>2
      <3>5. Wanted(versions[u][3], read[w])
        <4>1. read[w].since \in Nat
          BY <1>1 DEF Read
        <4>2. versions[u][3].seq > read[w].since
          BY <2>2, <3>4, <4>1
        <4>3. QED
          BY <2>2, <4>2 DEF Wanted
      <3>6. versions[u][3] \in R
        BY <3>1, <3>4, <3>5 DEF R, u
      <3>7. QED
        BY <3>4, <3>6 DEF u
    <2>3. QED
      BY <1>1, <1>3, <2>1, <2>2
  <1>6. QED
    BY <1>4, <1>5

\* Rows that were complete when they were read stay so.
LEMMA RowsStep ==
  ASSUME TypeOK, LockInv, NumbersAreCommitOrder, SlotsHoldNewest, RowsInv, [Next]_vars
  PROVE  RowsInv'
  <1>1. SUFFICES ASSUME NEW x \in Worker, pc'[x] \in {"current", "answer"}
                 PROVE  /\ read'[x].base <= Len(log')
                        /\ read'[x].groups =>
                             \A i \in 1 .. Len(log') :
                               read'[x].since < i /\ i <= read'[x].base =>
                                 \E v \in read'[x].rows : v.uuid = log'[i].uuid /\ v.seq >= i
    BY DEF RowsInv
  <1>2. CASE Keeps(x)
    <2>1. read[x] \in Read
      BY <1>2 DEF Keeps, TypeOK
    <2>2. /\ read[x].base <= Len(log) /\ read[x].base \in Nat
          /\ read[x].groups =>
               \A i \in 1 .. Len(log) : read[x].since < i /\ i <= read[x].base =>
                 \E v \in read[x].rows : v.uuid = log[i].uuid /\ v.seq >= i
      BY <1>2, <2>1 DEF RowsInv, Keeps, Read
    <2>3. read'[x].base <= Len(log')
      BY <1>2, <2>2, LogGrows DEF Keeps
    <2>4. ASSUME NEW i \in 1 .. Len(log'), read'[x].groups,
                 read'[x].since < i, i <= read'[x].base
          PROVE  \E v \in read'[x].rows : v.uuid = log'[i].uuid /\ v.seq >= i
      <3>1. i \in 1 .. Len(log) /\ log'[i] = log[i]
        BY <1>2, <2>2, <2>4, LogGrows DEF Keeps
      <3>2. QED
        BY <1>2, <2>2, <2>4, <3>1 DEF Keeps
    <2>5. QED
      BY <2>3, <2>4
  <1>3. CASE SelectRows(x)
    <2>1. log' = log
      BY <1>3 DEF SelectRows
    <2>2. QED
      BY <1>3, <2>1, RowsSelected
  <1>4. QED
    BY <1>2, <1>3, ReadKinds, <1>1

\* The rows of an answer are complete up to the number they were read at.
THEOREM AnswersAreComplete == Spec => []RowsAreComplete
  <1>1. Init => RowsInv
    BY DEF Init, RowsInv
  <1>2. TypeOK /\ LockInv /\ NumbersAreCommitOrder /\ SlotsHoldNewest /\ RowsInv /\ [Next]_vars
          => RowsInv'
    BY RowsStep
  <1>3. RowsInv => RowsAreComplete
    BY DEF RowsInv, RowsAreComplete
  <1>4. QED
    BY <1>1, <1>2, <1>3, TypeCorrect, NumbersInCommitOrder, SlotsAreNewest, PTL DEF Spec

-----------------------------------------------------------------------------
\* The initial states correspond.
LEMMA RefineInit == Init => Abs!Init
  BY DEF Init, Abs!Init, current_seq

\* A commit is a Write, a cascade a Drop, and any other step a stutter.
LEMMA RefineStep ==
  ASSUME TypeOK, LockInv, [Next]_vars
  PROVE  [Abs!Next]_(Abs!vars)
  <1>1. CASE Quiet
    BY <1>1 DEF Quiet, Abs!vars, current_seq
  <1>2. CASE Dropped
    BY <1>2 DEF Dropped, NoRows, Abs!Next, Abs!Drop, current_seq
  <1>3. ASSUME NEW v \in Version, Committed(v)
        PROVE  Abs!Next
    <2>1. /\ v.uuid \in Uuid /\ v.content \in Content /\ nextSeq \in Nat \ {0}
          /\ v = [uuid |-> v.uuid, content |-> v.content, seq |-> nextSeq]
      BY <1>3 DEF Version, Committed, LockInv, TypeOK
    <2>2. live /\ live' /\ current_seq' = current_seq + 1 /\ current_seq + 1 = nextSeq
      BY <1>3, <2>1 DEF Committed, current_seq
    <2>3. [u \in Uuid |-> versions[u][3]]' = [[u \in Uuid |-> versions[u][3]] EXCEPT ![v.uuid] = v]
      <3>1. versions' = [versions EXCEPT ![v.uuid] = rotate_entry_versions(versions[v.uuid], v)]
        BY <1>3 DEF Committed
      <3>2. versions \in [Uuid -> [Slot -> Version \cup {None}]]
        BY DEF TypeOK
      <3>3. rotate_entry_versions(versions[v.uuid], v)[3] = v
        BY <2>1, <3>2, RotateType
      <3>4. versions'[v.uuid][3] = v /\ \A u \in Uuid \ {v.uuid} : versions'[u] = versions[u]
        BY <2>1, <3>1, <3>2, <3>3
      <3>5. QED
        BY <2>1, <3>4
    <2>4. Abs!Write(v.uuid, v.content)
      BY <1>3, <2>1, <2>2, <2>3 DEF Abs!Write, Committed
    <2>5. QED
      BY <2>1, <2>4 DEF Abs!Next
  <1>4. QED
    BY <1>1, <1>2, <1>3, StepKinds

\* The transactions, locks, slots and rollbacks of the store implement the
\* indivisible writes of AtomicStore.
THEOREM StoreImplementsAtomicStore == Spec => ImplementsAtomicStore
  <1>1. TypeOK /\ LockInv /\ [Next]_vars => [Abs!Next]_(Abs!vars)
    BY RefineStep
  <1>2. QED
    BY <1>1, RefineInit, TypeCorrect, PTL DEF Spec, ImplementsAtomicStore, Abs!Spec

=============================================================================
