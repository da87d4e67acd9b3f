---------------------------- MODULE VersionStore ----------------------------
(***************************************************************************)
(* The server's store for one database: the tables databases, database_seq, *)
(* entries and entry_versions, as EntryController, EntryRestoreController   *)
(* and DatabaseController::destroy use them from concurrent PHP workers.    *)
(*                                                                          *)
(* A worker runs one request at a time.  Every SQL statement is a step of   *)
(* its own, except the last statement of a transaction, which is one step   *)
(* with the COMMIT after it: nothing another worker does can fall between   *)
(* them that the row locks held then do not exclude.  PostgreSQL runs at    *)
(* READ COMMITTED, so a statement sees what was committed when it starts,   *)
(* and what a transaction wrote is kept in job until it commits.            *)
(***************************************************************************)
EXTENDS Naturals, Sequences, FiniteSets

CONSTANTS
  Worker,      \* PHP workers, each with its own database connection
  EntryUuid,   \* uuids the clients use for entries
  GroupUuid,   \* uuids the clients use for groups
  EntryBlob,   \* encrypted entry payloads
  GroupBlob,   \* encrypted group payloads
  NoBlob,      \* the empty blob of a tombstone
  None,        \* an empty version slot; an idle worker's job
  MaxSeq       \* bound: number of writes the model lets through

ASSUME MaxSeqAssumption == MaxSeq \in Nat
VARIABLES
  live,        \* the row of databases exists (committed)
  nextSeq,     \* database_seq.next_seq (committed); 0 once the row is gone
  entries,     \* committed rows of entries
  versions,    \* committed rows of entry_versions by uuid and version_num
  pc,          \* the statement each worker runs next
  job,         \* the write each worker carries, with its uncommitted rows
  read,        \* the GET /changes each worker answers
  log          \* history: every committed version, in commit order

vars == <<live, nextSeq, entries, versions, pc, job, read, log>>

Uuid == EntryUuid \cup GroupUuid
Blob == EntryBlob \cup GroupBlob \cup {NoBlob}
Content == [blob : Blob, deleted : BOOLEAN, kind : {1, 2}]
Version == [uuid : Uuid, content : Content, seq : Nat \ {0}]

ASSUME NoneAssumption == None \notin Version

Slot == 1 .. 3
Job == [uuid : Uuid, content : Content, num : Slot, fresh : BOOLEAN, seq : Nat]
Read == [since : Nat, groups : BOOLEAN, rows : SUBSET Version, base : Nat, current : Nat]

Writing == {"select", "upsert", "number", "insert"}
Reading == {"rows", "current", "answer"}

-----------------------------------------------------------------------------
(* Row locks *)

\* w has updated the database_seq row and not committed: it holds its lock.
Numbered(w) == pc[w] \in Writing /\ job[w].seq # 0

\* w has inserted the entries row of its object and not committed; the foreign
\* key keeps the databases row locked against DELETE as well.
Inserted(w) == pc[w] \in Writing /\ job[w].fresh

\* w is deleting the databases row and, by cascade, the entries below it.
Deleting(w) == pc[w] = "cascade"

\* The statement a runs next waits for the transaction of b to end.
Blocks(b, a) ==
  \/ pc[a] = "upsert" /\ Inserted(b) /\ job[b].uuid = job[a].uuid
  \/ pc[a] = "upsert" /\ Deleting(b)
  \/ pc[a] = "number" /\ Numbered(b)
  \/ pc[a] = "insert" /\ Deleting(b)
  \/ pc[a] = "cascade" /\ Numbered(b)

Unblocked(w) == \A b \in Worker \ {w} : ~Blocks(b, w)

-----------------------------------------------------------------------------
(* Requests arrive.  resolveDatabase has found the caller's membership row,  *)
(* so the database was there; it is not locked and may be gone one statement *)
(* later.                                                                    *)

resolveDatabase(w) == pc[w] = "idle" /\ live

\* Bound: every write in flight still has a number below MaxSeq.
RoomToWrite == nextSeq + Cardinality({w \in Worker : pc[w] \in Writing}) <= MaxSeq

Begin(w, step, u, c, n) ==
  /\ resolveDatabase(w)
  /\ RoomToWrite
  /\ pc' = [pc EXCEPT ![w] = step]
  /\ job' = [job EXCEPT ![w] = [uuid |-> u, content |-> c, num |-> n,
                                fresh |-> FALSE, seq |-> 0]]
  /\ UNCHANGED <<live, nextSeq, entries, versions, read, log>>

\* PUT and DELETE of an entry or a group: insertNewVersion.
put(w, u, b) ==
  Begin(w, "upsert", u, [blob |-> b, deleted |-> FALSE, kind |-> 1], 3)

destroy(w, u) ==
  Begin(w, "upsert", u, [blob |-> NoBlob, deleted |-> TRUE, kind |-> 1], 3)

putGroup(w, u, b) ==
  Begin(w, "upsert", u, [blob |-> b, deleted |-> FALSE, kind |-> 2], 3)

destroyGroup(w, u) ==
  Begin(w, "upsert", u, [blob |-> NoBlob, deleted |-> TRUE, kind |-> 2], 3)

\* POST restore/{num}, by a member or by the administrator: what the new
\* version holds is only known once "select" has run.  The version it writes
\* has the default object_kind, 1, whatever the restored object is.
restore(w, u, n) ==
  Begin(w, "select", u, [blob |-> NoBlob, deleted |-> FALSE, kind |-> 1], n)

-----------------------------------------------------------------------------
(* The write transaction *)

Leave(w) ==
  /\ pc' = [pc EXCEPT ![w] = "idle"]
  /\ job' = [job EXCEPT ![w] = None]
  /\ read' = [read EXCEPT ![w] = None]

\* restore reads the version it copies; 404 when that slot is empty.
SelectVersion(w) ==
  /\ pc[w] = "select"
  /\ LET old == versions[job[w].uuid][job[w].num] IN
     IF old = None
     THEN Leave(w)
     ELSE /\ pc' = [pc EXCEPT ![w] = "upsert"]
          /\ job' = [job EXCEPT ![w].content = [blob |-> old.content.blob,
                                                deleted |-> old.content.deleted,
                                                kind |-> 1]]
          /\ UNCHANGED read
  /\ UNCHANGED <<live, nextSeq, entries, versions, log>>

\* Mutant of UpsertEntry: the entries row is inserted outside the transaction.
UpsertEntryAutocommit(w) ==
  /\ pc[w] = "upsert"
  /\ Unblocked(w)
  /\ IF live
     THEN /\ pc' = [pc EXCEPT ![w] = "number"]
          /\ entries' = entries \cup {job[w].uuid}
          /\ UNCHANGED <<job, read>>
     ELSE Leave(w) /\ UNCHANGED entries
  /\ UNCHANGED <<live, nextSeq, versions, log>>

\* INSERT INTO entries ... ON CONFLICT DO NOTHING.  Without the databases row
\* the foreign key fails and withFkSafety answers 404.
UpsertEntry(w) ==
  /\ pc[w] = "upsert"
  /\ Unblocked(w)
  /\ IF live
     THEN /\ pc' = [pc EXCEPT ![w] = "number"]
          /\ job' = [job EXCEPT ![w].fresh = job[w].uuid \notin entries]
          /\ UNCHANGED read
     ELSE Leave(w)
  /\ UNCHANGED <<live, nextSeq, entries, versions, log>>

\* Mutant of TakeNumber: the counter row is read without locking it.
TakeNumberUnlocked(w) ==
  /\ pc[w] = "number"
  /\ pc' = [pc EXCEPT ![w] = "insert"]
  /\ job' = [job EXCEPT ![w].seq = nextSeq]
  /\ UNCHANGED <<live, nextSeq, entries, versions, read, log>>

\* Mutant of TakeNumber: the number comes from a PostgreSQL sequence, which
\* does not roll back.
TakeNumberFromSequence(w) ==
  /\ pc[w] = "number"
  /\ Unblocked(w)
  /\ pc' = [pc EXCEPT ![w] = "insert"]
  /\ job' = [job EXCEPT ![w].seq = nextSeq]
  /\ nextSeq' = IF live THEN nextSeq + 1 ELSE 0
  /\ UNCHANGED <<live, entries, versions, read, log>>

\* UPDATE database_seq ... RETURNING next_seq - 1.  The row stays locked until
\* the transaction ends.  A missing row updates nothing and the number is 0.
TakeNumber(w) ==
  /\ pc[w] = "number"
  /\ Unblocked(w)
  /\ pc' = [pc EXCEPT ![w] = "insert"]
  /\ job' = [job EXCEPT ![w].seq = nextSeq]
  /\ UNCHANGED <<live, nextSeq, entries, versions, read, log>>

\* Mutant of rotate_entry_versions: the trigger keeps the oldest version and
\* loses the one before the newest.
rotate_keep_oldest(slots, v) ==
  [n \in Slot |-> IF n = 3 THEN v
                  ELSE IF n = 1 /\ slots[1] # None THEN slots[1] ELSE slots[n + 1]]

\* The trigger of migration 005: version 1 goes, 2 and 3 move down, v is 3.
rotate_entry_versions(slots, v) ==
  [n \in Slot |-> IF n = 3 THEN v ELSE slots[n + 1]]

\* Mutant of InsertVersion: entry_versions has no foreign key to entries.
InsertVersionNoForeignKey(w) ==
  /\ pc[w] = "insert"
  /\ Unblocked(w)
  /\ LET u == job[w].uuid
         v == [uuid |-> u, content |-> job[w].content, seq |-> job[w].seq]
     IN /\ entries' = entries \cup {u}
        /\ versions' = [versions EXCEPT ![u] = rotate_entry_versions(@, v)]
        /\ nextSeq' = job[w].seq + 1
        /\ log' = Append(log, v)
  /\ Leave(w)
  /\ UNCHANGED live

\* Mutant of InsertVersion: nothing handles the foreign key violation.
InsertVersionNoFkSafety(w) ==
  /\ pc[w] = "insert"
  /\ Unblocked(w)
  /\ job[w].fresh \/ job[w].uuid \in entries
  /\ LET u == job[w].uuid
         v == [uuid |-> u, content |-> job[w].content, seq |-> job[w].seq]
     IN /\ entries' = entries \cup {u}
        /\ versions' = [versions EXCEPT ![u] = rotate_entry_versions(@, v)]
        /\ nextSeq' = job[w].seq + 1
        /\ log' = Append(log, v)
  /\ Leave(w)
  /\ UNCHANGED live

\* Mutant of InsertVersion: one transaction writes a batch, so the worker goes
\* on to another object before it commits.
InsertVersionBatch(w) ==
  /\ pc[w] = "insert"
  /\ Unblocked(w)
  /\ \E u \in Uuid \ {job[w].uuid} :
       /\ pc' = [pc EXCEPT ![w] = "upsert"]
       /\ job' = [job EXCEPT ![w].uuid = u]
  /\ UNCHANGED <<live, nextSeq, entries, versions, read, log>>

\* INSERT INTO entry_versions and COMMIT.  The foreign key to entries fails
\* when the database was deleted in between.
InsertVersion(w) ==
  /\ pc[w] = "insert"
  /\ Unblocked(w)
  /\ IF job[w].fresh \/ job[w].uuid \in entries
     THEN LET u == job[w].uuid
              v == [uuid |-> u, content |-> job[w].content, seq |-> job[w].seq]
          IN /\ entries' = entries \cup {u}
             /\ versions' = [versions EXCEPT ![u] = rotate_entry_versions(@, v)]
             /\ nextSeq' = job[w].seq + 1
             /\ log' = Append(log, v)
     ELSE UNCHANGED <<entries, versions, nextSeq, log>>
  /\ Leave(w)
  /\ UNCHANGED live

-----------------------------------------------------------------------------
(* GET /changes: two statements outside any transaction. *)

changes(w, since, groups) ==
  /\ resolveDatabase(w)
  /\ since < nextSeq
  /\ pc' = [pc EXCEPT ![w] = "rows"]
  /\ read' = [read EXCEPT ![w] = [since |-> since, groups |-> groups, rows |-> {},
                                  base |-> 0, current |-> 0]]
  /\ UNCHANGED <<live, nextSeq, entries, versions, job, log>>

\* Mutant of Wanted: the row numbered since + 1 is left out.
WantedOffByOne(v, r) == v.seq > r.since + 1 /\ (r.groups \/ v.content.kind = 1)

\* Newest versions above since; without ?include=groups only object_kind 1.
Wanted(v, r) == v.seq > r.since /\ (r.groups \/ v.content.kind = 1)

current_seq == IF live THEN nextSeq - 1 ELSE 0

SelectRows(w) ==
  /\ pc[w] = "rows"
  /\ pc' = [pc EXCEPT ![w] = "current"]
  /\ read' = [read EXCEPT
        ![w].rows = {v \in {versions[u][3] : u \in Uuid} \ {None} : Wanted(v, read[w])},
        ![w].base = current_seq]
  /\ UNCHANGED <<live, nextSeq, entries, versions, job, log>>

SelectCurrentSeq(w) ==
  /\ pc[w] = "current"
  /\ pc' = [pc EXCEPT ![w] = "answer"]
  /\ read' = [read EXCEPT ![w].current = current_seq]
  /\ UNCHANGED <<live, nextSeq, entries, versions, job, log>>

Respond(w) ==
  /\ pc[w] = "answer"
  /\ Leave(w)
  /\ UNCHANGED <<live, nextSeq, entries, versions, log>>

-----------------------------------------------------------------------------
(* DELETE /databases/{id}: one statement whose cascade locks the databases   *)
(* row and the entries first and the database_seq row last.                  *)

destroyDatabase(w) ==
  /\ pc[w] = "idle"
  /\ live
  /\ \A b \in Worker : ~Inserted(b) /\ ~Deleting(b)
  /\ pc' = [pc EXCEPT ![w] = "cascade"]
  /\ UNCHANGED <<live, nextSeq, entries, versions, job, read, log>>

FinishCascade(w) ==
  /\ pc[w] = "cascade"
  /\ Unblocked(w)
  /\ live' = FALSE
  /\ nextSeq' = 0
  /\ entries' = {}
  /\ versions' = [u \in Uuid |-> [n \in Slot |-> None]]
  /\ Leave(w)
  /\ UNCHANGED log

-----------------------------------------------------------------------------
\* The transaction is rolled back: the worker dies, the connection is lost, or
\* PostgreSQL picks it as the victim of a deadlock.
Rollback(w) ==
  /\ pc[w] # "idle"
  /\ Leave(w)
  /\ UNCHANGED <<live, nextSeq, entries, versions, log>>

Init ==
  /\ live = TRUE
  /\ nextSeq = 1
  /\ entries = {}
  /\ versions = [u \in Uuid |-> [n \in Slot |-> None]]
  /\ pc = [w \in Worker |-> "idle"]
  /\ job = [w \in Worker |-> None]
  /\ read = [w \in Worker |-> None]
  /\ log = <<>>

Arrive(w) ==
  \/ \E u \in EntryUuid, b \in EntryBlob : put(w, u, b)
  \/ \E u \in Uuid : destroy(w, u)
  \/ \E u \in GroupUuid, b \in GroupBlob : putGroup(w, u, b)
  \/ \E u \in GroupUuid : destroyGroup(w, u)
  \/ \E u \in Uuid, n \in Slot : restore(w, u, n)
  \/ \E since \in 0 .. MaxSeq, groups \in BOOLEAN : changes(w, since, groups)
  \/ destroyDatabase(w)

Proceed(w) ==
  \/ SelectVersion(w)
  \/ UpsertEntry(w)
  \/ TakeNumber(w)
  \/ InsertVersion(w)
  \/ SelectRows(w)
  \/ SelectCurrentSeq(w)
  \/ Respond(w)
  \/ FinishCascade(w)

Next == \E w \in Worker : Arrive(w) \/ Proceed(w) \/ Rollback(w)

Spec == Init /\ [][Next]_vars

-----------------------------------------------------------------------------
(* Type invariant *)

\* Every variable has its type, and a worker in the middle of a write or a
\* read carries what that request works on.
TypeOK ==
  /\ live \in BOOLEAN
  /\ nextSeq \in Nat
  /\ entries \in SUBSET Uuid
  /\ versions \in [Uuid -> [Slot -> Version \cup {None}]]
  /\ pc \in [Worker -> {"idle", "cascade"} \cup Writing \cup Reading]
  /\ job \in [Worker -> Job \cup {None}]
  /\ read \in [Worker -> Read \cup {None}]
  /\ log \in Seq(Version)
  /\ \A w \in Worker : pc[w] \in Writing => job[w] \in Job
  /\ \A w \in Worker : pc[w] \in Reading => read[w] \in Read

-----------------------------------------------------------------------------
(* Safety *)

\* The numbers of a database are handed out without a gap and in commit order,
\* whatever transactions overlap, roll back or die: the n-th committed version
\* has number n.  A client that has seen number n can therefore never be
\* overtaken by a smaller number that commits later.
NumbersAreCommitOrder ==
  /\ live => nextSeq = Len(log) + 1
  /\ live => \A i \in 1 .. Len(log) : log[i].seq = i

\* The three slots of an object hold its three most recent committed versions,
\* the newest in slot 3 and no slot out of order, although several workers
\* rotate the slots of one object at the same time and some of them roll back.
SlotsHoldNewest ==
  live => \A u \in Uuid :
    /\ \A n \in Slot : versions[u][n] # None =>
         /\ versions[u][n].seq \in 1 .. Len(log)
         /\ versions[u][n] = log[versions[u][n].seq]
         /\ versions[u][n].uuid = u
    /\ \A m, n \in Slot : m < n /\ versions[u][m] # None =>
         versions[u][n] # None /\ versions[u][m].seq < versions[u][n].seq
    /\ \A i \in 1 .. Len(log) : log[i].uuid = u =>
         \/ \E n \in Slot : versions[u][n] # None /\ versions[u][n].seq = i
         \/ versions[u][1] # None /\ i < versions[u][1].seq

\* The rows of a GET /changes that asks for groups are complete up to the
\* number the database had reached when they were read: every write above
\* since is there or superseded by a newer version of its object that is.
\* (current_seq is read by a later statement and may be higher.)
RowsAreComplete ==
  \A w \in Worker : pc[w] \in {"current", "answer"} /\ read[w].groups =>
    \A i \in 1 .. Len(log) : read[w].since < i /\ i <= read[w].base =>
      \E v \in read[w].rows : v.uuid = log[i].uuid /\ v.seq >= i

\* A row of entries exists exactly for the objects that have a version: no
\* transaction leaves one without the other, not even when the database is
\* deleted while the object is written.
EntriesHaveVersions == entries = {u \in Uuid : versions[u][3] # None}

\* Workers that wait for each other in a circle always include one that is
\* deleting the database: writes alone, whatever objects they write, take
\* their row locks in an order that cannot deadlock.
WritersNeverDeadlock ==
  \A S \in SUBSET Worker :
    (S # {} /\ \A a \in S : \E b \in S \ {a} : Blocks(b, a))
      => \E d \in S : Deleting(d)

-----------------------------------------------------------------------------
(* The store implements the atomic one *)

Abs == INSTANCE AtomicStore
         WITH seq <- current_seq,
              latest <- [u \in Uuid |-> versions[u][3]]

\* Seen through slot 3 and current_seq, the transactions, locks, rotations and
\* rollbacks of the store are the indivisible writes of AtomicStore.
ImplementsAtomicStore == Abs!Spec

-----------------------------------------------------------------------------
(* Liveness *)

\* Workers that wait in a circle.
Deadlocked(w) ==
  \E S \in SUBSET Worker : w \in S /\ \A a \in S : \E b \in S \ {a} : Blocks(b, a)

\* A worker runs its next statement once it can: PostgreSQL grants a row lock
\* to its waiters in turn (so strong fairness), and its deadlock detector ends
\* one transaction of every circle.
Fairness ==
  /\ \A w \in Worker : SF_vars(Proceed(w))
  /\ WF_vars(\E w \in Worker : Deadlocked(w) /\ Rollback(w))

FairSpec == Spec /\ Fairness

\* Every request is answered, also when the database disappears under it or
\* it deadlocks with the deletion.
RequestsEnd == \A w \in Worker : pc[w] # "idle" ~> pc[w] = "idle"

==============================================================================
