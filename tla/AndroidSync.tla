----------------------------- MODULE AndroidSync -----------------------------
(***************************************************************************)
(* Synchronisation on a telephone.                                           *)
(*                                                                          *)
(* The periodic worker and the app on the screen each run the same program    *)
(* (Synchronizer, SyncEngine) on one .kdbx file, which a password manager     *)
(* edits meanwhile.  A run decodes the file, pulls and pushes on the decoded  *)
(* copy and writes that copy back over the file if it pulled anything; a      *)
(* probe skips the run when neither file nor server seem to have changed.     *)
(* Objects are those of KdbxFile, groups at the top level; the server is      *)
(* AtomicStore, and what other devices do is what they write to it.           *)
(***************************************************************************)
EXTENDS KdbxFile, FiniteSets

CONSTANTS
  Thread,              \* runs that may be under way at the same time
  Group, Entry,
  Root,                \* the root group
  home,                \* the group each entry is in to begin with
  Saves,               \* what the user does on the telephone
  Writes,              \* what other devices write
  MaxClock,            \* bound: times of the changes, by the user and by others
  MaxFaults            \* bound: requests that fail, processes that die

ASSUME FolderAssumption == Folder = Group \cup {Root} /\ Root \notin Group
ASSUME ObjectAssumption == Group \cap Entry = {} /\ home \in [Entry -> Group]
ASSUME FiniteAssumption == IsFiniteSet(Group \cup Entry)
ASSUME ChoiceAssumption ==
  /\ Saves \subseteq {"edit", "move", "trash", "restore", "purge"}
  /\ Writes \subseteq {"edit", "move", "delete"}

VARIABLES
  seq, latest,   \* server: newest number, newest version of each object
  clock,         \* time of the newest change
  faults,
  file, broken,  \* the .kdbx file; it was truncated and never written
  persisted,     \* DataStore: lastSeq and syncedAt
  unchanged,     \* its time and size are those SyncProbeStore remembers
  run,           \* local variables of each run
  settled,       \* history: newest time of each object that the server got or the user
                 \* trashed it at
  edited,        \* history: the newest edit the user made between runs
  missed,        \* history: objects saved while a run was under way
  apart          \* history: objects that may stay apart, see InStep

vars == <<seq, latest, clock, faults, file, broken, persisted,
          unchanged, run, settled, edited, missed, apart>>
server == <<seq, latest, clock, settled>>
phone == <<file, broken, persisted, unchanged>>
history == <<edited, missed, apart>>

Uuid == Group \cup Entry

Store == INSTANCE AtomicStore WITH live <- TRUE

Persisted == [lastSeq : Nat, syncedAt : [Uuid -> Nat]]
Step == {"idle", "load", "pull", "push", "write", "writing", "save", "stamp"}
Runs == [at : Step, db : [Uuid -> Object], state : [Uuid -> Object], sync : Persisted,
         due : SUBSET (Uuid \X BOOLEAN), pulled : BOOLEAN]

Idle == [at |-> "idle", db |-> [o \in Uuid |-> [entry |-> None, dead |-> 0]],
         state |-> [o \in Uuid |-> [entry |-> None, dead |-> 0]],
         sync |-> [lastSeq |-> 0, syncedAt |-> [o \in Uuid |-> 0]],
         due |-> {}, pulled |-> FALSE]

Present(f, o) == f[o].entry # None

\* Whether an object is in the bin, itself or with its group.
InBin(f, o) ==
  /\ Present(f, o)
  /\ LET p == f[o].entry.place
     IN p = Bin \/ (p \in Group /\ Present(f, p) /\ f[p].entry.place = Bin)

Running == {t \in Thread : run[t].at # "idle"}

-----------------------------------------------------------------------------
(* The decoded file *)

\* LocalState: entries in the bin are tombstones, trashed groups nothing, and
\* deleted objects count unless an entry of that name is live.
read(f) ==
  [o \in Uuid |->
     LET alive == Present(f, o) /\ ~InBin(f, o)
     IN [entry |-> IF alive THEN f[o].entry ELSE None,
         dead |-> IF o \in Entry /\ alive THEN 0
                  ELSE IF o \in Group \/ f[o].dead # 0 THEN f[o].dead
                  ELSE IF Present(f, o) THEN f[o].entry.loc ELSE 0]]

\* What is pushed of a state: a group or an entry modified, an object deleted, after
\* the time recorded for it.
Due(state, syncedAt) ==
  {<<o, FALSE>> : o \in {p \in Uuid : state[p].entry # None /\ syncedAt[p] < state[p].entry.mod}}
  \cup {<<o, TRUE>> : o \in {p \in Uuid : state[p].dead # 0 /\ syncedAt[p] < state[p].dead}}

\* Groups of the file that the state deletes, with all that is in them.
Erased(db, state) == {g \in Group : state[g].dead # 0 /\ Present(db, g)}

\* Mutant of resolveParent: the group of an entry is taken to be there.
anyParent(db, state, p) == p

\* An unknown group is the root.
resolveParent(db, state, p) ==
  IF p \in Group /\ (Present(db, p) \/ state[p].entry # None) THEN p ELSE Root

\* Entries that are gone with such a group: kotpass finds nothing to update, and no
\* group to add them to.
Swept(db, state) ==
  {e \in Entry :
     \/ Present(db, e) /\ db[e].entry.place \in Erased(db, state)
     \/ /\ state[e].entry # None
        /\ resolveParent(db, state, state[e].entry.place) \in Erased(db, state)}

\* Groups are updated or added where they are missing, and so are entries, in
\* their group; what was erased does not come back.
Placed(db, state, o) ==
  LET was == db[o].entry
      now == state[o].entry
      erased == Erased(db, state)
  IN IF o \in erased THEN None
     ELSE IF o \in Group THEN (IF now # None THEN now ELSE was)
     ELSE IF now = None \/ o \in Swept(db, state) THEN None
     ELSE [now EXCEPT !.place = resolveParent(db, state, now.place)]

\* Mutant of applyToDatabase: what kotpass touches keeps the time of the writing.
applyWithoutTimes(db, state) ==
  [o \in Uuid |->
     LET e == Placed(db, state, o)
     IN [entry |-> IF e = None THEN None ELSE [e EXCEPT !.mod = clock + 1],
         dead |-> IF state[o].dead # 0 THEN state[o].dead ELSE db[o].dead]]

\* The file as it is written back: all that the state has, at its times.
\* DeletedObjects keeps what it had, also of objects that came back.
applyToDatabase(db, state) ==
  [o \in Uuid |-> [entry |-> Placed(db, state, o),
                   dead |-> IF state[o].dead # 0 THEN state[o].dead ELSE db[o].dead]]

\* What the state has and the file then does not show: it is in a group that was
\* trashed here or deleted elsewhere.
Astray(db, state) ==
  {o \in Uuid : state[o].entry # None /\ read(applyToDatabase(db, state))[o].entry = None}

-----------------------------------------------------------------------------
(* The user, with a password manager *)

\* A save of the file in which object o was changed.
SaveFile(what, o, f) ==
  /\ what \in Saves /\ clock < MaxClock /\ ~broken
  /\ clock' = clock + 1 /\ unchanged' = FALSE
  /\ file' = f
  /\ missed' = IF Running # {} THEN missed \cup {o} ELSE missed
  /\ UNCHANGED <<seq, latest, faults, broken, persisted, run>>

\* An edit of an entry, a rename of a group.
Edit(o) ==
  LET e == [file[o].entry EXCEPT !.data = clock + 1, !.mod = clock + 1] IN
  /\ Present(file, o) /\ ~InBin(file, o)
  /\ SaveFile("edit", o, [file EXCEPT ![o].entry = e])
  /\ edited' = [edited EXCEPT ![o] = IF Running = {} THEN clock + 1 ELSE 0]
  /\ UNCHANGED <<apart, settled>>

Relocate(what, o, p) ==
  LET e == [file[o].entry EXCEPT !.place = p, !.loc = clock + 1] IN
  SaveFile(what, o, [file EXCEPT ![o].entry = e])

Move(e, p) ==
  /\ Present(file, e) /\ ~InBin(file, e) /\ p # file[e].entry.place
  /\ p \in Group => Present(file, p) /\ ~InBin(file, p)
  /\ Relocate("move", e, p)
  /\ UNCHANGED <<apart, edited, settled>>

Inside(o) == {e \in Entry : Present(file, e) /\ file[e].entry.place = o}

Trash(o) ==
  LET gone == Inside(o) \cup {o} IN
  /\ Present(file, o) /\ ~InBin(file, o)
  /\ Relocate("trash", o, Bin)
  /\ edited' = [x \in Uuid |-> IF x \in gone THEN 0 ELSE edited[x]]
  /\ settled' = [x \in Uuid |-> IF x \in gone \cap Entry THEN clock + 1 ELSE settled[x]]
  /\ apart' = apart \cup Inside(o) \cup (IF o \in Group \/ file[o].dead # 0 THEN {o} ELSE {})

Restore(o) ==
  /\ Present(file, o) /\ file[o].entry.place = Bin
  /\ Relocate("restore", o, Root)
  /\ apart' = apart \cup Inside(o) \cup {o}
  /\ UNCHANGED <<edited, settled>>

\* An entry in the bin is deleted for good.
Purge(e) ==
  /\ Present(file, e) /\ InBin(file, e)
  /\ SaveFile("purge", e, [file EXCEPT ![e] = [entry |-> None, dead |-> clock + 1]])
  /\ edited' = [edited EXCEPT ![e] = 0]
  /\ UNCHANGED <<apart, settled>>

UserStep ==
  \/ \E o \in Uuid : Edit(o) \/ Trash(o) \/ Restore(o)
  \/ \E e \in Entry : Purge(e) \/ \E p \in Folder : Move(e, p)

-----------------------------------------------------------------------------
(* Other devices *)

\* They write the newest version on; what they write between a run's pull and its
\* last push lies below the number the run takes for seen.
WriteOther(what, o, c) ==
  /\ what \in Writes /\ clock < MaxClock
  /\ clock' = clock + 1
  /\ Store!Write(o, c)
  /\ settled' = [settled EXCEPT ![o] = laterTime(@, c.mod)]
  /\ apart' = apart \cup (IF \E t \in Thread : run[t].at = "push" THEN {o} ELSE {})
  /\ UNCHANGED <<faults, phone, run, edited, missed>>

OtherStep ==
  \E o \in Uuid :
    LET c == latest[o].content
        alive == [c EXCEPT !.deleted = FALSE, !.place = IF c.deleted THEN Root ELSE @]
    IN \/ WriteOther("edit", o, [alive EXCEPT !.data = clock + 1, !.mod = clock + 1])
       \/ o \in Entry /\ ~c.deleted
          /\ \E p \in Folder \ {c.place} :
               WriteOther("move", o, [c EXCEPT !.place = p, !.loc = clock + 1])
       \/ ~c.deleted /\ WriteOther("delete", o, Tombstone(clock + 1))

-----------------------------------------------------------------------------
(* A run *)

\* Neither the file's fingerprint nor the server's number has changed since the last run.
nothingToSync == unchanged /\ persisted.lastSeq = seq

Continue(t, r) == run' = [run EXCEPT ![t] = r]

\* When all is pushed the file is written if anything was pulled; after that, only
\* the bookkeeping is left to do.
Saving(r) == [Idle EXCEPT !.at = "save", !.sync = r.sync]

Pushing(r) ==
  IF r.due # {} THEN [r EXCEPT !.at = "push"]
  ELSE IF r.pulled THEN [r EXCEPT !.at = "write"]
  ELSE Saving(r)

\* The file is decoded, which takes seconds.  A run that its user asked for does so
\* without a probe.
Open(t) ==
  /\ run[t].at = "idle" /\ ~broken
  /\ Continue(t, [Idle EXCEPT !.at = "load", !.db = file, !.state = read(file)])
  /\ apart' = IF Running # {} THEN Uuid ELSE apart
  /\ UNCHANGED <<server, faults, phone, edited, missed>>

\* The bookkeeping is loaded; the file and it may be of different moments.
load(t) ==
  /\ run[t].at = "load"
  /\ Continue(t, [run[t] EXCEPT !.at = "pull", !.sync = persisted])
  /\ UNCHANGED <<server, faults, phone, history>>

\* Mutant of Kept: on a telephone the server is always right.
neverKept(l, c) == FALSE

\* Whether the local object is newer than the server's version.
Kept(l, c) == l.entry # None /\ l.entry.mod > c.mod

\* A server version taken over, in the bookkeeping of LocalState.
Taken(c) ==
  IF c.deleted THEN [entry |-> None, dead |-> c.mod]
  ELSE [entry |-> [place |-> c.place, data |-> c.data, mod |-> c.mod, loc |-> c.loc],
        dead |-> 0]

\* Mutant of pull: what is kept counts as synchronised.
pullAllSynced(t) ==
  /\ run[t].at = "pull"
  /\ LET since == run[t].sync.lastSeq
         rows == {o \in Uuid : latest[o].seq > since}
         taken == {o \in rows : ~Kept(run[t].state[o], latest[o].content)}
         state == [o \in Uuid |-> IF o \in taken THEN Taken(latest[o].content)
                                  ELSE run[t].state[o]]
         synced == [o \in Uuid |-> IF o \in taken THEN latest[o].content.mod
                                   ELSE IF o \in rows THEN run[t].state[o].entry.mod
                                   ELSE run[t].sync.syncedAt[o]]
     IN Continue(t, Pushing([run[t] EXCEPT !.state = state, !.pulled = taken # {},
                               !.sync = [lastSeq |-> seq, syncedAt |-> synced],
                               !.due = Due(state, synced)]))
  /\ UNCHANGED <<server, faults, phone, history>>

\* The rows above lastSeq are applied to the state, and what is to be pushed is
\* computed.
pull(t) ==
  /\ run[t].at = "pull"
  /\ LET since == run[t].sync.lastSeq
         taken == {o \in Uuid : latest[o].seq > since /\ ~Kept(run[t].state[o], latest[o].content)}
         state == [o \in Uuid |-> IF o \in taken THEN Taken(latest[o].content)
                                  ELSE run[t].state[o]]
         synced == [o \in Uuid |-> IF o \in taken THEN latest[o].content.mod
                                   ELSE run[t].sync.syncedAt[o]]
     IN Continue(t, Pushing([run[t] EXCEPT !.state = state, !.pulled = taken # {},
                               !.sync = [lastSeq |-> seq, syncedAt |-> synced],
                               !.due = Due(state, synced)]))
  /\ UNCHANGED <<server, faults, phone, history>>

\* Groups first, then entries, then deletions.
Nextup(t) ==
  LET groups == {x \in run[t].due : ~x[2] /\ x[1] \in Group}
      alive == {x \in run[t].due : ~x[2]}
  IN IF groups # {} THEN groups ELSE IF alive # {} THEN alive ELSE run[t].due

Pushed(t, x) ==
  LET l == run[t].state[x[1]]
  IN IF x[2] THEN Tombstone(l.dead)
     ELSE [deleted |-> FALSE, place |-> l.entry.place, data |-> l.entry.data,
           mod |-> l.entry.mod, loc |-> l.entry.loc]

Send(t, x) ==
  /\ Store!Write(x[1], Pushed(t, x))
  /\ settled' = [settled EXCEPT ![x[1]] = laterTime(@, Pushed(t, x).mod)]
  /\ apart' = apart \cup IF x[2] /\ run[t].state[x[1]].entry # None THEN {x[1]} ELSE {}
  /\ UNCHANGED <<clock, phone, edited, missed>>

push(t) ==
  /\ run[t].at = "push"
  /\ \E x \in Nextup(t) :
       LET synced == [run[t].sync.syncedAt EXCEPT ![x[1]] = Pushed(t, x).mod] IN
       /\ Send(t, x)
       /\ Continue(t, Pushing([run[t] EXCEPT !.due = @ \ {x},
                                 !.sync = [lastSeq |-> seq + 1, syncedAt |-> synced]]))
  /\ UNCHANGED faults

\* A document provider has no rename: the file is truncated and then written.
Truncate(t) ==
  /\ run[t].at = "write"
  /\ broken' = TRUE /\ unchanged' = FALSE
  /\ Continue(t, [run[t] EXCEPT !.at = "writing"])
  /\ UNCHANGED <<server, faults, file, persisted, history>>

writeAtomic(t) ==
  /\ run[t].at = "writing"
  /\ file' = applyToDatabase(run[t].db, run[t].state)
  /\ broken' = FALSE /\ unchanged' = FALSE
  /\ Continue(t, Saving(run[t]))
  /\ apart' = apart \cup Astray(run[t].db, run[t].state)
  /\ UNCHANGED <<server, faults, persisted, edited, missed>>

save(t) ==
  /\ run[t].at = "save"
  /\ persisted' = run[t].sync
  /\ Continue(t, [Idle EXCEPT !.at = "stamp"])
  /\ UNCHANGED <<server, faults, file, broken, unchanged, history>>

\* The fingerprint the file has by now is remembered for the next probe.
fingerprint(t) ==
  /\ run[t].at = "stamp"
  /\ unchanged' = TRUE
  /\ Continue(t, Idle)
  /\ UNCHANGED <<server, faults, file, broken, persisted, history>>

Fault == faults < MaxFaults /\ faults' = faults + 1

\* Mutant of RequestFails: the bookkeeping is saved although the file was not written.
RequestFailsSaving(t) ==
  /\ run[t].at \in {"pull", "push"} /\ Fault
  /\ persisted' = IF run[t].at = "push" THEN run[t].sync ELSE persisted
  /\ Continue(t, Idle)
  /\ UNCHANGED <<server, file, broken, unchanged, history>>

\* A request fails: the run throws and keeps nothing.
RequestFails(t) ==
  /\ run[t].at \in {"pull", "push"} /\ Fault
  /\ Continue(t, Idle)
  /\ UNCHANGED <<server, phone, history>>

\* The answer of a write is lost.
AnswerLost(t) ==
  /\ run[t].at = "push" /\ Fault
  /\ \E x \in Nextup(t) : Send(t, x)
  /\ Continue(t, Idle)

\* The process of app and worker dies.
Crash ==
  /\ Running # {} /\ Fault
  /\ run' = [t \in Thread |-> Idle]
  /\ UNCHANGED <<server, phone, history>>

RunStep(t) ==
  \/ Open(t) \/ load(t) \/ pull(t) \/ push(t) \/ Truncate(t) \/ writeAtomic(t)
  \/ save(t) \/ fingerprint(t) \/ RequestFails(t) \/ AnswerLost(t)

-----------------------------------------------------------------------------
\* The telephone has synchronised all groups and entries.
Init ==
  /\ seq = Cardinality(Uuid)
  /\ LET n == CHOOSE f \in [Uuid -> 1 .. seq] : \A o, p \in Uuid : f[o] = f[p] => o = p
     IN latest = [o \in Uuid |-> [uuid |-> o, seq |-> n[o], content |->
          [deleted |-> FALSE, place |-> IF o \in Group THEN Root ELSE home[o], data |-> 1,
           mod |-> 1, loc |-> 1]]]
  /\ file = [o \in Uuid |-> [dead |-> 0, entry |->
       [place |-> latest[o].content.place, data |-> 1, mod |-> 1, loc |-> 1]]]
  /\ clock = 1 /\ faults = 0
  /\ broken = FALSE /\ unchanged = TRUE
  /\ persisted = [lastSeq |-> seq, syncedAt |-> [o \in Uuid |-> 1]]
  /\ run = [t \in Thread |-> Idle]
  /\ settled = [o \in Uuid |-> 1] /\ edited = [o \in Uuid |-> 0]
  /\ missed = {} /\ apart = {}

Next == UserStep \/ OtherStep \/ Crash \/ \E t \in Thread : RunStep(t)

Spec == Init /\ [][Next]_vars

-----------------------------------------------------------------------------
(* Properties *)

\* The variables have their types, and what the file has a place for exists.
TypeOK ==
  /\ seq \in Nat /\ clock \in Nat /\ unchanged \in BOOLEAN
  /\ latest \in [Uuid -> Store!Version]
  /\ file \in [Uuid -> Object] /\ broken \in BOOLEAN
  /\ \A e \in Entry : Present(file, e) /\ file[e].entry.place \in Group =>
       Present(file, file[e].entry.place)
  /\ persisted \in Persisted /\ persisted.lastSeq <= seq
  /\ run \in [Thread -> Runs]
  /\ {settled, edited} \subseteq [Uuid -> Nat] /\ missed \subseteq Uuid /\ apart \subseteq Uuid

\* What the file shows and a run would not push, the server got or the user trashed,
\* or it is older than what the server got: however runs overlap, fail and overwrite
\* the file, the newest edit is never taken for pushed.
NothingForgotten ==
  \A o \in Uuid :
    Present(file, o) /\ persisted.syncedAt[o] >= file[o].entry.mod =>
      file[o].entry.data <= settled[o]

\* An edit made while no run was under way is in the file, or the server got it or
\* something newer: writing the file back never costs it, not
\* even when the process dies between the truncation and the write.
NoEditLost ==
  \A o \in Uuid \ missed : edited[o] # 0 =>
    \/ ~broken /\ Present(file, o) /\ file[o].entry.data = edited[o]
    \/ edited[o] <= settled[o]

\* When the probe finds nothing to do there is nothing to do: a run leaves nothing
\* that the next would push, although writing the file touches all of it.
SkipIsSafe ==
  nothingToSync /\ Running = {} /\ ~broken =>
    \A x \in Due(read(file), persisted.syncedAt) : x[1] \in missed \cup apart

\* When all is pulled and pushed, the file shows what the server has.  Apart stay
\* objects written between a run's pull and push or while runs overlapped, those
\* restored from the bin, trashed entries and live groups that DeletedObjects still
\* names, and what was in a group that was trashed here or deleted elsewhere.
InStep ==
  /\ persisted.lastSeq = seq /\ Running = {} /\ ~broken
  /\ Due(read(file), persisted.syncedAt) = {}
  => \A o \in Uuid \ apart :
       LET e == read(file)[o].entry
           c == latest[o].content
       IN IF c.deleted THEN e = None
          ELSE e # None /\ e.data = c.data

==============================================================================
