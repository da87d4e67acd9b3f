---------------------------- MODULE DesktopSync -----------------------------
(***************************************************************************)
(* The desktop clients of one database: users change their local .kdbx      *)
(* files, and every device runs sync, pull and push commands, or the daemon *)
(* that repeats sync, against the server.                                   *)
(*                                                                          *)
(* The server is AtomicStore, which VersionStore implements; GET /changes   *)
(* stays the two reads it is.  A run of a command is a sequence of steps,   *)
(* one per call that leaves the process, and users change their files       *)
(* between any two of them.  The file's objects and the merge are those of  *)
(* KdbxFile.  This module models entries; the groups they are in exist on   *)
(* every device and do not change.                                          *)
(***************************************************************************)
EXTENDS KdbxFile, Integers, FiniteSets

CONSTANTS
  Device,      \* devices enrolled for the database
  Daemon,      \* those that run the daemon; the others run single commands
  Entry,       \* uuids of entries
  Commands,    \* commands the other devices run
  Changes,     \* what users do to entries
  Overlap,     \* may runs of different devices overlap?
  SameSecond,  \* may two changes fall into one second?
  MaxChanges,  \* bound: changes by users
  MaxFaults,   \* bound: calls that fail and processes that die
  MaxSeq       \* bound: writes to the server

ASSUME DeviceAssumption == IsFiniteSet(Device) /\ Daemon \subseteq Device
ASSUME CommandAssumption == Commands \subseteq {"sync", "pull", "push", "force"}
ASSUME ChangeAssumption ==
  Changes \subseteq {"create", "edit", "move", "trash", "restore", "purge"}
ASSUME SwitchAssumption ==
  Overlap \in BOOLEAN /\ SameSecond \in BOOLEAN

VARIABLES
  seq,       \* server: the database's newest number
  latest,    \* server: newest version of each entry
  clock,     \* time of the newest change
  changed,   \* number of changes so far
  file,      \* objects of each device's .kdbx file
  disk,      \* the binding in each device's config.toml
  memory,    \* the binding in the running process
  pc,        \* step the device's run is at
  run,       \* local variables of the run
  stamps,    \* recorded fileStamps that still describe the file
  faults,    \* number of faults so far
  seen,      \* history: newest version merged or written, by device and entry
  uploaded,  \* history: payload (0 a deletion) and time of all versions the server got
  unmerged,  \* history: entries whose state a run recorded before it failed to merge
  newest     \* history: payload and place the users gave an entry last

server == <<seq, latest>>
user == <<clock, changed, newest>>
history == <<seen, uploaded, unmerged>>
vars == <<seq, latest, clock, changed, file, disk, memory, pc, run, stamps,
          faults, seen, uploaded, unmerged, newest>>

Store == INSTANCE AtomicStore WITH Uuid <- Entry, live <- TRUE

ASSUME NoneAssumption ==
  /\ None \notin Store!Version /\ None \notin [data : Nat, place : Place]
  /\ None \notin [content : Content, trigger : Nat]

Binding == [lastSeq : Nat, states : [Entry -> Nat]]
Command == Commands \cup {"daemon"}
Op == [uuid : Entry, content : Content, trigger : Nat \ {0}]
Run == [command : Command, rows : [Entry -> Store!Version \cup {None}], newSeq : Nat,
        maxSeq : Nat, out : SUBSET Op]

-----------------------------------------------------------------------------
(* Users, in KeePassXC.  Saving writes the whole file, so every recorded     *)
(* fileStamp is out of date afterwards.                                      *)

Times == IF SameSecond THEN {clock, clock + 1} ELSE {clock + 1}

Change(d, u, t, o, last) ==
  /\ changed < MaxChanges
  /\ changed' = changed + 1
  /\ clock' = t
  /\ file' = [file EXCEPT ![d][u] = o]
  /\ stamps' = [stamps EXCEPT ![d] = {}]
  /\ newest' = [newest EXCEPT ![u] = last]
  /\ UNCHANGED <<server, disk, memory, pc, run, faults, history>>

Present(d, u) == file[d][u].entry # None

Live(d, u) == Present(d, u) /\ file[d][u].entry.place # Bin

Create(d, u, p, t) ==
  /\ "create" \in Changes
  /\ newest[u] = None
  /\ LET e == [place |-> p, data |-> changed + 1, mod |-> t, loc |-> t] IN
     Change(d, u, t, [entry |-> e, dead |-> 0], [data |-> e.data, place |-> p])

Edit(d, u, t) ==
  /\ "edit" \in Changes
  /\ Live(d, u)
  /\ LET e == [file[d][u].entry EXCEPT !.data = changed + 1, !.mod = t] IN
     Change(d, u, t, [entry |-> e, dead |-> 0], [newest[u] EXCEPT !.data = e.data])

\* Moving an entry, also into the bin and out of it, changes LocationChanged and
\* leaves LastModificationTime alone.
Relocate(d, u, p, t) ==
  /\ Present(d, u)
  /\ LET old == file[d][u].entry
         e == [old EXCEPT !.place = p, !.loc = t]
         last == [data |-> IF p = Bin THEN 0
                           ELSE IF old.place = Bin THEN e.data
                           ELSE newest[u].data,
                  place |-> p]
     IN /\ p # old.place
        /\ (IF p = Bin THEN "trash" ELSE IF old.place = Bin THEN "restore" ELSE "move")
             \in Changes
        /\ Change(d, u, t, [entry |-> e, dead |-> 0], last)

\* Deleting an entry for good: DeletedObjects remembers when.
Purge(d, u, t) ==
  /\ "purge" \in Changes
  /\ Present(d, u)
  /\ Change(d, u, t, [entry |-> None, dead |-> t], [newest[u] EXCEPT !.data = 0])

UserStep(d) ==
  \E u \in Entry, t \in Times :
    \/ \E p \in Folder : Create(d, u, p, t)
    \/ Edit(d, u, t)
    \/ \E p \in Place : Relocate(d, u, p, t)
    \/ Purge(d, u, t)

-----------------------------------------------------------------------------
(* Runs.  A command loads config.toml and ends with its process; the daemon  *)
(* keeps what it has in memory for its next run.                             *)

NoRows == [u \in Entry |-> None]

NoRun == [command |-> "daemon", rows |-> NoRows, newSeq |-> 0, maxSeq |-> 0, out |-> {}]

Goto(d, step) == pc' = [pc EXCEPT ![d] = step]

\* Mutant of End: the next run finds the variables of this one.
EndWithoutReset(d, b) ==
  /\ Goto(d, "idle")
  /\ memory' = [memory EXCEPT ![d] = b]
  /\ UNCHANGED run

\* The run ends and leaves binding b for the next one.
End(d, b) ==
  /\ Goto(d, "idle")
  /\ run' = [run EXCEPT ![d] = NoRun]
  /\ memory' = [memory EXCEPT ![d] = b]

\* A run ends without saving: only the daemon still has b afterwards.
Return(d, b) == End(d, IF d \in Daemon THEN b ELSE disk[d])

\* Bound: a push --force counts as a change.
Start(d, c) ==
  /\ pc[d] = "idle"
  /\ Overlap \/ \A e \in Device : pc[e] = "idle"
  /\ c \in IF d \in Daemon THEN {"daemon"} ELSE Commands
  /\ c = "force" => changed < MaxChanges
  /\ changed' = IF c = "force" THEN changed + 1 ELSE changed
  /\ Goto(d, IF c \in {"push", "force"} THEN "export" ELSE "rows")
  /\ run' = [run EXCEPT ![d].command = c, ![d].newSeq = memory[d].lastSeq]
  /\ UNCHANGED <<server, clock, newest, file, disk, memory, stamps, faults, history>>

AfterPull(d) ==
  IF run[d].command = "pull" THEN "save"
  ELSE IF run[d].command = "daemon" THEN "stamp"
  ELSE "export"

\* GET /changes reads the rows above last_seq ...
SelectRows(d) ==
  /\ pc[d] = "rows"
  /\ Goto(d, "current")
  /\ run' = [run EXCEPT ![d].rows =
       [u \in Entry |-> IF latest[u] # None /\ latest[u].seq > memory[d].lastSeq
                        THEN latest[u] ELSE None]]
  /\ UNCHANGED <<server, user, file, disk, memory, stamps, faults, history>>

\* ... and then the number the client will have seen.
SelectCurrentSeq(d) ==
  /\ pc[d] = "current"
  /\ Goto(d, IF run[d].rows = NoRows THEN AfterPull(d) ELSE "merge")
  /\ run' = [run EXCEPT ![d].newSeq = seq]
  /\ UNCHANGED <<server, user, file, disk, memory, stamps, faults, history>>

\* Mutant of RecordEntryStateIfNewer: the time of the pull is recorded.
RecordTimeOfPull(state, v) == clock

\* The state of a pulled object becomes its modified_at, but never goes back.
RecordEntryStateIfNewer(state, v) == laterTime(state, v.content.mod)

\* The binding once the rows up to number n have been looked at, in their order.
Recorded(d, n) ==
  LET row == run[d].rows IN
  [memory[d] EXCEPT !.states = [u \in Entry |->
     IF row[u] # None /\ row[u].seq <= n
     THEN RecordEntryStateIfNewer(@[u], row[u]) ELSE @[u]]]

\* Everything from decrypting the rows to the end of keepassxc-cli merge.
pullChanges(d) ==
  /\ pc[d] = "merge"
  /\ Goto(d, AfterPull(d))
  /\ memory' = [memory EXCEPT ![d] = Recorded(d, run[d].newSeq)]
  /\ LET row == run[d].rows IN
     /\ file' = [file EXCEPT ![d] = [u \in Entry |->
          IF row[u] = None THEN @[u] ELSE Merge(@[u], row[u].content)]]
     /\ seen' = [seen EXCEPT ![d] = [u \in Entry |->
          IF row[u] = None THEN @[u] ELSE row[u].seq]]
  /\ stamps' = [stamps EXCEPT ![d] = {}]
  /\ UNCHANGED <<server, user, disk, run, faults, uploaded, unmerged>>

\* The binding b is written to config.toml and the run ends.
Save(d, b) ==
  /\ disk' = [disk EXCEPT ![d] = b]
  /\ End(d, b)

\* Nothing was pulled and the file is the one the daemon last pushed.
Unchanged(d) == pc[d] = "stamp" /\ run[d].rows = NoRows /\ "pushed" \in stamps[d]

\* The daemon skips the export of an unchanged file; otherwise it notes the
\* file's stamp before it exports.
doSync(d) ==
  /\ pc[d] = "stamp"
  /\ IF Unchanged(d)
     THEN /\ IF run[d].newSeq # memory[d].lastSeq
             THEN Save(d, [memory[d] EXCEPT !.lastSeq = run[d].newSeq])
             ELSE Return(d, memory[d]) /\ UNCHANGED disk
          /\ UNCHANGED stamps
     ELSE /\ Goto(d, "export")
          /\ stamps' = [stamps EXCEPT ![d] = @ \cup {"before"}]
          /\ UNCHANGED <<disk, memory, run>>
  /\ UNCHANGED <<server, user, file, faults, history>>

shouldPush(state, trigger) == state < trigger

ToPush(d, force) ==
  {[uuid |-> u, content |-> Exported(file[d][u]).content,
    trigger |-> Exported(file[d][u]).trigger] :
      u \in {v \in Entry : /\ Exported(file[d][v]) # None
                           /\ force \/ shouldPush(memory[d].states[v],
                                                  Exported(file[d][v]).trigger)}}

\* The export reads the file and keeps what shouldPush lets through.
Export(d) ==
  /\ pc[d] = "export"
  /\ Goto(d, "push")
  /\ run' = [run EXCEPT ![d].out = ToPush(d, run[d].command = "force")]
  /\ UNCHANGED <<server, user, file, disk, memory, stamps, faults, history>>

Upload(op) == [data |-> op.content.data, mod |-> op.content.mod]

\* The server accepts one PUT or DELETE; entries go before deletions.
Put(d, op) ==
  /\ pc[d] = "push"
  /\ op \in run[d].out
  /\ op.content.deleted => \A o \in run[d].out : o.content.deleted
  /\ seq < MaxSeq
  /\ Store!Write(op.uuid, op.content)
  /\ seen' = [seen EXCEPT ![d][op.uuid] = seq + 1]
  /\ uploaded' = [uploaded EXCEPT ![op.uuid] = @ \cup {Upload(op)}]
  /\ UNCHANGED <<user, file, unmerged>>

\* Mutant of RecordEntryState: the time of the push is recorded.
RecordTimeOfPush(states, op) == [states EXCEPT ![op.uuid] = clock]

RecordEntryState(states, op) == [states EXCEPT ![op.uuid] = op.trigger]

\* One round of the push loops.
pushChanges(d, op) ==
  /\ Put(d, op)
  /\ memory' = [memory EXCEPT ![d].states = RecordEntryState(@, op)]
  /\ run' = [run EXCEPT ![d].maxSeq = seq + 1, ![d].out = @ \ {op}]
  /\ UNCHANGED <<disk, pc, stamps, faults>>

\* last_seq moves past the run's own pushes.
Cursor(d) == laterTime(run[d].newSeq, run[d].maxSeq)

AllDone(d) == pc[d] = "save" \/ (pc[d] = "push" /\ run[d].out = {})

\* Mutant of Finish: the stamp is taken when the push is done.
FinishStampAfter(d) ==
  /\ AllDone(d)
  /\ Save(d, [memory[d] EXCEPT !.lastSeq = Cursor(d)])
  /\ stamps' = [stamps EXCEPT ![d] = IF d \in Daemon THEN {"pushed"} ELSE {}]
  /\ UNCHANGED <<server, user, file, faults, history>>

\* config.toml is written, and the stamp taken before the export becomes the
\* one of the last push.
Finish(d) ==
  /\ AllDone(d)
  /\ Save(d, [memory[d] EXCEPT !.lastSeq = Cursor(d)])
  /\ stamps' = [stamps EXCEPT ![d] = IF "before" \in @ THEN {"pushed"} ELSE {}]
  /\ UNCHANGED <<server, user, file, faults, history>>

-----------------------------------------------------------------------------
(* Faults *)

Fault == faults < MaxFaults /\ faults' = faults + 1

\* Mutant of PullFails: the daemon saves its cursor as it does after a failed push.
PullFailsAndSaves(d) ==
  /\ Fault
  /\ pc[d] \in {"rows", "current", "merge"}
  /\ IF d \in Daemon
     THEN Save(d, [memory[d] EXCEPT !.lastSeq = Cursor(d)])
     ELSE Return(d, disk[d]) /\ UNCHANGED disk
  /\ UNCHANGED <<server, user, file, stamps, history>>

\* A call fails before anything is pushed: the run returns and config.toml is
\* not written.  pullChanges may have recorded states for a merge that never
\* happened, and the daemon keeps those; restoring the backup after a merge that
\* went wrong makes the fileStamps out of date.
PullFails(d) ==
  /\ Fault
  /\ pc[d] \in {"rows", "current", "merge"}
  /\ \E n \in 0 .. run[d].newSeq :
       /\ pc[d] # "merge" => n = 0
       /\ Return(d, Recorded(d, n))
  /\ unmerged' = [unmerged EXCEPT ![d] =
       @ \cup {u \in Entry : memory'[d].states[u] # memory[d].states[u]}]
  /\ \/ UNCHANGED stamps
     \/ pc[d] = "merge" /\ stamps' = [stamps EXCEPT ![d] = {}]
  /\ UNCHANGED <<server, user, file, disk, seen, uploaded>>

\* What a run does after the export or a push has failed: a command just ends,
\* the daemon saves its cursor and the states it has.
PushError(d) ==
  /\ IF d \in Daemon
     THEN Save(d, [memory[d] EXCEPT !.lastSeq = Cursor(d)])
     ELSE Return(d, disk[d]) /\ UNCHANGED disk
  /\ stamps' = [stamps EXCEPT ![d] = @ \ {"before"}]

PushFails(d) ==
  /\ Fault
  /\ pc[d] \in {"export", "push"}
  /\ PushError(d)
  /\ UNCHANGED <<server, user, file, history>>

\* The server has written the version but its answer is lost.
AnswerLost(d, op) ==
  /\ Fault
  /\ Put(d, op)
  /\ PushError(d)

\* config.toml cannot be written: the daemon still has the new cursor.
SaveFails(d) ==
  /\ Fault
  /\ AllDone(d) \/ Unchanged(d)
  /\ Return(d, [memory[d] EXCEPT !.lastSeq = Cursor(d)])
  /\ stamps' = [stamps EXCEPT ![d] = @ \ {"before"}]
  /\ UNCHANGED <<server, user, file, disk, history>>

\* The process dies; the next one starts from config.toml and has no stamp.
Crash(d) ==
  /\ Fault
  /\ Goto(d, "idle")
  /\ run' = [run EXCEPT ![d] = NoRun]
  /\ memory' = [memory EXCEPT ![d] = disk[d]]
  /\ stamps' = [stamps EXCEPT ![d] = {}]
  /\ UNCHANGED <<server, user, file, disk, history>>

-----------------------------------------------------------------------------

Init ==
  /\ Store!Init
  /\ clock = 1
  /\ changed = 0
  /\ file = [d \in Device |-> [u \in Entry |-> [entry |-> None, dead |-> 0]]]
  /\ disk = [d \in Device |-> [lastSeq |-> 0, states |-> [u \in Entry |-> 0]]]
  /\ memory = disk
  /\ pc = [d \in Device |-> "idle"]
  /\ run = [d \in Device |-> NoRun]
  /\ stamps = [d \in Device |-> {}]
  /\ faults = 0
  /\ seen = [d \in Device |-> [u \in Entry |-> 0]]
  /\ uploaded = [u \in Entry |-> {}]
  /\ unmerged = [d \in Device |-> {}]
  /\ newest = [u \in Entry |-> None]

RunStep(d) ==
  \/ \E c \in Command : Start(d, c)
  \/ SelectRows(d)
  \/ SelectCurrentSeq(d)
  \/ pullChanges(d)
  \/ doSync(d)
  \/ Export(d)
  \/ \E op \in run[d].out : pushChanges(d, op)
  \/ Finish(d)

FaultStep(d) ==
  \/ PullFails(d)
  \/ PushFails(d)
  \/ \E op \in run[d].out : AnswerLost(d, op)
  \/ SaveFails(d)
  \/ Crash(d)

Next == \E d \in Device : UserStep(d) \/ RunStep(d) \/ FaultStep(d)

Spec == Init /\ [][Next]_vars

-----------------------------------------------------------------------------
(* Type invariant *)

\* Every variable has its type, a run carries what its step works on, and a
\* file never has an entry and a deletion of the same object.
TypeOK ==
  /\ seq \in Nat
  /\ latest \in [Entry -> Store!Version \cup {None}]
  /\ clock \in Nat /\ changed \in Nat /\ faults \in Nat
  /\ file \in [Device -> [Entry -> Object]]
  /\ \A d \in Device, u \in Entry : Present(d, u) => file[d][u].dead = 0
  /\ disk \in [Device -> Binding]
  /\ memory \in [Device -> Binding]
  /\ pc \in [Device -> {"idle", "rows", "current", "merge", "stamp", "export",
                        "push", "save"}]
  /\ run \in [Device -> Run]
  /\ \A d \in Device : pc[d] \in {"idle", "rows"} => run[d].rows = NoRows
  /\ \A d \in Device : pc[d] # "push" => run[d].out = {}
  /\ stamps \in [Device -> SUBSET {"before", "pushed"}]
  /\ seen \in [Device -> [Entry -> Nat]]
  /\ uploaded \in [Entry -> SUBSET [data : Nat, mod : Nat]]
  /\ unmerged \in [Device -> SUBSET Entry]
  /\ newest \in [Entry -> [data : Nat, place : Place] \cup {None}]

-----------------------------------------------------------------------------
(* Safety *)

\* "Clients remember the last sequence they have seen and fetch everything
\* after it" (keepass-deltasync-spec.md:173): a device never saves a last_seq
\* that covers a version it has neither merged nor written itself.
SeenUpToCursor ==
  \A d \in Device, u \in Entry :
    latest[u] # None /\ latest[u].seq <= disk[d].lastSeq => seen[d][u] >= latest[u].seq

\* The device has nothing left to pull.
CaughtUp(d) == pc[d] = "idle" /\ memory[d].lastSeq = seq

\* No entry of the device would be pushed by its next sync.
NothingToPush(d) == ToPush(d, FALSE) = {}

\* A device has forgotten nothing, at any time: what it would not push of an entry
\* it shows, or of one it deleted for good, is a payload or a deletion the server got
\* at some time.  (A newer one may have replaced it there, but then the device pulls
\* that.)  Not so a payload that the user trashed before it was sent: once the server
\* got the deletion, another device's move may bring the entry back with it.  Nor an
\* entry whose state a daemon recorded for a version that it then failed to merge: if
\* another device replaces that version by an older one, the daemon takes its own older
\* edit for pushed.
NothingForgotten ==
  \A d \in Device, u \in Entry :
    LET x == Exported(file[d][u])
        Trashed(v) == v.data = 0 /\ Present(d, u) /\ v.mod = file[d][u].entry.loc
    IN
    /\ u \notin unmerged[d]
    /\ x # None
    /\ Present(d, u) => Live(d, u)
    /\ ~shouldPush(memory[d].states[u], x.trigger)
    => \E v \in uploaded[u] : v.data = x.content.data \/ Trashed(v)

\* All devices are in step with the server and have nothing to push.
Settled == \A d \in Device : CaughtUp(d) /\ NothingToPush(d)

\* What a device shows of an entry: its payload, 0 if it has none.
Shown(d, u) == IF Live(d, u) THEN file[d][u].entry.data ELSE 0

\* Last writer wins: when all is settled, every device shows the payload that
\* some user gave the entry last, or nothing if the last one deleted it, and so
\* does the server's newest version, whatever was edited, deleted or moved on
\* several devices between their syncs and whatever failed meanwhile.
LastWriterWins ==
  Settled => \A u \in Entry : newest[u] # None =>
    /\ \A d \in Device : Shown(d, u) = newest[u].data
    /\ latest[u] # None => latest[u].content.data = newest[u].data

\* Two devices: an entry of which the server only ever got one payload and no
\* deletion is, when all is settled, where the last user moved it on either: without
\* edits, the order of the moves decides alone.  Not so among three: a merge that moves
\* an entry leaves its older LocationChanged, with which the device may push it on, and
\* a third one that knows a move between the two stays with that.
LastMoveWinsUnedited ==
  Cardinality(Device) = 2 /\ Settled => \A u \in Entry :
    newest[u] # None /\ newest[u].data # 0 /\ {v.data : v \in uploaded[u]} = {newest[u].data} =>
      \A d \in Device : Live(d, u) /\ file[d][u].entry.place = newest[u].place

-----------------------------------------------------------------------------
(* Liveness *)

\* The daemon starts a run whenever its poll ticker fires, and a run goes on:
\* every call it makes has a timeout.
Fairness == \A d \in Daemon : WF_vars(RunStep(d))

FairSpec == Spec /\ Fairness

\* Once the users stop, the daemons settle and stay settled: no two of them
\* send each other the same entry back and forth for ever.
Settles == <>[](\A d \in Device : memory[d].lastSeq = seq /\ NothingToPush(d))

==============================================================================
