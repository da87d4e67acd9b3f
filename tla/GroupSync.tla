------------------------------ MODULE GroupSync ------------------------------
(***************************************************************************)
(* Groups of the desktop clients: how their deletion is found and sent.       *)
(*                                                                          *)
(* A file does not say that a group was moved to the recycle bin after the    *)
(* last sync, so the client compares its groups with those it knew then       *)
(* (known_groups in config.toml) and refuses to delete many that are gone     *)
(* without a trace.  Groups are at the top level and hold entries; both are   *)
(* objects of KdbxFile, and the server is AtomicStore, as in DesktopSync,     *)
(* where the steps of a pull and the faults around it are modelled: here a    *)
(* pull up to the end of its merge is one step.                               *)
(***************************************************************************)
EXTENDS KdbxFile, FiniteSets

CONSTANTS
  Device, Group, Entry,
  Root,                \* the root group, which is never synchronised itself
  home,                \* the group each entry is in to begin with
  groupDeleteFloor, groupDeletePercent,
  honoured,            \* whether keepassxc-cli merge deletes empty groups
  Changes,             \* what users do
  MaxChanges,          \* bound: changes by users
  MaxFaults            \* bound: requests that fail, processes that die

ASSUME FolderAssumption == Folder = Group \cup {Root} /\ Root \notin Group
ASSUME ObjectAssumption == Group \cap Entry = {} /\ home \in [Entry -> Group]
ASSUME FiniteAssumption == IsFiniteSet(Group) /\ IsFiniteSet(Entry) /\ IsFiniteSet(Device)
ASSUME BarrierAssumption == groupDeleteFloor \in Nat /\ groupDeletePercent \in Nat
ASSUME ChangeAssumption ==
  Changes \subseteq {"rename", "trash", "restore", "move", "empty", "lose"}

VARIABLES
  seq, latest,  \* server: newest number, newest version of each object
  clock,        \* time of the newest change
  changed, faults,
  losses,       \* number of files that lost groups
  file,         \* objects of each device's .kdbx file
  config,       \* the binding in each device's config.toml
  run,          \* local variables of each device's run
  removed,      \* history: groups each device's user trashed or erased, or whose
                \* file lost them
  owed,         \* history: known groups a user removed that the server was not told of
  buried        \* history: objects of which the server has got a tombstone

vars == <<seq, latest, clock, changed, faults, losses, file, config, run, removed,
          owed, buried>>
server == <<seq, latest, buried>>
user == <<clock, changed, losses, removed>>

Uuid == Group \cup Entry

Store == INSTANCE AtomicStore WITH live <- TRUE

Binding == [lastSeq : Nat, states : [Uuid -> Nat], known : SUBSET Group]
Exports == [content : Content, trigger : Nat]

ASSUME NoneIsNotExport == None \notin Exports

Step == {"idle", "export", "groups", "doomed", "entries", "deletions", "save"}
Runs == [at : Step, mem : Binding,
         exported : [Uuid -> Exports \cup {None}], trashed : SUBSET Group,
         doomed : SUBSET Group]

NoExport == [o \in Uuid |-> None]
NoRun(b) == [at |-> "idle", mem |-> b, exported |-> NoExport, trashed |-> {},
             doomed |-> {}]

Present(f, o) == f[o].entry # None
Inside(f, g) == {e \in Entry : Present(f, e) /\ f[e].entry.place = g}

\* Whether an object is in the bin, itself or with its group.
Trashed(f, o) ==
  /\ Present(f, o)
  /\ LET p == f[o].entry.place
     IN p = Bin \/ (p \in Group /\ Present(f, p) /\ f[p].entry.place = Bin)

Tree(f) == {g \in Group : Present(f, g) /\ ~Trashed(f, g)}
TrashedGroups(f) == {g \in Group : Trashed(f, g)}

CurrentGroups(d) ==
  {g \in Group : run[d].exported[g] # None /\ ~run[d].exported[g].content.deleted}

\* The known groups that the device's run has not given up: one that deletes groups
\* will know those of its export in the end, and no other that it has deleted.
Remembered(d) ==
  IF run[d].at = "doomed" THEN run[d].mem.known \cap (CurrentGroups(d) \cup run[d].doomed)
  ELSE run[d].mem.known

-----------------------------------------------------------------------------
(* Users *)

Change(d, what, f) ==
  /\ what \in Changes /\ changed < MaxChanges
  /\ changed' = changed + 1
  /\ clock' = clock + 1
  /\ file' = [file EXCEPT ![d] = f]
  /\ losses' = IF what = "lose" THEN losses + 1 ELSE losses
  /\ UNCHANGED <<server, faults, config, run>>

\* A rename changes LastModificationTime, a move of any object LocationChanged.
Rename(d, g) ==
  /\ g \in Tree(file[d])
  /\ Change(d, "rename", [file[d] EXCEPT ![g].entry.mod = clock + 1])
  /\ UNCHANGED <<removed, owed>>

Relocate(d, o, p, what) ==
  Change(d, what, [file[d] EXCEPT ![o].entry.place = p, ![o].entry.loc = clock + 1])

\* A group goes to the bin with what is in it.
Trash(d, g) ==
  /\ g \in Tree(file[d])
  /\ Relocate(d, g, Bin, "trash")
  /\ removed' = [removed EXCEPT ![d] = @ \cup {g}]
  /\ owed' = [owed EXCEPT ![d] = @ \cup ({g} \cap config[d].known \cap Remembered(d))]

Restore(d, g) ==
  /\ g \in TrashedGroups(file[d])
  /\ Relocate(d, g, Root, "restore")
  /\ owed' = [owed EXCEPT ![d] = @ \ {g}]
  /\ UNCHANGED <<removed>>

Move(d, e, p) ==
  /\ Present(file[d], e) /\ ~Trashed(file[d], e)
  /\ p \in (Tree(file[d]) \cup {Root}) \ {file[d][e].entry.place}
  /\ Relocate(d, e, p, "move")
  /\ UNCHANGED <<removed, owed>>

\* All that is in the bin becomes deleted objects.
EmptyBin(d) ==
  /\ TrashedGroups(file[d]) # {}
  /\ Change(d, "empty", [o \in Uuid |->
       IF Trashed(file[d], o) THEN [entry |-> None, dead |-> clock + 1] ELSE file[d][o]])
  /\ UNCHANGED <<removed, owed>>

\* The file is replaced by one without some groups: an old copy, a wrong file.
Lose(d) ==
  /\ \E gs \in SUBSET Tree(file[d]) \ {{}} :
       Change(d, "lose", [o \in Uuid |->
         IF o \in gs \/ (Present(file[d], o) /\ file[d][o].entry.place \in gs)
         THEN [entry |-> None, dead |-> 0] ELSE file[d][o]])
  /\ UNCHANGED <<removed, owed>>

-----------------------------------------------------------------------------
(* Pull *)

\* A group whose tombstone was merged is not missed any more.
pruneKnownGroups(known, deletions) == known \ deletions

\* The groups of the staging file: those of the local tree and of the rows,
\* without the tombstones.
mergeGroupTree(f, rows) ==
  {g \in Group : IF rows[g] = None THEN g \in Tree(f) ELSE ~rows[g].content.deleted}

\* Mutant of Staged: references to groups the staging file lacks are kept.
StagedAsIs(f, rows, o) == rows[o].content

\* A version's place in the staging file; a group it does not have is the root.
Staged(f, rows, o) ==
  LET p == rows[o].content.place
  IN [rows[o].content EXCEPT !.place = IF p \in mergeGroupTree(f, rows) \cup {Bin}
                                       THEN p ELSE Root]

\* keepassxc-cli merge (external): entries first; a group that still has
\* something in it is not deleted.  Whether the deletion of an empty group is
\* honoured depends on KeePassXC; docs/v4-test-plan.md:64 saw that it was not.
MergeFile(f, rows) ==
  LET merged == [e \in Entry |-> IF rows[e] = None THEN f[e]
                                 ELSE Merge(f[e], Staged(f, rows, e))]
      MergeGroup(g) ==
        LET c == rows[g].content
            m == Merge(f[g], Staged(f, rows, g))
            kept == IF c.deleted THEN f[g].entry
                    ELSE MergeEntry(f[g].entry, Staged(f, rows, g))
        IN IF ~honoured \/ \E e \in Entry : merged[e].entry # None /\ merged[e].entry.place = g
           THEN [entry |-> kept, dead |-> 0] ELSE m
  IN [o \in Uuid |-> IF o \in Entry THEN merged[o]
                     ELSE IF rows[o] = None THEN f[o] ELSE MergeGroup(o)]

\* The rows above last_seq, merged into the file.  A pull ends with that, a sync
\* and a cycle of the daemon go on with the export.
pullChanges(d) ==
  /\ run[d].at = "idle"
  /\ LET rows == [o \in Uuid |-> IF latest[o] # None /\ latest[o].seq > run[d].mem.lastSeq
                                 THEN latest[o] ELSE None]
         gone == {o \in Uuid : rows[o] # None /\ rows[o].content.deleted}
     IN /\ file' = [file EXCEPT ![d] = MergeFile(@, rows)]
        /\ \E next \in {"export", "save"} : run' = [run EXCEPT
             ![d].at = next,
             ![d].mem = [
               lastSeq |-> seq,
               states |-> [o \in Uuid |-> IF rows[o] = None THEN @.states[o]
                             ELSE laterTime(@.states[o], rows[o].content.mod)],
               known |-> pruneKnownGroups(@.known, gone)]]
        /\ owed' = [owed EXCEPT ![d] = @ \ gone]
  /\ UNCHANGED <<server, user, faults, config>>

-----------------------------------------------------------------------------
(* Push *)

shouldPush(d, o) == run[d].mem.states[o] < run[d].exported[o].trigger

\* Entries in a trashed group are exported as deletions like those in the bin
\* itself, each at the time of its own last move; trashed groups are listed.
ParseExportFull(f) ==
  [o \in Uuid |->
     IF ~Trashed(f, o) THEN Exported(f[o])
     ELSE IF o \in Entry THEN Exported([f[o] EXCEPT !.entry.place = Bin])
     ELSE None]

\* Where a push begins.
pushChanges(d) ==
  /\ run[d].at \in {"idle", "export"}
  /\ run' = [run EXCEPT ![d].at = "groups", ![d].exported = ParseExportFull(file[d]),
                        ![d].trashed = TrashedGroups(file[d])]
  /\ UNCHANGED <<server, user, faults, file, config, owed>>

\* The exported objects of a kind that are not on the server yet.
Pending(d, objects, deleted) ==
  {o \in objects : /\ run[d].exported[o] # None
                   /\ run[d].exported[o].content.deleted = deleted
                   /\ shouldPush(d, o)}

\* A request that writes a version of object o.
Write(o, c) ==
  /\ Store!Write(o, c)
  /\ buried' = IF c.deleted THEN buried \cup {o} ELSE buried
  /\ owed' = IF c.deleted THEN [d \in Device |-> owed[d] \ {o}] ELSE owed

\* The binding after the write that is next.
RecordEntryState(b, o, trigger) ==
  [lastSeq |-> seq + 1, states |-> [b.states EXCEPT ![o] = trigger], known |-> b.known]

\* PUT or DELETE of an exported object, and the state recorded for it.
Push(d, o) ==
  /\ Write(o, run[d].exported[o].content)
  /\ run' = [run EXCEPT ![d].mem = RecordEntryState(@, o, run[d].exported[o].trigger)]
  /\ UNCHANGED <<user, faults, file, config>>

PutGroup(d) ==
  /\ run[d].at = "groups"
  /\ \E g \in Pending(d, Group, FALSE) : Push(d, g)

doomedGroups(d) == run[d].mem.known \ CurrentGroups(d)
unexplained(d) == doomedGroups(d) \ run[d].trashed

\* Mutant of refuseGroupDeletion: the share alone decides, and the wrong way round.
refuseFew(doomed, known) == doomed * 100 <= known * groupDeletePercent

refuseGroupDeletion(doomed, known) ==
  /\ doomed > groupDeleteFloor
  /\ doomed * 100 > known * groupDeletePercent

Refuses(d) ==
  refuseGroupDeletion(Cardinality(unexplained(d)), Cardinality(run[d].mem.known))

\* The groups of the export become the known ones, and the run goes on.
KnowGroups(d, r) == [r EXCEPT !.at = "entries", !.mem.known = CurrentGroups(d)]

\* Mutant of FindDoomed: the groups are known before their deletions were sent.
FindDoomedAndForget(d) ==
  /\ run[d].at = "groups" /\ Pending(d, Group, FALSE) = {}
  /\ run' = [run EXCEPT ![d] =
       IF Refuses(d) THEN [@ EXCEPT !.at = "entries"]
       ELSE IF doomedGroups(d) = {} THEN KnowGroups(d, @)
       ELSE [@ EXCEPT !.at = "doomed", !.doomed = doomedGroups(d),
                      !.mem.known = CurrentGroups(d)]]
  /\ UNCHANGED <<server, user, faults, file, config, owed>>

\* What has to be deleted, or the refusal, which leaves the known groups as they were.
FindDoomed(d) ==
  /\ run[d].at = "groups" /\ Pending(d, Group, FALSE) = {}
  /\ run' = [run EXCEPT ![d] =
       IF Refuses(d) THEN [@ EXCEPT !.at = "entries"]
       ELSE IF doomedGroups(d) = {} THEN KnowGroups(d, @)
       ELSE [@ EXCEPT !.at = "doomed", !.doomed = doomedGroups(d)]]
  /\ UNCHANGED <<server, user, faults, file, config, owed>>

\* The deletion's time is now; no state is recorded for it.
DeleteGroup(d) ==
  /\ run[d].at = "doomed"
  /\ \E g \in run[d].doomed :
       /\ Write(g, Tombstone(clock))
       /\ LET r == [run[d] EXCEPT !.doomed = @ \ {g}, !.mem.lastSeq = seq + 1]
          IN run' = [run EXCEPT ![d] = IF r.doomed = {} THEN KnowGroups(d, r) ELSE r]
  /\ UNCHANGED <<user, faults, file, config>>

PutEntry(d) ==
  /\ run[d].at = "entries"
  /\ \E e \in Pending(d, Entry, FALSE) : Push(d, e)

\* Deleted objects, groups among them, and the entries in the bin.
DeleteEntry(d) ==
  /\ run[d].at = "entries" /\ Pending(d, Entry, FALSE) = {}
  /\ \E o \in Pending(d, Uuid, TRUE) : Push(d, o)

\* config.toml is written and the run ends.
SaveBinding(d) ==
  /\ config' = [config EXCEPT ![d] = run[d].mem]
  /\ run' = [run EXCEPT ![d] = NoRun(run[d].mem)]

Save(d) ==
  /\ \/ run[d].at = "save"
     \/ run[d].at = "entries" /\ Pending(d, Entry, FALSE) = {} /\ Pending(d, Uuid, TRUE) = {}
  /\ SaveBinding(d)
  /\ UNCHANGED <<server, user, faults, file, owed>>

\* The run ends with config.toml as it is.
Interrupt(d) ==
  /\ run' = [run EXCEPT ![d] = NoRun(config[d])]
  /\ UNCHANGED config

\* A request fails: a command just ends, the daemon saves what it has.
PushFails(d) ==
  /\ run[d].at \in {"groups", "doomed", "entries"}
  /\ faults < MaxFaults /\ faults' = faults + 1
  /\ \/ Interrupt(d)
     \/ SaveBinding(d)
  /\ UNCHANGED <<server, user, file, owed>>

\* The process dies, or config.toml cannot be written.
Crash(d) ==
  /\ run[d].at # "idle"
  /\ faults < MaxFaults /\ faults' = faults + 1
  /\ Interrupt(d)
  /\ UNCHANGED <<server, user, file, owed>>

-----------------------------------------------------------------------------
\* Every device has synchronised all groups and entries.
Init ==
  /\ seq = Cardinality(Uuid)
  /\ LET n == CHOOSE f \in [Uuid -> 1 .. seq] : \A o, p \in Uuid : f[o] = f[p] => o = p
     IN latest = [o \in Uuid |-> [uuid |-> o, seq |-> n[o], content |->
          [deleted |-> FALSE, place |-> IF o \in Group THEN Root ELSE home[o], data |-> 0,
           mod |-> 1, loc |-> 1]]]
  /\ clock = 1 /\ changed = 0 /\ faults = 0 /\ losses = 0
  /\ file = [d \in Device |-> [o \in Uuid |-> [dead |-> 0, entry |->
       [place |-> latest[o].content.place, data |-> 0, mod |-> 1, loc |-> 1]]]]
  /\ config = [d \in Device |-> [lastSeq |-> seq, states |-> [o \in Uuid |-> 1],
                                 known |-> Group]]
  /\ run = [d \in Device |-> NoRun(config[d])]
  /\ removed = [d \in Device |-> {}] /\ owed = removed
  /\ buried = {}

UserStep(d) ==
  \/ \E g \in Group : Rename(d, g) \/ Trash(d, g) \/ Restore(d, g)
  \/ \E e \in Entry, p \in Folder : Move(d, e, p)
  \/ EmptyBin(d) \/ Lose(d)

RunStep(d) ==
  \/ pullChanges(d) \/ pushChanges(d)
  \/ PutGroup(d) \/ FindDoomed(d) \/ DeleteGroup(d)
  \/ PutEntry(d) \/ DeleteEntry(d) \/ Save(d)
  \/ PushFails(d) \/ Crash(d)

Next == \E d \in Device : UserStep(d) \/ RunStep(d)

Spec == Init /\ [][Next]_vars

-----------------------------------------------------------------------------
(* Properties *)

\* The variables have their types, and what a file has a place for exists.
TypeOK ==
  /\ seq \in Nat /\ clock \in Nat /\ changed \in Nat /\ faults \in Nat /\ losses \in Nat
  /\ latest \in [Uuid -> Store!Version \cup {None}]
  /\ file \in [Device -> [Uuid -> Object]]
  /\ \A d \in Device, o \in Uuid : Present(file[d], o) =>
       /\ file[d][o].dead = 0
       /\ file[d][o].entry.place \in Group => Present(file[d], file[d][o].entry.place)
  /\ config \in [Device -> Binding]
  /\ run \in [Device -> Runs]
  /\ removed \in [Device -> SUBSET Group]
  /\ owed \in [Device -> SUBSET Group]
  /\ buried \subseteq Uuid

\* Groups that no user removed are deleted on the server in small numbers only:
\* for each lost file no more than the barrier lets through at once.
FewUnmeantDeletions ==
  LET unmeant == {g \in Group : g \in buried /\ \A d \in Device : g \notin removed[d]}
      n == Cardinality(unmeant)
  IN n <= losses * groupDeleteFloor
     \/ n * 100 <= losses * Cardinality(Group) * groupDeletePercent

\* The deletion of a known group is not forgotten: until the user has taken it back
\* or the server has been told, config.toml knows the group, whatever fails on the
\* way.
DeletionsAreTold == \A d \in Device : owed[d] \subseteq config[d].known

==============================================================================
