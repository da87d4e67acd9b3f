-------------------------- MODULE DesktopSyncProofs --------------------------
(***************************************************************************)
(* Proofs about DesktopSync, for any devices, entries, folders and bounds:   *)
(* types; what last_seq covers when runs exclude each other; that no device  *)
(* forgets what it has to send when every change has its own second; and,    *)
(* when besides nothing goes into the bin, that the last writer wins and,    *)
(* between two devices, the last move of an entry that is not edited.        *)
(***************************************************************************)
EXTENDS DesktopSync, FiniteSetTheorems, TLAPS

-----------------------------------------------------------------------------
(* Times.  0 stands for "no time", so no change may have it.                 *)

\* A version on the server and an entry of a file carry times.
TimedContent(c) == c.mod # 0 /\ (~c.deleted => c.loc # 0)
TimedObject(o) ==
  /\ o \in Object
  /\ o.entry # None => o.entry.mod # 0 /\ o.entry.loc # 0 /\ o.dead = 0

\* What an export tells of an object.
LEMMA ExportTypes ==
  ASSUME NEW o, TimedObject(o), Exported(o) # None
  PROVE /\ Exported(o).content \in Content
        /\ Exported(o).trigger \in Nat \ {0}
        /\ TimedContent(Exported(o).content)
<1>1. CASE o.entry # None
  <2>1. o.entry \in Local
    BY <1>1 DEF TimedObject, Object
  <2>2. Exported(o) = collectTree(o.entry)
    BY <1>1 DEF Exported
  <2>3. CASE o.entry.place = Bin
    <3>1. Exported(o) = [content |-> Tombstone(o.entry.loc), trigger |-> o.entry.loc]
      BY <2>2, <2>3 DEF collectTree
    <3>2. Tombstone(o.entry.loc) \in Content /\ TimedContent(Tombstone(o.entry.loc))
      BY <1>1, <2>1 DEF Tombstone, Content, Place, TimedContent, TimedObject, Local
    <3> QED BY <1>1, <2>1, <3>1, <3>2 DEF TimedObject, Local
  <2>4. CASE o.entry.place # Bin
    <3> DEFINE c == [deleted |-> FALSE, place |-> o.entry.place, data |-> o.entry.data,
                     mod |-> o.entry.mod, loc |-> o.entry.loc]
    <3>1. Exported(o) = [content |-> c, trigger |-> laterTime(o.entry.mod, o.entry.loc)]
      BY <2>2, <2>4 DEF collectTree
    <3>2. c \in Content /\ TimedContent(c)
      BY <1>1, <2>1 DEF Content, TimedContent, TimedObject, Local
    <3>3. laterTime(o.entry.mod, o.entry.loc) \in Nat \ {0}
      BY <1>1, <2>1 DEF laterTime, TimedObject, Local
    <3> HIDE DEF c
    <3> QED BY <3>1, <3>2, <3>3
  <2> QED BY <2>3, <2>4
<1>2. CASE o.entry = None
  <2>1. /\ o.dead \in Nat \ {0}
        /\ Exported(o) = [content |-> Tombstone(o.dead), trigger |-> o.dead]
    BY <1>2 DEF Exported, TimedObject, Object
  <2>2. Tombstone(o.dead) \in Content /\ TimedContent(Tombstone(o.dead))
    BY <2>1 DEF Tombstone, Content, Place, TimedContent
  <2> QED BY <2>1, <2>2
<1> QED BY <1>1, <1>2

\* What a merge makes of an entry that is in the file or comes with the version.
LEMMA MergeEntryTypes ==
  ASSUME NEW o, TimedObject(o), NEW c \in Content, TimedContent(c), ~c.deleted
  PROVE /\ MergeEntry(o.entry, c) \in Local
        /\ MergeEntry(o.entry, c).mod # 0 /\ MergeEntry(o.entry, c).loc # 0
<1>1. CASE o.entry = None
  BY <1>1 DEF MergeEntry, Content, TimedContent, Local
<1>2. CASE o.entry # None
  <2>1. o.entry \in Local /\ o.entry.mod # 0 /\ o.entry.loc # 0
    BY <1>2 DEF TimedObject, Object
  <2> DEFINE newer == IF o.entry.mod < c.mod THEN c ELSE o.entry
  <2>2. newer.data \in Nat /\ newer.mod \in Nat \ {0} /\ newer.loc \in Nat \ {0}
    BY <2>1 DEF Content, TimedContent, Local
  <2> DEFINE place == IF o.entry.loc < c.loc THEN c.place ELSE o.entry.place
  <2>3. place \in Place
    BY <2>1 DEF Content, Local
  <2>4. MergeEntry(o.entry, c) =
          [place |-> place, data |-> newer.data, mod |-> newer.mod, loc |-> newer.loc]
    BY <1>2 DEF MergeEntry
  <2> HIDE DEF newer, place
  <2> QED BY <2>2, <2>3, <2>4 DEF Local
<1> QED BY <1>1, <1>2

\* A deletion leaves an object.
LEMMA MergeDeletionTypes ==
  ASSUME NEW e \in Local \cup {None}, e # None => e.mod # 0 /\ e.loc # 0,
         NEW times \in SUBSET (Nat \ {0}), \E t \in times : \A s \in times : t <= s
  PROVE TimedObject(MergeDeletion(e, times))
<1> DEFINE first == CHOOSE t \in times : \A s \in times : t <= s
<1>1. first \in Nat
  OBVIOUS
<1>2. MergeDeletion(e, times) = IF e # None /\ e.mod > first
                                THEN [entry |-> e, dead |-> 0]
                                ELSE [entry |-> None, dead |-> first]
  BY DEF MergeDeletion
<1> HIDE DEF first
<1> QED BY <1>1, <1>2 DEF TimedObject, Object

\* The merge of a version makes an object of an object.
LEMMA MergeTypes ==
  ASSUME NEW o, TimedObject(o), NEW c \in Content, TimedContent(c)
  PROVE TimedObject(Merge(o, c))
<1> DEFINE e == IF c.deleted THEN o.entry ELSE MergeEntry(o.entry, c)
           times == {t \in {o.dead} \cup (IF c.deleted THEN {c.mod} ELSE {}) : t # 0}
<1>1. e \in Local \cup {None} /\ (e # None => e.mod # 0 /\ e.loc # 0)
  BY MergeEntryTypes DEF TimedObject, Object
<1>2. times \in SUBSET (Nat \ {0})
  BY DEF TimedObject, Object, Content
<1>3. times = {} \/ \E t \in times : \A s \in times : t <= s
  <2>1. o.dead \in Nat /\ c.mod \in Nat /\ c.mod # 0
    BY DEF TimedObject, Object, Content, TimedContent
  <2>2. CASE c.deleted
    <3>1. times = {t \in {o.dead, c.mod} : t # 0}
      BY <2>2
    <3> HIDE DEF times
    <3>2. CASE o.dead = 0 \/ c.mod <= o.dead
      <4>1. c.mod \in times /\ \A s \in times : c.mod <= s
        BY <2>1, <3>1, <3>2
      <4> QED BY <4>1
    <3>3. CASE o.dead # 0 /\ o.dead < c.mod
      <4>1. o.dead \in times /\ \A s \in times : o.dead <= s
        BY <2>1, <3>1, <3>3
      <4> QED BY <4>1
    <3> QED BY <2>1, <3>2, <3>3
  <2>3. CASE ~c.deleted
    <3>1. times = {t \in {o.dead} : t # 0}
      BY <2>3
    <3> HIDE DEF times
    <3> QED BY <2>1, <3>1
  <2> QED BY <2>2, <2>3
<1>4. Merge(o, c) = IF times = {} THEN [entry |-> e, dead |-> 0]
                    ELSE IF e = None /\ o.dead # 0 THEN o
                    ELSE MergeDeletion(e, times)
  BY DEF Merge
<1> HIDE DEF e, times
<1>5. CASE times = {}
  BY <1>1, <1>4, <1>5 DEF TimedObject, Object
<1>6. CASE times # {} /\ e = None /\ o.dead # 0
  BY <1>4, <1>6
<1>7. CASE times # {} /\ ~(e = None /\ o.dead # 0)
  <2>1. Merge(o, c) = MergeDeletion(e, times)
    BY <1>4, <1>7
  <2> QED BY <1>1, <1>2, <1>3, <1>7, <2>1, MergeDeletionTypes
<1> QED BY <1>5, <1>6, <1>7

-----------------------------------------------------------------------------
(* The inductive invariant of the types *)

Last == [data : Nat, place : Place]
Steps == {"idle", "rows", "current", "merge", "stamp", "export", "push", "save"}

\* A version that is not a deletion is one of an entry some user created.
Known(u, c) == c.deleted \/ newest[u] \in Last

UserInv ==
  /\ clock \in Nat \ {0} /\ changed \in Nat
  /\ newest \in [Entry -> Last \cup {None}]
  /\ file \in [Device -> [Entry -> Object]]
  /\ \A d \in Device, u \in Entry :
       TimedObject(file[d][u]) /\ (Present(d, u) => newest[u] \in Last)

ServerInv ==
  /\ seq \in Nat
  /\ latest \in [Entry -> Store!Version \cup {None}]
  /\ \A u \in Entry : latest[u] # None =>
       TimedContent(latest[u].content) /\ Known(u, latest[u].content)
  /\ seen \in [Device -> [Entry -> Nat]]
  /\ uploaded \in [Entry -> SUBSET [data : Nat, mod : Nat]]

\* What run r carries when it is at step s.
RunAt(r, s) ==
  /\ r \in Run
  /\ s \in {"idle", "rows"} => r.rows = NoRows
  /\ s # "push" => r.out = {}
  /\ \A u \in Entry : r.rows[u] # None =>
       TimedContent(r.rows[u].content) /\ Known(u, r.rows[u].content)
  /\ \A op \in r.out : TimedContent(op.content) /\ Known(op.uuid, op.content)

RunInv ==
  /\ disk \in [Device -> Binding]
  /\ memory \in [Device -> Binding]
  /\ pc \in [Device -> Steps]
  /\ run \in [Device -> Run]
  /\ \A d \in Device : RunAt(run[d], pc[d])
  /\ stamps \in [Device -> SUBSET {"before", "pushed"}]
  /\ faults \in Nat

\* TypeOK alone does not tell that a version has a time, so that a run carries nothing
\* that would be taken for "never pushed", nor that what is edited was created.
TypeInv == UserInv /\ ServerInv /\ RunInv

\* What a failed run leaves unmerged are entries.
UnmergedInv == unmerged \in [Device -> SUBSET Entry]

LEMMA TypeInvTypes == TypeInv /\ UnmergedInv => TypeOK
BY DEF UnmergedInv, TypeInv, UserInv, ServerInv, RunInv, RunAt, TypeOK, TimedObject, Present,
       Last, Steps

LEMMA NoRunAt == \A s \in Steps : RunAt(NoRun, s)
BY DEF NoRun, NoRows, RunAt, Run, Command

LEMMA TypeInvInit == Init => TypeInv
<1> SUFFICES ASSUME Init PROVE TypeInv
  OBVIOUS
<1>1. UserInv
  BY DEF Init, UserInv, TimedObject, Object, Present
<1>2. ServerInv
  BY DEF Init, Store!Init, ServerInv
<1>3. RunInv
  <2>1. NoRun \in Run /\ RunAt(NoRun, "idle")
    BY NoRunAt DEF RunAt, Steps
  <2> QED BY <2>1 DEF Init, RunInv, Binding, Steps
<1> QED BY <1>1, <1>2, <1>3 DEF TypeInv

-----------------------------------------------------------------------------
(* Users *)

\* A save that puts an object with times into the file keeps types.
LEMMA ChangeTypes ==
  ASSUME TypeInv, NEW d \in Device, NEW u \in Entry, NEW t \in Times, NEW o, NEW last,
         TimedObject(o), last \in Last, Change(d, u, t, o, last)
  PROVE TypeInv'
<1>1. clock' \in Nat \ {0} /\ changed' \in Nat
  BY DEF TypeInv, UserInv, Change, Times
<1>2. newest' \in [Entry -> Last \cup {None}]
      /\ \A v \in Entry : newest[v] \in Last => newest'[v] \in Last
  BY DEF TypeInv, UserInv, Change
<1>3. newest'[u] \in Last
  BY DEF TypeInv, UserInv, Change
<1>4. o \in Object
  BY DEF TimedObject
<1>5. file' \in [Device -> [Entry -> Object]]
  BY <1>4 DEF TypeInv, UserInv, Change
<1>6. \A e \in Device, v \in Entry : file'[e][v] = IF e = d /\ v = u THEN o ELSE file[e][v]
  BY DEF TypeInv, UserInv, Change
<1>7. UserInv'
  BY <1>1, <1>2, <1>3, <1>5, <1>6 DEF TypeInv, UserInv, Present
<1>8. ServerInv'
  <2>1. UNCHANGED <<seq, latest, seen, uploaded>>
    BY DEF Change, server, history
  <2> QED BY <1>2, <2>1 DEF TypeInv, ServerInv, Known
<1>9. RunInv'
  <2>1. UNCHANGED <<disk, memory, pc, run, faults>>
    BY DEF Change
  <2>2. stamps' \in [Device -> SUBSET {"before", "pushed"}]
    BY DEF Change, TypeInv, RunInv
  <2>3. \A e \in Device : \A op \in run[e].out : op.uuid \in Entry
    BY DEF TypeInv, RunInv, Run, Op
  <2>4. \A e \in Device : RunAt(run[e], pc[e])'
    BY <1>2, <2>1, <2>3 DEF TypeInv, RunInv, RunAt, Known
  <2> QED BY <2>1, <2>2, <2>4 DEF TypeInv, RunInv
<1> QED BY <1>7, <1>8, <1>9 DEF TypeInv

\* Users change files, and nothing of the server, of the bindings or of a run.
LEMMA UserLeaves ==
  ASSUME NEW d \in Device, UserStep(d)
  PROVE UNCHANGED <<server, disk, memory, pc, run, faults, history>>
<1>1. PICK u \in Entry, t \in Times :
        \/ \E p \in Folder : Create(d, u, p, t)
        \/ Edit(d, u, t)
        \/ \E p \in Place : Relocate(d, u, p, t)
        \/ Purge(d, u, t)
  BY DEF UserStep
<1>2. CASE \E p \in Folder : Create(d, u, p, t)
  BY <1>2 DEF Create, Change
<1>3. CASE Edit(d, u, t)
  BY <1>3 DEF Edit, Change
<1>4. CASE \E p \in Place : Relocate(d, u, p, t)
  BY <1>4 DEF Relocate, Change
<1>5. CASE Purge(d, u, t)
  BY <1>5 DEF Purge, Change
<1> QED BY <1>1, <1>2, <1>3, <1>4, <1>5

\* What users do keeps types.
LEMMA UserTypes ==
  ASSUME TypeInv, NEW d \in Device, UserStep(d)
  PROVE TypeInv'
<1>1. PICK u \in Entry, t \in Times :
        \/ \E p \in Folder : Create(d, u, p, t)
        \/ Edit(d, u, t)
        \/ \E p \in Place : Relocate(d, u, p, t)
        \/ Purge(d, u, t)
  BY DEF UserStep
<1>2. t \in Nat \ {0} /\ changed \in Nat
  BY DEF TypeInv, UserInv, Times
<1>3. Present(d, u) =>
        /\ file[d][u].entry \in Local /\ file[d][u].entry.mod # 0 /\ file[d][u].entry.loc # 0
        /\ newest[u] \in Last
  BY DEF TypeInv, UserInv, TimedObject, Object, Present
<1>4. ASSUME NEW e \in Local, e.mod # 0, e.loc # 0
      PROVE TimedObject([entry |-> e, dead |-> 0])
  BY <1>4 DEF TimedObject, Object
<1>5. ASSUME NEW p \in Folder, Create(d, u, p, t) PROVE TypeInv'
  <2> DEFINE e == [place |-> p, data |-> changed + 1, mod |-> t, loc |-> t]
  <2>1. e \in Local /\ e.mod # 0 /\ e.loc # 0
    BY <1>2 DEF Local, Place
  <2>2. TimedObject([entry |-> e, dead |-> 0])
    BY <1>4, <2>1
  <2>3. [data |-> e.data, place |-> p] \in Last
    BY <1>2 DEF Last, Place
  <2>4. Change(d, u, t, [entry |-> e, dead |-> 0], [data |-> e.data, place |-> p])
    BY <1>5 DEF Create
  <2> HIDE DEF e
  <2> QED BY <2>2, <2>3, <2>4, ChangeTypes
<1>6. CASE Edit(d, u, t)
  <2> DEFINE x == file[d][u].entry
             n == changed + 1
             e == [x EXCEPT !.data = n, !.mod = t]
             last == [newest[u] EXCEPT !.data = e.data]
  <2>1. Present(d, u)
    BY <1>6 DEF Edit, Live
  <2>2. Change(d, u, t, [entry |-> e, dead |-> 0], last)
    BY <1>6 DEF Edit
  <2>3. x \in Local
    BY <1>3, <2>1
  <2>4. x.loc # 0 /\ n \in Nat /\ newest[u] \in Last
    BY <1>2, <1>3, <2>1
  <2> HIDE DEF x, n
  <2>5. e \in Local /\ e.mod # 0 /\ e.loc # 0 /\ e.data = n
    BY <1>2, <2>3, <2>4 DEF Local
  <2> HIDE DEF e
  <2>6. last \in Last
    BY <2>4, <2>5 DEF Last, Local
  <2> HIDE DEF last
  <2> QED BY <1>4, <2>2, <2>5, <2>6, ChangeTypes
<1>7. ASSUME NEW p \in Place, Relocate(d, u, p, t) PROVE TypeInv'
  <2> DEFINE old == file[d][u].entry
             e == [old EXCEPT !.place = p, !.loc = t]
             last == [data |-> IF p = Bin THEN 0
                               ELSE IF old.place = Bin THEN e.data
                               ELSE newest[u].data,
                      place |-> p]
  <2>1. Present(d, u)
    BY <1>7 DEF Relocate
  <2>2. e \in Local /\ e.mod # 0 /\ e.loc # 0
    BY <1>2, <1>3, <2>1 DEF Local
  <2>3. last \in Last
    BY <1>3, <2>1, <2>2 DEF Last, Local
  <2>4. Change(d, u, t, [entry |-> e, dead |-> 0], last)
    BY <1>7 DEF Relocate
  <2> HIDE DEF e, last
  <2> QED BY <1>4, <2>2, <2>3, <2>4, ChangeTypes
<1>8. CASE Purge(d, u, t)
  <2> DEFINE last == [newest[u] EXCEPT !.data = 0]
  <2>1. last \in Last
    BY <1>3, <1>8 DEF Purge, Last
  <2>2. TimedObject([entry |-> None, dead |-> t])
    BY <1>2 DEF TimedObject, Object
  <2>3. Change(d, u, t, [entry |-> None, dead |-> t], last)
    BY <1>8 DEF Purge
  <2> HIDE DEF last
  <2> QED BY <2>1, <2>2, <2>3, ChangeTypes
<1> QED BY <1>1, <1>5, <1>6, <1>7, <1>8

-----------------------------------------------------------------------------
(* Runs *)

\* A step of one run keeps RunInv if what it leaves fits the step it goes to.
LEMMA OneRunTypes ==
  ASSUME RunInv, NEW d \in Device, NEW s \in Steps, NEW r, RunAt(r, s),
         UNCHANGED newest, pc' = [pc EXCEPT ![d] = s], run' = [run EXCEPT ![d] = r],
         disk' \in [Device -> Binding], memory' \in [Device -> Binding],
         stamps' \in [Device -> SUBSET {"before", "pushed"}], faults' \in Nat
  PROVE RunInv'
<1>1. r \in Run
  BY DEF RunAt
<1>2. \A e \in Device : RunAt(run'[e], pc'[e])
  BY <1>1 DEF RunInv
<1>3. \A e \in Device : RunAt(run[e], pc[e])'
  BY <1>2 DEF RunAt, Known
<1> QED BY <1>1, <1>3 DEF RunInv

\* UserInv and ServerInv speak of nothing else.
LEMMA UserInvKept ==
  ASSUME UserInv, UNCHANGED <<clock, newest, file>>, changed' \in Nat
  PROVE UserInv'
BY DEF UserInv, Present

LEMMA ServerInvKept ==
  ASSUME ServerInv, UNCHANGED <<seq, latest, newest>>,
         seen' \in [Device -> [Entry -> Nat]], UNCHANGED uploaded
  PROVE ServerInv'
BY DEF ServerInv, Known

\* The end of a run leaves an empty one.
LEMMA EndTypes ==
  ASSUME TypeInv, NEW d \in Device, NEW b \in Binding, End(d, b), UNCHANGED newest,
         disk' = disk \/ disk' = [disk EXCEPT ![d] = b],
         stamps' \in [Device -> SUBSET {"before", "pushed"}], faults' \in Nat
  PROVE RunInv'
<1>1. RunAt(NoRun, "idle")
  BY NoRunAt DEF Steps
<1>2. /\ pc' = [pc EXCEPT ![d] = "idle"] /\ run' = [run EXCEPT ![d] = NoRun]
      /\ memory' = [memory EXCEPT ![d] = b]
  BY DEF End, Goto
<1>3. disk' \in [Device -> Binding] /\ memory' \in [Device -> Binding]
  BY <1>2 DEF TypeInv, RunInv
<1> QED BY <1>1, <1>2, <1>3, OneRunTypes DEF TypeInv, Steps

\* What the variables of a run and of the server give.
LEMMA RunParts ==
  ASSUME TypeInv, NEW d \in Device
  PROVE /\ run[d] \in Run /\ RunAt(run[d], pc[d]) /\ pc[d] \in Steps
        /\ memory[d] \in Binding /\ disk[d] \in Binding
        /\ stamps[d] \in SUBSET {"before", "pushed"}
        /\ \A u \in Entry : run[d].rows[u] \in Store!Version \cup {None}
        /\ run[d].newSeq \in Nat /\ run[d].maxSeq \in Nat /\ run[d].command \in Command
        /\ \A op \in run[d].out :
             op.uuid \in Entry /\ op.content \in Content /\ op.trigger \in Nat \ {0}
BY DEF TypeInv, RunInv, Run, Op

\* pullChanges records times in the binding.
LEMMA RecordedTypes ==
  ASSUME TypeInv, NEW d \in Device, NEW n \in Nat
  PROVE /\ Recorded(d, n) \in Binding
        /\ Recorded(d, n).lastSeq = memory[d].lastSeq
<1> DEFINE b == memory[d]
           row == run[d].rows
           states == [u \in Entry |-> IF row[u] # None /\ row[u].seq <= n
                                      THEN RecordEntryStateIfNewer(b.states[u], row[u])
                                      ELSE b.states[u]]
<1>1. b \in Binding
  BY RunParts
<1>2. \A u \in Entry : row[u] \in Store!Version \cup {None}
  BY RunParts
<1>3. \A u \in Entry : row[u] # None => row[u].content.mod \in Nat
  BY <1>2 DEF Store!Version, Content
<1>4. Recorded(d, n) = [b EXCEPT !.states = states]
  BY DEF Recorded
<1> HIDE DEF b, row
<1>5. states \in [Entry -> Nat]
  BY <1>1, <1>3 DEF RecordEntryStateIfNewer, laterTime, Binding
<1> HIDE DEF states
<1>6. [b EXCEPT !.states = states] \in Binding
      /\ [b EXCEPT !.states = states].lastSeq = b.lastSeq
  BY <1>1, <1>5 DEF Binding
<1> QED BY <1>4, <1>6 DEF b

\* The binding with the cursor of the run.
LEMMA CursorTypes ==
  ASSUME TypeInv, NEW d \in Device
  PROVE /\ Cursor(d) \in Nat
        /\ [memory[d] EXCEPT !.lastSeq = Cursor(d)] \in Binding
        /\ [memory[d] EXCEPT !.lastSeq = run[d].newSeq] \in Binding
        /\ [memory[d] EXCEPT !.lastSeq = Cursor(d)].lastSeq = Cursor(d)
        /\ [memory[d] EXCEPT !.lastSeq = run[d].newSeq].lastSeq = run[d].newSeq
<1>1. Cursor(d) \in Nat /\ run[d].newSeq \in Nat
  BY RunParts DEF Cursor, laterTime
<1>2. memory[d] \in Binding
  BY RunParts
<1>3. ASSUME NEW b \in Binding, NEW n \in Nat
      PROVE [b EXCEPT !.lastSeq = n] \in Binding /\ [b EXCEPT !.lastSeq = n].lastSeq = n
  BY DEF Binding
<1> QED BY <1>1, <1>2, <1>3

\* A run begins with a command and the cursor of its binding.
LEMMA StartTypes ==
  ASSUME TypeInv, NEW d \in Device, NEW c \in Command, Start(d, c)
  PROVE TypeInv'
<1> DEFINE r == [run[d] EXCEPT !.command = c, !.newSeq = memory[d].lastSeq]
           s == IF c \in {"push", "force"} THEN "export" ELSE "rows"
<1>1. run' = [run EXCEPT ![d] = r] /\ pc' = [pc EXCEPT ![d] = s]
  BY DEF Start, Goto
<1>2. run[d] \in Run /\ RunAt(run[d], "idle") /\ memory[d].lastSeq \in Nat
  BY RunParts DEF Start, Binding
<1>3. r \in Run /\ r.rows = run[d].rows /\ r.out = run[d].out
  BY <1>2 DEF Run
<1>4. s \in Steps /\ s # "push"
  BY DEF Steps
<1> HIDE DEF r, s
<1>5. RunAt(r, s)
  BY <1>2, <1>3, <1>4 DEF RunAt
<1>6. changed' \in Nat
  BY DEF Start, TypeInv, UserInv
<1>7. UserInv'
  BY <1>6, UserInvKept DEF TypeInv, Start
<1>8. ServerInv'
  BY ServerInvKept DEF TypeInv, ServerInv, Start, server, history
<1>9. RunInv'
  <2>1. UNCHANGED <<newest, disk, memory, stamps, faults>>
    BY DEF Start
  <2>2. RunInv
    BY DEF TypeInv
  <2>3. /\ disk' \in [Device -> Binding] /\ memory' \in [Device -> Binding] /\ faults' \in Nat
        /\ stamps' \in [Device -> SUBSET {"before", "pushed"}]
    BY <2>1, <2>2 DEF RunInv
  <2> QED BY <1>1, <1>4, <1>5, <2>1, <2>2, <2>3, OneRunTypes
<1> QED BY <1>7, <1>8, <1>9 DEF TypeInv

\* A step of a run that leaves files, the server and the users alone.
LEMMA QuietTypes ==
  ASSUME TypeInv, UNCHANGED <<seq, latest, seen, uploaded>>, UNCHANGED user,
         UNCHANGED file, RunInv'
  PROVE TypeInv'
<1>1. UserInv'
  BY UserInvKept DEF TypeInv, user, UserInv
<1>2. ServerInv'
  BY ServerInvKept DEF TypeInv, user, ServerInv
<1> QED BY <1>1, <1>2 DEF TypeInv

\* The rows a run selects are versions of the server.
LEMMA SelectRowsTypes ==
  ASSUME TypeInv, NEW d \in Device, SelectRows(d)
  PROVE TypeInv'
<1> DEFINE rws == [u \in Entry |-> IF latest[u] # None /\ latest[u].seq > memory[d].lastSeq
                                    THEN latest[u] ELSE None]
           r == [run[d] EXCEPT !.rows = rws]
<1>1. run' = [run EXCEPT ![d] = r] /\ pc' = [pc EXCEPT ![d] = "current"]
  BY DEF SelectRows, Goto
<1>2. run[d] \in Run /\ RunAt(run[d], "rows")
  BY RunParts DEF SelectRows
<1>3. rws \in [Entry -> Store!Version \cup {None}]
  BY DEF TypeInv, ServerInv
<1>4. \A u \in Entry : rws[u] # None =>
        TimedContent(rws[u].content) /\ Known(u, rws[u].content)
  BY DEF TypeInv, ServerInv
<1> HIDE DEF rws
<1>5. r \in Run /\ r.rows = rws /\ r.out = run[d].out
  BY <1>2, <1>3 DEF Run
<1> HIDE DEF r
<1>6. RunAt(r, "current")
  BY <1>2, <1>4, <1>5 DEF RunAt
<1>7. RunInv'
  BY <1>1, <1>6, OneRunTypes DEF SelectRows, TypeInv, RunInv, Steps, user
<1> QED BY <1>7, QuietTypes DEF SelectRows, server, history

\* The second read gives the number the run will have seen.
LEMMA SelectCurrentSeqTypes ==
  ASSUME TypeInv, NEW d \in Device, SelectCurrentSeq(d)
  PROVE TypeInv'
<1> DEFINE r == [run[d] EXCEPT !.newSeq = seq]
           s == IF run[d].rows = NoRows THEN AfterPull(d) ELSE "merge"
<1>1. run' = [run EXCEPT ![d] = r] /\ pc' = [pc EXCEPT ![d] = s]
  BY DEF SelectCurrentSeq, Goto
<1>2. run[d] \in Run /\ RunAt(run[d], "current") /\ seq \in Nat
  BY RunParts DEF SelectCurrentSeq, TypeInv, ServerInv
<1>3. r \in Run /\ r.rows = run[d].rows /\ r.out = run[d].out
  BY <1>2 DEF Run
<1>4. s \in Steps /\ s \notin {"idle", "rows", "push"}
  BY DEF Steps, AfterPull
<1> HIDE DEF r, s
<1>5. RunAt(r, s)
  BY <1>2, <1>3, <1>4 DEF RunAt
<1>6. RunInv'
  BY <1>1, <1>4, <1>5, OneRunTypes DEF SelectCurrentSeq, TypeInv, RunInv, user
<1> QED BY <1>6, QuietTypes DEF SelectCurrentSeq, server, history

\* A merge puts what it pulled into the file.
LEMMA pullChangesTypes ==
  ASSUME TypeInv, NEW d \in Device, pullChanges(d)
  PROVE TypeInv'
<1> DEFINE row == run[d].rows
           merged == [u \in Entry |-> IF row[u] = None THEN file[d][u]
                                      ELSE Merge(file[d][u], row[u].content)]
           numbers == [u \in Entry |-> IF row[u] = None THEN seen[d][u] ELSE row[u].seq]
<1>1. /\ file' = [file EXCEPT ![d] = merged] /\ seen' = [seen EXCEPT ![d] = numbers]
      /\ pc' = [pc EXCEPT ![d] = AfterPull(d)]
      /\ memory' = [memory EXCEPT ![d] = Recorded(d, run[d].newSeq)]
      /\ stamps' = [stamps EXCEPT ![d] = {}]
      /\ UNCHANGED <<seq, latest, clock, changed, newest, disk, run, faults, uploaded>>
  BY DEF pullChanges, Goto, server, history, user
<1>2. \A u \in Entry : row[u] # None =>
        /\ row[u].content \in Content /\ row[u].seq \in Nat
        /\ TimedContent(row[u].content) /\ Known(u, row[u].content)
  BY RunParts DEF RunAt, Store!Version
<1>3. \A u \in Entry : TimedObject(file[d][u]) /\ (Present(d, u) => newest[u] \in Last)
  BY DEF TypeInv, UserInv
<1> HIDE DEF row
<1>4. \A u \in Entry : TimedObject(merged[u])
  BY <1>2, <1>3, MergeTypes
<1>5. \A u \in Entry : merged[u].entry # None => newest[u] \in Last
  <2>1. SUFFICES ASSUME NEW u \in Entry, row[u] # None, row[u].content.deleted,
                        Merge(file[d][u], row[u].content).entry # None
        PROVE Present(d, u)
    BY <1>2, <1>3 DEF Known, Present
  <2>2. row[u].content \in Content
    BY <1>2, <2>1
  <2> QED BY <2>1 DEF Merge, MergeDeletion, Present
<1>6. merged \in [Entry -> Object]
  BY <1>4 DEF TimedObject
<1>7. numbers \in [Entry -> Nat]
  BY <1>2 DEF TypeInv, ServerInv
<1> HIDE DEF merged, numbers
<1>8. UserInv'
  <2>1. file' \in [Device -> [Entry -> Object]]
    BY <1>1, <1>6 DEF TypeInv, UserInv
  <2>2. \A e \in Device, u \in Entry :
          file'[e][u] = IF e = d THEN merged[u] ELSE file[e][u]
    BY <1>1, <1>6 DEF TypeInv, UserInv
  <2> QED BY <1>1, <1>4, <1>5, <2>1, <2>2 DEF TypeInv, UserInv, Present
<1>9. ServerInv'
  BY <1>1, <1>7, ServerInvKept DEF TypeInv, ServerInv
<1>10. RunInv'
  <2>1. AfterPull(d) \in Steps /\ AfterPull(d) \notin {"idle", "rows", "push"}
    BY DEF AfterPull, Steps
  <2>2. RunAt(run[d], AfterPull(d))
    BY <2>1, RunParts DEF pullChanges, RunAt
  <2>3. run' = [run EXCEPT ![d] = run[d]]
    BY <1>1 DEF TypeInv, RunInv
  <2>4. memory' \in [Device -> Binding]
    BY <1>1, RecordedTypes, RunParts DEF TypeInv, RunInv
  <2>5. stamps' \in [Device -> SUBSET {"before", "pushed"}]
    BY <1>1 DEF TypeInv, RunInv
  <2> QED BY <1>1, <2>1, <2>2, <2>3, <2>4, <2>5, OneRunTypes DEF TypeInv, RunInv
<1> QED BY <1>8, <1>9, <1>10 DEF TypeInv

\* The ways a run ends: saved, returned, or with what an error leaves.
LEMMA ReturnTypes ==
  ASSUME TypeInv, NEW d \in Device, NEW b \in Binding, Return(d, b), UNCHANGED newest,
         UNCHANGED disk, stamps' \in [Device -> SUBSET {"before", "pushed"}], faults' \in Nat
  PROVE RunInv'
<1> DEFINE c == IF d \in Daemon THEN b ELSE disk[d]
<1>1. c \in Binding
  BY RunParts
<1>2. End(d, c)
  BY DEF Return
<1> HIDE DEF c
<1> QED BY <1>1, <1>2, EndTypes

LEMMA SaveTypes ==
  ASSUME TypeInv, NEW d \in Device, NEW b \in Binding, Save(d, b), UNCHANGED newest,
         stamps' \in [Device -> SUBSET {"before", "pushed"}], faults' \in Nat
  PROVE RunInv'
BY EndTypes DEF Save

LEMMA PushErrorTypes ==
  ASSUME TypeInv, NEW d \in Device, PushError(d), UNCHANGED newest, faults' \in Nat
  PROVE RunInv'
<1>1. stamps' \in [Device -> SUBSET {"before", "pushed"}]
  BY DEF PushError, TypeInv, RunInv
<1>2. CASE d \in Daemon
  BY <1>1, <1>2, CursorTypes, SaveTypes DEF PushError
<1>3. CASE d \notin Daemon
  BY <1>1, <1>3, RunParts, ReturnTypes DEF PushError
<1> QED BY <1>2, <1>3

LEMMA FaultTypes == TypeInv /\ Fault => faults' \in Nat
BY DEF Fault, TypeInv, RunInv

\* The daemon skips a push, or notes the stamp and goes on.
LEMMA doSyncTypes ==
  ASSUME TypeInv, NEW d \in Device, doSync(d)
  PROVE TypeInv'
<1>1. UNCHANGED <<newest, faults>> /\ faults \in Nat
  BY DEF doSync, user, TypeInv, RunInv
<1>2. CASE Unchanged(d)
  <2>1. stamps' \in [Device -> SUBSET {"before", "pushed"}]
    BY <1>2 DEF doSync, TypeInv, RunInv
  <2>2. CASE run[d].newSeq # memory[d].lastSeq
    <3>1. Save(d, [memory[d] EXCEPT !.lastSeq = run[d].newSeq])
      BY <1>2, <2>2 DEF doSync
    <3>2. RunInv'
      BY <1>1, <2>1, <3>1, CursorTypes, SaveTypes
    <3> QED BY <3>2, QuietTypes DEF doSync, server, history
  <2>3. CASE run[d].newSeq = memory[d].lastSeq
    <3>1. Return(d, memory[d]) /\ UNCHANGED disk
      BY <1>2, <2>3 DEF doSync
    <3>2. RunInv'
      BY <1>1, <2>1, <3>1, RunParts, ReturnTypes
    <3> QED BY <3>2, QuietTypes DEF doSync, server, history
  <2> QED BY <2>2, <2>3
<1>3. CASE ~Unchanged(d)
  <2>1. /\ pc' = [pc EXCEPT ![d] = "export"]
        /\ stamps' = [stamps EXCEPT ![d] = @ \cup {"before"}]
        /\ UNCHANGED <<disk, memory, run>>
    BY <1>3 DEF doSync, Goto
  <2>2. run' = [run EXCEPT ![d] = run[d]] /\ RunAt(run[d], "export")
    BY <2>1, RunParts DEF TypeInv, RunInv, RunAt, doSync
  <2>3. RunInv'
    BY <1>1, <2>1, <2>2, OneRunTypes DEF TypeInv, RunInv, Steps
  <2> QED BY <2>3, QuietTypes DEF doSync, server, history
<1> QED BY <1>2, <1>3

\* What is pushed is what the export told.
LEMMA ExportStepTypes ==
  ASSUME TypeInv, NEW d \in Device, Export(d)
  PROVE TypeInv'
<1> DEFINE ops == ToPush(d, run[d].command = "force")
           r == [run[d] EXCEPT !.out = ops]
<1>1. run' = [run EXCEPT ![d] = r] /\ pc' = [pc EXCEPT ![d] = "push"]
  BY DEF Export, Goto
<1>2. run[d] \in Run /\ RunAt(run[d], "export")
  BY RunParts DEF Export
<1>3. \A op \in ops : \E u \in Entry :
        /\ Exported(file[d][u]) # None
        /\ op = [uuid |-> u, content |-> Exported(file[d][u]).content,
                 trigger |-> Exported(file[d][u]).trigger]
  BY DEF ToPush
<1>4. ASSUME NEW op \in ops
      PROVE op \in Op /\ TimedContent(op.content) /\ Known(op.uuid, op.content)
  <2>1. PICK u \in Entry :
          /\ Exported(file[d][u]) # None
          /\ op = [uuid |-> u, content |-> Exported(file[d][u]).content,
                   trigger |-> Exported(file[d][u]).trigger]
    BY <1>3
  <2> DEFINE x == Exported(file[d][u])
  <2>2. TimedObject(file[d][u]) /\ (Present(d, u) => newest[u] \in Last)
    BY DEF TypeInv, UserInv
  <2>3. x.content \in Content /\ x.trigger \in Nat \ {0} /\ TimedContent(x.content)
    BY <2>1, <2>2, ExportTypes
  <2>4. Present(d, u) \/ x.content.deleted
    BY <2>1 DEF Exported, Tombstone, Present
  <2> HIDE DEF x
  <2>5. op = [uuid |-> u, content |-> x.content, trigger |-> x.trigger]
    BY <2>1 DEF x
  <2> QED BY <2>2, <2>3, <2>4, <2>5 DEF Op, Known
<1> HIDE DEF ops
<1>5. r \in Run /\ r.rows = run[d].rows /\ r.out = ops
  <2>1. ops \in SUBSET Op
    BY <1>4
  <2> QED BY <1>2, <2>1 DEF Run
<1> HIDE DEF r
<1>6. RunAt(r, "push")
  BY <1>2, <1>4, <1>5 DEF RunAt
<1>7. RunInv'
  BY <1>1, <1>6, OneRunTypes DEF Export, TypeInv, RunInv, Steps, user
<1> QED BY <1>7, QuietTypes DEF Export, server, history

\* A write of the server.
LEMMA PutTypes ==
  ASSUME TypeInv, NEW d \in Device, NEW op \in run[d].out, Put(d, op)
  PROVE UserInv' /\ ServerInv' /\ op \in Op
<1>1. /\ op.uuid \in Entry /\ op.content \in Content /\ op \in Op
      /\ TimedContent(op.content) /\ Known(op.uuid, op.content)
  BY RunParts DEF RunAt, TypeInv, RunInv, Run
<1> DEFINE v == [uuid |-> op.uuid, content |-> op.content, seq |-> seq + 1]
<1>2. /\ seq' = seq + 1 /\ latest' = [latest EXCEPT ![op.uuid] = v]
      /\ seen' = [seen EXCEPT ![d] = [seen[d] EXCEPT ![op.uuid] = seq + 1]]
      /\ uploaded' = [uploaded EXCEPT ![op.uuid] = uploaded[op.uuid] \cup {Upload(op)}]
      /\ UNCHANGED <<clock, changed, newest, file>>
  BY DEF Put, Store!Write, user
<1>3. v \in Store!Version /\ v.content = op.content /\ seq \in Nat
  BY <1>1 DEF Store!Version, TypeInv, ServerInv
<1>4. UserInv'
  BY <1>2, UserInvKept DEF TypeInv, UserInv
<1> HIDE DEF v
<1>5. latest' \in [Entry -> Store!Version \cup {None}]
  BY <1>1, <1>2, <1>3 DEF TypeInv, ServerInv
<1>6. \A u \in Entry : latest'[u] # None =>
        TimedContent(latest'[u].content) /\ Known(u, latest'[u].content)
  BY <1>1, <1>2, <1>3 DEF TypeInv, ServerInv
<1>7. seen' \in [Device -> [Entry -> Nat]]
  BY <1>1, <1>2, <1>3 DEF TypeInv, ServerInv
<1>8. uploaded' \in [Entry -> SUBSET [data : Nat, mod : Nat]]
  <2>1. Upload(op) \in [data : Nat, mod : Nat]
    BY <1>1 DEF Upload, Content
  <2> QED BY <1>1, <1>2, <2>1 DEF TypeInv, ServerInv
<1>9. ServerInv'
  BY <1>2, <1>3, <1>5, <1>6, <1>7, <1>8 DEF ServerInv, Known
<1> QED BY <1>1, <1>4, <1>9

\* A push that is answered.
LEMMA pushChangesTypes ==
  ASSUME TypeInv, NEW d \in Device, NEW op \in run[d].out, pushChanges(d, op)
  PROVE TypeInv'
<1>1. UserInv' /\ ServerInv' /\ op \in Op
  BY PutTypes DEF pushChanges
<1> DEFINE r == [run[d] EXCEPT !.maxSeq = seq + 1, !.out = @ \ {op}]
           b == [memory[d] EXCEPT !.states = RecordEntryState(@, op)]
<1>2. /\ run' = [run EXCEPT ![d] = r] /\ memory' = [memory EXCEPT ![d] = b]
      /\ UNCHANGED <<disk, pc, stamps, faults, newest>>
  BY DEF pushChanges, Put, user
<1>3. run[d] \in Run /\ RunAt(run[d], "push") /\ pc[d] = "push" /\ seq \in Nat
  BY RunParts DEF pushChanges, Put, TypeInv, ServerInv
<1>4. r \in Run /\ r.rows = run[d].rows /\ r.out = run[d].out \ {op}
  <2> DEFINE x == run[d]
             out == x.out \ {op}
             n == seq + 1
  <2>1. x \in Run
    BY <1>3
  <2>2. out \in SUBSET Op /\ n \in Nat
    BY <1>3 DEF Run
  <2>3. r = [x EXCEPT !.maxSeq = n, !.out = out]
    OBVIOUS
  <2> HIDE DEF x, out, n, r
  <2>4. r \in Run /\ r.rows = x.rows /\ r.out = out
    BY <2>1, <2>2, <2>3 DEF Run
  <2> QED BY <2>4 DEF x, out
<1>5. b \in Binding
  <2> DEFINE m == memory[d]
             states == [m.states EXCEPT ![op.uuid] = op.trigger]
  <2>1. b = [m EXCEPT !.states = states]
    BY DEF RecordEntryState
  <2>2. m \in Binding
    BY RunParts
  <2> HIDE DEF m, b
  <2>3. states \in [Entry -> Nat]
    BY <1>1, <2>2 DEF Binding, Op
  <2> HIDE DEF states
  <2> QED BY <2>1, <2>2, <2>3 DEF Binding
<1> HIDE DEF r, b
<1>6. RunAt(r, "push")
  BY <1>3, <1>4 DEF RunAt
<1>7. RunInv'
  <2>1. pc' = [pc EXCEPT ![d] = "push"]
    BY <1>2, <1>3 DEF TypeInv, RunInv
  <2> QED BY <1>2, <1>5, <1>6, <2>1, OneRunTypes DEF TypeInv, RunInv, Steps
<1> QED BY <1>1, <1>7 DEF TypeInv

\* The end of a run that got through.
LEMMA FinishTypes ==
  ASSUME TypeInv, NEW d \in Device, Finish(d)
  PROVE TypeInv'
<1>1. stamps' \in [Device -> SUBSET {"before", "pushed"}] /\ faults' \in Nat /\ UNCHANGED newest
  BY DEF Finish, TypeInv, RunInv, user
<1>2. RunInv'
  BY <1>1, CursorTypes, SaveTypes DEF Finish
<1> QED BY <1>2, QuietTypes DEF Finish, server, history

\* Faults keep types.
LEMMA FaultStepTypes ==
  ASSUME TypeInv, NEW d \in Device, FaultStep(d)
  PROVE TypeInv'
<1>1. CASE PullFails(d)
  <2>1. PICK n \in 0 .. run[d].newSeq : Return(d, Recorded(d, n))
    BY <1>1 DEF PullFails
  <2>2. n \in Nat
    BY RunParts
  <2>3. stamps' \in [Device -> SUBSET {"before", "pushed"}] /\ faults' \in Nat
        /\ UNCHANGED <<newest, disk>>
    BY <1>1, FaultTypes DEF PullFails, TypeInv, RunInv, user
  <2>4. RunInv'
    BY <2>1, <2>2, <2>3, RecordedTypes, ReturnTypes
  <2> QED BY <1>1, <2>4, QuietTypes DEF PullFails, server
<1>2. CASE PushFails(d)
  <2>1. RunInv'
    BY <1>2, FaultTypes, PushErrorTypes DEF PushFails, user
  <2> QED BY <1>2, <2>1, QuietTypes DEF PushFails, server, history
<1>3. ASSUME NEW op \in run[d].out, AnswerLost(d, op) PROVE TypeInv'
  <2>1. RunInv'
    BY <1>3, FaultTypes, PushErrorTypes DEF AnswerLost, Put, user
  <2>2. UserInv' /\ ServerInv'
    BY <1>3, PutTypes DEF AnswerLost
  <2> QED BY <2>1, <2>2 DEF TypeInv
<1>4. CASE SaveFails(d)
  <2>1. stamps' \in [Device -> SUBSET {"before", "pushed"}] /\ faults' \in Nat
        /\ UNCHANGED <<newest, disk>>
    BY <1>4, FaultTypes DEF SaveFails, TypeInv, RunInv, user
  <2>2. RunInv'
    BY <1>4, <2>1, CursorTypes, ReturnTypes DEF SaveFails
  <2> QED BY <1>4, <2>2, QuietTypes DEF SaveFails, server, history
<1>5. CASE Crash(d)
  <2>1. End(d, disk[d]) /\ UNCHANGED <<newest, disk>>
    BY <1>5 DEF Crash, End, user
  <2>2. stamps' \in [Device -> SUBSET {"before", "pushed"}] /\ faults' \in Nat
    BY <1>5, FaultTypes DEF Crash, TypeInv, RunInv
  <2>3. RunInv'
    BY <2>1, <2>2, RunParts, EndTypes
  <2> QED BY <1>5, <2>3, QuietTypes DEF Crash, server, history
<1> QED BY <1>1, <1>2, <1>3, <1>4, <1>5 DEF FaultStep

\* Every step keeps types.
LEMMA TypeInvStep == TypeInv /\ [Next]_vars => TypeInv'
<1> SUFFICES ASSUME TypeInv, [Next]_vars PROVE TypeInv'
  OBVIOUS
<1>1. CASE UNCHANGED vars
  <2>1. RunInv'
    BY <1>1 DEF vars, TypeInv, RunInv, RunAt, Known
  <2> QED BY <1>1, <2>1, QuietTypes DEF vars, user
<1>2. ASSUME NEW d \in Device, RunStep(d) PROVE TypeInv'
  BY <1>2, StartTypes, SelectRowsTypes, SelectCurrentSeqTypes, pullChangesTypes, doSyncTypes,
     ExportStepTypes, pushChangesTypes, FinishTypes
  DEF RunStep
<1> QED BY <1>1, <1>2, UserTypes, FaultStepTypes DEF Next

\* TypeInv holds in every behaviour.
LEMMA TypeInvHolds == Spec => []TypeInv
BY TypeInvInit, TypeInvStep, PTL DEF Spec

\* Only a failed pull leaves something unmerged.
LEMMA UnmergedHolds == Spec => []UnmergedInv
<1>1. Init => UnmergedInv
  BY DEF Init, UnmergedInv
<1>2. UnmergedInv /\ [Next]_vars => UnmergedInv'
  <2> SUFFICES ASSUME UnmergedInv, [Next]_vars PROVE UnmergedInv'
    OBVIOUS
  <2>1. CASE UNCHANGED vars
    BY <2>1 DEF vars, UnmergedInv
  <2>2. ASSUME NEW d \in Device, UserStep(d) PROVE UNCHANGED unmerged
    BY <2>2, UserLeaves DEF history
  <2>3. ASSUME NEW d \in Device, RunStep(d) PROVE UNCHANGED unmerged
    BY <2>3 DEF RunStep, Start, SelectRows, SelectCurrentSeq, pullChanges, doSync, Export,
                pushChanges, Put, Finish, history
  <2>4. ASSUME NEW d \in Device, PullFails(d) PROVE UnmergedInv'
    BY <2>4 DEF PullFails, UnmergedInv
  <2>5. ASSUME NEW d \in Device, FaultStep(d), ~PullFails(d) PROVE UNCHANGED unmerged
    BY <2>5 DEF FaultStep, PushFails, AnswerLost, Put, SaveFails, Crash, history
  <2> QED BY <2>1, <2>2, <2>3, <2>4, <2>5 DEF Next, UnmergedInv
<1> QED BY <1>1, <1>2, PTL DEF Spec

\* Every file, binding, run and version is well typed, and a run carries exactly what
\* its step works on.
THEOREM TypeCorrect == Spec => []TypeOK
BY TypeInvHolds, UnmergedHolds, TypeInvTypes, PTL

-----------------------------------------------------------------------------
(* What last_seq covers, when runs exclude each other and no device pushes    *)
(* without pulling first.                                                    *)

TakeTurns == ~Overlap /\ Commands \subseteq {"sync", "pull"}

\* Device d has merged or written all versions up to number n.
Covers(d, n) ==
  \A u \in Entry : latest[u] # None /\ latest[u].seq <= n => seen[d][u] >= latest[u].seq

\* The rows are what the server has above binding b's number.
RowsAreNews(rows, b) ==
  \A u \in Entry :
    /\ latest[u] # None /\ latest[u].seq > b.lastSeq => rows[u] = latest[u]
    /\ rows[u] # None => rows[u] = latest[u]

\* No number is ahead of the server's.
NumbersBounded ==
  /\ \A u \in Entry : latest[u] # None => latest[u].seq <= seq
  /\ \A d \in Device : /\ disk[d].lastSeq <= seq /\ memory[d].lastSeq <= seq
                       /\ run[d].newSeq <= seq /\ run[d].maxSeq <= seq

OneRun == \A d, e \in Device : pc[d] # "idle" /\ pc[e] # "idle" => d = e

\* What the run of d knows at step s with binding b.
Knows(d, s, rows, b) ==
  /\ s \in {"current", "merge"} => RowsAreNews(rows, b)
  /\ s \in {"stamp", "export", "push", "save"} => Covers(d, seq)

\* The binding in memory is what the next one on disk is made of, and what a pull makes
\* of it depends on what the rows were: SeenUpToCursor alone says neither.
CursorInv ==
  /\ NumbersBounded /\ OneRun
  /\ \A d \in Device : /\ Covers(d, disk[d].lastSeq)
                       /\ Covers(d, memory[d].lastSeq)
                       /\ Knows(d, pc[d], run[d].rows, memory[d])

LEMMA CursorInvInit == Init => CursorInv
<1> SUFFICES ASSUME Init PROVE CursorInv
  OBVIOUS
<1>1. \A u \in Entry : latest[u] = None
  BY DEF Init, Store!Init
<1>2. seq = 0
  BY DEF Init, Store!Init
<1>3. \A d \in Device : /\ disk[d].lastSeq = 0 /\ memory[d].lastSeq = 0 /\ pc[d] = "idle"
                        /\ run[d].newSeq = 0 /\ run[d].maxSeq = 0
  BY DEF Init, NoRun
<1> QED BY <1>1, <1>2, <1>3 DEF CursorInv, NumbersBounded, OneRun, Covers, Knows

\* A step of the only run, or to the end of one, that leaves the server and what was
\* seen alone.
LEMMA OneRunCursor ==
  ASSUME TypeInv, CursorInv, NEW d \in Device, NEW s \in Steps,
         s = "idle" \/ \A e \in Device : e # d => pc[e] = "idle",
         NEW r \in Run, NEW b \in Binding,
         UNCHANGED <<seq, latest, seen>>,
         pc' = [pc EXCEPT ![d] = s], run' = [run EXCEPT ![d] = r],
         memory' = [memory EXCEPT ![d] = b],
         disk' = disk \/ disk' = [disk EXCEPT ![d] = b],
         b.lastSeq <= seq, Covers(d, b.lastSeq), r.newSeq <= seq, r.maxSeq <= seq,
         Knows(d, s, r.rows, b)
  PROVE CursorInv'
<1>1. \A e \in Device : /\ pc'[e] = IF e = d THEN s ELSE pc[e]
                        /\ run'[e] = IF e = d THEN r ELSE run[e]
                        /\ memory'[e] = IF e = d THEN b ELSE memory[e]
                        /\ (disk'[e] = disk[e] \/ (e = d /\ disk'[e] = b))
  <2>1. /\ pc \in [Device -> Steps] /\ run \in [Device -> Run]
        /\ memory \in [Device -> Binding] /\ disk \in [Device -> Binding]
    BY DEF TypeInv, RunInv
  <2>2. \A e \in Device : (disk'[e] = disk[e] \/ (e = d /\ disk'[e] = b))
    BY <2>1
  <2> QED BY <2>1, <2>2
<1>2. NumbersBounded'
  BY <1>1 DEF CursorInv, NumbersBounded
<1>3. OneRun'
  BY <1>1 DEF OneRun, CursorInv
<1>c. ASSUME NEW e \in Device, NEW n, Covers(e, n)
      PROVE \A u \in Entry : latest'[u] # None /\ latest'[u].seq <= n =>
              seen'[e][u] >= latest'[u].seq
  BY <1>c DEF Covers
<1>4. \A e \in Device : Covers(e, disk[e].lastSeq)'
  <2>1. ASSUME NEW e \in Device PROVE Covers(e, disk'[e].lastSeq)
    BY <1>1 DEF CursorInv
  <2> QED BY <1>c, <2>1 DEF Covers
<1>5. \A e \in Device : Covers(e, memory[e].lastSeq)'
  <2>1. ASSUME NEW e \in Device PROVE Covers(e, memory'[e].lastSeq)
    BY <1>1 DEF CursorInv
  <2> QED BY <1>c, <2>1 DEF Covers
<1>6. \A e \in Device : Knows(e, pc[e], run[e].rows, memory[e])'
  <2>1. ASSUME NEW e \in Device PROVE Knows(e, pc'[e], run'[e].rows, memory'[e])
    BY <1>1 DEF CursorInv
  <2> QED BY <2>1 DEF Knows, RowsAreNews, Covers
<1> QED BY <1>2, <1>3, <1>4, <1>5, <1>6 DEF CursorInv

\* While a device runs, the others do not.
LEMMA OthersIdle ==
  ASSUME CursorInv, NEW d \in Device, pc[d] # "idle"
  PROVE \A e \in Device : e # d => pc[e] = "idle"
BY DEF CursorInv, OneRun

\* A run that ends leaves a binding that covers no more than was seen.
LEMMA EndCursor ==
  ASSUME TypeInv, CursorInv, NEW d \in Device, NEW b \in Binding, End(d, b),
         UNCHANGED <<seq, latest, seen>>, disk' = disk \/ disk' = [disk EXCEPT ![d] = b],
         b.lastSeq <= seq, Covers(d, b.lastSeq)
  PROVE CursorInv'
<1>1. NoRun \in Run /\ NoRun.newSeq = 0 /\ NoRun.maxSeq = 0
  BY NoRunAt DEF NoRun, RunAt, Steps
<1>2. seq \in Nat
  BY DEF TypeInv, ServerInv
<1>3. Knows(d, "idle", NoRun.rows, b)
  BY DEF Knows
<1>4. /\ pc' = [pc EXCEPT ![d] = "idle"] /\ run' = [run EXCEPT ![d] = NoRun]
      /\ memory' = [memory EXCEPT ![d] = b]
  BY DEF End, Goto
<1>5. "idle" \in Steps /\ NoRun.newSeq <= seq /\ NoRun.maxSeq <= seq
  BY <1>1, <1>2 DEF Steps
<1> HIDE DEF NoRun
<1> QED BY <1>1, <1>3, <1>4, <1>5, OneRunCursor

LEMMA ReturnCursor ==
  ASSUME TypeInv, CursorInv, NEW d \in Device, NEW b \in Binding, Return(d, b),
         UNCHANGED <<seq, latest, seen, disk>>,
         b.lastSeq <= seq, Covers(d, b.lastSeq)
  PROVE CursorInv'
<1> DEFINE c == IF d \in Daemon THEN b ELSE disk[d]
<1>1. c \in Binding /\ c.lastSeq <= seq /\ Covers(d, c.lastSeq)
  BY RunParts DEF CursorInv, NumbersBounded
<1>2. End(d, c)
  BY DEF Return
<1> HIDE DEF c
<1> QED BY <1>1, <1>2, EndCursor

\* The cursor of a run that has pulled everything.
LEMMA CursorCovered ==
  ASSUME TypeInv, CursorInv, NEW d \in Device, Covers(d, seq)
  PROVE /\ Cursor(d) <= seq /\ Covers(d, Cursor(d))
        /\ run[d].newSeq <= seq /\ Covers(d, run[d].newSeq)
<1>1. Cursor(d) <= seq /\ run[d].newSeq <= seq /\ Cursor(d) \in Nat /\ run[d].newSeq \in Nat
  <2>1. run[d].newSeq \in Nat /\ run[d].maxSeq \in Nat
    BY RunParts
  <2>2. run[d].newSeq <= seq /\ run[d].maxSeq <= seq
    BY DEF CursorInv, NumbersBounded
  <2> QED BY <2>1, <2>2 DEF Cursor, laterTime
<1>2. \A u \in Entry : latest[u] # None => latest[u].seq \in Nat /\ latest[u].seq <= seq
  BY DEF TypeInv, ServerInv, Store!Version, CursorInv, NumbersBounded
<1> QED BY <1>1, <1>2 DEF Covers

\* A run begins when no other goes on.
LEMMA StartCursor ==
  ASSUME TakeTurns, TypeInv, CursorInv, NEW d \in Device, NEW c \in Command, Start(d, c)
  PROVE CursorInv'
<1> DEFINE r == [run[d] EXCEPT !.command = c, !.newSeq = memory[d].lastSeq]
<1>1. c \notin {"push", "force"} /\ \A e \in Device : pc[e] = "idle"
  BY DEF Start, TakeTurns
<1>2. run' = [run EXCEPT ![d] = r] /\ pc' = [pc EXCEPT ![d] = "rows"]
  BY <1>1 DEF Start, Goto
<1>3. run[d] \in Run /\ memory[d].lastSeq \in Nat /\ memory[d] \in Binding
  BY RunParts DEF Binding
<1>4. r \in Run /\ r.newSeq = memory[d].lastSeq /\ r.maxSeq = run[d].maxSeq
  BY <1>3 DEF Run
<1> HIDE DEF r
<1>5. memory' = [memory EXCEPT ![d] = memory[d]] /\ UNCHANGED <<seq, latest, seen, disk>>
  BY DEF Start, server, history, TypeInv, RunInv
<1>6. Knows(d, "rows", r.rows, memory[d])
  BY DEF Knows
<1>7. memory[d].lastSeq <= seq /\ Covers(d, memory[d].lastSeq) /\ run[d].maxSeq <= seq
  BY DEF CursorInv, NumbersBounded
<1> QED BY <1>1, <1>2, <1>3, <1>4, <1>5, <1>6, <1>7, OneRunCursor DEF Steps

\* The rows selected are the news, and stay so while the others wait.
LEMMA SelectRowsCursor ==
  ASSUME TypeInv, CursorInv, NEW d \in Device, SelectRows(d)
  PROVE CursorInv'
<1> DEFINE rws == [u \in Entry |-> IF latest[u] # None /\ latest[u].seq > memory[d].lastSeq
                                    THEN latest[u] ELSE None]
           r == [run[d] EXCEPT !.rows = rws]
           b == memory[d]
<1>1. /\ run' = [run EXCEPT ![d] = r] /\ pc' = [pc EXCEPT ![d] = "current"]
      /\ memory' = [memory EXCEPT ![d] = b] /\ UNCHANGED <<seq, latest, seen, disk>>
  BY DEF SelectRows, Goto, server, history, TypeInv, RunInv
<1>2. \A e \in Device : e # d => pc[e] = "idle"
  BY OthersIdle DEF SelectRows
<1>3. rws \in [Entry -> Store!Version \cup {None}]
  BY DEF TypeInv, ServerInv
<1>4. RowsAreNews(rws, b)
  BY DEF RowsAreNews
<1> HIDE DEF rws
<1>5. r \in Run /\ r.rows = rws /\ r.newSeq = run[d].newSeq /\ r.maxSeq = run[d].maxSeq
  BY <1>3, RunParts DEF Run
<1>6. /\ b \in Binding /\ b.lastSeq <= seq /\ Covers(d, b.lastSeq)
      /\ r.newSeq <= seq /\ r.maxSeq <= seq
  BY <1>5, RunParts DEF CursorInv, NumbersBounded
<1> HIDE DEF r, b
<1>7. Knows(d, "current", r.rows, b)
  BY <1>4, <1>5 DEF Knows
<1> QED BY <1>1, <1>2, <1>5, <1>6, <1>7, OneRunCursor DEF Steps

\* With no news everything was seen; otherwise the rows wait for the merge.
LEMMA SelectCurrentSeqCursor ==
  ASSUME TypeInv, CursorInv, NEW d \in Device, SelectCurrentSeq(d)
  PROVE CursorInv'
<1> DEFINE r == [run[d] EXCEPT !.newSeq = seq]
           s == IF run[d].rows = NoRows THEN AfterPull(d) ELSE "merge"
           b == memory[d]
<1>1. /\ run' = [run EXCEPT ![d] = r] /\ pc' = [pc EXCEPT ![d] = s]
      /\ memory' = [memory EXCEPT ![d] = b] /\ UNCHANGED <<seq, latest, seen, disk>>
  BY DEF SelectCurrentSeq, Goto, server, history, TypeInv, RunInv
<1>2. \A e \in Device : e # d => pc[e] = "idle"
  BY OthersIdle DEF SelectCurrentSeq
<1>3. seq \in Nat /\ \A u \in Entry : latest[u] # None => latest[u].seq \in Nat
  BY DEF TypeInv, ServerInv, Store!Version
<1>4. r \in Run /\ r.rows = run[d].rows /\ r.newSeq = seq /\ r.maxSeq = run[d].maxSeq
  BY <1>3, RunParts DEF Run
<1>5. /\ b \in Binding /\ b.lastSeq <= seq /\ Covers(d, b.lastSeq) /\ b.lastSeq \in Nat
      /\ r.newSeq <= seq /\ r.maxSeq <= seq
  BY <1>3, <1>4, RunParts DEF CursorInv, NumbersBounded, Binding
<1>6. RowsAreNews(run[d].rows, b)
  BY DEF CursorInv, Knows, SelectCurrentSeq
<1>7. s \in Steps /\ s # "current"
  BY DEF Steps, AfterPull
<1>8. Knows(d, s, r.rows, b)
  <2>1. CASE run[d].rows = NoRows
    <3>1. \A u \in Entry : latest[u] # None => latest[u].seq <= b.lastSeq
      BY <1>3, <1>5, <1>6, <2>1 DEF RowsAreNews, NoRows
    <3>2. Covers(d, seq)
      BY <1>5, <3>1 DEF Covers
    <3>3. s # "merge"
      BY <2>1 DEF AfterPull
    <3> QED BY <1>7, <3>2, <3>3 DEF Knows
  <2>2. CASE run[d].rows # NoRows
    BY <1>4, <1>6, <2>2 DEF Knows
  <2> QED BY <2>1, <2>2
<1> HIDE DEF r, s, b
<1> QED BY <1>1, <1>2, <1>4, <1>5, <1>7, <1>8, OneRunCursor

\* After the merge the device has seen what the server has.
LEMMA pullChangesCursor ==
  ASSUME TypeInv, CursorInv, NEW d \in Device, pullChanges(d)
  PROVE CursorInv'
<1> DEFINE row == run[d].rows
           numbers == [u \in Entry |-> IF row[u] = None THEN seen[d][u] ELSE row[u].seq]
           b == Recorded(d, run[d].newSeq)
<1>1. /\ seen' = [seen EXCEPT ![d] = numbers] /\ pc' = [pc EXCEPT ![d] = AfterPull(d)]
      /\ memory' = [memory EXCEPT ![d] = b] /\ UNCHANGED <<seq, latest, disk, run>>
  BY DEF pullChanges, Goto, server, history
<1>2. \A e \in Device : e # d => pc[e] = "idle"
  BY OthersIdle DEF pullChanges
<1>3. /\ seq \in Nat /\ \A u \in Entry : latest[u] # None => latest[u].seq \in Nat
      /\ \A e \in Device, u \in Entry : seen[e][u] \in Nat
  BY DEF TypeInv, ServerInv, Store!Version
<1>4. RowsAreNews(row, memory[d])
  BY DEF CursorInv, Knows, pullChanges
<1>5. b.lastSeq = memory[d].lastSeq /\ memory[d].lastSeq \in Nat
  BY RecordedTypes, RunParts DEF Binding
<1>6. Covers(d, memory[d].lastSeq)
  BY DEF CursorInv
<1>7. AfterPull(d) \notin {"idle", "rows", "current", "merge"}
  BY DEF AfterPull
<1> HIDE DEF row, b
<1>8. \A u \in Entry : latest[u] # None => numbers[u] >= latest[u].seq
  BY <1>3, <1>4, <1>5, <1>6 DEF RowsAreNews, Covers
<1> HIDE DEF numbers
<1>9. \A e \in Device : /\ pc'[e] = IF e = d THEN AfterPull(d) ELSE "idle"
                        /\ memory'[e].lastSeq = memory[e].lastSeq
                        /\ seen'[e] = IF e = d THEN numbers ELSE seen[e]
  BY <1>1, <1>2, <1>5 DEF TypeInv, RunInv, ServerInv
<1>10. NumbersBounded'
  BY <1>1, <1>9 DEF CursorInv, NumbersBounded
<1>11. OneRun'
  BY <1>9 DEF OneRun
<1>12. ASSUME NEW e \in Device, NEW n, e = d \/ Covers(e, n)
       PROVE \A u \in Entry : latest'[u] # None /\ latest'[u].seq <= n =>
               seen'[e][u] >= latest'[u].seq
  BY <1>1, <1>8, <1>9, <1>12 DEF Covers
<1>13. \A e \in Device : Covers(e, disk[e].lastSeq)' /\ Covers(e, memory[e].lastSeq)'
  <2>1. \A e \in Device : Covers(e, disk'[e].lastSeq) /\ Covers(e, memory'[e].lastSeq)
    BY <1>1, <1>9 DEF CursorInv
  <2> QED BY <1>12, <2>1 DEF Covers
<1>14. \A e \in Device : Knows(e, pc[e], run[e].rows, memory[e])'
  <2>1. \A u \in Entry : latest'[u] # None /\ latest'[u].seq <= seq' =>
          seen'[d][u] >= latest'[u].seq
    BY <1>12
  <2>2. Covers(d, seq)'
    BY <2>1 DEF Covers
  <2> QED BY <1>7, <1>9, <2>2 DEF Knows
<1> QED BY <1>10, <1>11, <1>13, <1>14 DEF CursorInv

\* A step of a run that has pulled everything, to another such step.
LEMMA LateCursor ==
  ASSUME TypeInv, CursorInv, NEW d \in Device, pc[d] \in {"stamp", "export", "push", "save"},
         NEW s \in {"export", "push"}, NEW r \in Run,
         r.newSeq = run[d].newSeq, r.maxSeq = run[d].maxSeq,
         UNCHANGED <<seq, latest, seen, disk, memory>>,
         pc' = [pc EXCEPT ![d] = s], run' = [run EXCEPT ![d] = r]
  PROVE CursorInv'
<1>1. \A e \in Device : e # d => pc[e] = "idle"
  BY OthersIdle
<1>2. Covers(d, seq)
  BY DEF CursorInv, Knows
<1>3. memory' = [memory EXCEPT ![d] = memory[d]] /\ memory[d] \in Binding
  BY DEF TypeInv, RunInv
<1>4. /\ memory[d].lastSeq <= seq /\ Covers(d, memory[d].lastSeq)
      /\ r.newSeq <= seq /\ r.maxSeq <= seq
  BY DEF CursorInv, NumbersBounded
<1>5. Knows(d, s, r.rows, memory[d]) /\ s \in Steps
  BY <1>2 DEF Knows, Steps
<1> QED BY <1>1, <1>3, <1>4, <1>5, OneRunCursor

\* The end of a run that has pulled everything: what it saves is covered.
LEMMA LateEndCursor ==
  ASSUME TypeInv, CursorInv, NEW d \in Device, pc[d] \in {"stamp", "export", "push", "save"},
         UNCHANGED <<seq, latest, seen>>,
         \/ Save(d, [memory[d] EXCEPT !.lastSeq = Cursor(d)])
         \/ Save(d, [memory[d] EXCEPT !.lastSeq = run[d].newSeq])
         \/ Return(d, memory[d]) /\ UNCHANGED disk
         \/ Return(d, disk[d]) /\ UNCHANGED disk
         \/ Return(d, [memory[d] EXCEPT !.lastSeq = Cursor(d)]) /\ UNCHANGED disk
  PROVE CursorInv'
<1>1. Covers(d, seq)
  BY DEF CursorInv, Knows
<1> DEFINE b == [memory[d] EXCEPT !.lastSeq = Cursor(d)]
           c == [memory[d] EXCEPT !.lastSeq = run[d].newSeq]
<1>2. b \in Binding /\ b.lastSeq <= seq /\ Covers(d, b.lastSeq)
  BY <1>1, CursorTypes, CursorCovered
<1>3. c \in Binding /\ c.lastSeq <= seq /\ Covers(d, c.lastSeq)
  BY <1>1, CursorTypes, CursorCovered
<1>4. /\ memory[d] \in Binding /\ memory[d].lastSeq <= seq /\ Covers(d, memory[d].lastSeq)
      /\ disk[d] \in Binding /\ disk[d].lastSeq <= seq /\ Covers(d, disk[d].lastSeq)
  BY RunParts DEF CursorInv, NumbersBounded
<1>5. \/ Save(d, b) \/ Save(d, c)
      \/ Return(d, memory[d]) /\ UNCHANGED disk
      \/ Return(d, disk[d]) /\ UNCHANGED disk
      \/ Return(d, b) /\ UNCHANGED disk
  OBVIOUS
<1> HIDE DEF b, c
<1> QED BY <1>2, <1>3, <1>4, <1>5, EndCursor, ReturnCursor DEF Save

\* A write takes a number that no binding covers, and its writer has seen it.
LEMMA WriteCursor ==
  ASSUME TypeInv, CursorInv, NEW d \in Device, NEW op \in run[d].out, Put(d, op),
         NEW s \in {"push", "idle"}, NEW r \in Run, NEW b \in Binding,
         pc' = [pc EXCEPT ![d] = s], run' = [run EXCEPT ![d] = r],
         memory' = [memory EXCEPT ![d] = b],
         disk' = disk \/ disk' = [disk EXCEPT ![d] = b],
         b.lastSeq <= seq, r.newSeq <= seq, r.maxSeq <= seq + 1
  PROVE CursorInv'
<1> DEFINE v == [uuid |-> op.uuid, content |-> op.content, seq |-> seq + 1]
<1>1. /\ seq' = seq + 1 /\ latest' = [latest EXCEPT ![op.uuid] = v]
      /\ seen' = [seen EXCEPT ![d] = [seen[d] EXCEPT ![op.uuid] = seq + 1]]
  BY DEF Put, Store!Write
<1>2. op.uuid \in Entry /\ v.seq = seq + 1
  BY RunParts
<1>3. pc[d] = "push" /\ \A e \in Device : e # d => pc[e] = "idle"
  BY OthersIdle DEF Put
<1>4. /\ seq \in Nat /\ \A u \in Entry : latest[u] # None => latest[u].seq \in Nat
      /\ \A e \in Device, u \in Entry : seen[e][u] \in Nat
  BY DEF TypeInv, ServerInv, Store!Version
<1>5. /\ b.lastSeq \in Nat /\ r.newSeq \in Nat /\ r.maxSeq \in Nat
      /\ \A e \in Device : /\ disk[e].lastSeq \in Nat /\ memory[e].lastSeq \in Nat
                           /\ run[e].newSeq \in Nat /\ run[e].maxSeq \in Nat
  BY RunParts DEF Binding, Run
<1>6. \A e \in Device : /\ disk[e].lastSeq <= seq /\ memory[e].lastSeq <= seq
                        /\ run[e].newSeq <= seq /\ run[e].maxSeq <= seq
  BY DEF CursorInv, NumbersBounded
<1>7. \A u \in Entry : latest[u] # None => latest[u].seq <= seq
  BY DEF CursorInv, NumbersBounded
<1> HIDE DEF v
<1>8. \A u \in Entry : latest'[u] = IF u = op.uuid THEN v ELSE latest[u]
  BY <1>1 DEF TypeInv, ServerInv
<1>9. \A e \in Device, u \in Entry :
        seen'[e][u] = IF e = d /\ u = op.uuid THEN seq + 1 ELSE seen[e][u]
  BY <1>1, <1>2 DEF TypeInv, ServerInv
<1>10. \A e \in Device : /\ pc'[e] = IF e = d THEN s ELSE "idle"
                         /\ run'[e] = IF e = d THEN r ELSE run[e]
                         /\ memory'[e] = IF e = d THEN b ELSE memory[e]
  BY <1>3 DEF TypeInv, RunInv
<1>11. \A e \in Device : disk'[e] = disk[e] \/ (e = d /\ disk'[e] = b)
  BY DEF TypeInv, RunInv
<1>12. NumbersBounded'
  <2>1. \A u \in Entry : latest'[u] # None => latest'[u].seq <= seq'
    BY <1>1, <1>2, <1>4, <1>7, <1>8
  <2>2. \A e \in Device : /\ disk'[e].lastSeq <= seq' /\ memory'[e].lastSeq <= seq'
                          /\ run'[e].newSeq <= seq' /\ run'[e].maxSeq <= seq'
    BY <1>1, <1>4, <1>5, <1>6, <1>10, <1>11
  <2> QED BY <2>1, <2>2 DEF NumbersBounded
<1>13. OneRun'
  BY <1>10 DEF OneRun
<1>14. Covers(d, seq)
  BY <1>3 DEF CursorInv, Knows
<1>15. \A u \in Entry : latest'[u] # None => seen'[d][u] >= latest'[u].seq
  BY <1>2, <1>4, <1>7, <1>8, <1>9, <1>14 DEF Covers
<1>16. ASSUME NEW e \in Device, NEW n \in Nat, n <= seq, e = d \/ Covers(e, n)
       PROVE \A u \in Entry : latest'[u] # None /\ latest'[u].seq <= n =>
               seen'[e][u] >= latest'[u].seq
  <2>1. CASE e = d
    BY <1>15, <2>1
  <2>2. CASE e # d
    BY <1>2, <1>4, <1>8, <1>9, <1>16, <2>2 DEF Covers
  <2> QED BY <2>1, <2>2
<1>17. \A e \in Device : Covers(e, disk[e].lastSeq)'
  <2>1. \A e \in Device : /\ disk'[e].lastSeq \in Nat /\ disk'[e].lastSeq <= seq
                          /\ e = d \/ Covers(e, disk'[e].lastSeq)
    BY <1>5, <1>6, <1>11 DEF CursorInv
  <2> QED BY <1>16, <2>1 DEF Covers
<1>18. \A e \in Device : Covers(e, memory[e].lastSeq)'
  <2>1. \A e \in Device : /\ memory'[e].lastSeq \in Nat /\ memory'[e].lastSeq <= seq
                          /\ e = d \/ Covers(e, memory'[e].lastSeq)
    BY <1>5, <1>6, <1>10 DEF CursorInv
  <2> QED BY <1>16, <2>1 DEF Covers
<1>19. \A e \in Device : Knows(e, pc[e], run[e].rows, memory[e])'
  <2>1. Covers(d, seq)'
    BY <1>15 DEF Covers
  <2> QED BY <1>10, <2>1 DEF Knows
<1> QED BY <1>12, <1>13, <1>17, <1>18, <1>19 DEF CursorInv

\* A push that is answered.
LEMMA pushChangesCursor ==
  ASSUME TypeInv, CursorInv, NEW d \in Device, NEW op \in run[d].out, pushChanges(d, op)
  PROVE CursorInv'
<1> DEFINE r == [run[d] EXCEPT !.maxSeq = seq + 1, !.out = @ \ {op}]
           b == [memory[d] EXCEPT !.states = RecordEntryState(@, op)]
<1>1. /\ run' = [run EXCEPT ![d] = r] /\ memory' = [memory EXCEPT ![d] = b]
      /\ Put(d, op) /\ UNCHANGED <<disk, pc>>
  BY DEF pushChanges
<1>2. /\ run \in [Device -> Run] /\ memory \in [Device -> Binding] /\ pc \in [Device -> Steps]
      /\ TypeInv'
  BY pushChangesTypes DEF TypeInv, RunInv
<1>3. run' \in [Device -> Run] /\ memory' \in [Device -> Binding]
  BY <1>2 DEF TypeInv, RunInv
<1>4. r \in Run /\ b \in Binding
  <2>1. r = run'[d] /\ b = memory'[d]
    BY <1>1, <1>2
  <2> HIDE DEF r, b
  <2> QED BY <1>3, <2>1
<1>5. b.lastSeq = memory[d].lastSeq
  <2>1. memory[d] \in Binding
    BY <1>2
  <2> DEFINE m == memory[d]
             states == RecordEntryState(m.states, op)
  <2>2. b = [m EXCEPT !.states = states]
    OBVIOUS
  <2> HIDE DEF m, states, b
  <2>3. b.lastSeq = m.lastSeq
    BY <2>1, <2>2 DEF Binding, m
  <2> QED BY <2>3 DEF m
<1>6. r.newSeq = run[d].newSeq /\ r.maxSeq = seq + 1
  <2> DEFINE x == run[d]
             n == seq + 1
             out == x.out \ {op}
  <2>1. x \in Run
    BY <1>2
  <2>2. r = [x EXCEPT !.maxSeq = n, !.out = out]
    OBVIOUS
  <2> HIDE DEF x, n, out, r
  <2>3. r.newSeq = x.newSeq /\ r.maxSeq = n
    BY <2>1, <2>2 DEF Run
  <2> QED BY <2>3 DEF x, n
<1> HIDE DEF r, b
<1>7. pc' = [pc EXCEPT ![d] = "push"]
  BY <1>1, <1>2 DEF Put
<1>8. b.lastSeq <= seq /\ r.newSeq <= seq /\ r.maxSeq <= seq + 1
  BY <1>5, <1>6 DEF CursorInv, NumbersBounded, TypeInv, ServerInv
<1> QED BY <1>1, <1>4, <1>7, <1>8, WriteCursor

\* A push whose answer is lost ends the run; the number of the write is not covered.
LEMMA AnswerLostCursor ==
  ASSUME TypeInv, CursorInv, NEW d \in Device, NEW op \in run[d].out, AnswerLost(d, op)
  PROVE CursorInv'
<1>1. Put(d, op) /\ PushError(d) /\ pc[d] = "push"
  BY DEF AnswerLost, Put
<1> DEFINE c == [memory[d] EXCEPT !.lastSeq = Cursor(d)]
           b == IF d \in Daemon THEN c ELSE disk[d]
<1>2. End(d, b) /\ (disk' = disk \/ disk' = [disk EXCEPT ![d] = b])
  <2>1. CASE d \in Daemon
    BY <1>1, <2>1 DEF PushError, Save
  <2>2. CASE d \notin Daemon
    BY <1>1, <2>2 DEF PushError, Return
  <2> QED BY <2>1, <2>2
<1>3. Covers(d, seq)
  BY <1>1 DEF CursorInv, Knows
<1>4. c \in Binding /\ c.lastSeq <= seq
  BY <1>3, CursorTypes, CursorCovered
<1> HIDE DEF c
<1>5. b \in Binding /\ b.lastSeq <= seq
  BY <1>4, RunParts DEF CursorInv, NumbersBounded
<1> HIDE DEF b
<1>6. NoRun \in Run /\ NoRun.newSeq <= seq /\ NoRun.maxSeq <= seq + 1
  <2>1. NoRun \in Run /\ NoRun.newSeq = 0 /\ NoRun.maxSeq = 0
    BY NoRunAt DEF NoRun, RunAt, Steps
  <2> QED BY <2>1 DEF TypeInv, ServerInv
<1> HIDE DEF NoRun
<1>7. /\ pc' = [pc EXCEPT ![d] = "idle"] /\ run' = [run EXCEPT ![d] = NoRun]
      /\ memory' = [memory EXCEPT ![d] = b]
  BY <1>2 DEF End, Goto
<1> QED BY <1>1, <1>2, <1>5, <1>6, <1>7, WriteCursor

\* What users do is not seen by any device's run yet.
LEMMA QuietCursor ==
  ASSUME CursorInv, UNCHANGED <<seq, latest, seen, disk, memory, pc, run>>
  PROVE CursorInv'
BY DEF CursorInv, NumbersBounded, OneRun, Covers, Knows, RowsAreNews

\* The steps of a run keep CursorInv.
LEMMA RunStepCursor ==
  ASSUME TakeTurns, TypeInv, CursorInv, NEW d \in Device, RunStep(d)
  PROVE CursorInv'
<1>1. CASE doSync(d)
  <2>1. CASE Unchanged(d)
    BY <1>1, <2>1, LateEndCursor DEF doSync, server, history
  <2>2. CASE ~Unchanged(d)
    <3>1. /\ pc[d] = "stamp" /\ pc' = [pc EXCEPT ![d] = "export"]
          /\ UNCHANGED <<seq, latest, seen, disk, memory, run>>
      BY <1>1, <2>2 DEF doSync, Goto, server, history
    <3>2. run' = [run EXCEPT ![d] = run[d]] /\ run[d] \in Run
      BY <3>1 DEF TypeInv, RunInv
    <3> QED BY <3>1, <3>2, LateCursor
  <2> QED BY <2>1, <2>2
<1>2. CASE Export(d)
  <2> DEFINE ops == ToPush(d, run[d].command = "force")
             r == [run[d] EXCEPT !.out = ops]
  <2>1. /\ pc[d] = "export" /\ pc' = [pc EXCEPT ![d] = "push"] /\ run' = [run EXCEPT ![d] = r]
        /\ UNCHANGED <<seq, latest, seen, disk, memory>>
    BY <1>2 DEF Export, Goto, server, history
  <2>2. run[d] \in Run /\ run \in [Device -> Run]
    BY DEF TypeInv, RunInv
  <2>3. run' \in [Device -> Run]
    BY <1>2, ExportStepTypes DEF TypeInv, RunInv
  <2>4. r = run'[d]
    BY <2>1, <2>2
  <2> HIDE DEF ops
  <2>5. r.newSeq = run[d].newSeq /\ r.maxSeq = run[d].maxSeq
    BY <2>2 DEF Run
  <2> HIDE DEF r
  <2> QED BY <2>1, <2>3, <2>4, <2>5, LateCursor
<1>3. CASE Finish(d)
  BY <1>3, LateEndCursor DEF Finish, AllDone, server, history
<1> QED
  BY <1>1, <1>2, <1>3, StartCursor, SelectRowsCursor, SelectCurrentSeqCursor,
     pullChangesCursor, pushChangesCursor
  DEF RunStep

\* Faults keep CursorInv.
LEMMA FaultStepCursor ==
  ASSUME TypeInv, CursorInv, NEW d \in Device, FaultStep(d)
  PROVE CursorInv'
<1>1. CASE PullFails(d)
  <2>1. PICK n \in 0 .. run[d].newSeq : Return(d, Recorded(d, n))
    BY <1>1 DEF PullFails
  <2>2. n \in Nat
    BY RunParts
  <2>3. /\ Recorded(d, n) \in Binding /\ Recorded(d, n).lastSeq <= seq
        /\ Covers(d, Recorded(d, n).lastSeq)
    BY <2>2, RecordedTypes DEF CursorInv, NumbersBounded
  <2>4. UNCHANGED <<seq, latest, seen, disk>>
    BY <1>1 DEF PullFails, server
  <2> QED BY <2>1, <2>3, <2>4, ReturnCursor
<1>2. CASE PushFails(d)
  BY <1>2, LateEndCursor DEF PushFails, PushError, server, history
<1>3. CASE SaveFails(d)
  BY <1>3, LateEndCursor DEF SaveFails, AllDone, Unchanged, server, history
<1>4. CASE Crash(d)
  <2>1. End(d, disk[d]) /\ UNCHANGED <<seq, latest, seen, disk>>
    BY <1>4 DEF Crash, End, server, history
  <2>2. disk[d] \in Binding /\ disk[d].lastSeq <= seq /\ Covers(d, disk[d].lastSeq)
    BY RunParts DEF CursorInv, NumbersBounded
  <2> QED BY <2>1, <2>2, EndCursor
<1> QED BY <1>1, <1>2, <1>3, <1>4, AnswerLostCursor DEF FaultStep

\* Every step keeps CursorInv.
LEMMA CursorInvStep == TakeTurns /\ TypeInv /\ CursorInv /\ [Next]_vars => CursorInv'
<1> SUFFICES ASSUME TakeTurns, TypeInv, CursorInv, [Next]_vars PROVE CursorInv'
  OBVIOUS
<1>1. CASE UNCHANGED vars
  BY <1>1, QuietCursor DEF vars
<1>2. ASSUME NEW d \in Device, UserStep(d) PROVE CursorInv'
  BY <1>2, UserLeaves, QuietCursor DEF server, history
<1> QED BY <1>1, <1>2, RunStepCursor, FaultStepCursor DEF Next

\* While runs exclude each other and every push follows a pull, a saved last_seq covers
\* nothing its device has neither merged nor written, whatever users save in between,
\* whichever call fails, and whenever a process dies.
THEOREM CursorCoversTheSeen == TakeTurns => (Spec => []SeenUpToCursor)
<1>1. CursorInv => SeenUpToCursor
  BY DEF CursorInv, Covers, SeenUpToCursor
<1> SUFFICES ASSUME TakeTurns PROVE Spec => []SeenUpToCursor
  OBVIOUS
<1>2. TypeInv /\ CursorInv /\ [Next]_vars => CursorInv'
  BY CursorInvStep
<1> QED BY <1>1, <1>2, CursorInvInit, TypeInvHolds, PTL DEF Spec

-----------------------------------------------------------------------------
(* Nothing is forgotten, when every change has a second of its own.          *)

\* The version of entry u was uploaded; a deletion of it was.
Up(u, c) == \E v \in uploaded[u] : v.data = c.data /\ v.mod = c.mod
Buried(u) == \E v \in uploaded[u] : v.data = 0

\* Somewhere there is entry u, or a version of it, with payload x of time m.
Copy(u, m, x) ==
  \/ \E d \in Device :
       file[d][u].entry # None /\ file[d][u].entry.mod = m /\ file[d][u].entry.data = x
  \/ /\ latest[u] # None /\ ~latest[u].content.deleted
     /\ latest[u].content.mod = m /\ latest[u].content.data = x
  \/ \E d \in Device :
       /\ run[d].rows[u] # None /\ ~run[d].rows[u].content.deleted
       /\ run[d].rows[u].content.mod = m /\ run[d].rows[u].content.data = x
  \/ \E d \in Device : \E op \in run[d].out :
       op.uuid = u /\ ~op.content.deleted /\ op.content.mod = m /\ op.content.data = x

\* What a device recorded of an entry, s, is earlier than the entry unless the server
\* got its payload, or its deletion at the time it last moved.
Sent(u, o, s) ==
  /\ o.entry # None /\ s >= laterTime(o.entry.mod, o.entry.loc) =>
       \E v \in uploaded[u] : \/ v.data = o.entry.data
                              \/ v.data = 0 /\ v.mod = o.entry.loc
  /\ o.entry = None /\ o.dead # 0 /\ s >= o.dead => Buried(u)

\* An exported object is the one in the file, or that has changed since.
Fits(o, op) ==
  \/ Exported(o) # None /\ Exported(o).content = op.content /\ Exported(o).trigger = op.trigger
  \/ o.entry # None /\ laterTime(o.entry.mod, o.entry.loc) > op.trigger
  \/ o.entry = None /\ o.dead > op.trigger

Past(c) == c.mod <= clock /\ c.loc <= clock /\ (c.deleted => c.data = 0)

FilesPast ==
  \A d \in Device, u \in Entry :
    /\ file[d][u].dead <= clock
    /\ file[d][u].entry # None => file[d][u].entry.mod <= clock /\ file[d][u].entry.loc <= clock

VersionsGot ==
  /\ \A u \in Entry : latest[u] # None => Past(latest[u].content) /\ Up(u, latest[u].content)
  /\ \A d \in Device, u \in Entry : run[d].rows[u] # None =>
       Past(run[d].rows[u].content) /\ Up(u, run[d].rows[u].content)

PushesFit ==
  \A d \in Device : \A op \in run[d].out :
    Past(op.content) /\ op.trigger <= clock /\ Fits(file[d][op.uuid], op)

\* One payload per time of an edit; a deletion nobody was told of has a time of its own.
TimesDiffer ==
  /\ \A u \in Entry, m, x, y \in Nat : Copy(u, m, x) /\ Copy(u, m, y) => x = y
  /\ \A d \in Device, u \in Entry, x \in Nat :
       file[d][u].dead # 0 /\ Copy(u, file[d][u].dead, x) => Buried(u)

StatesSent ==
  \A d \in Device, u \in Entry : u \notin unmerged[d] =>
    \A b \in {memory[d], disk[d]} :
      b.states[u] <= clock /\ Sent(u, file[d][u], b.states[u])

\* NothingForgotten speaks of the recorded times of the process, but the next one has
\* those of the disk; and a time is only safe to record because it tells the payload.
MemoryInv == FilesPast /\ VersionsGot /\ PushesFit /\ TimesDiffer /\ StatesSent

LEMMA MemoryInvInit == Init => MemoryInv
<1> SUFFICES ASSUME Init PROVE MemoryInv
  OBVIOUS
<1>1. /\ \A d \in Device, u \in Entry : file[d][u] = [entry |-> None, dead |-> 0]
      /\ \A u \in Entry : latest[u] = None
      /\ \A d \in Device : run[d].out = {} /\ \A u \in Entry : run[d].rows[u] = None
      /\ \A d \in Device, u \in Entry : memory[d].states[u] = 0 /\ disk[d].states[u] = 0
      /\ clock = 1
  BY DEF Init, Store!Init, NoRun, NoRows
<1>2. \A u \in Entry, m, x \in Nat : ~Copy(u, m, x)
  BY <1>1 DEF Copy
<1>3. \A d \in Device, u \in Entry : Sent(u, file[d][u], 0)
  BY <1>1 DEF Sent
<1> QED BY <1>1, <1>2, <1>3
        DEF MemoryInv, FilesPast, VersionsGot, PushesFit, TimesDiffer, StatesSent

\* Payloads are those of entries in files and of versions.
LEMMA NumbersOfCopies ==
  ASSUME TypeInv, NEW d \in Device, NEW u \in Entry
  PROVE /\ file[d][u] \in Object /\ TimedObject(file[d][u])
        /\ file[d][u].entry # None => file[d][u].entry \in Local
        /\ latest[u] # None => latest[u].content \in Content /\ TimedContent(latest[u].content)
        /\ run[d].rows[u] # None =>
             run[d].rows[u].content \in Content /\ TimedContent(run[d].rows[u].content)
        /\ memory[d].states[u] \in Nat /\ disk[d].states[u] \in Nat
        /\ clock \in Nat
<1>1. file[d][u] \in Object /\ TimedObject(file[d][u]) /\ clock \in Nat
  BY DEF TypeInv, UserInv
<1>2. latest[u] # None => latest[u].content \in Content /\ TimedContent(latest[u].content)
  BY DEF TypeInv, ServerInv, Store!Version
<1>3. run[d].rows[u] # None =>
        run[d].rows[u].content \in Content /\ TimedContent(run[d].rows[u].content)
  BY RunParts DEF RunAt, Store!Version
<1>4. memory[d].states[u] \in Nat /\ disk[d].states[u] \in Nat
  BY RunParts DEF Binding
<1> QED BY <1>1, <1>2, <1>3, <1>4 DEF Object

\* A step that leaves the files alone: versions come from the server or from what is
\* pushed, recorded times from a binding or from what was just pushed.
LEMMA StepMemory ==
  ASSUME TypeInv, MemoryInv, UNCHANGED <<clock, file>>,
         \A u \in Entry : uploaded[u] \subseteq uploaded'[u],
         \A u \in Entry : latest'[u] # latest[u] =>
           \E d \in Device : \E op \in run[d].out :
             op.uuid = u /\ latest'[u].content = op.content /\ Upload(op) \in uploaded'[u],
         \A d \in Device, u \in Entry : run'[d].rows[u] \in {None, run[d].rows[u], latest[u]},
         \A d \in Device : run'[d].out \subseteq run[d].out,
         \A d \in Device : unmerged[d] \subseteq unmerged'[d],
         \A d \in Device, u \in Entry : u \notin unmerged'[d] =>
           \A b \in {memory'[d], disk'[d]} :
             \/ b.states[u] \in {memory[d].states[u], disk[d].states[u]}
             \/ \E op \in run[d].out :
                  op.uuid = u /\ b.states[u] = op.trigger /\ Upload(op) \in uploaded'[u]
  PROVE MemoryInv'
<1>1. FilesPast'
  BY DEF MemoryInv, FilesPast
<1>2. ASSUME NEW u \in Entry, NEW c, Up(u, c) PROVE Up(u, c)'
  BY <1>2 DEF Up
<1>3. ASSUME NEW u \in Entry, latest'[u] # None
      PROVE (Past(latest[u].content) /\ Up(u, latest[u].content))'
  <2>1. CASE latest'[u] = latest[u]
    BY <1>2, <1>3, <2>1 DEF MemoryInv, VersionsGot, Past, Up
  <2>2. CASE latest'[u] # latest[u]
    <3>1. PICK d \in Device : \E op \in run[d].out :
             op.uuid = u /\ latest'[u].content = op.content /\ Upload(op) \in uploaded'[u]
      BY <2>2
    <3>2. PICK op \in run[d].out :
             op.uuid = u /\ latest'[u].content = op.content /\ Upload(op) \in uploaded'[u]
      BY <3>1
    <3> QED BY <3>2 DEF MemoryInv, PushesFit, Past, Up, Upload
  <2> QED BY <2>1, <2>2
<1>4. VersionsGot'
  <2>1. ASSUME NEW d \in Device, NEW u \in Entry, run'[d].rows[u] # None
        PROVE (Past(run[d].rows[u].content) /\ Up(u, run[d].rows[u].content))'
    <3>1. Past(run'[d].rows[u].content) /\ Up(u, run'[d].rows[u].content)
      BY <2>1 DEF MemoryInv, VersionsGot
    <3> QED BY <3>1 DEF Past, Up
  <2> QED BY <1>3, <2>1 DEF VersionsGot
<1>5. PushesFit'
  BY DEF MemoryInv, PushesFit, Past
<1>6. ASSUME NEW u \in Entry, NEW m, NEW x, Copy(u, m, x)' PROVE Copy(u, m, x)
  <2>1. ASSUME NEW d \in Device, file'[d][u].entry # None,
               file'[d][u].entry.mod = m, file'[d][u].entry.data = x
        PROVE Copy(u, m, x)
    BY <2>1 DEF Copy
  <2>2. ASSUME NEW d \in Device, NEW op \in run[d].out, op.uuid = u, ~op.content.deleted,
               op.content.mod = m, op.content.data = x
        PROVE Copy(u, m, x)
    BY <2>2 DEF Copy
  <2>3. ASSUME latest'[u] # None, ~latest'[u].content.deleted,
               latest'[u].content.mod = m, latest'[u].content.data = x
        PROVE Copy(u, m, x)
    <3>1. CASE latest'[u] = latest[u]
      BY <2>3, <3>1 DEF Copy
    <3>2. CASE latest'[u] # latest[u]
      BY <2>2, <2>3, <3>2
    <3> QED BY <3>1, <3>2
  <2>4. ASSUME NEW d \in Device, run'[d].rows[u] # None, ~run'[d].rows[u].content.deleted,
               run'[d].rows[u].content.mod = m, run'[d].rows[u].content.data = x
        PROVE Copy(u, m, x)
    <3>1. run'[d].rows[u] \in {None, run[d].rows[u], latest[u]}
      OBVIOUS
    <3> QED BY <2>4, <3>1 DEF Copy
  <2>5. ASSUME NEW d \in Device, NEW op \in run'[d].out, op.uuid = u, ~op.content.deleted,
               op.content.mod = m, op.content.data = x
        PROVE Copy(u, m, x)
    BY <2>2, <2>5
  <2>6. Copy(u, m, x)'
    BY <1>6
  <2> QED BY <2>1, <2>3, <2>4, <2>5, <2>6 DEF Copy
<1>7. TimesDiffer'
  <2>1. \A u \in Entry : Buried(u) => Buried(u)'
    BY DEF Buried
  <2>2. \A d \in Device, u \in Entry, x \in Nat :
          file'[d][u].dead # 0 /\ Copy(u, file[d][u].dead, x)' => Buried(u)'
    BY <1>6, <2>1 DEF MemoryInv, TimesDiffer
  <2> QED BY <1>6, <2>2 DEF MemoryInv, TimesDiffer
<1>8. ASSUME NEW d \in Device, NEW u \in Entry, NEW op \in run[d].out, op.uuid = u,
             Upload(op) \in uploaded'[u]
      PROVE op.trigger <= clock /\ Sent(u, file[d][u], op.trigger)'
  <2> DEFINE o == file[d][u]
  <2>1. op.trigger <= clock /\ Fits(o, op)
    BY <1>8 DEF MemoryInv, PushesFit
  <2>2. o \in Object /\ op.trigger \in Nat
    BY NumbersOfCopies, RunParts
  <2>3. CASE Exported(o) # None /\ Exported(o).content = op.content
             /\ Exported(o).trigger = op.trigger
    <3> DEFINE v == Upload(op)
    <3>1. v \in uploaded'[u] /\ v.data = op.content.data /\ v.mod = op.content.mod
      BY <1>8 DEF Upload
    <3> HIDE DEF v
    <3>3. CASE o.entry # None /\ o.entry.place # Bin
      <4>1. op.content.data = o.entry.data
        <5>1. Exported(o) = collectTree(o.entry)
          BY <3>3 DEF Exported
        <5>2. collectTree(o.entry).content.data = o.entry.data
          BY <3>3 DEF collectTree
        <5> QED BY <2>3, <5>1, <5>2
      <4>2. \E w \in uploaded'[u] : w.data = o.entry.data
        BY <3>1, <4>1
      <4> QED BY <2>1, <3>3, <4>2 DEF Sent
    <3>4. CASE o.entry # None /\ o.entry.place = Bin
      <4>1. op.content = Tombstone(o.entry.loc)
        BY <2>3, <3>4 DEF Exported, collectTree
      <4>2. v.data = 0 /\ v.mod = o.entry.loc
        BY <3>1, <4>1 DEF Tombstone
      <4> QED BY <2>1, <3>1, <3>4, <4>2 DEF Sent
    <3>5. CASE o.entry = None
      <4>1. op.content = Tombstone(o.dead)
        BY <2>3, <3>5 DEF Exported
      <4>2. v.data = 0
        BY <3>1, <4>1 DEF Tombstone
      <4> QED BY <2>1, <3>1, <3>5, <4>2 DEF Sent, Buried
    <3> QED BY <2>1, <3>3, <3>4, <3>5
  <2>4. CASE o.entry # None /\ laterTime(o.entry.mod, o.entry.loc) > op.trigger
    <3>1. o.entry.mod \in Nat /\ o.entry.loc \in Nat
      BY <2>2, <2>4 DEF Object, Local
    <3>2. ~(op.trigger >= laterTime(o.entry.mod, o.entry.loc))
      BY <2>2, <2>4, <3>1 DEF laterTime
    <3> QED BY <2>1, <2>4, <3>2 DEF Sent
  <2>5. CASE o.entry = None /\ o.dead > op.trigger
    BY <2>1, <2>2, <2>5 DEF Sent, Object
  <2> QED BY <2>1, <2>3, <2>4, <2>5 DEF Fits
<1>9. StatesSent'
  <2>1. SUFFICES ASSUME NEW d \in Device, NEW u \in Entry, u \notin unmerged'[d],
                        NEW b \in {memory'[d], disk'[d]}
        PROVE b.states[u] <= clock /\ Sent(u, file[d][u], b.states[u])'
    BY DEF StatesSent
  <2>2. CASE b.states[u] \in {memory[d].states[u], disk[d].states[u]}
    <3>1. b.states[u] <= clock /\ Sent(u, file[d][u], b.states[u])
      BY <2>1, <2>2 DEF MemoryInv, StatesSent
    <3> QED BY <3>1 DEF Sent, Buried
  <2>3. CASE \E op \in run[d].out :
               op.uuid = u /\ b.states[u] = op.trigger /\ Upload(op) \in uploaded'[u]
    <3>1. PICK op \in run[d].out :
               op.uuid = u /\ b.states[u] = op.trigger /\ Upload(op) \in uploaded'[u]
      BY <2>3
    <3>2. op.trigger <= clock /\ Sent(u, file[d][u], op.trigger)'
      BY <1>8, <3>1
    <3> QED BY <3>1, <3>2 DEF Sent, Buried
  <2> QED BY <2>1, <2>2, <2>3
<1> QED BY <1>1, <1>4, <1>5, <1>7, <1>9 DEF MemoryInv

\* With one deletion time there is no earlier one to look for.
LEMMA MergeDeletionOnce ==
  ASSUME NEW e, NEW t \in Nat
  PROVE MergeDeletion(e, {t}) = IF e # None /\ e.mod > t THEN [entry |-> e, dead |-> 0]
                                                         ELSE [entry |-> None, dead |-> t]
<1>1. (CHOOSE x \in {t} : \A s \in {t} : x <= s) = t
  OBVIOUS
<1> QED BY <1>1 DEF MergeDeletion

\* A merge leaves the payload and times of the entry or of the version.
MergeLeaves(o, c, r) ==
  \/ /\ o.entry # None /\ r.entry # None /\ c.mod <= o.entry.mod
     /\ r.entry.data = o.entry.data /\ r.entry.mod = o.entry.mod /\ r.entry.loc = o.entry.loc
     /\ c.deleted => c.mod < o.entry.mod
     /\ r.dead = 0
  \/ /\ ~c.deleted /\ r.entry # None
     /\ r.entry.data = c.data /\ r.entry.mod = c.mod /\ r.entry.loc = c.loc
     /\ r.dead = 0
  \/ c.deleted /\ r.entry = None /\ r.dead \in {o.dead, c.mod}
  \/ /\ ~c.deleted /\ o.entry = None /\ c.mod <= o.dead
     /\ r.entry = None /\ r.dead = o.dead

LEMMA MergeOutcome ==
  ASSUME NEW o, TimedObject(o), NEW c \in Content, TimedContent(c)
  PROVE MergeLeaves(o, c, Merge(o, c))
<1> DEFINE e == IF c.deleted THEN o.entry ELSE MergeEntry(o.entry, c)
           times == {t \in {o.dead} \cup (IF c.deleted THEN {c.mod} ELSE {}) : t # 0}
           r == Merge(o, c)
<1>1. o.dead \in Nat /\ c.mod \in Nat \ {0} /\ c.deleted \in BOOLEAN
  BY DEF TimedObject, Object, Content, TimedContent
<1>2. o.entry # None => o.entry \in Local /\ o.dead = 0
  BY DEF TimedObject, Object
<1>3. r = IF times = {} THEN [entry |-> e, dead |-> 0]
          ELSE IF e = None /\ o.dead # 0 THEN o ELSE MergeDeletion(e, times)
  BY DEF Merge
<1> SUFFICES MergeLeaves(o, c, r)
  OBVIOUS
<1> HIDE DEF r
<1>4. CASE c.deleted
  <2>1. e = o.entry /\ c.mod \in times
    BY <1>1, <1>4
  <2>2. CASE o.entry = None /\ o.dead # 0
    <3>1. r = o
      BY <1>3, <2>1, <2>2
    <3> QED BY <1>4, <2>2, <3>1 DEF MergeLeaves
  <2>3. CASE ~(o.entry = None /\ o.dead # 0)
    <3>1. times = {c.mod}
      BY <1>1, <1>2, <1>4, <2>3
    <3>2. r = MergeDeletion(o.entry, {c.mod})
      BY <1>3, <2>1, <2>3, <3>1
    <3>3. r = IF o.entry # None /\ o.entry.mod > c.mod THEN [entry |-> o.entry, dead |-> 0]
              ELSE [entry |-> None, dead |-> c.mod]
      BY <1>1, <3>2, MergeDeletionOnce
    <3>4. CASE o.entry # None /\ o.entry.mod > c.mod
      BY <1>1, <1>2, <1>4, <3>3, <3>4 DEF MergeLeaves, Local
    <3>5. CASE ~(o.entry # None /\ o.entry.mod > c.mod)
      BY <1>4, <3>3, <3>5 DEF MergeLeaves
    <3> QED BY <3>4, <3>5
  <2> QED BY <2>2, <2>3
<1>5. CASE ~c.deleted
  <2>1. e = MergeEntry(o.entry, c)
    BY <1>5
  <2>2. e \in Local
    BY <1>5, <2>1, MergeEntryTypes
  <2>3. e # None
    BY <2>2, NoneIsNotLocal
  <2>4. times = IF o.dead = 0 THEN {} ELSE {o.dead}
    BY <1>5
  <2>5. CASE o.entry # None
    <3>1. r = [entry |-> e, dead |-> 0]
      BY <1>2, <1>3, <2>4, <2>5
    <3> DEFINE newer == IF o.entry.mod < c.mod THEN c ELSE o.entry
    <3>2. e.data = newer.data /\ e.mod = newer.mod /\ e.loc = newer.loc
      BY <2>1, <2>5 DEF MergeEntry
    <3>3. o.entry.mod \in Nat
      BY <1>2, <2>5 DEF Local
    <3> HIDE DEF e
    <3> QED BY <1>1, <1>5, <2>3, <2>5, <3>1, <3>2, <3>3 DEF MergeLeaves
  <2>6. CASE o.entry = None
    <3>1. e.data = c.data /\ e.mod = c.mod /\ e.loc = c.loc
      BY <2>1, <2>6 DEF MergeEntry
    <3>2. CASE o.dead = 0
      <4>1. r = [entry |-> e, dead |-> 0]
        BY <1>3, <2>4, <3>2
      <4> HIDE DEF e
      <4> QED BY <1>5, <2>3, <3>1, <4>1 DEF MergeLeaves
    <3>3. CASE o.dead # 0
      <4>1. r = MergeDeletion(e, {o.dead})
        BY <1>3, <2>3, <2>4, <3>3
      <4>2. r = IF e # None /\ e.mod > o.dead THEN [entry |-> e, dead |-> 0]
                ELSE [entry |-> None, dead |-> o.dead]
        BY <1>1, <4>1, MergeDeletionOnce
      <4> HIDE DEF e
      <4> QED BY <1>1, <1>5, <2>3, <2>6, <3>1, <4>2 DEF MergeLeaves
    <3> QED BY <3>2, <3>3
  <2> QED BY <2>5, <2>6
<1> QED BY <1>1, <1>4, <1>5

\* A file that has what was pulled needs nothing sent that had not to be sent before:
\* what the merge recorded is the time of what the server already had.
LEMMA MergeSent ==
  ASSUME NEW u \in Entry, NEW o, TimedObject(o), NEW c \in Content, TimedContent(c), Past(c),
         Up(u, c), NEW s \in Nat, Sent(u, o, s),
         ~c.deleted /\ o.entry # None /\ o.entry.mod = c.mod => o.entry.data = c.data,
         ~c.deleted /\ o.dead # 0 /\ o.dead = c.mod => Buried(u)
  PROVE \A t \in {s, laterTime(s, c.mod)} : Sent(u, Merge(o, c), t)
<1> DEFINE r == Merge(o, c)
<1>1. MergeLeaves(o, c, r)
  BY MergeOutcome
<1>2. o.dead \in Nat /\ c.mod \in Nat \ {0}
  BY DEF TimedObject, Object, Content, TimedContent
<1>3. o.entry # None => o.entry.mod \in Nat /\ o.entry.loc \in Nat
  BY DEF TimedObject, Object, Local
<1>4. c.deleted => Buried(u)
  BY DEF Past, Up, Buried
<1>5. \E v \in uploaded[u] : v.data = c.data
  BY DEF Up
<1> HIDE DEF r
<1>6. SUFFICES ASSUME NEW t \in {s, laterTime(s, c.mod)} PROVE Sent(u, r, t)
  BY DEF r
<1>7. t \in Nat /\ (t = s \/ (t = c.mod /\ c.mod > s))
  BY <1>2 DEF laterTime
<1>8. CASE /\ o.entry # None /\ r.entry # None /\ c.mod <= o.entry.mod
           /\ r.entry.data = o.entry.data /\ r.entry.mod = o.entry.mod
           /\ r.entry.loc = o.entry.loc
           /\ c.deleted => c.mod < o.entry.mod
  <2>1. CASE t = s
    BY <1>8, <2>1 DEF Sent
  <2>2. CASE t = c.mod /\ t >= laterTime(r.entry.mod, r.entry.loc)
    <3>1. c.mod = o.entry.mod /\ ~c.deleted
      BY <1>2, <1>3, <1>8, <2>2 DEF laterTime
    <3>2. r.entry.data = c.data
      BY <1>8, <3>1
    <3> QED BY <1>5, <1>8, <3>2 DEF Sent
  <2>3. CASE ~(t >= laterTime(r.entry.mod, r.entry.loc))
    BY <1>8, <2>3 DEF Sent
  <2> QED BY <1>7, <2>1, <2>2, <2>3
<1>9. CASE ~c.deleted /\ r.entry # None /\ r.entry.data = c.data
  BY <1>5, <1>9 DEF Sent
<1>10. CASE c.deleted /\ r.entry = None
  BY <1>4, <1>10 DEF Sent
<1>11. CASE /\ ~c.deleted /\ o.entry = None /\ c.mod <= o.dead
            /\ r.entry = None /\ r.dead = o.dead
  <2>1. CASE t = s
    BY <1>11, <2>1 DEF Sent
  <2>2. CASE t = c.mod /\ t >= o.dead
    <3>1. o.dead = c.mod
      BY <1>2, <1>11, <2>2
    <3> QED BY <1>2, <1>11, <3>1 DEF Sent
  <2>3. CASE ~(t >= o.dead)
    BY <1>11, <2>3 DEF Sent
  <2> QED BY <1>7, <2>1, <2>2, <2>3
<1> QED BY <1>1, <1>8, <1>9, <1>10, <1>11 DEF MergeLeaves

\* The recorded times of a binding are those the device has, but for unmerged entries.
LEMMA EndMemory ==
  ASSUME TypeInv, NEW d \in Device, NEW b \in Binding, End(d, b),
         disk' = disk \/ disk' = [disk EXCEPT ![d] = b],
         \A u \in Entry : u \notin unmerged'[d] =>
           b.states[u] \in {memory[d].states[u], disk[d].states[u]}
  PROVE /\ \A e \in Device, u \in Entry : u \notin unmerged'[e] =>
             \A x \in {memory'[e], disk'[e]} :
               x.states[u] \in {memory[e].states[u], disk[e].states[u]}
        /\ \A e \in Device, u \in Entry : run'[e].rows[u] \in {None, run[e].rows[u]}
        /\ \A e \in Device : run'[e].out \subseteq run[e].out
<1>1. run' = [run EXCEPT ![d] = NoRun] /\ memory' = [memory EXCEPT ![d] = b]
  BY DEF End
<1>2. \A e \in Device : run'[e] = IF e = d THEN NoRun ELSE run[e]
  BY <1>1 DEF TypeInv, RunInv
<1>3. NoRun.out = {} /\ \A u \in Entry : NoRun.rows[u] = None
  BY DEF NoRun, NoRows
<1>4. \A e \in Device : /\ memory'[e] = IF e = d THEN b ELSE memory[e]
                        /\ disk'[e] \in {disk[e], IF e = d THEN b ELSE disk[e]}
  BY <1>1 DEF TypeInv, RunInv
<1>5. ASSUME NEW e \in Device, NEW u \in Entry, u \notin unmerged'[e],
             NEW x \in {memory'[e], disk'[e]}
      PROVE x.states[u] \in {memory[e].states[u], disk[e].states[u]}
  BY <1>4, <1>5
<1> QED BY <1>2, <1>3, <1>5

\* The end of a run without a write to the server.
LEMMA EndKeepsMemory ==
  ASSUME TypeInv, MemoryInv, NEW d \in Device, NEW b \in Binding, End(d, b),
         disk' = disk \/ disk' = [disk EXCEPT ![d] = b],
         UNCHANGED <<clock, file, latest, uploaded>>,
         \A e \in Device : unmerged[e] \subseteq unmerged'[e],
         \A u \in Entry : u \notin unmerged'[d] =>
           b.states[u] \in {memory[d].states[u], disk[d].states[u]}
  PROVE MemoryInv'
<1>1. /\ \A e \in Device, u \in Entry : u \notin unmerged'[e] =>
           \A x \in {memory'[e], disk'[e]} :
             x.states[u] \in {memory[e].states[u], disk[e].states[u]}
      /\ \A e \in Device, u \in Entry : run'[e].rows[u] \in {None, run[e].rows[u]}
      /\ \A e \in Device : run'[e].out \subseteq run[e].out
  BY EndMemory
<1> QED BY <1>1, StepMemory

LEMMA ReturnKeepsMemory ==
  ASSUME TypeInv, MemoryInv, NEW d \in Device, NEW b \in Binding, Return(d, b),
         UNCHANGED <<clock, file, latest, uploaded, disk>>,
         \A e \in Device : unmerged[e] \subseteq unmerged'[e],
         \A u \in Entry : u \notin unmerged'[d] => b.states[u] = memory[d].states[u]
  PROVE MemoryInv'
<1> DEFINE c == IF d \in Daemon THEN b ELSE disk[d]
<1>1. End(d, c) /\ c \in Binding
  BY RunParts DEF Return
<1>2. \A u \in Entry : u \notin unmerged'[d] =>
        c.states[u] \in {memory[d].states[u], disk[d].states[u]}
  OBVIOUS
<1> HIDE DEF c
<1> QED BY <1>1, <1>2, EndKeepsMemory

LEMMA SaveKeepsMemory ==
  ASSUME TypeInv, MemoryInv, NEW d \in Device, NEW b \in Binding, Save(d, b),
         UNCHANGED <<clock, file, latest, uploaded, unmerged>>,
         b.states = memory[d].states
  PROVE MemoryInv'
BY EndKeepsMemory DEF Save

\* A cursor leaves the recorded times.
LEMMA CursorStates ==
  ASSUME TypeInv, NEW d \in Device
  PROVE /\ [memory[d] EXCEPT !.lastSeq = Cursor(d)] \in Binding
        /\ [memory[d] EXCEPT !.lastSeq = Cursor(d)].states = memory[d].states
        /\ [memory[d] EXCEPT !.lastSeq = run[d].newSeq] \in Binding
        /\ [memory[d] EXCEPT !.lastSeq = run[d].newSeq].states = memory[d].states
<1>1. ASSUME NEW b \in Binding, NEW n \in Nat PROVE [b EXCEPT !.lastSeq = n].states = b.states
  BY DEF Binding
<1> QED BY <1>1, CursorTypes, RunParts

\* A step between two calls of a run.
LEMMA RunGoesOn ==
  ASSUME TypeInv, MemoryInv, NEW d \in Device, NEW r, run' = [run EXCEPT ![d] = r],
         UNCHANGED <<clock, file, latest, uploaded, unmerged, memory, disk>>,
         r.out = run[d].out, \A u \in Entry : r.rows[u] \in {None, run[d].rows[u], latest[u]}
  PROVE MemoryInv'
<1>1. \A e \in Device : run'[e] = IF e = d THEN r ELSE run[e]
  BY DEF TypeInv, RunInv
<1>2. /\ \A e \in Device, u \in Entry : run'[e].rows[u] \in {None, run[e].rows[u], latest[u]}
      /\ \A e \in Device : run'[e].out \subseteq run[e].out
  BY <1>1
<1> QED BY <1>2, StepMemory

LEMMA StartMemory ==
  ASSUME TypeInv, MemoryInv, NEW d \in Device, NEW c \in Command, Start(d, c)
  PROVE MemoryInv'
<1> DEFINE r == [run[d] EXCEPT !.command = c, !.newSeq = memory[d].lastSeq]
<1>1. run' = [run EXCEPT ![d] = r]
      /\ UNCHANGED <<clock, file, latest, uploaded, unmerged, memory, disk>>
  BY DEF Start, server, history
<1>2. r.rows = run[d].rows /\ r.out = run[d].out
  BY RunParts DEF Run
<1> HIDE DEF r
<1> QED BY <1>1, <1>2, RunGoesOn

LEMMA SelectRowsMemory ==
  ASSUME TypeInv, MemoryInv, NEW d \in Device, SelectRows(d)
  PROVE MemoryInv'
<1> DEFINE rws == [u \in Entry |-> IF latest[u] # None /\ latest[u].seq > memory[d].lastSeq
                                    THEN latest[u] ELSE None]
           r == [run[d] EXCEPT !.rows = rws]
<1>1. run' = [run EXCEPT ![d] = r]
      /\ UNCHANGED <<clock, file, latest, uploaded, unmerged, memory, disk>>
  BY DEF SelectRows, server, history, user
<1>2. \A u \in Entry : rws[u] \in {None, latest[u]}
  OBVIOUS
<1> HIDE DEF rws
<1>3. r.rows = rws /\ r.out = run[d].out
  <2>1. run[d] \in Run
    BY RunParts
  <2> QED BY <2>1 DEF Run
<1>4. \A u \in Entry : r.rows[u] \in {None, run[d].rows[u], latest[u]}
  BY <1>2, <1>3
<1> HIDE DEF r
<1> QED BY <1>1, <1>3, <1>4, RunGoesOn

LEMMA SelectCurrentSeqMemory ==
  ASSUME TypeInv, MemoryInv, NEW d \in Device, SelectCurrentSeq(d)
  PROVE MemoryInv'
<1> DEFINE r == [run[d] EXCEPT !.newSeq = seq]
<1>1. run' = [run EXCEPT ![d] = r]
      /\ UNCHANGED <<clock, file, latest, uploaded, unmerged, memory, disk>>
  BY DEF SelectCurrentSeq, server, history, user
<1>2. r.rows = run[d].rows /\ r.out = run[d].out
  BY RunParts DEF Run
<1> HIDE DEF r
<1> QED BY <1>1, <1>2, RunGoesOn

LEMMA doSyncMemory ==
  ASSUME TypeInv, MemoryInv, NEW d \in Device, doSync(d)
  PROVE MemoryInv'
<1>1. UNCHANGED <<clock, file, latest, uploaded, unmerged>>
  BY DEF doSync, server, user, history
<1>2. CASE Unchanged(d) /\ run[d].newSeq # memory[d].lastSeq
  <2>1. Save(d, [memory[d] EXCEPT !.lastSeq = run[d].newSeq])
    BY <1>2 DEF doSync
  <2> QED BY <1>1, <2>1, CursorStates, SaveKeepsMemory
<1>3. CASE Unchanged(d) /\ run[d].newSeq = memory[d].lastSeq
  <2>1. Return(d, memory[d]) /\ UNCHANGED disk /\ memory[d] \in Binding
    BY <1>3, RunParts DEF doSync
  <2> QED BY <1>1, <2>1, ReturnKeepsMemory
<1>4. CASE ~Unchanged(d)
  <2>1. UNCHANGED <<disk, memory, run>>
    BY <1>4 DEF doSync
  <2> QED BY <1>1, <2>1, StepMemory
<1> QED BY <1>2, <1>3, <1>4

LEMMA FinishMemory ==
  ASSUME TypeInv, MemoryInv, NEW d \in Device, Finish(d)
  PROVE MemoryInv'
BY CursorStates, SaveKeepsMemory DEF Finish, server, user, history

\* What a failed pull recorded is of entries it has left unmerged.
LEMMA PullFailsMemory ==
  ASSUME TypeInv, MemoryInv, UnmergedInv, NEW d \in Device, PullFails(d)
  PROVE MemoryInv'
<1>1. PICK n \in 0 .. run[d].newSeq : Return(d, Recorded(d, n))
  BY DEF PullFails
<1>2. /\ UNCHANGED <<clock, file, latest, uploaded, disk>>
      /\ unmerged' = [unmerged EXCEPT ![d] =
           unmerged[d] \cup {u \in Entry : memory'[d].states[u] # memory[d].states[u]}]
  BY DEF PullFails, server, user
<1>3. \A e \in Device : unmerged[e] \subseteq unmerged'[e]
  BY <1>2 DEF UnmergedInv
<1>4. \A u \in Entry : u \notin unmerged'[d] => memory'[d].states[u] = memory[d].states[u]
  BY <1>2 DEF UnmergedInv
<1> DEFINE b == Recorded(d, n)
           c == IF d \in Daemon THEN b ELSE disk[d]
<1>5. n \in Nat
  BY RunParts
<1>6. b \in Binding
  BY <1>5, RecordedTypes
<1> HIDE DEF b
<1>7. c \in Binding /\ End(d, c)
  BY <1>1, <1>6, RunParts DEF Return, b
<1>8. memory'[d] = c
  BY <1>7 DEF End, TypeInv, RunInv
<1>9. \A u \in Entry : u \notin unmerged'[d] =>
        c.states[u] \in {memory[d].states[u], disk[d].states[u]}
  BY <1>4, <1>8
<1> HIDE DEF c
<1> QED BY <1>2, <1>3, <1>7, <1>9, EndKeepsMemory

LEMMA PushFailsMemory ==
  ASSUME TypeInv, MemoryInv, NEW d \in Device, PushFails(d)
  PROVE MemoryInv'
<1>1. UNCHANGED <<clock, file, latest, uploaded, unmerged>>
  BY DEF PushFails, server, user, history
<1>2. CASE d \in Daemon
  <2>1. Save(d, [memory[d] EXCEPT !.lastSeq = Cursor(d)])
    BY <1>2 DEF PushFails, PushError
  <2> QED BY <1>1, <2>1, CursorStates, SaveKeepsMemory
<1>3. CASE d \notin Daemon
  <2>1. End(d, disk[d]) /\ UNCHANGED disk /\ disk[d] \in Binding
    BY <1>3, RunParts DEF PushFails, PushError, Return
  <2> QED BY <1>1, <2>1, EndKeepsMemory
<1> QED BY <1>2, <1>3

LEMMA SaveFailsMemory ==
  ASSUME TypeInv, MemoryInv, NEW d \in Device, SaveFails(d)
  PROVE MemoryInv'
<1>1. UNCHANGED <<clock, file, latest, uploaded, unmerged, disk>>
  BY DEF SaveFails, server, user, history
<1>2. Return(d, [memory[d] EXCEPT !.lastSeq = Cursor(d)])
  BY DEF SaveFails
<1> QED BY <1>1, <1>2, CursorStates, ReturnKeepsMemory

LEMMA CrashMemory ==
  ASSUME TypeInv, MemoryInv, NEW d \in Device, Crash(d)
  PROVE MemoryInv'
<1>1. UNCHANGED <<clock, file, latest, uploaded, unmerged, disk>>
  BY DEF Crash, server, user, history
<1>2. End(d, disk[d]) /\ disk[d] \in Binding
  BY RunParts DEF Crash, End
<1> QED BY <1>1, <1>2, EndKeepsMemory

\* What the server gets.
LEMMA PutSends ==
  ASSUME TypeInv, NEW d \in Device, NEW op \in run[d].out, Put(d, op)
  PROVE /\ op.uuid \in Entry
        /\ Upload(op) \in uploaded'[op.uuid]
        /\ \A u \in Entry : uploaded[u] \subseteq uploaded'[u]
        /\ \A u \in Entry : latest'[u] # latest[u] =>
             \E e \in Device : \E o \in run[e].out :
               o.uuid = u /\ latest'[u].content = o.content /\ Upload(o) \in uploaded'[u]
        /\ UNCHANGED <<clock, file, unmerged>>
<1>1. op.uuid \in Entry
  BY RunParts
<1> DEFINE v == [uuid |-> op.uuid, content |-> op.content, seq |-> seq + 1]
<1>2. /\ latest' = [latest EXCEPT ![op.uuid] = v]
      /\ uploaded' = [uploaded EXCEPT ![op.uuid] = uploaded[op.uuid] \cup {Upload(op)}]
      /\ UNCHANGED <<clock, file, unmerged>>
  BY DEF Put, Store!Write, user
<1>3. v.content = op.content
  OBVIOUS
<1> HIDE DEF v
<1>4. \A u \in Entry : uploaded'[u] =
        IF u = op.uuid THEN uploaded[op.uuid] \cup {Upload(op)} ELSE uploaded[u]
  BY <1>2 DEF TypeInv, ServerInv
<1>5. \A u \in Entry : latest'[u] = IF u = op.uuid THEN v ELSE latest[u]
  BY <1>2 DEF TypeInv, ServerInv
<1> QED BY <1>1, <1>2, <1>3, <1>4, <1>5

LEMMA pushChangesMemory ==
  ASSUME TypeInv, MemoryInv, NEW d \in Device, NEW op \in run[d].out, pushChanges(d, op)
  PROVE MemoryInv'
<1>1. /\ op.uuid \in Entry
      /\ Upload(op) \in uploaded'[op.uuid]
      /\ \A u \in Entry : uploaded[u] \subseteq uploaded'[u]
      /\ \A u \in Entry : latest'[u] # latest[u] =>
           \E e \in Device : \E o \in run[e].out :
             o.uuid = u /\ latest'[u].content = o.content /\ Upload(o) \in uploaded'[u]
      /\ UNCHANGED <<clock, file, unmerged>>
  BY PutSends DEF pushChanges
<1> DEFINE r == [run[d] EXCEPT !.maxSeq = seq + 1, !.out = @ \ {op}]
           sts == [memory[d].states EXCEPT ![op.uuid] = op.trigger]
           b == [memory[d] EXCEPT !.states = sts]
<1>2. run' = [run EXCEPT ![d] = r] /\ memory' = [memory EXCEPT ![d] = b] /\ UNCHANGED disk
  BY DEF pushChanges, RecordEntryState
<1>3. r.rows = run[d].rows /\ r.out = run[d].out \ {op}
  <2> DEFINE out == run[d].out \ {op}
             n == seq + 1
  <2>1. r = [run[d] EXCEPT !.maxSeq = n, !.out = out]
    OBVIOUS
  <2> HIDE DEF out, n, r
  <2>2. r.rows = run[d].rows /\ r.out = out
    BY <2>1, RunParts DEF Run
  <2> QED BY <2>2 DEF out
<1>4. /\ memory[d] \in Binding
      /\ \A u \in Entry : sts[u] = IF u = op.uuid THEN op.trigger ELSE memory[d].states[u]
  BY RunParts DEF Binding
<1> HIDE DEF sts
<1>5. b.states = sts
  BY <1>4 DEF Binding
<1> HIDE DEF r, b
<1>6. \A e \in Device : /\ run'[e] = IF e = d THEN r ELSE run[e]
                        /\ memory'[e] = IF e = d THEN b ELSE memory[e]
  BY <1>2 DEF TypeInv, RunInv
<1>7. ASSUME NEW e \in Device, NEW u \in Entry, u \notin unmerged'[e],
             NEW x \in {memory'[e], disk'[e]}
      PROVE \/ x.states[u] \in {memory[e].states[u], disk[e].states[u]}
            \/ \E o \in run[e].out :
                 o.uuid = u /\ x.states[u] = o.trigger /\ Upload(o) \in uploaded'[u]
  <2>1. CASE e = d /\ u = op.uuid
    BY <1>1, <1>2, <1>4, <1>5, <1>6, <1>7, <2>1
  <2>2. CASE ~(e = d /\ u = op.uuid)
    BY <1>2, <1>4, <1>5, <1>6, <1>7, <2>2
  <2> QED BY <2>1, <2>2
<1>8. /\ \A e \in Device, u \in Entry : run'[e].rows[u] \in {None, run[e].rows[u], latest[u]}
      /\ \A e \in Device : run'[e].out \subseteq run[e].out
  BY <1>3, <1>6
<1> QED BY <1>1, <1>7, <1>8, StepMemory

LEMMA AnswerLostMemory ==
  ASSUME TypeInv, MemoryInv, NEW d \in Device, NEW op \in run[d].out, AnswerLost(d, op)
  PROVE MemoryInv'
<1>1. /\ \A u \in Entry : uploaded[u] \subseteq uploaded'[u]
      /\ \A u \in Entry : latest'[u] # latest[u] =>
           \E e \in Device : \E o \in run[e].out :
             o.uuid = u /\ latest'[u].content = o.content /\ Upload(o) \in uploaded'[u]
      /\ UNCHANGED <<clock, file, unmerged>>
  BY PutSends DEF AnswerLost
<1>2. \E b \in Binding :
        /\ End(d, b)
        /\ disk' = disk \/ disk' = [disk EXCEPT ![d] = b]
        /\ \A u \in Entry : b.states[u] \in {memory[d].states[u], disk[d].states[u]}
  <2>1. CASE d \in Daemon
    BY <2>1, CursorStates DEF AnswerLost, PushError, Save
  <2>2. CASE d \notin Daemon
    BY <2>2, RunParts DEF AnswerLost, PushError, Return
  <2> QED BY <2>1, <2>2
<1>3. PICK b \in Binding :
        /\ End(d, b)
        /\ disk' = disk \/ disk' = [disk EXCEPT ![d] = b]
        /\ \A u \in Entry : b.states[u] \in {memory[d].states[u], disk[d].states[u]}
  BY <1>2
<1>4. /\ \A e \in Device, u \in Entry : u \notin unmerged'[e] =>
           \A x \in {memory'[e], disk'[e]} :
             x.states[u] \in {memory[e].states[u], disk[e].states[u]}
      /\ \A e \in Device, u \in Entry : run'[e].rows[u] \in {None, run[e].rows[u]}
      /\ \A e \in Device : run'[e].out \subseteq run[e].out
  BY <1>3, EndMemory
<1> QED BY <1>1, <1>4, StepMemory

\* No copy is from the future.
LEMMA CopyPast ==
  ASSUME MemoryInv, NEW u \in Entry, NEW m, NEW x, Copy(u, m, x)
  PROVE m <= clock
BY DEF Copy, MemoryInv, FilesPast, VersionsGot, PushesFit, Past

\* What is exported is as old as the file.
LEMMA ExportedPast ==
  ASSUME NEW o, TimedObject(o), Exported(o) # None, clock \in Nat, o.dead <= clock,
         o.entry # None => o.entry.mod <= clock /\ o.entry.loc <= clock
  PROVE /\ Past(Exported(o).content) /\ Exported(o).trigger <= clock
        /\ ~Exported(o).content.deleted =>
             /\ o.entry # None
             /\ Exported(o).content.mod = o.entry.mod /\ Exported(o).content.data = o.entry.data
<1> DEFINE x == Exported(o)
<1>1. CASE o.entry # None /\ o.entry.place # Bin
  <2>1. /\ ~x.content.deleted /\ x.content.data = o.entry.data
        /\ x.content.mod = o.entry.mod /\ x.content.loc = o.entry.loc
        /\ x.trigger = laterTime(o.entry.mod, o.entry.loc)
    BY <1>1 DEF Exported, collectTree
  <2> HIDE DEF x
  <2> SUFFICES /\ Past(x.content) /\ x.trigger <= clock
               /\ x.content.mod = o.entry.mod /\ x.content.data = o.entry.data
    BY <1>1 DEF x
  <2> QED BY <1>1, <2>1 DEF Past, laterTime
<1>2. ASSUME NEW t \in Nat, t <= clock, x.content = Tombstone(t), x.trigger = t
      PROVE Past(x.content) /\ x.trigger <= clock /\ x.content.deleted
  <2>1. Tombstone(t).mod = t /\ Tombstone(t).loc = 0 /\ Tombstone(t).data = 0
        /\ Tombstone(t).deleted
    BY DEF Tombstone
  <2> HIDE DEF x
  <2> QED BY <1>2, <2>1 DEF Past
<1>3. CASE o.entry # None /\ o.entry.place = Bin
  <2>1. x.content = Tombstone(o.entry.loc) /\ x.trigger = o.entry.loc
    BY <1>3 DEF Exported, collectTree
  <2>2. o.entry.loc \in Nat
    BY <1>3 DEF TimedObject, Object, Local
  <2> QED BY <1>2, <1>3, <2>1, <2>2
<1>4. CASE o.entry = None
  <2>1. x.content = Tombstone(o.dead) /\ x.trigger = o.dead
    BY <1>4 DEF Exported
  <2>2. o.dead \in Nat
    BY DEF TimedObject, Object
  <2> QED BY <1>2, <2>1, <2>2
<1> QED BY <1>1, <1>3, <1>4

LEMMA ExportMemory ==
  ASSUME TypeInv, MemoryInv, NEW d \in Device, Export(d)
  PROVE MemoryInv'
<1> DEFINE ops == ToPush(d, run[d].command = "force")
           r == [run[d] EXCEPT !.out = ops]
<1>1. run' = [run EXCEPT ![d] = r]
      /\ UNCHANGED <<clock, file, latest, uploaded, unmerged, memory, disk>>
  BY DEF Export, server, history, user
<1>2. ASSUME NEW op \in ops
      PROVE /\ op.uuid \in Entry /\ Past(op.content) /\ op.trigger <= clock
            /\ Fits(file[d][op.uuid], op)
            /\ ~op.content.deleted =>
                 /\ file[d][op.uuid].entry # None
                 /\ file[d][op.uuid].entry.mod = op.content.mod
                 /\ file[d][op.uuid].entry.data = op.content.data
  <2>1. PICK u \in Entry :
          /\ Exported(file[d][u]) # None
          /\ op = [uuid |-> u, content |-> Exported(file[d][u]).content,
                   trigger |-> Exported(file[d][u]).trigger]
    BY DEF ToPush
  <2>2. TimedObject(file[d][u]) /\ clock \in Nat
    BY NumbersOfCopies
  <2>3. /\ file[d][u].dead <= clock
        /\ file[d][u].entry # None =>
             file[d][u].entry.mod <= clock /\ file[d][u].entry.loc <= clock
    BY DEF MemoryInv, FilesPast
  <2> DEFINE x == Exported(file[d][u])
  <2>4. /\ Past(x.content) /\ x.trigger <= clock
        /\ ~x.content.deleted =>
             /\ file[d][u].entry # None
             /\ x.content.mod = file[d][u].entry.mod /\ x.content.data = file[d][u].entry.data
    BY <2>1, <2>2, <2>3, ExportedPast
  <2>5. op.uuid = u /\ op.content = x.content /\ op.trigger = x.trigger
    BY <2>1
  <2>6. Fits(file[d][u], op)
    BY <2>1, <2>5 DEF Fits
  <2> HIDE DEF x
  <2> QED BY <2>4, <2>5, <2>6
<1> HIDE DEF ops
<1>3. r.rows = run[d].rows /\ r.out = ops
  <2>1. run[d] \in Run
    BY RunParts
  <2> QED BY <2>1 DEF Run
<1> HIDE DEF r
<1>4. \A e \in Device : run'[e] = IF e = d THEN r ELSE run[e]
  BY <1>1 DEF TypeInv, RunInv
<1>5. FilesPast' /\ StatesSent'
  BY <1>1 DEF MemoryInv, FilesPast, StatesSent, Sent, Buried
<1>6. VersionsGot'
  <2>1. \A e \in Device : run'[e].rows = run[e].rows
    BY <1>3, <1>4
  <2> QED BY <1>1, <2>1 DEF MemoryInv, VersionsGot, Past, Up
<1>7. PushesFit'
  <2>1. ASSUME NEW e \in Device, NEW op \in run'[e].out
        PROVE Past(op.content) /\ op.trigger <= clock /\ Fits(file[e][op.uuid], op)
    BY <1>2, <1>3, <1>4 DEF MemoryInv, PushesFit
  <2> QED BY <1>1, <2>1 DEF PushesFit, Past
<1>8. ASSUME NEW u \in Entry, NEW m, NEW x, Copy(u, m, x)' PROVE Copy(u, m, x)
  <2>1. CASE \E e \in Device :
               /\ run'[e].rows[u] # None /\ ~run'[e].rows[u].content.deleted
               /\ run'[e].rows[u].content.mod = m /\ run'[e].rows[u].content.data = x
    BY <1>3, <1>4, <2>1 DEF Copy
  <2>2. ASSUME NEW e \in Device, NEW op \in run'[e].out,
               op.uuid = u, ~op.content.deleted, op.content.mod = m, op.content.data = x
        PROVE Copy(u, m, x)
    BY <1>2, <1>3, <1>4, <2>2 DEF Copy
  <2> QED BY <1>1, <1>8, <2>1, <2>2 DEF Copy
<1>9. TimesDiffer'
  BY <1>1, <1>8 DEF MemoryInv, TimesDiffer, Buried
<1> QED BY <1>5, <1>6, <1>7, <1>9 DEF MemoryInv

-----------------------------------------------------------------------------

\* A change of a user is later than everything, so that nothing of it was recorded.
LEMMA ChangeMemory ==
  ASSUME TypeInv, MemoryInv, NEW d \in Device, NEW u \in Entry, NEW t, t = clock + 1,
         NEW o, NEW last, TimedObject(o), Change(d, u, t, o, last),
         o.entry = None => o.dead = t,
         o.entry # None =>
           \/ o.entry.mod = t /\ o.entry.loc <= t
           \/ /\ o.entry.loc = t /\ file[d][u].entry # None
              /\ o.entry.mod = file[d][u].entry.mod /\ o.entry.data = file[d][u].entry.data
  PROVE MemoryInv'
<1>1. /\ clock' = t /\ clock \in Nat
      /\ file' = [file EXCEPT ![d] = [file[d] EXCEPT ![u] = o]]
      /\ UNCHANGED <<latest, disk, memory, run, uploaded, unmerged>>
  BY DEF Change, server, history, TypeInv, UserInv
<1>2. \A e \in Device, v \in Entry :
        file'[e][v] = IF e = d /\ v = u THEN o ELSE file[e][v]
  BY <1>1 DEF TypeInv, UserInv
<1>3. o \in Object /\ (o.entry # None => o.entry \in Local /\ o.dead = 0)
  BY DEF TimedObject, Object
<1>4. o.entry # None => o.entry.mod <= t /\ o.entry.loc <= t
                        /\ laterTime(o.entry.mod, o.entry.loc) = t
  BY <1>1, <1>3 DEF MemoryInv, FilesPast, laterTime, Local
<1>5. FilesPast'
  <2>1. \A e \in Device, v \in Entry :
          /\ file[e][v].dead \in Nat
          /\ file[e][v].entry # None =>
               file[e][v].entry.mod \in Nat /\ file[e][v].entry.loc \in Nat
    BY NumbersOfCopies DEF Object, Local
  <2>2. \A e \in Device, v \in Entry :
          /\ file[e][v].dead <= clock + 1
          /\ file[e][v].entry # None =>
               file[e][v].entry.mod <= clock + 1 /\ file[e][v].entry.loc <= clock + 1
    BY <1>1, <2>1 DEF MemoryInv, FilesPast
  <2>3. o.dead <= t
    BY <1>1, <1>3
  <2> QED BY <1>1, <1>2, <1>4, <2>2, <2>3 DEF FilesPast
<1>6. ASSUME NEW c \in Content, Past(c) PROVE Past(c)'
  BY <1>1, <1>6 DEF Past, Content
<1>7. VersionsGot'
  <2>1. ASSUME NEW v \in Entry, latest[v] # None
        PROVE Past(latest[v].content)' /\ Up(v, latest[v].content)'
    <3>1. Past(latest[v].content) /\ latest[v].content \in Content /\ Up(v, latest[v].content)
      BY <2>1, NumbersOfCopies DEF MemoryInv, VersionsGot
    <3> DEFINE c == latest[v].content
    <3>2. c' = c
      BY <1>1
    <3> QED BY <1>1, <3>1 DEF Past, Up, Content
  <2>2. ASSUME NEW e \in Device, NEW v \in Entry, run[e].rows[v] # None
        PROVE Past(run[e].rows[v].content)' /\ Up(v, run[e].rows[v].content)'
    <3>1. /\ Past(run[e].rows[v].content) /\ run[e].rows[v].content \in Content
          /\ Up(v, run[e].rows[v].content)
      BY <2>2, NumbersOfCopies DEF MemoryInv, VersionsGot
    <3> QED BY <1>1, <3>1 DEF Past, Up, Content
  <2> QED BY <1>1, <2>1, <2>2 DEF VersionsGot
<1>8. PushesFit'
  <2>1. SUFFICES ASSUME NEW e \in Device, NEW op \in run[e].out
        PROVE Past(op.content)' /\ op.trigger <= t /\ Fits(file'[e][op.uuid], op)
    BY <1>1 DEF PushesFit
  <2>2. /\ Past(op.content) /\ op.trigger <= clock /\ Fits(file[e][op.uuid], op)
        /\ op.uuid \in Entry /\ op.content \in Content /\ op.trigger \in Nat
    BY RunParts DEF MemoryInv, PushesFit
  <2>3. op.trigger < t
    BY <1>1, <2>2
  <2>4. CASE e = d /\ op.uuid = u
    <3>1. file'[e][op.uuid] = o
      BY <1>2, <2>4
    <3>2. Fits(o, op)
      BY <1>1, <1>4, <2>2, <2>3 DEF Fits
    <3> QED BY <1>1, <1>6, <2>2, <2>3, <3>1, <3>2
  <2>5. CASE ~(e = d /\ op.uuid = u)
    BY <1>1, <1>2, <1>6, <2>2, <2>3, <2>5
  <2> QED BY <2>4, <2>5
<1>9. ASSUME NEW v \in Entry, NEW m, NEW x, Copy(v, m, x)'
      PROVE Copy(v, m, x) \/ (v = u /\ m = t /\ o.entry # None /\ x = o.entry.data)
  <2>1. latest' = latest /\ run' = run
    BY <1>1
  <2>2. ASSUME NEW e \in Device, file'[e][v].entry # None, file'[e][v].entry.mod = m,
               file'[e][v].entry.data = x
        PROVE Copy(v, m, x) \/ (v = u /\ m = t /\ o.entry # None /\ x = o.entry.data)
    <3>1. CASE e = d /\ v = u
      <4>1. o.entry # None /\ o.entry.mod = m /\ o.entry.data = x
        BY <1>2, <2>2, <3>1
      <4>2. \/ m = t
            \/ file[d][u].entry # None /\ file[d][u].entry.mod = m /\ file[d][u].entry.data = x
        BY <4>1
      <4> QED BY <3>1, <4>1, <4>2 DEF Copy
    <3>2. CASE ~(e = d /\ v = u)
      <4>1. file'[e][v] = file[e][v]
        BY <1>2, <3>2
      <4> QED BY <2>2, <4>1 DEF Copy
    <3> QED BY <3>1, <3>2
  <2>3. CASE \E e \in Device :
               file'[e][v].entry # None /\ file'[e][v].entry.mod = m /\ file'[e][v].entry.data = x
    BY <2>2, <2>3
  <2>4. CASE ~\E e \in Device :
               file'[e][v].entry # None /\ file'[e][v].entry.mod = m /\ file'[e][v].entry.data = x
    BY <1>9, <2>1, <2>4 DEF Copy
  <2> QED BY <2>3, <2>4
<1>10. ASSUME NEW v \in Entry, NEW m \in Nat, NEW x, Copy(v, m, x) PROVE m < t
  BY <1>1, <1>10, CopyPast
<1>11. TimesDiffer'
  <2>1. ASSUME NEW v \in Entry, NEW m \in Nat, NEW x \in Nat, NEW y \in Nat,
               Copy(v, m, x)', Copy(v, m, y)'
        PROVE x = y
    <3>1. CASE Copy(v, m, x) /\ Copy(v, m, y)
      BY <3>1 DEF MemoryInv, TimesDiffer
    <3>2. CASE ~Copy(v, m, x) \/ ~Copy(v, m, y)
      <4>1. m = t
        BY <1>9, <2>1, <3>2
      <4>2. ~Copy(v, m, x) /\ ~Copy(v, m, y)
        BY <1>1, <1>10, <4>1
      <4> QED BY <1>9, <2>1, <4>2
    <3> QED BY <3>1, <3>2
  <2>2. ASSUME NEW e \in Device, NEW v \in Entry, NEW x \in Nat,
               file'[e][v].dead # 0, Copy(v, file[e][v].dead, x)'
        PROVE Buried(v)'
    <3> DEFINE m == file'[e][v].dead
    <3>1. Copy(v, m, x) \/ (v = u /\ m = t /\ o.entry # None)
      BY <1>9, <2>2
    <3>2. CASE e = d /\ v = u
      <4>1. m = o.dead
        BY <1>2, <3>2
      <4>2. m = t /\ o.entry = None
        BY <1>3, <2>2, <4>1
      <4>3. m \in Nat /\ Copy(v, m, x)
        BY <1>1, <3>1, <4>2
      <4>4. m < t
        BY <1>10, <4>3
      <4> QED BY <1>1, <4>2, <4>4
    <3>3. CASE ~(e = d /\ v = u)
      <4>1. m = file[e][v].dead /\ m <= clock /\ m \in Nat
        BY <1>2, <3>3, NumbersOfCopies DEF MemoryInv, FilesPast, Object
      <4>2. Copy(v, file[e][v].dead, x)
        BY <1>1, <3>1, <4>1
      <4> QED BY <1>1, <2>2, <4>1, <4>2 DEF MemoryInv, TimesDiffer, Buried
    <3> QED BY <3>2, <3>3
  <2> QED BY <2>1, <2>2 DEF TimesDiffer
<1>12. StatesSent'
  <2>1. SUFFICES ASSUME NEW e \in Device, NEW v \in Entry, v \notin unmerged[e],
                        NEW b \in {memory[e], disk[e]}
        PROVE b.states[v] <= t /\ Sent(v, file[e][v], b.states[v])'
    BY <1>1 DEF StatesSent
  <2>2. /\ b.states[v] <= clock /\ b.states[v] \in Nat
        /\ Sent(v, file[e][v], b.states[v])
    BY <2>1, NumbersOfCopies DEF MemoryInv, StatesSent
  <2>3. b.states[v] < t /\ b' = b
    BY <1>1, <2>2
  <2>4. CASE e = d /\ v = u
    <3>1. Sent(v, o, b.states[v])'
      BY <1>1, <1>4, <2>2, <2>3 DEF Sent
    <3> QED BY <1>1, <1>2, <2>2, <2>3, <2>4, <3>1 DEF Sent
  <2>5. CASE ~(e = d /\ v = u)
    BY <1>1, <1>2, <2>2, <2>3, <2>5 DEF Sent, Buried
  <2> QED BY <2>4, <2>5
<1> QED BY <1>5, <1>7, <1>8, <1>11, <1>12 DEF MemoryInv

\* What users do, when every change has a second of its own.
LEMMA UserMemory ==
  ASSUME ~SameSecond, TypeInv, MemoryInv, NEW d \in Device, UserStep(d)
  PROVE MemoryInv'
<1> DEFINE t == clock + 1
<1>1. PICK u \in Entry :
        \/ \E p \in Folder : Create(d, u, p, t)
        \/ Edit(d, u, t)
        \/ \E p \in Place : Relocate(d, u, p, t)
        \/ Purge(d, u, t)
  BY DEF UserStep, Times
<1>2. t \in Nat \ {0} /\ changed \in Nat /\ clock \in Nat
  BY DEF TypeInv, UserInv
<1>3. file[d][u].entry # None =>
        /\ file[d][u].entry \in Local /\ file[d][u].entry.mod # 0 /\ file[d][u].entry.loc # 0
        /\ file[d][u].entry.loc <= t
  <2>1. TimedObject(file[d][u]) /\ (file[d][u].entry # None => file[d][u].entry.loc <= clock)
    BY DEF TypeInv, UserInv, MemoryInv, FilesPast
  <2> QED BY <1>2, <2>1 DEF TimedObject, Object, Local
<1>4. ASSUME NEW e \in Local, e.mod # 0, e.loc # 0
      PROVE TimedObject([entry |-> e, dead |-> 0]) /\ e # None
  BY <1>4, NoneIsNotLocal DEF TimedObject, Object
<1>5. t = clock + 1
  OBVIOUS
<1> HIDE DEF t
<1>6. ASSUME NEW p \in Folder, Create(d, u, p, t) PROVE MemoryInv'
  <2> DEFINE e == [place |-> p, data |-> changed + 1, mod |-> t, loc |-> t]
             o == [entry |-> e, dead |-> 0]
             last == [data |-> e.data, place |-> p]
  <2>1. e \in Local /\ e.mod = t /\ e.loc = t
    BY <1>2 DEF Local, Place
  <2>2. Change(d, u, t, o, last)
    BY <1>6 DEF Create
  <2> HIDE DEF e, last
  <2>3. TimedObject(o) /\ o.entry = e /\ e # None
    BY <1>2, <1>4, <2>1
  <2> HIDE DEF o
  <2>4. o.entry.mod = t /\ o.entry.loc <= t
    BY <1>2, <2>1, <2>3
  <2> QED BY <1>2, <1>5, <2>2, <2>3, <2>4, ChangeMemory
<1>7. CASE Edit(d, u, t)
  <2> DEFINE x == file[d][u].entry
             n == changed + 1
             e == [x EXCEPT !.data = n, !.mod = t]
             o == [entry |-> e, dead |-> 0]
             last == [newest[u] EXCEPT !.data = e.data]
  <2>1. x \in Local /\ x.loc # 0 /\ x.loc <= t /\ n \in Nat
    BY <1>2, <1>3, <1>7 DEF Edit, Live, Present
  <2>2. Change(d, u, t, o, last)
    BY <1>7 DEF Edit
  <2> HIDE DEF x, n
  <2>3. e \in Local /\ e.mod = t /\ e.loc = x.loc
    BY <1>2, <2>1 DEF Local
  <2> HIDE DEF e, last
  <2>4. TimedObject(o) /\ o.entry = e /\ e # None
    BY <1>2, <1>4, <2>1, <2>3
  <2> HIDE DEF o
  <2>5. o.entry.mod = t /\ o.entry.loc <= t
    BY <2>1, <2>3, <2>4
  <2> QED BY <1>2, <1>5, <2>2, <2>4, <2>5, ChangeMemory
<1>8. ASSUME NEW p \in Place, Relocate(d, u, p, t) PROVE MemoryInv'
  <2> DEFINE x == file[d][u].entry
             e == [x EXCEPT !.place = p, !.loc = t]
             o == [entry |-> e, dead |-> 0]
             last == [data |-> IF p = Bin THEN 0
                               ELSE IF x.place = Bin THEN e.data
                               ELSE newest[u].data,
                      place |-> p]
  <2>1. x # None /\ x \in Local /\ x.mod # 0
    BY <1>3, <1>8 DEF Relocate, Present
  <2>2. Change(d, u, t, o, last)
    BY <1>8 DEF Relocate
  <2>3. e \in Local /\ e.loc = t /\ e.mod = x.mod /\ e.data = x.data
    BY <1>2, <2>1 DEF Local
  <2> HIDE DEF e, last
  <2>4. TimedObject(o) /\ o.entry = e /\ e # None
    BY <1>2, <1>4, <2>1, <2>3
  <2> HIDE DEF o
  <2>5. /\ o.entry.loc = t /\ file[d][u].entry # None
        /\ o.entry.mod = file[d][u].entry.mod /\ o.entry.data = file[d][u].entry.data
    BY <2>1, <2>3, <2>4
  <2> QED BY <1>2, <1>5, <2>2, <2>4, <2>5, ChangeMemory
<1>9. CASE Purge(d, u, t)
  <2> DEFINE o == [entry |-> None, dead |-> t]
             last == [newest[u] EXCEPT !.data = 0]
  <2>1. TimedObject(o) /\ o.entry = None /\ o.dead = t
    BY <1>2 DEF TimedObject, Object
  <2>2. Change(d, u, t, o, last)
    BY <1>9 DEF Purge
  <2> HIDE DEF o, last
  <2> QED BY <1>2, <1>5, <2>1, <2>2, ChangeMemory
<1> QED BY <1>1, <1>6, <1>7, <1>8, <1>9 DEF t

\* A merge records times of versions, and the file has those versions afterwards.
LEMMA pullChangesMemory ==
  ASSUME TypeInv, MemoryInv, NEW d \in Device, pullChanges(d)
  PROVE MemoryInv'
<1> DEFINE row == run[d].rows
           merged == [u \in Entry |-> IF row[u] = None THEN file[d][u]
                                      ELSE Merge(file[d][u], row[u].content)]
           b == Recorded(d, run[d].newSeq)
<1>1. /\ file' = [file EXCEPT ![d] = merged]
      /\ memory' = [memory EXCEPT ![d] = b]
      /\ UNCHANGED <<latest, clock, disk, run, uploaded, unmerged>>
  BY DEF pullChanges, server, user
<1>2. /\ \A e \in Device, u \in Entry :
           file'[e][u] = IF e = d THEN merged[u] ELSE file[e][u]
      /\ \A e \in Device : memory'[e] = IF e = d THEN b ELSE memory[e]
      /\ run[d].out = {} /\ clock \in Nat
  BY <1>1, RunParts DEF TypeInv, RunInv, UserInv, RunAt, pullChanges
<1>3. ASSUME NEW u \in Entry, row[u] # None
      PROVE /\ row[u].content \in Content /\ TimedContent(row[u].content)
            /\ Past(row[u].content) /\ Up(u, row[u].content)
  BY <1>3, NumbersOfCopies DEF MemoryInv, VersionsGot
<1>4. \A u \in Entry : TimedObject(file[d][u])
  BY NumbersOfCopies
<1>5. ASSUME NEW u \in Entry
      PROVE \/ row[u] = None /\ merged[u] = file[d][u]
            \/ row[u] # None /\ MergeLeaves(file[d][u], row[u].content, merged[u])
  BY <1>3, <1>4, MergeOutcome
<1>6. ASSUME NEW u \in Entry
      PROVE b.states[u] \in {memory[d].states[u]}
                            \cup (IF row[u] = None THEN {}
                                  ELSE {laterTime(memory[d].states[u], row[u].content.mod)})
  <2> DEFINE n == run[d].newSeq
             sts == [v \in Entry |-> IF row[v] # None /\ row[v].seq <= n
                                     THEN RecordEntryStateIfNewer(memory[d].states[v], row[v])
                                     ELSE memory[d].states[v]]
  <2>1. b = [memory[d] EXCEPT !.states = sts]
    BY DEF Recorded
  <2> HIDE DEF sts
  <2>2. b.states = sts
    BY <2>1, RunParts DEF Binding
  <2> QED BY <2>2 DEF sts, RecordEntryStateIfNewer
<1> HIDE DEF row, merged, b
<1>7. ASSUME NEW u \in Entry, row[u] # None, ~row[u].content.deleted
      PROVE Copy(u, row[u].content.mod, row[u].content.data)
  BY <1>7 DEF Copy, row
<1>8. ASSUME NEW u \in Entry, file[d][u].entry # None
      PROVE Copy(u, file[d][u].entry.mod, file[d][u].entry.data)
  BY <1>8 DEF Copy
<1>9. FilesPast'
  <2>1. ASSUME NEW u \in Entry
        PROVE /\ merged[u].dead <= clock
              /\ merged[u].entry # None =>
                   merged[u].entry.mod <= clock /\ merged[u].entry.loc <= clock
    BY <1>2, <1>3, <1>5 DEF MemoryInv, FilesPast, MergeLeaves, Past
  <2> QED BY <1>1, <1>2, <2>1 DEF MemoryInv, FilesPast
<1>10. VersionsGot'
  BY <1>1 DEF MemoryInv, VersionsGot, Past, Up
<1>11. PushesFit'
  <2>1. ASSUME NEW e \in Device, NEW op \in run[e].out
        PROVE Past(op.content) /\ op.trigger <= clock /\ Fits(file'[e][op.uuid], op)
    <3>1. e # d /\ op.uuid \in Entry
      BY <1>2, RunParts
    <3> QED BY <1>2, <3>1 DEF MemoryInv, PushesFit
  <2> QED BY <1>1, <2>1 DEF PushesFit, Past
<1>12. ASSUME NEW u \in Entry, NEW m, NEW x, Copy(u, m, x)' PROVE Copy(u, m, x)
  <2>1. ASSUME NEW e \in Device, file'[e][u].entry # None,
               file'[e][u].entry.mod = m, file'[e][u].entry.data = x
        PROVE Copy(u, m, x)
    <3>1. CASE e = d
      BY <1>2, <1>5, <1>7, <1>8, <2>1, <3>1 DEF MergeLeaves
    <3>2. CASE e # d
      BY <1>2, <2>1, <3>2 DEF Copy
    <3> QED BY <3>1, <3>2
  <2> QED BY <1>1, <1>12, <2>1 DEF Copy
<1>13. \A u \in Entry : Buried(u) => Buried(u)'
  BY <1>1 DEF Buried
<1>14. TimesDiffer'
  <2>1. \A u \in Entry, m, x, y \in Nat : Copy(u, m, x)' /\ Copy(u, m, y)' => x = y
    BY <1>12 DEF MemoryInv, TimesDiffer
  <2>2. ASSUME NEW e \in Device, NEW u \in Entry, NEW x \in Nat,
               file'[e][u].dead # 0, Copy(u, file[e][u].dead, x)'
        PROVE Buried(u)
    <3>1. Copy(u, file'[e][u].dead, x)
      BY <1>12, <2>2
    <3>2. CASE file'[e][u].dead = file[e][u].dead
      BY <2>2, <3>1, <3>2 DEF MemoryInv, TimesDiffer
    <3>3. CASE file'[e][u].dead # file[e][u].dead
      <4>1. e = d /\ row[u] # None /\ MergeLeaves(file[d][u], row[u].content, merged[u])
        BY <1>2, <1>5, <3>3
      <4>2. row[u].content.deleted
        BY <1>2, <2>2, <3>3, <4>1 DEF MergeLeaves
      <4> QED BY <1>3, <4>1, <4>2 DEF Past, Up, Buried
    <3> QED BY <3>2, <3>3
  <2> QED BY <1>13, <2>1, <2>2 DEF TimesDiffer
<1>15. ASSUME NEW u \in Entry, NEW s \in Nat, s <= clock, Sent(u, file[d][u], s),
              NEW t \in {s} \cup (IF row[u] = None THEN {}
                                  ELSE {laterTime(s, row[u].content.mod)})
       PROVE t <= clock /\ Sent(u, merged[u], t)
  <2>1. CASE row[u] = None
    BY <1>5, <1>15, <2>1
  <2>2. CASE row[u] # None
    <3> DEFINE c == row[u].content
               o == file[d][u]
    <3>1. c \in Content /\ TimedContent(c) /\ Past(c) /\ Up(u, c) /\ TimedObject(o)
      BY <1>3, <1>4, <2>2
    <3>2. ~c.deleted /\ o.entry # None /\ o.entry.mod = c.mod => o.entry.data = c.data
      <4>1. o.entry # None => o.entry.mod \in Nat /\ o.entry.data \in Nat
        BY <3>1 DEF TimedObject, Object, Local
      <4>2. c.data \in Nat
        BY <3>1 DEF Content
      <4> QED BY <1>7, <1>8, <2>2, <4>1, <4>2 DEF MemoryInv, TimesDiffer
    <3>3. ~c.deleted /\ o.dead # 0 /\ o.dead = c.mod => Buried(u)
      <4>1. c.data \in Nat
        BY <3>1 DEF Content
      <4> QED BY <1>7, <2>2, <4>1 DEF MemoryInv, TimesDiffer
    <3>4. merged[u] = Merge(o, c)
      BY <2>2 DEF merged
    <3>5. t \in {s, laterTime(s, c.mod)}
      BY <1>15, <2>2
    <3>6. c.mod <= clock
      BY <3>1 DEF Past
    <3> HIDE DEF c, o
    <3>7. Sent(u, o, s)
      BY <1>15 DEF o
    <3>8. Sent(u, Merge(o, c), t)
      BY <3>1, <3>2, <3>3, <3>5, <3>7, MergeSent
    <3> QED BY <1>15, <3>4, <3>5, <3>6, <3>8 DEF laterTime
  <2> QED BY <2>1, <2>2
<1>16. StatesSent'
  <2>1. SUFFICES ASSUME NEW e \in Device, NEW u \in Entry, u \notin unmerged[e],
                        NEW x \in {memory'[e], disk'[e]}
        PROVE x.states[u] <= clock /\ Sent(u, file[e][u], x.states[u])'
    BY <1>1 DEF StatesSent
  <2>2. SUFFICES x.states[u] <= clock /\ Sent(u, file'[e][u], x.states[u])
    BY <1>1 DEF Sent, Buried
  <2>3. \A s \in {memory[e].states[u], disk[e].states[u]} :
          s \in Nat /\ s <= clock /\ Sent(u, file[e][u], s)
    BY <2>1, NumbersOfCopies DEF MemoryInv, StatesSent
  <2>4. CASE e = d
    <3>1. file'[e][u] = merged[u] /\ (x = b \/ x = disk[d])
      BY <1>1, <1>2, <2>4
    <3>2. CASE x = disk[d]
      BY <1>15, <2>3, <2>4, <3>1, <3>2
    <3>3. CASE x = b
      BY <1>6, <1>15, <2>3, <2>4, <3>1, <3>3
    <3> QED BY <3>1, <3>2, <3>3
  <2>5. CASE e # d
    BY <1>1, <1>2, <2>3, <2>5
  <2> QED BY <2>4, <2>5
<1> QED BY <1>9, <1>10, <1>11, <1>14, <1>16 DEF MemoryInv

\* Every step keeps MemoryInv.
LEMMA MemoryInvStep ==
  ~SameSecond /\ TypeInv /\ UnmergedInv /\ MemoryInv /\ [Next]_vars => MemoryInv'
<1> SUFFICES ASSUME ~SameSecond, TypeInv, UnmergedInv, MemoryInv, [Next]_vars
             PROVE MemoryInv'
  OBVIOUS
<1>1. CASE UNCHANGED vars
  BY <1>1, StepMemory DEF vars
<1>2. ASSUME NEW d \in Device, RunStep(d) PROVE MemoryInv'
  BY <1>2, StartMemory, SelectRowsMemory, SelectCurrentSeqMemory, pullChangesMemory,
     doSyncMemory, ExportMemory, pushChangesMemory, FinishMemory
  DEF RunStep
<1>3. ASSUME NEW d \in Device, FaultStep(d) PROVE MemoryInv'
  BY <1>3, PullFailsMemory, PushFailsMemory, AnswerLostMemory, SaveFailsMemory, CrashMemory
  DEF FaultStep
<1> QED BY <1>1, <1>2, <1>3, UserMemory DEF Next

\* What is not to be pushed has been, if what was recorded of it has been.
LEMMA MemoryForgetsNothing == TypeInv /\ MemoryInv => NothingForgotten
<1> SUFFICES ASSUME TypeInv, MemoryInv, NEW d \in Device, NEW u \in Entry,
                    u \notin unmerged[d], Exported(file[d][u]) # None,
                    Present(d, u) => Live(d, u),
                    ~shouldPush(memory[d].states[u], Exported(file[d][u]).trigger)
             PROVE \E v \in uploaded[u] :
                     \/ v.data = Exported(file[d][u]).content.data
                     \/ v.data = 0 /\ Present(d, u) /\ v.mod = file[d][u].entry.loc
  BY DEF NothingForgotten
<1> DEFINE o == file[d][u]
           s == memory[d].states[u]
<1>1. Sent(u, o, s) /\ s \in Nat /\ TimedObject(o)
  BY NumbersOfCopies DEF MemoryInv, StatesSent
<1>2. Exported(o).trigger \in Nat /\ s >= Exported(o).trigger
  BY <1>1, ExportTypes DEF shouldPush
<1>3. CASE o.entry # None
  <2>1. o.entry.place # Bin
    BY <1>3 DEF Present, Live
  <2>2. /\ Exported(o).content.data = o.entry.data
        /\ Exported(o).trigger = laterTime(o.entry.mod, o.entry.loc)
    BY <1>3, <2>1 DEF Exported, collectTree
  <2> QED BY <1>1, <1>2, <1>3, <2>2 DEF Sent, Present
<1>4. CASE o.entry = None
  <2>1. o.dead # 0 /\ Exported(o).content = Tombstone(o.dead) /\ Exported(o).trigger = o.dead
    BY <1>4 DEF Exported
  <2>2. Exported(o).content.data = 0
    BY <2>1 DEF Tombstone
  <2> QED BY <1>1, <1>2, <1>4, <2>1, <2>2 DEF Sent, Buried
<1> QED BY <1>3, <1>4

\* Unless two changes fall into one second, no device ever takes for sent what the
\* server never got: the time recorded for an entry after a push, a pull, a failure or
\* a restart is only as late as that of something the server has got of it.
THEOREM NothingIsForgotten == ~SameSecond => (Spec => []NothingForgotten)
<1>1. ASSUME ~SameSecond PROVE Spec => []NothingForgotten
  <2>1. Init => MemoryInv
    BY MemoryInvInit
  <2>2. TypeInv /\ UnmergedInv /\ MemoryInv /\ [Next]_vars => MemoryInv'
    BY <1>1, MemoryInvStep
  <2> QED BY <2>1, <2>2, TypeInvHolds, UnmergedHolds, MemoryForgetsNothing, PTL DEF Spec
<1> QED BY <1>1

-----------------------------------------------------------------------------
(* The last writer wins, when every change has a second of its own, runs      *)
(* exclude each other and nothing is put into the recycle bin.                *)

NoBin == "trash" \notin Changes

\* When an object was edited or deleted for good, and the payload it has since.
Stamp(o) == IF o.entry # None THEN o.entry.mod ELSE o.dead
Payload(o) == IF o.entry # None THEN o.entry.data ELSE 0

Shelved(c) == ~c.deleted /\ c.place = Bin
Binned(o) == o.entry # None /\ o.entry.place = Bin

LEMMA StampTypes ==
  ASSUME NEW o, TimedObject(o)
  PROVE /\ Stamp(o) \in Nat /\ Payload(o) \in Nat
        /\ o.entry # None => o.dead = 0 /\ Stamp(o) # 0
        /\ o.entry # None => o.entry \in Local
BY DEF TimedObject, Object, Local, Stamp, Payload

\* A merge leaves the payload of the later of two changes, except that of two deletions
\* it keeps the one it has.
LEMMA MergeMark ==
  ASSUME NEW o, TimedObject(o), NEW c \in Content, TimedContent(c), c.deleted => c.data = 0
  PROVE /\ \/ Stamp(Merge(o, c)) = Stamp(o) /\ Payload(Merge(o, c)) = Payload(o)
           \/ Stamp(Merge(o, c)) = c.mod /\ Payload(Merge(o, c)) = c.data
        /\ Stamp(Merge(o, c)) >= Stamp(o)
        /\ \/ Stamp(Merge(o, c)) >= c.mod
           \/ c.deleted /\ o.entry = None /\ o.dead # 0 /\ Merge(o, c) = o
        /\ ~Binned(o) /\ ~Shelved(c) => ~Binned(Merge(o, c))
<1> DEFINE e == IF c.deleted THEN o.entry ELSE MergeEntry(o.entry, c)
           times == {t \in {o.dead} \cup (IF c.deleted THEN {c.mod} ELSE {}) : t # 0}
           r == Merge(o, c)
           Goal(x) == /\ \/ Stamp(x) = Stamp(o) /\ Payload(x) = Payload(o)
                         \/ Stamp(x) = c.mod /\ Payload(x) = c.data
                      /\ Stamp(x) >= Stamp(o)
                      /\ \/ Stamp(x) >= c.mod
                         \/ c.deleted /\ o.entry = None /\ o.dead # 0 /\ x = o
                      /\ ~Binned(o) /\ ~Shelved(c) => ~Binned(x)
<1>1. o.dead \in Nat /\ c.mod \in Nat \ {0} /\ c.deleted \in BOOLEAN /\ Stamp(o) \in Nat
  BY StampTypes DEF TimedObject, Object, Content, TimedContent
<1>2. o.entry # None => o.entry \in Local /\ o.dead = 0 /\ o.entry.mod \in Nat
  BY DEF TimedObject, Object, Local
<1>3. r = IF times = {} THEN [entry |-> e, dead |-> 0]
          ELSE IF e = None /\ o.dead # 0 THEN o ELSE MergeDeletion(e, times)
  BY DEF Merge
<1> SUFFICES Goal(r)
  OBVIOUS
<1> HIDE DEF r
<1>4. CASE c.deleted
  <2>1. e = o.entry /\ c.mod \in times
    BY <1>1, <1>4
  <2>2. CASE o.entry = None /\ o.dead # 0
    <3>1. r = o
      BY <1>3, <2>1, <2>2
    <3> QED BY <1>1, <1>4, <2>2, <3>1
  <2>3. CASE ~(o.entry = None /\ o.dead # 0)
    <3>1. times = {c.mod}
      BY <1>1, <1>2, <1>4, <2>3
    <3>2. r = MergeDeletion(o.entry, {c.mod})
      BY <1>3, <2>1, <2>3, <3>1
    <3>3. r = IF o.entry # None /\ o.entry.mod > c.mod THEN [entry |-> o.entry, dead |-> 0]
              ELSE [entry |-> None, dead |-> c.mod]
      BY <1>1, <3>2, MergeDeletionOnce
    <3>4. CASE o.entry # None /\ o.entry.mod > c.mod
      BY <1>1, <1>2, <3>3, <3>4 DEF Stamp, Payload, Binned
    <3>5. CASE ~(o.entry # None /\ o.entry.mod > c.mod)
      <4>1. Stamp(o) <= c.mod
        BY <1>1, <1>2, <2>3, <3>5 DEF Stamp
      <4>2. r = [entry |-> None, dead |-> c.mod]
        BY <3>3, <3>5
      <4>3. Stamp(r) = c.mod /\ Payload(r) = 0 /\ ~Binned(r)
        BY <4>2 DEF Stamp, Payload, Binned
      <4> QED BY <1>1, <1>4, <4>1, <4>3
    <3> QED BY <3>4, <3>5
  <2> QED BY <2>2, <2>3
<1>5. CASE ~c.deleted
  <2>1. e = MergeEntry(o.entry, c)
    BY <1>5
  <2>2. e \in Local
    BY <1>5, <2>1, MergeEntryTypes
  <2>3. e # None
    BY <2>2, NoneIsNotLocal
  <2>4. times = IF o.dead = 0 THEN {} ELSE {o.dead}
    BY <1>5
  <2>5. CASE o.entry # None
    <3>1. r = [entry |-> e, dead |-> 0]
      BY <1>2, <1>3, <2>4, <2>5
    <3> DEFINE newer == IF o.entry.mod < c.mod THEN c ELSE o.entry
    <3>2. e.data = newer.data /\ e.mod = newer.mod /\ e.place \in {c.place, o.entry.place}
      BY <2>1, <2>5 DEF MergeEntry
    <3>3. o.entry.mod \in Nat
      BY <1>2, <2>5 DEF Local
    <3> HIDE DEF e
    <3>4. Stamp(r) = newer.mod /\ Payload(r) = newer.data
      BY <2>3, <3>1, <3>2 DEF Stamp, Payload
    <3>5. Stamp(o) = o.entry.mod /\ Payload(o) = o.entry.data
      BY <2>5 DEF Stamp, Payload
    <3>6. ~Binned(o) /\ ~Shelved(c) => ~Binned(r)
      BY <1>5, <2>5, <3>1, <3>2 DEF Binned, Shelved
    <3> QED BY <1>1, <3>3, <3>4, <3>5, <3>6
  <2>6. CASE o.entry = None
    <3>1. e.data = c.data /\ e.mod = c.mod /\ e.place = c.place
      BY <2>1, <2>6 DEF MergeEntry
    <3>2. Stamp(o) = o.dead
      BY <2>6 DEF Stamp
    <3>3. CASE o.dead = 0 \/ e.mod > o.dead
      <4>1. r = [entry |-> e, dead |-> 0]
        <5>1. CASE o.dead = 0
          BY <1>3, <2>4, <5>1
        <5>2. CASE o.dead # 0
          <6>1. r = MergeDeletion(e, {o.dead})
            BY <1>3, <2>3, <2>4, <5>2
          <6> QED BY <1>1, <2>3, <3>3, <5>2, <6>1, MergeDeletionOnce
        <5> QED BY <5>1, <5>2
      <4> HIDE DEF e
      <4>2. Stamp(r) = c.mod /\ Payload(r) = c.data /\ (Binned(r) => c.place = Bin)
        BY <2>3, <3>1, <4>1 DEF Stamp, Payload, Binned
      <4> QED BY <1>1, <1>5, <3>1, <3>2, <3>3, <4>2 DEF Shelved
    <3>4. CASE o.dead # 0 /\ ~(e.mod > o.dead)
      <4>1. r = MergeDeletion(e, {o.dead})
        BY <1>3, <2>3, <2>4, <3>4
      <4>2. r = [entry |-> None, dead |-> o.dead]
        BY <1>1, <3>4, <4>1, MergeDeletionOnce
      <4>3. Stamp(r) = o.dead /\ Payload(r) = 0 /\ ~Binned(r) /\ Payload(o) = 0
        BY <2>6, <4>2 DEF Stamp, Payload, Binned
      <4> HIDE DEF e
      <4> QED BY <1>1, <3>1, <3>2, <3>4, <4>3
    <3> QED BY <3>3, <3>4
  <2> QED BY <2>5, <2>6
<1> QED BY <1>1, <1>4, <1>5

\* The time of the server's newest version of entry u, 0 if there is none.
ServerTime(u) == IF latest[u] = None THEN 0 ELSE latest[u].content.mod

\* Somewhere there is a state of entry u, or a version of it, of time t with payload x.
Mark(u, t, x) ==
  \/ \E d \in Device : Stamp(file[d][u]) = t /\ Payload(file[d][u]) = x
  \/ latest[u] # None /\ latest[u].content.mod = t /\ latest[u].content.data = x
  \/ \E d \in Device : /\ run[d].rows[u] # None
                       /\ run[d].rows[u].content.mod = t /\ run[d].rows[u].content.data = x
  \/ \E d \in Device : \E op \in run[d].out :
       op.uuid = u /\ op.content.mod = t /\ op.content.data = x

\* Object o of entry u is no older than the server's newest version, or it is an older
\* deletion, which the device takes for sent, and so is that version.
Got(o, u, s) ==
  \/ latest[u] = None
  \/ Stamp(o) >= latest[u].content.mod
  \/ o.entry = None /\ o.dead # 0 /\ latest[u].content.deleted /\ s >= o.dead

\* A binding covers only what its device got, and takes nothing for sent that is newer
\* than the server's newest version.
Keeps(d, b) ==
  \A u \in Entry :
    /\ b.states[u] <= clock
    /\ latest[u] # None /\ latest[u].seq <= b.lastSeq => Got(file[d][u], u, b.states[u])
    /\ Stamp(file[d][u]) > ServerTime(u) => b.states[u] < Stamp(file[d][u])

\* A run that is done with the pull has everything.
Late == {"stamp", "export", "push", "save"}
HasAll(d, s, b) == s \in Late => \A u \in Entry : Got(file[d][u], u, b.states[u])

\* What is to be pushed is no older than the server's version, and the file has it
\* still or has changed since.
Order(d, op) ==
  /\ \/ Stamp(file[d][op.uuid]) = op.content.mod
     \/ Stamp(file[d][op.uuid]) > op.trigger
  /\ ServerTime(op.uuid) <= op.content.mod /\ op.content.mod <= op.trigger
  /\ ~Shelved(op.content)

OrdersOf(d, out) ==
  /\ \A op \in out : Order(d, op)
  /\ \A p, q \in out : p.uuid = q.uuid => p = q

OutsideBin ==
  /\ \A d \in Device, u \in Entry : ~Binned(file[d][u])
  /\ \A u \in Entry : latest[u] # None => ~Shelved(latest[u].content)
  /\ \A d \in Device, u \in Entry :
       run[d].rows[u] # None => ~Shelved(run[d].rows[u].content)

\* The newest state of entry u is that of some device's file, and has the payload the
\* users gave the entry last.
Lead(u) ==
  \E t \in 1 .. clock :
    /\ \A s, x \in Nat : Mark(u, s, x) => s <= t /\ (s = t => x = newest[u].data)
    /\ \E d \in Device : Stamp(file[d][u]) = t

DeviceOrder(d) ==
  /\ Keeps(d, memory[d]) /\ Keeps(d, disk[d])
  /\ HasAll(d, pc[d], memory[d])
  /\ OrdersOf(d, run[d].out)

\* LastWriterWins speaks of the moment when all is settled.  That the last change has
\* reached everyone then rests on two facts of every moment: whoever has the newest
\* state would push it unless the server has it, and a device whose last_seq covers a
\* version has nothing older, but for a deletion that two devices made.
OrderInv ==
  /\ OutsideBin
  /\ \A d \in Device : DeviceOrder(d)
  /\ \A u \in Entry : newest[u] # None => Lead(u)

LEMMA OrderInvInit == Init => OrderInv
<1> SUFFICES ASSUME Init PROVE OrderInv
  OBVIOUS
<1>1. /\ \A d \in Device, u \in Entry : file[d][u] = [entry |-> None, dead |-> 0]
      /\ \A u \in Entry : latest[u] = None /\ newest[u] = None
      /\ \A d \in Device : pc[d] = "idle" /\ run[d].out = {}
      /\ \A d \in Device, u \in Entry : run[d].rows[u] = None
      /\ \A d \in Device, u \in Entry : memory[d].states[u] = 0 /\ disk[d].states[u] = 0
      /\ clock = 1
  BY DEF Init, Store!Init, NoRun, NoRows
<1>2. OutsideBin
  BY <1>1 DEF OutsideBin, Binned
<1>3. \A d \in Device, u \in Entry : Stamp(file[d][u]) = 0 /\ ServerTime(u) = 0
  BY <1>1 DEF Stamp, ServerTime
<1>4. \A d \in Device : DeviceOrder(d)
  BY <1>1, <1>3 DEF DeviceOrder, Keeps, HasAll, Late, OrdersOf
<1> QED BY <1>1, <1>2, <1>4 DEF OrderInv

\* The numbers these definitions compare.
LEMMA OrderTypes ==
  ASSUME TypeInv, NEW d \in Device, NEW u \in Entry
  PROVE /\ TimedObject(file[d][u]) /\ Stamp(file[d][u]) \in Nat /\ Payload(file[d][u]) \in Nat
        /\ file[d][u].dead \in Nat
        /\ ServerTime(u) \in Nat /\ clock \in Nat \ {0}
        /\ latest[u] # None => /\ latest[u].content \in Content /\ latest[u].seq \in Nat
                               /\ latest[u].content.mod \in Nat /\ latest[u].content.data \in Nat
                               /\ TimedContent(latest[u].content)
        /\ run[d].rows[u] # None =>
             /\ run[d].rows[u].content \in Content /\ TimedContent(run[d].rows[u].content)
             /\ run[d].rows[u].content.mod \in Nat /\ run[d].rows[u].content.data \in Nat
        /\ memory[d].states[u] \in Nat /\ disk[d].states[u] \in Nat
        /\ memory[d].lastSeq \in Nat /\ disk[d].lastSeq \in Nat
<1>1. TimedObject(file[d][u])
  BY NumbersOfCopies
<1>2. /\ latest[u] # None => latest[u].content \in Content /\ TimedContent(latest[u].content)
      /\ run[d].rows[u] # None =>
           run[d].rows[u].content \in Content /\ TimedContent(run[d].rows[u].content)
      /\ memory[d].states[u] \in Nat /\ disk[d].states[u] \in Nat
  BY NumbersOfCopies
<1>3. latest[u] # None => latest[u].seq \in Nat
  BY DEF TypeInv, ServerInv, Store!Version
<1>4. memory[d].lastSeq \in Nat /\ disk[d].lastSeq \in Nat
  BY RunParts DEF Binding
<1>5. \A c \in Content : c.mod \in Nat /\ c.data \in Nat
  BY DEF Content
<1>6. ServerTime(u) \in Nat
  BY <1>2, <1>5 DEF ServerTime
<1>7. clock \in Nat \ {0}
  BY DEF TypeInv, UserInv
<1> QED BY <1>1, <1>2, <1>3, <1>4, <1>5, <1>6, <1>7, StampTypes DEF TimedObject, Object

\* Every time is in the past.
LEMMA MarksPast ==
  ASSUME TypeInv, MemoryInv, NEW u \in Entry
  PROVE /\ \A s, x : Mark(u, s, x) => s <= clock
        /\ ServerTime(u) <= clock
        /\ \A d \in Device : Stamp(file[d][u]) <= clock
        /\ latest[u] # None => (latest[u].content.deleted => latest[u].content.data = 0)
<1>0. \A c : Past(c) => c.mod <= clock /\ (c.deleted => c.data = 0)
  BY DEF Past
<1>1. latest[u] # None => Past(latest[u].content)
  BY DEF MemoryInv, VersionsGot
<1>2. \A d \in Device : run[d].rows[u] # None => Past(run[d].rows[u].content)
  BY DEF MemoryInv, VersionsGot
<1>3. \A d \in Device : \A op \in run[d].out : Past(op.content)
  BY DEF MemoryInv, PushesFit
<1>4. \A d \in Device : Stamp(file[d][u]) <= clock
  BY DEF MemoryInv, FilesPast, Stamp
<1>5. ServerTime(u) <= clock
  <2>1. 0 <= clock
    BY DEF TypeInv, UserInv
  <2> QED BY <1>0, <1>1, <2>1 DEF ServerTime
<1>6. \A s, x : Mark(u, s, x) => s <= clock
  BY <1>0, <1>1, <1>2, <1>3, <1>4 DEF Mark
<1> QED BY <1>0, <1>1, <1>4, <1>5, <1>6

\* The lead is kept by a step that adds no state and leaves the carrier its own.
LEMMA LeadKept ==
  ASSUME NEW u \in Entry, Lead(u), UNCHANGED clock, UNCHANGED newest[u],
         \A s, x \in Nat : Mark(u, s, x)' => Mark(u, s, x),
         \A d \in Device : Stamp(file[d][u])' = Stamp(file[d][u])
  PROVE Lead(u)'
<1>1. PICK t \in 1 .. clock :
        /\ \A s, x \in Nat : Mark(u, s, x) => s <= t /\ (s = t => x = newest[u].data)
        /\ \E d \in Device : Stamp(file[d][u]) = t
  BY DEF Lead
<1>2. \A s, x \in Nat : Mark(u, s, x)' => s <= t /\ (s = t => x = newest[u].data)'
  BY <1>1
<1>3. \E d \in Device : Stamp(file[d][u])' = t
  BY <1>1
<1> QED BY <1>1, <1>2, <1>3 DEF Lead

\* A step of one run, or to the end of one, that leaves files and the server alone.
LEMMA OneRunOrder ==
  ASSUME TypeInv, OrderInv, NEW d \in Device, NEW s \in Steps, NEW r \in Run, NEW b \in Binding,
         UNCHANGED <<clock, newest, file, latest>>,
         pc' = [pc EXCEPT ![d] = s], run' = [run EXCEPT ![d] = r],
         memory' = [memory EXCEPT ![d] = b],
         disk' = disk \/ disk' = [disk EXCEPT ![d] = b],
         \A u \in Entry : r.rows[u] \in {None, run[d].rows[u], latest[u]},
         Keeps(d, b), HasAll(d, s, b), OrdersOf(d, r.out),
         \A op \in r.out : \/ op \in run[d].out
                           \/ /\ Stamp(file[d][op.uuid]) = op.content.mod
                              /\ Payload(file[d][op.uuid]) = op.content.data
  PROVE OrderInv'
<1>1. \A e \in Device : /\ pc'[e] = IF e = d THEN s ELSE pc[e]
                        /\ run'[e] = IF e = d THEN r ELSE run[e]
                        /\ memory'[e] = IF e = d THEN b ELSE memory[e]
                        /\ (disk'[e] = disk[e] \/ (e = d /\ disk'[e] = b))
  <2>1. /\ pc \in [Device -> Steps] /\ run \in [Device -> Run]
        /\ memory \in [Device -> Binding] /\ disk \in [Device -> Binding]
    BY DEF TypeInv, RunInv
  <2>2. \A e \in Device : (disk'[e] = disk[e] \/ (e = d /\ disk'[e] = b))
    BY <2>1
  <2> QED BY <2>1, <2>2
<1>2. OutsideBin'
  BY <1>1 DEF OrderInv, OutsideBin
<1>3. \A u \in Entry : newest'[u] # None => Lead(u)'
  <2>1. SUFFICES ASSUME NEW u \in Entry, Lead(u) PROVE Lead(u)'
    BY DEF OrderInv
  <2>2. ASSUME NEW m \in Nat, NEW x \in Nat, Mark(u, m, x)' PROVE Mark(u, m, x)
    <3>1. CASE \E e \in Device : Stamp(file'[e][u]) = m /\ Payload(file'[e][u]) = x
      BY <3>1 DEF Mark
    <3>2. CASE latest'[u] # None /\ latest'[u].content.mod = m /\ latest'[u].content.data = x
      BY <3>2 DEF Mark
    <3>3. CASE \E e \in Device : /\ run'[e].rows[u] # None
                                 /\ run'[e].rows[u].content.mod = m
                                 /\ run'[e].rows[u].content.data = x
      BY <1>1, <3>3 DEF Mark
    <3>4. CASE \E e \in Device : \E op \in run'[e].out :
                 op.uuid = u /\ op.content.mod = m /\ op.content.data = x
      <4>0. PICK e \in Device : \E op \in run'[e].out :
              op.uuid = u /\ op.content.mod = m /\ op.content.data = x
        BY <3>4
      <4>1. PICK op \in run'[e].out :
              op.uuid = u /\ op.content.mod = m /\ op.content.data = x
        BY <4>0
      <4>2. op \in run[e].out \/ (Stamp(file[e][u]) = m /\ Payload(file[e][u]) = x)
        BY <1>1, <4>1
      <4> QED BY <4>1, <4>2 DEF Mark
    <3> QED BY <2>2, <3>1, <3>2, <3>3, <3>4 DEF Mark
  <2>3. \A e \in Device : Stamp(file[e][u])' = Stamp(file[e][u])
    OBVIOUS
  <2> QED BY <2>1, <2>2, <2>3, LeadKept
<1>4. ASSUME NEW e \in Device PROVE DeviceOrder(e)'
  <2>1. DeviceOrder(e)
    BY DEF OrderInv
  <2>2. Keeps(e, memory'[e]) /\ Keeps(e, disk'[e])
    BY <1>1, <2>1 DEF DeviceOrder
  <2>3. Keeps(e, memory[e])' /\ Keeps(e, disk[e])'
    BY <2>2 DEF Keeps, Got, ServerTime
  <2>4. HasAll(e, pc'[e], memory'[e])
    BY <1>1, <2>1 DEF DeviceOrder
  <2>5. HasAll(e, pc[e], memory[e])'
    BY <2>4 DEF HasAll, Got
  <2>6. OrdersOf(e, run'[e].out)
    BY <1>1, <2>1 DEF DeviceOrder
  <2>7. OrdersOf(e, run[e].out)'
    BY <2>6 DEF OrdersOf, Order, ServerTime
  <2> QED BY <2>3, <2>5, <2>7 DEF DeviceOrder
<1> QED BY <1>2, <1>3, <1>4 DEF OrderInv

\* A run that ends leaves a binding its device keeps.
LEMMA EndOrder ==
  ASSUME TypeInv, OrderInv, NEW d \in Device, NEW b \in Binding, End(d, b),
         UNCHANGED <<clock, newest, file, latest>>,
         disk' = disk \/ disk' = [disk EXCEPT ![d] = b], Keeps(d, b)
  PROVE OrderInv'
<1>1. /\ NoRun \in Run /\ NoRun.out = {} /\ \A u \in Entry : NoRun.rows[u] = None
  BY NoRunAt DEF NoRun, NoRows, RunAt, Steps
<1>2. /\ pc' = [pc EXCEPT ![d] = "idle"] /\ run' = [run EXCEPT ![d] = NoRun]
      /\ memory' = [memory EXCEPT ![d] = b] /\ "idle" \in Steps
  BY DEF End, Goto, Steps
<1>3. HasAll(d, "idle", b) /\ OrdersOf(d, NoRun.out)
  BY <1>1 DEF HasAll, Late, OrdersOf
<1> HIDE DEF NoRun
<1> QED BY <1>1, <1>2, <1>3, OneRunOrder

LEMMA ReturnOrder ==
  ASSUME TypeInv, OrderInv, NEW d \in Device, NEW b \in Binding, Return(d, b),
         UNCHANGED <<clock, newest, file, latest, disk>>, Keeps(d, b)
  PROVE OrderInv'
<1> DEFINE c == IF d \in Daemon THEN b ELSE disk[d]
<1>1. End(d, c) /\ c \in Binding /\ Keeps(d, c)
  BY RunParts DEF Return, OrderInv, DeviceOrder
<1> HIDE DEF c
<1> QED BY <1>1, EndOrder

\* A run that has everything may keep any number.
LEMMA LateKeeps ==
  ASSUME TypeInv, OrderInv, NEW d \in Device, pc[d] \in Late
  PROVE /\ \A u \in Entry : Got(file[d][u], u, memory[d].states[u])
        /\ Keeps(d, memory[d])
        /\ Keeps(d, [memory[d] EXCEPT !.lastSeq = Cursor(d)])
        /\ Keeps(d, [memory[d] EXCEPT !.lastSeq = run[d].newSeq])
<1>1. Keeps(d, memory[d]) /\ \A u \in Entry : Got(file[d][u], u, memory[d].states[u])
  BY DEF OrderInv, DeviceOrder, HasAll
<1>2. ASSUME NEW b, b.states = memory[d].states PROVE Keeps(d, b)
  BY <1>1, <1>2 DEF Keeps
<1> QED BY <1>1, <1>2, CursorStates

\* The end of a run that has pulled everything.
LEMMA LateEndOrder ==
  ASSUME TypeInv, OrderInv, NEW d \in Device, pc[d] \in Late,
         UNCHANGED <<clock, newest, file, latest>>,
         \/ Save(d, [memory[d] EXCEPT !.lastSeq = Cursor(d)])
         \/ Save(d, [memory[d] EXCEPT !.lastSeq = run[d].newSeq])
         \/ Return(d, memory[d]) /\ UNCHANGED disk
         \/ Return(d, disk[d]) /\ UNCHANGED disk
         \/ Return(d, [memory[d] EXCEPT !.lastSeq = Cursor(d)]) /\ UNCHANGED disk
  PROVE OrderInv'
<1> DEFINE b == [memory[d] EXCEPT !.lastSeq = Cursor(d)]
           c == [memory[d] EXCEPT !.lastSeq = run[d].newSeq]
<1>1. b \in Binding /\ Keeps(d, b) /\ c \in Binding /\ Keeps(d, c)
  BY CursorTypes, LateKeeps
<1>2. memory[d] \in Binding /\ Keeps(d, memory[d]) /\ disk[d] \in Binding /\ Keeps(d, disk[d])
  BY RunParts DEF OrderInv, DeviceOrder
<1>3. \/ Save(d, b) \/ Save(d, c)
      \/ Return(d, memory[d]) /\ UNCHANGED disk
      \/ Return(d, disk[d]) /\ UNCHANGED disk
      \/ Return(d, b) /\ UNCHANGED disk
  OBVIOUS
<1> HIDE DEF b, c
<1> QED BY <1>1, <1>2, <1>3, EndOrder, ReturnOrder DEF Save

\* What an export tells of an object outside the bin.
LEMMA ExportMark ==
  ASSUME NEW o, TimedObject(o), Exported(o) # None, ~Binned(o)
  PROVE /\ Exported(o).content.mod = Stamp(o) /\ Exported(o).content.data = Payload(o)
        /\ Stamp(o) <= Exported(o).trigger /\ ~Shelved(Exported(o).content)
        /\ o.entry = None => o.dead # 0 /\ Exported(o).trigger = o.dead
<1>1. CASE o.entry # None
  <2> DEFINE x == Exported(o)
  <2>1. /\ ~x.content.deleted /\ x.content.data = o.entry.data /\ x.content.mod = o.entry.mod
        /\ x.content.place = o.entry.place /\ x.trigger = laterTime(o.entry.mod, o.entry.loc)
    BY <1>1 DEF Exported, collectTree, Binned
  <2>2. o.entry.mod \in Nat /\ o.entry.loc \in Nat
    BY <1>1 DEF TimedObject, Object, Local
  <2> HIDE DEF x
  <2>3. /\ x.content.mod = Stamp(o) /\ x.content.data = Payload(o)
        /\ Stamp(o) <= x.trigger /\ ~Shelved(x.content)
    BY <1>1, <2>1, <2>2 DEF Stamp, Payload, laterTime, Shelved, Binned
  <2> QED BY <1>1, <2>3 DEF x
<1>2. CASE o.entry = None
  <2> DEFINE x == Exported(o)
  <2>1. x.content = Tombstone(o.dead) /\ x.trigger = o.dead /\ o.dead # 0
    BY <1>2 DEF Exported
  <2>2. /\ Tombstone(o.dead).mod = o.dead /\ Tombstone(o.dead).data = 0
        /\ Tombstone(o.dead).deleted
    BY DEF Tombstone
  <2>3. o.dead \in Nat
    BY DEF TimedObject, Object
  <2> HIDE DEF x
  <2>4. /\ x.content.mod = Stamp(o) /\ x.content.data = Payload(o)
        /\ Stamp(o) <= x.trigger /\ ~Shelved(x.content)
    BY <1>2, <2>1, <2>2, <2>3 DEF Stamp, Payload, Shelved
  <2> QED BY <1>2, <2>1, <2>4 DEF x
<1> QED BY <1>1, <1>2

\* A run begins.
LEMMA StartOrder ==
  ASSUME TakeTurns, TypeInv, OrderInv, NEW d \in Device, NEW c \in Command, Start(d, c)
  PROVE OrderInv'
<1> DEFINE r == [run[d] EXCEPT !.command = c, !.newSeq = memory[d].lastSeq]
<1>1. run' = [run EXCEPT ![d] = r] /\ pc' = [pc EXCEPT ![d] = "rows"]
  BY DEF Start, Goto, TakeTurns
<1>2. run[d] \in Run /\ memory[d].lastSeq \in Nat /\ memory[d] \in Binding
  BY RunParts DEF Binding
<1>3. r \in Run /\ r.rows = run[d].rows /\ r.out = run[d].out
  BY <1>2 DEF Run
<1> HIDE DEF r
<1>4. /\ memory' = [memory EXCEPT ![d] = memory[d]]
      /\ UNCHANGED <<clock, newest, file, latest, disk>>
  BY DEF Start, server, TypeInv, RunInv
<1>5. HasAll(d, "rows", memory[d]) /\ "rows" \in Steps
  BY DEF HasAll, Late, Steps
<1>6. Keeps(d, memory[d]) /\ OrdersOf(d, r.out)
  BY <1>3 DEF OrderInv, DeviceOrder
<1> QED BY <1>1, <1>2, <1>3, <1>4, <1>5, <1>6, OneRunOrder

\* It selects the rows above its number.
LEMMA SelectRowsOrder ==
  ASSUME TypeInv, OrderInv, NEW d \in Device, SelectRows(d)
  PROVE OrderInv'
<1> DEFINE rws == [u \in Entry |-> IF latest[u] # None /\ latest[u].seq > memory[d].lastSeq
                                    THEN latest[u] ELSE None]
           r == [run[d] EXCEPT !.rows = rws]
<1>1. /\ run' = [run EXCEPT ![d] = r] /\ pc' = [pc EXCEPT ![d] = "current"]
      /\ memory' = [memory EXCEPT ![d] = memory[d]]
      /\ UNCHANGED <<clock, newest, file, latest, disk>>
  BY DEF SelectRows, Goto, server, user, TypeInv, RunInv
<1>2. rws \in [Entry -> Store!Version \cup {None}]
  BY DEF TypeInv, ServerInv
<1>3. \A u \in Entry : rws[u] \in {None, latest[u]}
  OBVIOUS
<1> HIDE DEF rws
<1>4. r \in Run /\ r.rows = rws /\ r.out = run[d].out
  BY <1>2, RunParts DEF Run
<1> HIDE DEF r
<1>5. HasAll(d, "current", memory[d]) /\ "current" \in Steps
  BY DEF HasAll, Late, Steps
<1>6. Keeps(d, memory[d]) /\ OrdersOf(d, r.out) /\ memory[d] \in Binding
  BY <1>4, RunParts DEF OrderInv, DeviceOrder
<1> QED BY <1>1, <1>3, <1>4, <1>5, <1>6, OneRunOrder

\* With no news the device has everything.
LEMMA SelectCurrentSeqOrder ==
  ASSUME TypeInv, CursorInv, OrderInv, NEW d \in Device, SelectCurrentSeq(d)
  PROVE OrderInv'
<1> DEFINE r == [run[d] EXCEPT !.newSeq = seq]
           s == IF run[d].rows = NoRows THEN AfterPull(d) ELSE "merge"
           b == memory[d]
<1>1. /\ run' = [run EXCEPT ![d] = r] /\ pc' = [pc EXCEPT ![d] = s]
      /\ memory' = [memory EXCEPT ![d] = b]
      /\ UNCHANGED <<clock, newest, file, latest, disk>>
  BY DEF SelectCurrentSeq, Goto, server, user, TypeInv, RunInv
<1>2. seq \in Nat /\ \A u \in Entry : latest[u] # None => latest[u].seq \in Nat
  BY DEF TypeInv, ServerInv, Store!Version
<1>3. r \in Run /\ r.rows = run[d].rows /\ r.out = run[d].out
  BY <1>2, RunParts DEF Run
<1>4. b \in Binding /\ b.lastSeq \in Nat /\ Keeps(d, b) /\ OrdersOf(d, r.out)
  BY <1>3, RunParts DEF OrderInv, DeviceOrder, Binding
<1>5. RowsAreNews(run[d].rows, b)
  BY DEF CursorInv, Knows, SelectCurrentSeq
<1>6. s \in Steps
  BY DEF Steps, AfterPull
<1>7. HasAll(d, s, b)
  <2>1. CASE run[d].rows = NoRows
    <3>1. \A u \in Entry : latest[u] # None => latest[u].seq <= b.lastSeq
      BY <1>2, <1>4, <1>5, <2>1 DEF RowsAreNews, NoRows
    <3>2. \A u \in Entry : Got(file[d][u], u, b.states[u])
      BY <1>4, <3>1 DEF Keeps, Got
    <3> QED BY <3>2 DEF HasAll
  <2>2. CASE run[d].rows # NoRows
    BY <2>2 DEF HasAll, Late
  <2> QED BY <2>1, <2>2
<1> HIDE DEF r, s, b
<1> QED BY <1>1, <1>3, <1>4, <1>6, <1>7, OneRunOrder

\* The daemon skips the push, or goes on to it.
LEMMA doSyncOrder ==
  ASSUME TypeInv, OrderInv, NEW d \in Device, doSync(d)
  PROVE OrderInv'
<1>1. UNCHANGED <<clock, newest, file, latest>> /\ pc[d] \in Late
  BY DEF doSync, server, user, Late
<1>2. CASE Unchanged(d)
  BY <1>1, <1>2, LateEndOrder DEF doSync
<1>3. CASE ~Unchanged(d)
  <2>1. pc' = [pc EXCEPT ![d] = "export"] /\ UNCHANGED <<disk, memory, run>>
    BY <1>3 DEF doSync, Goto
  <2>2. run' = [run EXCEPT ![d] = run[d]] /\ memory' = [memory EXCEPT ![d] = memory[d]]
    BY <2>1 DEF TypeInv, RunInv
  <2>3. HasAll(d, "export", memory[d]) /\ Keeps(d, memory[d]) /\ OrdersOf(d, run[d].out)
    BY <1>1, LateKeeps DEF HasAll, OrderInv, DeviceOrder
  <2>4. run[d] \in Run /\ memory[d] \in Binding /\ "export" \in Steps
    BY RunParts DEF Steps
  <2> QED BY <1>1, <2>1, <2>2, <2>3, <2>4, OneRunOrder
<1> QED BY <1>2, <1>3

\* What the server has newer, the device has or takes for sent: what is left to push
\* is newer.
LEMMA ExportOrder ==
  ASSUME TakeTurns, TypeInv, OrderInv, NEW d \in Device, Export(d)
  PROVE OrderInv'
<1> DEFINE ops == ToPush(d, run[d].command = "force")
           r == [run[d] EXCEPT !.out = ops]
<1>1. /\ run' = [run EXCEPT ![d] = r] /\ pc' = [pc EXCEPT ![d] = "push"]
      /\ memory' = [memory EXCEPT ![d] = memory[d]]
      /\ UNCHANGED <<clock, newest, file, latest, disk>>
  BY DEF Export, Goto, server, user, TypeInv, RunInv
<1>2. run[d].command # "force"
  BY RunParts DEF Command, TakeTurns
<1>3. pc[d] \in Late
  BY DEF Export, Late
<1>4. \A op \in ops : \E u \in Entry :
        /\ Exported(file[d][u]) # None
        /\ shouldPush(memory[d].states[u], Exported(file[d][u]).trigger)
        /\ op = [uuid |-> u, content |-> Exported(file[d][u]).content,
                 trigger |-> Exported(file[d][u]).trigger]
  BY <1>2 DEF ToPush
<1>5. ASSUME NEW op \in ops
      PROVE /\ Order(d, op)
            /\ Stamp(file[d][op.uuid]) = op.content.mod
            /\ Payload(file[d][op.uuid]) = op.content.data
  <2>1. PICK u \in Entry :
          /\ Exported(file[d][u]) # None
          /\ shouldPush(memory[d].states[u], Exported(file[d][u]).trigger)
          /\ op = [uuid |-> u, content |-> Exported(file[d][u]).content,
                   trigger |-> Exported(file[d][u]).trigger]
    BY <1>4
  <2> DEFINE o == file[d][u]
             x == Exported(o)
  <2>2. op.uuid = u /\ op.content = x.content /\ op.trigger = x.trigger
    BY <2>1
  <2>3. ~Binned(o) /\ TimedObject(o) /\ Stamp(o) \in Nat /\ o.dead \in Nat
    BY OrderTypes DEF OrderInv, OutsideBin
  <2>4. /\ x.content.mod = Stamp(o) /\ x.content.data = Payload(o)
        /\ Stamp(o) <= x.trigger /\ ~Shelved(x.content)
        /\ o.entry = None => o.dead # 0 /\ x.trigger = o.dead
    BY <2>1, <2>3, ExportMark
  <2>5. memory[d].states[u] < x.trigger /\ memory[d].states[u] \in Nat
    BY <2>1, OrderTypes DEF shouldPush
  <2>6. Got(o, u, memory[d].states[u])
    BY <1>3, LateKeeps
  <2>7. latest[u] # None => latest[u].content.mod \in Nat
    BY OrderTypes
  <2> HIDE DEF o, x
  <2>8. ServerTime(u) <= Stamp(o)
    BY <2>3, <2>4, <2>5, <2>6, <2>7 DEF Got, ServerTime
  <2> QED BY <2>2, <2>4, <2>8 DEF Order, o
<1>6. \A p, q \in ops : p.uuid = q.uuid => p = q
  <2>1. SUFFICES ASSUME NEW p \in ops, NEW q \in ops, p.uuid = q.uuid PROVE p = q
    OBVIOUS
  <2> DEFINE Op1(u) == [uuid |-> u, content |-> Exported(file[d][u]).content,
                        trigger |-> Exported(file[d][u]).trigger]
  <2>2. (\E u \in Entry : p = Op1(u)) /\ (\E u \in Entry : q = Op1(u))
    BY <1>4
  <2>3. \A u : Op1(u).uuid = u
    OBVIOUS
  <2> HIDE DEF Op1
  <2> QED BY <2>1, <2>2, <2>3
<1> HIDE DEF ops
<1>7. r.rows = run[d].rows /\ r.out = ops
  BY RunParts DEF Run
<1>8. r \in Run
  <2>1. run' \in [Device -> Run] /\ run \in [Device -> Run]
    BY ExportStepTypes DEF TypeInv, RunInv
  <2>2. run'[d] = r
    BY <1>1, <2>1
  <2> QED BY <2>1, <2>2
<1> HIDE DEF r
<1>9. HasAll(d, "push", memory[d]) /\ Keeps(d, memory[d]) /\ memory[d] \in Binding
      /\ "push" \in Steps
  BY <1>3, LateKeeps, RunParts DEF HasAll, Steps
<1>10. OrdersOf(d, r.out)
  BY <1>5, <1>6, <1>7 DEF OrdersOf
<1> QED BY <1>1, <1>5, <1>7, <1>8, <1>9, <1>10, OneRunOrder

\* The times a run records for the rows up to number n, whatever happens to the merge.
LEMMA RecordedStates ==
  ASSUME TypeInv, NEW d \in Device, NEW n \in Nat
  PROVE LET row == run[d].rows
            b == Recorded(d, n)
            m == memory[d]
        IN  /\ b \in Binding /\ b.lastSeq = m.lastSeq
            /\ \A u \in Entry : b.states[u] = IF row[u] # None /\ row[u].seq <= n
                                              THEN laterTime(m.states[u], row[u].content.mod)
                                              ELSE m.states[u]
<1> DEFINE row == run[d].rows
           b == Recorded(d, n)
           m == memory[d]
           sts == [v \in Entry |-> IF row[v] # None /\ row[v].seq <= n
                                   THEN RecordEntryStateIfNewer(m.states[v], row[v])
                                   ELSE m.states[v]]
<1>1. b = [m EXCEPT !.states = sts] /\ m \in Binding
  BY RunParts DEF Recorded
<1> HIDE DEF sts
<1>2. b.states = sts
  BY <1>1 DEF Binding
<1> QED BY <1>2, RecordedTypes DEF sts, RecordEntryStateIfNewer

\* Recording a time that the server has leaves a binding that its device keeps.
LEMMA RecordedKeeps ==
  ASSUME TypeInv, MemoryInv, CursorInv, OrderInv, NEW d \in Device, NEW n \in Nat,
         pc[d] = "merge" \/ n = 0
  PROVE /\ Keeps(d, Recorded(d, n))
        /\ \A u \in Entry :
             /\ Recorded(d, n).states[u] \in Nat
             /\ memory[d].states[u] <= Recorded(d, n).states[u]
             /\ run[d].rows[u] # None /\ run[d].rows[u].seq <= n =>
                  run[d].rows[u].content.mod <= Recorded(d, n).states[u]
<1> DEFINE row == run[d].rows
           b == Recorded(d, n)
           m == memory[d]
<1>1. /\ b \in Binding /\ b.lastSeq = m.lastSeq
      /\ \A u \in Entry : b.states[u] = IF row[u] # None /\ row[u].seq <= n
                                        THEN laterTime(m.states[u], row[u].content.mod)
                                        ELSE m.states[u]
  BY RecordedStates
<1>2. ASSUME NEW u \in Entry, row[u] # None, row[u].seq <= n
      PROVE latest[u] # None /\ row[u].content.mod = ServerTime(u)
  <2>1. pc[d] = "merge"
    <3>1. row[u].seq \in Nat \ {0}
      BY <1>2, RunParts DEF Store!Version
    <3> QED BY <1>2, <3>1
  <2>2. row[u] = latest[u]
    BY <1>2, <2>1 DEF CursorInv, Knows, RowsAreNews
  <2> QED BY <1>2, <2>2 DEF ServerTime
<1>3. Keeps(d, m)
  BY DEF OrderInv, DeviceOrder
<1> HIDE DEF row, b, m
<1>4. ASSUME NEW u \in Entry
      PROVE /\ b.states[u] \in Nat /\ m.states[u] <= b.states[u]
            /\ row[u] # None /\ row[u].seq <= n => row[u].content.mod <= b.states[u]
            /\ b.states[u] <= clock
            /\ latest[u] # None /\ latest[u].seq <= b.lastSeq =>
                 Got(file[d][u], u, b.states[u])
            /\ Stamp(file[d][u]) > ServerTime(u) => b.states[u] < Stamp(file[d][u])
  <2>1. /\ m.states[u] \in Nat /\ ServerTime(u) \in Nat /\ Stamp(file[d][u]) \in Nat
        /\ clock \in Nat /\ ServerTime(u) <= clock /\ file[d][u].dead \in Nat
    BY OrderTypes, MarksPast DEF m
  <2>2. \/ b.states[u] = m.states[u] /\ ~(row[u] # None /\ row[u].seq <= n)
        \/ /\ b.states[u] = laterTime(m.states[u], ServerTime(u))
           /\ row[u] # None => row[u].content.mod = ServerTime(u)
    BY <1>1, <1>2
  <2>3. /\ m.states[u] <= clock
        /\ latest[u] # None /\ latest[u].seq <= m.lastSeq => Got(file[d][u], u, m.states[u])
        /\ Stamp(file[d][u]) > ServerTime(u) => m.states[u] < Stamp(file[d][u])
    BY <1>3 DEF Keeps
  <2>4. b.states[u] \in Nat /\ m.states[u] <= b.states[u]
    BY <2>1, <2>2 DEF laterTime
  <2>5. /\ row[u] # None /\ row[u].seq <= n => row[u].content.mod <= b.states[u]
        /\ b.states[u] <= clock
        /\ Stamp(file[d][u]) > ServerTime(u) => b.states[u] < Stamp(file[d][u])
    BY <2>1, <2>2, <2>3 DEF laterTime
  <2>6. latest[u] # None /\ latest[u].seq <= b.lastSeq => Got(file[d][u], u, b.states[u])
    BY <1>1, <2>1, <2>3, <2>4 DEF Got
  <2> QED BY <2>4, <2>5, <2>6
<1>5. Keeps(d, b)
  BY <1>4 DEF Keeps
<1> QED BY <1>4, <1>5 DEF row, b, m

\* A failed run leaves what it had.
LEMMA FaultStepOrder ==
  ASSUME TypeInv, MemoryInv, CursorInv, OrderInv, NEW d \in Device,
         PullFails(d) \/ PushFails(d) \/ SaveFails(d) \/ Crash(d)
  PROVE OrderInv'
<1>1. CASE PullFails(d)
  <2>1. PICK n \in 0 .. run[d].newSeq : (pc[d] # "merge" => n = 0) /\ Return(d, Recorded(d, n))
    BY <1>1 DEF PullFails
  <2>2. n \in Nat
    BY RunParts
  <2>3. Recorded(d, n) \in Binding /\ Keeps(d, Recorded(d, n))
    BY <2>1, <2>2, RecordedTypes, RecordedKeeps
  <2>4. UNCHANGED <<clock, newest, file, latest, disk>>
    BY <1>1 DEF PullFails, server, user
  <2> QED BY <2>1, <2>3, <2>4, ReturnOrder
<1>2. CASE PushFails(d)
  BY <1>2, LateEndOrder DEF PushFails, PushError, server, user, Late
<1>3. CASE SaveFails(d)
  BY <1>3, LateEndOrder DEF SaveFails, AllDone, Unchanged, server, user, Late
<1>4. CASE Crash(d)
  <2>1. End(d, disk[d]) /\ UNCHANGED <<clock, newest, file, latest, disk>>
    BY <1>4 DEF Crash, End, server, user
  <2>2. disk[d] \in Binding /\ Keeps(d, disk[d])
    BY RunParts DEF OrderInv, DeviceOrder
  <2> QED BY <2>1, <2>2, EndOrder
<1> QED BY <1>1, <1>2, <1>3, <1>4

\* The run of d writes op and is then at step s, with r and binding b; before, it could
\* have left binding x.
Writes(d, op, s, r, b, x) ==
  /\ op \in run[d].out /\ Put(d, op)
  /\ s \in {"push", "idle"} /\ r \in Run /\ b \in Binding /\ x \in Binding
  /\ pc' = [pc EXCEPT ![d] = s] /\ run' = [run EXCEPT ![d] = r]
  /\ memory' = [memory EXCEPT ![d] = b]
  /\ disk' = disk \/ disk' = [disk EXCEPT ![d] = b]
  /\ \A u \in Entry : r.rows[u] \in {None, run[d].rows[u]}
  /\ r.out \subseteq run[d].out \ {op}
  /\ Keeps(d, x) /\ b.lastSeq = x.lastSeq /\ b.lastSeq <= seq
  /\ s = "push" => x = memory[d]
  /\ \A u \in Entry : b.states[u] = x.states[u] \/ (u = op.uuid /\ b.states[u] = op.trigger)

\* A write: the other devices' numbers do not cover it, and its writer has it, or
\* something newer that is yet to be sent.
LEMMA WriteOrder ==
  ASSUME TypeInv, MemoryInv, CursorInv, OrderInv, NEW d \in Device, NEW op, NEW s, NEW r,
         NEW b, NEW x, Writes(d, op, s, r, b, x)
  PROVE OrderInv'
<1>0. /\ op \in run[d].out /\ Put(d, op)
      /\ s \in {"push", "idle"} /\ r \in Run /\ b \in Binding /\ x \in Binding
      /\ pc' = [pc EXCEPT ![d] = s] /\ run' = [run EXCEPT ![d] = r]
      /\ memory' = [memory EXCEPT ![d] = b]
      /\ disk' = disk \/ disk' = [disk EXCEPT ![d] = b]
      /\ \A u \in Entry : r.rows[u] \in {None, run[d].rows[u]}
      /\ r.out \subseteq run[d].out \ {op}
      /\ Keeps(d, x) /\ b.lastSeq = x.lastSeq /\ b.lastSeq <= seq
      /\ s = "push" => x = memory[d]
      /\ \A u \in Entry : b.states[u] = x.states[u] \/ (u = op.uuid /\ b.states[u] = op.trigger)
  BY DEF Writes
<1> USE <1>0
<1> DEFINE w == op.uuid
           v == [uuid |-> w, content |-> op.content, seq |-> seq + 1]
<1>1. /\ latest' = [latest EXCEPT ![w] = v]
      /\ UNCHANGED <<clock, newest, file>> /\ pc[d] \in Late
  BY DEF Put, Store!Write, user, Late
<1>2. /\ w \in Entry /\ op.content \in Content /\ op.trigger \in Nat /\ op.content.mod \in Nat
      /\ v.content = op.content /\ v.seq = seq + 1
      /\ \A q \in run[d].out : q.uuid \in Entry
  BY RunParts DEF Content
<1>3. v # None
  <2>1. v \in Store!Version
    BY <1>2 DEF Store!Version, TypeInv, ServerInv
  <2> QED BY <2>1, NoneAssumption
<1> HIDE DEF v, w
<1>4. \A u \in Entry : latest'[u] = IF u = w THEN v ELSE latest[u]
  BY <1>1 DEF TypeInv, ServerInv
<1>5. /\ Order(d, op) /\ OrdersOf(d, run[d].out)
      /\ \A q \in run[d].out : q.uuid = w => q = op
  BY <1>2 DEF OrderInv, DeviceOrder, OrdersOf, w
<1>6. \A e \in Device : /\ pc'[e] = IF e = d THEN s ELSE pc[e]
                        /\ run'[e] = IF e = d THEN r ELSE run[e]
                        /\ memory'[e] = IF e = d THEN b ELSE memory[e]
                        /\ (disk'[e] = disk[e] \/ (e = d /\ disk'[e] = b))
  <2>1. /\ pc \in [Device -> Steps] /\ run \in [Device -> Run]
        /\ memory \in [Device -> Binding] /\ disk \in [Device -> Binding]
    BY DEF TypeInv, RunInv
  <2>2. \A e \in Device : (disk'[e] = disk[e] \/ (e = d /\ disk'[e] = b))
    BY <2>1
  <2> QED BY <2>1, <2>2
<1>7. \A e \in Device : e # d => pc[e] = "idle" /\ run[e].out = {}
  BY <1>1, OthersIdle, RunParts DEF RunAt, Late
<1>8. \A u \in Entry : ServerTime(u)' = IF u = w THEN op.content.mod ELSE ServerTime(u)
  BY <1>2, <1>3, <1>4 DEF ServerTime
<1>9. ServerTime(w) <= op.content.mod /\ op.content.mod <= op.trigger /\ ~Shelved(op.content)
      /\ (Stamp(file[d][w]) = op.content.mod \/ Stamp(file[d][w]) > op.trigger)
  BY <1>5 DEF Order, w
<1>10. OutsideBin'
  <2>1. \A u \in Entry : latest'[u] # None => ~Shelved(latest'[u].content)
    BY <1>2, <1>4, <1>9 DEF OrderInv, OutsideBin
  <2>2. \A e \in Device, u \in Entry : run'[e].rows[u] # None => ~Shelved(run'[e].rows[u].content)
    BY <1>6 DEF OrderInv, OutsideBin
  <2>3. \A e \in Device, u \in Entry : ~Binned(file'[e][u])
    BY <1>1 DEF OrderInv, OutsideBin
  <2> QED BY <2>1, <2>2, <2>3 DEF OutsideBin
<1>11. \A u \in Entry : newest'[u] # None => Lead(u)'
  <2>1. SUFFICES ASSUME NEW u \in Entry, Lead(u) PROVE Lead(u)'
    BY <1>1 DEF OrderInv
  <2>2. ASSUME NEW m \in Nat, NEW y \in Nat, Mark(u, m, y)' PROVE Mark(u, m, y)
    <3>1. CASE \E e \in Device : Stamp(file'[e][u]) = m /\ Payload(file'[e][u]) = y
      BY <1>1, <3>1 DEF Mark
    <3>2. CASE latest'[u] # None /\ latest'[u].content.mod = m /\ latest'[u].content.data = y
      <4>1. CASE u = w
        BY <1>2, <1>4, <3>2, <4>1 DEF Mark, w
      <4>2. CASE u # w
        BY <1>4, <3>2, <4>2 DEF Mark
      <4> QED BY <4>1, <4>2
    <3>3. CASE \E e \in Device : /\ run'[e].rows[u] # None
                                 /\ run'[e].rows[u].content.mod = m
                                 /\ run'[e].rows[u].content.data = y
      BY <1>6, <3>3 DEF Mark
    <3>4. CASE \E e \in Device : \E q \in run'[e].out :
                 q.uuid = u /\ q.content.mod = m /\ q.content.data = y
      BY <1>6, <3>4 DEF Mark
    <3> QED BY <2>2, <3>1, <3>2, <3>3, <3>4 DEF Mark
  <2>3. \A e \in Device : Stamp(file[e][u])' = Stamp(file[e][u])
    BY <1>1
  <2> QED BY <1>1, <2>1, <2>2, <2>3, LeadKept
<1>12. \A e \in Device, u \in Entry :
         /\ Stamp(file[e][u]) \in Nat /\ ServerTime(u) \in Nat /\ clock \in Nat
         /\ seq \in Nat /\ (latest[u] # None => latest[u].seq \in Nat)
  BY OrderTypes DEF TypeInv, ServerInv
<1>13. \A e \in Device : /\ memory[e].lastSeq \in Nat /\ memory[e].lastSeq <= seq
                         /\ disk[e].lastSeq \in Nat /\ disk[e].lastSeq <= seq
  BY RunParts DEF CursorInv, NumbersBounded, Binding
<1>14. op.trigger <= clock
  BY DEF MemoryInv, PushesFit
<1> DEFINE GotNow(o, u, st) ==
             \/ latest'[u] = None
             \/ Stamp(o) >= latest'[u].content.mod
             \/ o.entry = None /\ o.dead # 0 /\ latest'[u].content.deleted /\ st >= o.dead
           KeepsNow(e, y) ==
             \A u \in Entry :
               /\ y.states[u] <= clock
               /\ latest'[u] # None /\ latest'[u].seq <= y.lastSeq =>
                    GotNow(file[e][u], u, y.states[u])
               /\ Stamp(file[e][u]) > ServerTime(u)' => y.states[u] < Stamp(file[e][u])
<1>15. ASSUME NEW e \in Device, NEW y \in Binding, Keeps(e, y), NEW z \in Binding,
              z.lastSeq = y.lastSeq, y.lastSeq <= seq,
              \A u \in Entry : \/ z.states[u] = y.states[u]
                               \/ e = d /\ u = w /\ z.states[u] = op.trigger
       PROVE KeepsNow(e, z)
  <2>1. SUFFICES ASSUME NEW u \in Entry
        PROVE /\ z.states[u] <= clock
              /\ latest'[u] # None /\ latest'[u].seq <= z.lastSeq =>
                   GotNow(file[e][u], u, z.states[u])
              /\ Stamp(file[e][u]) > ServerTime(u)' => z.states[u] < Stamp(file[e][u])
    OBVIOUS
  <2>2. /\ y.states[u] <= clock
        /\ latest[u] # None /\ latest[u].seq <= y.lastSeq => Got(file[e][u], u, y.states[u])
        /\ Stamp(file[e][u]) > ServerTime(u) => y.states[u] < Stamp(file[e][u])
    BY <1>15 DEF Keeps
  <2>3. /\ y.states[u] \in Nat /\ z.states[u] \in Nat /\ y.lastSeq \in Nat
        /\ Stamp(file[e][u]) \in Nat /\ ServerTime(u) \in Nat /\ seq \in Nat
    BY <1>12 DEF Binding
  <2> HIDE DEF GotNow, KeepsNow
  <2>4. z.states[u] <= clock
    BY <1>14, <1>15, <2>2
  <2>5. CASE u = w
    <3>1. ~(latest'[u].seq <= z.lastSeq)
      BY <1>2, <1>4, <1>15, <2>3, <2>5
    <3>2. ASSUME Stamp(file[e][u]) > ServerTime(u)' PROVE z.states[u] < Stamp(file[e][u])
      <4>1. Stamp(file[e][u]) > op.content.mod /\ ServerTime(u) <= op.content.mod
        BY <1>8, <1>9, <2>5, <3>2
      <4>2. CASE z.states[u] = y.states[u]
        BY <1>2, <2>2, <2>3, <4>1, <4>2
      <4>3. CASE e = d /\ z.states[u] = op.trigger
        BY <1>2, <1>9, <2>3, <2>5, <4>1, <4>3
      <4> QED BY <1>15, <4>2, <4>3
    <3> QED BY <2>4, <3>1, <3>2
  <2>6. CASE u # w
    <3>1. latest'[u] = latest[u] /\ ServerTime(u)' = ServerTime(u) /\ z.states[u] = y.states[u]
      BY <1>4, <1>8, <1>15, <2>6
    <3>2. Got(file[e][u], u, y.states[u]) => GotNow(file[e][u], u, z.states[u])
      BY <3>1 DEF Got, GotNow
    <3> QED BY <1>15, <2>2, <2>4, <3>1, <3>2
  <2> QED BY <2>5, <2>6
<1>16. KeepsNow(d, b)
  <2> HIDE DEF KeepsNow
  <2> QED BY <1>15 DEF w
<1>17. \A e \in Device, y \in Binding : Keeps(e, y) /\ y.lastSeq <= seq => KeepsNow(e, y)
  <2> HIDE DEF KeepsNow
  <2> QED BY <1>15
<1>18. \A e \in Device : KeepsNow(e, memory'[e]) /\ KeepsNow(e, disk'[e])
  <2>1. \A e \in Device : /\ Keeps(e, memory[e]) /\ Keeps(e, disk[e])
                          /\ memory[e] \in Binding /\ disk[e] \in Binding
    BY RunParts DEF OrderInv, DeviceOrder
  <2> HIDE DEF KeepsNow
  <2>2. \A e \in Device : KeepsNow(e, memory[e]) /\ KeepsNow(e, disk[e])
    BY <1>13, <1>17, <2>1
  <2> QED BY <1>6, <1>16, <2>2
<1>19. \A e \in Device : Keeps(e, memory[e])' /\ Keeps(e, disk[e])'
  BY <1>1, <1>18 DEF Keeps, Got
<1>20. \A e \in Device : HasAll(e, pc[e], memory[e])'
  <2>1. SUFFICES ASSUME NEW e \in Device, pc'[e] \in Late, NEW u \in Entry
        PROVE GotNow(file[e][u], u, memory'[e].states[u])
    BY <1>1 DEF HasAll, Got
  <2>2. e = d /\ s = "push" /\ memory'[e] = b /\ x = memory[d]
    BY <1>6, <1>7, <2>1 DEF Late
  <2>3. CASE u = w
    <3>1. Stamp(file[d][u]) >= op.content.mod
      BY <1>2, <1>9, <1>12, <2>3
    <3> QED BY <1>2, <1>4, <2>2, <2>3, <3>1
  <2>4. CASE u # w
    <3>1. latest'[u] = latest[u] /\ b.states[u] = memory[d].states[u]
      BY <1>4, <2>2, <2>4 DEF w
    <3>2. Got(file[d][u], u, memory[d].states[u])
      BY <1>1, LateKeeps
    <3> QED BY <2>2, <3>1, <3>2 DEF Got
  <2> QED BY <2>3, <2>4
<1>21. \A e \in Device : OrdersOf(e, run[e].out)'
  <2>1. SUFFICES ASSUME NEW e \in Device PROVE OrdersOf(e, run[e].out)'
    OBVIOUS
  <2>2. /\ run'[e].out \subseteq run[e].out
        /\ run'[e].out # {} => e = d /\ run'[e].out \subseteq run[d].out \ {op}
    BY <1>6, <1>7
  <2>3. \A p, q \in run'[e].out : p.uuid = q.uuid => p = q
    BY <2>2 DEF OrderInv, DeviceOrder, OrdersOf
  <2>4. ASSUME NEW q \in run'[e].out PROVE Order(e, q)'
    <3>1. q.uuid # w /\ q.uuid \in Entry /\ Order(e, q)
      BY <1>2, <1>5, <2>2, <2>4 DEF OrdersOf
    <3>2. ServerTime(q.uuid)' = ServerTime(q.uuid)
      BY <1>8, <3>1
    <3> QED BY <1>1, <3>1, <3>2 DEF Order
  <2> QED BY <2>3, <2>4 DEF OrdersOf
<1>22. \A e \in Device : DeviceOrder(e)'
  BY <1>19, <1>20, <1>21 DEF DeviceOrder
<1> QED BY <1>10, <1>11, <1>22 DEF OrderInv

\* The number a run will have seen covers the rows it is about to merge.
RowsNumbered ==
  \A d \in Device : pc[d] = "merge" =>
    \A u \in Entry : run[d].rows[u] # None => run[d].rows[u].seq <= run[d].newSeq

LEMMA RowsNumberedInit == Init => RowsNumbered
BY DEF Init, RowsNumbered

LEMMA RowsNumberedStep == TypeInv /\ CursorInv /\ RowsNumbered /\ [Next]_vars => RowsNumbered'
<1> SUFFICES ASSUME TypeInv, CursorInv, RowsNumbered, [Next]_vars PROVE RowsNumbered'
  OBVIOUS
<1>1. CASE UNCHANGED <<pc, run>>
  BY <1>1 DEF RowsNumbered
<1>2. ASSUME NEW d \in Device, NEW s, s # "merge", pc' = [pc EXCEPT ![d] = s],
             \E r : run' = [run EXCEPT ![d] = r]
      PROVE RowsNumbered'
  BY <1>2 DEF RowsNumbered, TypeInv, RunInv
<1>3. ASSUME NEW d \in Device, SelectCurrentSeq(d) PROVE RowsNumbered'
  <2> DEFINE r == [run[d] EXCEPT !.newSeq = seq]
             s == IF run[d].rows = NoRows THEN AfterPull(d) ELSE "merge"
  <2>1. run' = [run EXCEPT ![d] = r] /\ pc' = [pc EXCEPT ![d] = s]
    BY <1>3 DEF SelectCurrentSeq, Goto
  <2>2. r.rows = run[d].rows /\ r.newSeq = seq
    BY RunParts DEF Run
  <2>3. \A u \in Entry : run[d].rows[u] # None => run[d].rows[u] = latest[u]
    BY <1>3 DEF CursorInv, Knows, RowsAreNews, SelectCurrentSeq
  <2>4. \A u \in Entry : run[d].rows[u] # None => run[d].rows[u].seq <= seq
    BY <2>3 DEF CursorInv, NumbersBounded
  <2> HIDE DEF r, s
  <2>5. \A e \in Device : /\ run'[e] = IF e = d THEN r ELSE run[e]
                          /\ e # d => pc'[e] = pc[e]
    BY <2>1 DEF TypeInv, RunInv
  <2> QED BY <2>2, <2>4, <2>5 DEF RowsNumbered
<1>4. ASSUME NEW d \in Device, NEW b, End(d, b) PROVE RowsNumbered'
  BY <1>2, <1>4 DEF End, Goto
<1>5. ASSUME NEW d \in Device, PushError(d) PROVE RowsNumbered'
  BY <1>4, <1>5 DEF PushError, Save, Return
<1>6. ASSUME NEW d \in Device, UserStep(d) PROVE RowsNumbered'
  BY <1>1, <1>6, UserLeaves
<1>7. ASSUME NEW d \in Device, RunStep(d) PROVE RowsNumbered'
  <2>1. ASSUME UNCHANGED run PROVE \E r : run' = [run EXCEPT ![d] = r]
    <3>1. run' = [run EXCEPT ![d] = run[d]]
      BY <2>1 DEF TypeInv, RunInv
    <3> QED BY <3>1
  <2>2. ASSUME NEW c \in Command, Start(d, c) PROVE RowsNumbered'
    <3> DEFINE r == [run[d] EXCEPT !.command = c, !.newSeq = memory[d].lastSeq]
               s == IF c \in {"push", "force"} THEN "export" ELSE "rows"
    <3>1. run' = [run EXCEPT ![d] = r] /\ pc' = [pc EXCEPT ![d] = s] /\ s # "merge"
      BY <2>2 DEF Start, Goto
    <3> HIDE DEF r, s
    <3> QED BY <1>2, <3>1
  <2>3. CASE SelectRows(d) \/ Export(d)
    BY <1>2, <2>3 DEF SelectRows, Export, Goto
  <2>4. CASE pullChanges(d)
    <3>1. pc' = [pc EXCEPT ![d] = AfterPull(d)] /\ AfterPull(d) # "merge" /\ UNCHANGED run
      BY <2>4 DEF pullChanges, Goto, AfterPull
    <3> QED BY <1>2, <2>1, <3>1
  <2>5. CASE doSync(d)
    <3>1. CASE Unchanged(d)
      BY <1>4, <2>5, <3>1 DEF doSync, Save, Return
    <3>2. CASE ~Unchanged(d)
      <4>1. pc' = [pc EXCEPT ![d] = "export"] /\ UNCHANGED run
        BY <2>5, <3>2 DEF doSync, Goto
      <4> QED BY <1>2, <2>1, <4>1
    <3> QED BY <3>1, <3>2
  <2>6. ASSUME NEW op \in run[d].out, pushChanges(d, op) PROVE RowsNumbered'
    <3> DEFINE r == [run[d] EXCEPT !.maxSeq = seq + 1, !.out = @ \ {op}]
    <3>1. pc' = [pc EXCEPT ![d] = "push"] /\ run' = [run EXCEPT ![d] = r]
      BY <2>6 DEF pushChanges, Put, TypeInv, RunInv
    <3> HIDE DEF r
    <3> QED BY <1>2, <3>1
  <2>7. CASE Finish(d)
    BY <1>4, <2>7 DEF Finish, Save
  <2> QED BY <1>3, <1>7, <2>2, <2>3, <2>4, <2>5, <2>6, <2>7 DEF RunStep
<1>8. ASSUME NEW d \in Device, FaultStep(d) PROVE RowsNumbered'
  <2>1. CASE PullFails(d) \/ SaveFails(d)
    BY <1>4, <2>1 DEF PullFails, SaveFails, Return
  <2>2. CASE PushFails(d) \/ \E op \in run[d].out : AnswerLost(d, op)
    BY <1>5, <2>2 DEF PushFails, AnswerLost
  <2>3. CASE Crash(d)
    BY <1>4, <2>3 DEF Crash, End
  <2> QED BY <1>8, <2>1, <2>2, <2>3 DEF FaultStep
<1> QED BY <1>1, <1>6, <1>7, <1>8 DEF Next, vars

\* The push of one object, answered or not.
LEMMA PushWrites ==
  ASSUME TypeInv, CursorInv, OrderInv, NEW d \in Device, NEW op \in run[d].out,
         pushChanges(d, op) \/ AnswerLost(d, op)
  PROVE \E s, r, b, x :
          /\ Writes(d, op, s, r, b, x)
          /\ \A u \in Entry : x.states[u] \in {memory[d].states[u], disk[d].states[u]}
<1> DEFINE r == [run[d] EXCEPT !.maxSeq = seq + 1, !.out = @ \ {op}]
           m == memory[d]
           b == [m EXCEPT !.states = RecordEntryState(@, op)]
           k == [m EXCEPT !.lastSeq = Cursor(d)]
<1>0. pc[d] = "push" /\ pc[d] \in Late /\ Put(d, op)
  BY DEF pushChanges, AnswerLost, Put, Late
<1>1. Keeps(d, m) /\ Keeps(d, k) /\ Keeps(d, disk[d]) /\ m \in Binding /\ k \in Binding
      /\ disk[d] \in Binding /\ m.lastSeq <= seq /\ k.lastSeq <= seq /\ disk[d].lastSeq <= seq
      /\ k.states = m.states
  <2>1. Covers(d, seq)
    BY <1>0 DEF CursorInv, Knows
  <2>2. k.lastSeq <= seq
    BY <2>1, CursorCovered, CursorTypes
  <2> QED BY <1>0, <2>2, LateKeeps, RunParts, CursorTypes, CursorStates
          DEF OrderInv, DeviceOrder, CursorInv, NumbersBounded
<1>2. op.uuid \in Entry /\ op.trigger \in Nat /\ run \in [Device -> Run]
      /\ memory \in [Device -> Binding] /\ pc \in [Device -> Steps]
  BY RunParts DEF TypeInv, RunInv
<1>3. CASE pushChanges(d, op)
  <2>1. /\ run' = [run EXCEPT ![d] = r] /\ memory' = [memory EXCEPT ![d] = b]
        /\ disk' = disk /\ pc' = [pc EXCEPT ![d] = "push"]
    BY <1>0, <1>2, <1>3 DEF pushChanges
  <2>2. run' \in [Device -> Run] /\ memory' \in [Device -> Binding]
    BY <1>3, pushChangesTypes DEF TypeInv, RunInv
  <2>3. r = run'[d] /\ b = memory'[d]
    BY <1>2, <2>1
  <2>4. r \in Run /\ b \in Binding
    BY <2>2, <2>3
  <2>5. r.rows = run[d].rows /\ r.out = run[d].out \ {op}
    <3>1. run[d] \in Run
      BY <1>2
    <3> QED BY <3>1 DEF Run
  <2>6. b.lastSeq = m.lastSeq
        /\ \A u \in Entry : b.states[u] = m.states[u] \/ (u = op.uuid /\ b.states[u] = op.trigger)
    <3>1. b.lastSeq = m.lastSeq /\ b.states = [m.states EXCEPT ![op.uuid] = op.trigger]
      BY <1>1 DEF RecordEntryState, Binding
    <3>2. m.states \in [Entry -> Nat]
      BY <1>1 DEF Binding
    <3> QED BY <3>1, <3>2
  <2>7. m = memory[d] /\ "push" \in {"push", "idle"}
    OBVIOUS
  <2> HIDE DEF r, b, m, k
  <2>8. /\ \A u \in Entry : r.rows[u] \in {None, run[d].rows[u]}
        /\ r.out \subseteq run[d].out \ {op} /\ b.lastSeq <= seq
    BY <1>1, <2>5, <2>6
  <2>9. Writes(d, op, "push", r, b, m)
    BY <1>0, <1>1, <2>1, <2>4, <2>6, <2>7, <2>8 DEF Writes
  <2> QED BY <2>7, <2>9
<1>4. CASE AnswerLost(d, op)
  <2> DEFINE c == IF d \in Daemon THEN k ELSE disk[d]
  <2>1. End(d, c) /\ (disk' = disk \/ disk' = [disk EXCEPT ![d] = c])
    BY <1>4 DEF AnswerLost, PushError, Save, Return
  <2>2. c \in Binding /\ Keeps(d, c) /\ c.lastSeq <= seq
        /\ \A u \in Entry : c.states[u] \in {memory[d].states[u], disk[d].states[u]}
    BY <1>1
  <2> HIDE DEF c
  <2>3. /\ pc' = [pc EXCEPT ![d] = "idle"] /\ run' = [run EXCEPT ![d] = NoRun]
        /\ memory' = [memory EXCEPT ![d] = c]
    BY <2>1 DEF End, Goto
  <2>4. NoRun \in Run /\ NoRun.out = {} /\ \A u \in Entry : NoRun.rows[u] = None
    BY NoRunAt DEF NoRun, NoRows, RunAt, Steps
  <2> HIDE DEF NoRun, r, b, m, k
  <2>5. Writes(d, op, "idle", NoRun, c, c)
    BY <1>0, <2>1, <2>2, <2>3, <2>4 DEF Writes
  <2> QED BY <2>2, <2>5
<1> QED BY <1>3, <1>4

\* A push that is answered, and one that is not.
LEMMA PushOrder ==
  ASSUME TypeInv, MemoryInv, CursorInv, OrderInv, NEW d \in Device, NEW op \in run[d].out,
         pushChanges(d, op) \/ AnswerLost(d, op)
  PROVE OrderInv'
BY PushWrites, WriteOrder

\* After a merge the device has what the server has, and no payload that nobody had.
LEMMA pullChangesOrder ==
  ASSUME TypeInv, MemoryInv, CursorInv, RowsNumbered, OrderInv, NEW d \in Device, pullChanges(d)
  PROVE OrderInv'
<1> DEFINE row == run[d].rows
           merged == [u \in Entry |-> IF row[u] = None THEN file[d][u]
                                      ELSE Merge(file[d][u], row[u].content)]
           b == Recorded(d, run[d].newSeq)
<1>1. /\ file' = [file EXCEPT ![d] = merged]
      /\ memory' = [memory EXCEPT ![d] = b] /\ pc' = [pc EXCEPT ![d] = AfterPull(d)]
      /\ UNCHANGED <<latest, clock, newest, disk, run>>
  BY DEF pullChanges, server, user, Goto
<1>2. /\ \A e \in Device, u \in Entry :
           file'[e][u] = IF e = d THEN merged[u] ELSE file[e][u]
      /\ \A e \in Device : memory'[e] = IF e = d THEN b ELSE memory[e]
      /\ \A e \in Device : pc'[e] = IF e = d THEN AfterPull(d) ELSE pc[e]
      /\ run[d].out = {}
  BY <1>1, RunParts DEF TypeInv, RunInv, UserInv, RunAt, pullChanges
<1>3. ASSUME NEW u \in Entry, row[u] # None
      PROVE /\ row[u].content \in Content /\ TimedContent(row[u].content)
            /\ row[u].content.mod \in Nat /\ row[u].content.data \in Nat
            /\ row[u].content.deleted => row[u].content.data = 0
            /\ ~Shelved(row[u].content) /\ row[u].seq <= run[d].newSeq
            /\ row[u] = latest[u]
            /\ Mark(u, row[u].content.mod, row[u].content.data)
  <2>1. row[u] = latest[u]
    BY <1>3 DEF CursorInv, Knows, RowsAreNews, pullChanges
  <2>2. row[u].seq <= run[d].newSeq
    BY <1>3 DEF RowsNumbered, pullChanges
  <2> QED BY <1>3, <2>1, <2>2, OrderTypes, MarksPast DEF OrderInv, OutsideBin, Mark
<1>4. \A u \in Entry : TimedObject(file[d][u]) /\ Stamp(file[d][u]) \in Nat
  BY OrderTypes
<1>5. ASSUME NEW u \in Entry
      PROVE /\ Stamp(merged[u]) >= Stamp(file[d][u]) /\ Stamp(merged[u]) \in Nat
            /\ Mark(u, Stamp(merged[u]), Payload(merged[u]))
            /\ ~Binned(merged[u])
            /\ \/ Stamp(merged[u]) = Stamp(file[d][u])
               \/ Stamp(merged[u]) = ServerTime(u)
            /\ merged[u] = file[d][u] \/ Stamp(merged[u]) >= latest[u].content.mod
            /\ row[u] = None => merged[u] = file[d][u]
            /\ row[u] # None =>
                 \/ Stamp(merged[u]) >= latest[u].content.mod
                 \/ /\ latest[u].content.deleted /\ merged[u] = file[d][u]
                    /\ file[d][u].entry = None /\ file[d][u].dead # 0
  <2> DEFINE o == file[d][u]
  <2>1. ~Binned(o) /\ Mark(u, Stamp(o), Payload(o)) /\ TimedObject(o) /\ Stamp(o) \in Nat
    BY OrderTypes DEF OrderInv, OutsideBin, Mark
  <2>2. CASE row[u] = None
    BY <2>1, <2>2
  <2>3. CASE row[u] # None
    <3> DEFINE c == row[u].content
               x == Merge(o, c)
    <3>1. /\ c \in Content /\ TimedContent(c) /\ (c.deleted => c.data = 0)
          /\ ~Shelved(c) /\ Mark(u, c.mod, c.data) /\ c.mod \in Nat
          /\ latest[u] = row[u] /\ ServerTime(u) = c.mod
      BY <1>3, <2>3 DEF ServerTime
    <3>2. merged[u] = x
      BY <2>3
    <3> HIDE DEF o, c, x, merged
    <3>3. /\ \/ Stamp(x) = Stamp(o) /\ Payload(x) = Payload(o)
             \/ Stamp(x) = c.mod /\ Payload(x) = c.data
          /\ Stamp(x) >= Stamp(o)
          /\ \/ Stamp(x) >= c.mod
             \/ c.deleted /\ o.entry = None /\ o.dead # 0 /\ x = o
          /\ ~Binned(o) /\ ~Shelved(c) => ~Binned(x)
      BY <2>1, <3>1, MergeMark DEF x
    <3>4. Mark(u, Stamp(x), Payload(x))
      BY <2>1, <3>1, <3>3
    <3>5. latest[u].content = c
      BY <3>1 DEF c
    <3> QED BY <2>1, <2>3, <3>1, <3>2, <3>3, <3>4, <3>5 DEF o
  <2> QED BY <2>2, <2>3
<1>6. RowsAreNews(row, memory[d])
  BY DEF CursorInv, Knows, pullChanges
<1>7. /\ Keeps(d, b)
      /\ \A u \in Entry : /\ b.states[u] \in Nat
                          /\ row[u] # None => row[u].content.mod <= b.states[u]
  <2>1. run[d].newSeq \in Nat /\ pc[d] = "merge"
    BY RunParts DEF pullChanges
  <2> QED BY <1>3, <2>1, RecordedKeeps
<1>8. \A e \in Device : DeviceOrder(e)
  BY DEF OrderInv
<1>9. b \in Binding /\ b.lastSeq = memory[d].lastSeq
  BY RecordedTypes, RunParts
<1> HIDE DEF row, merged, b
<1>10. OutsideBin'
  <2>1. \A e \in Device, u \in Entry : ~Binned(file'[e][u])
    BY <1>2, <1>5 DEF OrderInv, OutsideBin
  <2> QED BY <1>1, <2>1 DEF OrderInv, OutsideBin
<1>11. \A u \in Entry : newest'[u] # None => Lead(u)'
  <2>1. SUFFICES ASSUME NEW u \in Entry, Lead(u) PROVE Lead(u)'
    BY <1>1 DEF OrderInv
  <2>2. ASSUME NEW m \in Nat, NEW y \in Nat, Mark(u, m, y)' PROVE Mark(u, m, y)
    <3>1. CASE \E e \in Device : Stamp(file'[e][u]) = m /\ Payload(file'[e][u]) = y
      <4>1. PICK e \in Device : Stamp(file'[e][u]) = m /\ Payload(file'[e][u]) = y
        BY <3>1
      <4>2. CASE e = d
        BY <1>2, <1>5, <4>1, <4>2
      <4>3. CASE e # d
        BY <1>2, <4>1, <4>3 DEF Mark
      <4> QED BY <4>2, <4>3
    <3>2. CASE ~(\E e \in Device : Stamp(file'[e][u]) = m /\ Payload(file'[e][u]) = y)
      BY <1>1, <2>2, <3>2 DEF Mark
    <3> QED BY <3>1, <3>2
  <2>3. PICK t \in 1 .. clock :
          /\ \A s, x \in Nat : Mark(u, s, x) => s <= t /\ (s = t => x = newest[u].data)
          /\ \E e \in Device : Stamp(file[e][u]) = t
    BY <2>1 DEF Lead
  <2>4. PICK e \in Device : Stamp(file[e][u]) = t
    BY <2>3
  <2>5. Stamp(file'[e][u]) = t
    <3>1. CASE e = d
      <4>1. Stamp(merged[u]) >= t /\ Stamp(merged[u]) \in Nat
            /\ Mark(u, Stamp(merged[u]), Payload(merged[u]))
        BY <1>5, <2>4, <3>1
      <4>2. Payload(merged[u]) \in Nat
        BY <1>2, <3>1, StampTypes, pullChangesTypes DEF TypeInv, UserInv
      <4>3. Stamp(merged[u]) <= t
        BY <2>3, <4>1, <4>2
      <4> QED BY <1>2, <3>1, <4>1, <4>3
    <3>2. CASE e # d
      BY <1>2, <2>4, <3>2
    <3> QED BY <3>1, <3>2
  <2>6. \A m, y \in Nat : Mark(u, m, y)' => m <= t /\ (m = t => y = newest'[u].data)
    BY <1>1, <2>2, <2>3
  <2>7. t \in 1 .. clock'
    BY <1>1
  <2> QED BY <2>5, <2>6, <2>7 DEF Lead
<1>12. ASSUME NEW u \in Entry PROVE Got(merged[u], u, b.states[u])
  <2>1. CASE row[u] = None
    <3>1. latest[u] = None \/ ~(latest[u].seq > memory[d].lastSeq)
      BY <1>6, <2>1 DEF RowsAreNews
    <3>2. latest[u] = None \/ latest[u].seq <= b.lastSeq
      BY <1>9, <3>1, OrderTypes
    <3>3. Got(file[d][u], u, b.states[u])
      BY <1>7, <3>2 DEF Keeps, Got
    <3> QED BY <1>5, <2>1, <3>3
  <2>2. CASE row[u] # None
    <3>1. \/ Stamp(merged[u]) >= latest[u].content.mod
          \/ /\ latest[u].content.deleted /\ merged[u] = file[d][u]
             /\ file[d][u].entry = None /\ file[d][u].dead # 0
      BY <1>5, <2>2
    <3>2. row[u] = latest[u] /\ latest[u].content.mod <= b.states[u] /\ b.states[u] \in Nat
          /\ latest[u].content.mod \in Nat /\ file[d][u].dead \in Nat
      BY <1>3, <1>7, <2>2, OrderTypes
    <3>3. file[d][u].entry = None => Stamp(file[d][u]) = file[d][u].dead
      BY DEF Stamp
    <3> QED BY <3>1, <3>2, <3>3 DEF Got
  <2> QED BY <2>1, <2>2
<1>13. ASSUME NEW x, Keeps(d, x),
              \A u \in Entry : x.states[u] \in Nat /\ x.lastSeq \in Nat
       PROVE \A u \in Entry :
               /\ x.states[u] <= clock
               /\ latest[u] # None /\ latest[u].seq <= x.lastSeq =>
                    Got(merged[u], u, x.states[u])
               /\ Stamp(merged[u]) > ServerTime(u) => x.states[u] < Stamp(merged[u])
  <2>1. SUFFICES ASSUME NEW u \in Entry
        PROVE /\ x.states[u] <= clock
              /\ latest[u] # None /\ latest[u].seq <= x.lastSeq =>
                   Got(merged[u], u, x.states[u])
              /\ Stamp(merged[u]) > ServerTime(u) => x.states[u] < Stamp(merged[u])
    OBVIOUS
  <2>2. /\ x.states[u] <= clock
        /\ latest[u] # None /\ latest[u].seq <= x.lastSeq => Got(file[d][u], u, x.states[u])
        /\ Stamp(file[d][u]) > ServerTime(u) => x.states[u] < Stamp(file[d][u])
    BY <1>13 DEF Keeps
  <2>3. /\ Stamp(merged[u]) >= Stamp(file[d][u]) /\ Stamp(merged[u]) \in Nat
        /\ \/ Stamp(merged[u]) = Stamp(file[d][u])
           \/ Stamp(merged[u]) = ServerTime(u)
        /\ merged[u] = file[d][u] \/ Stamp(merged[u]) >= latest[u].content.mod
    BY <1>5
  <2>4. Stamp(merged[u]) > ServerTime(u) => x.states[u] < Stamp(merged[u])
    <3>1. ServerTime(u) \in Nat /\ Stamp(file[d][u]) \in Nat
      BY OrderTypes
    <3> QED BY <2>2, <2>3, <3>1
  <2>5. Got(file[d][u], u, x.states[u]) => Got(merged[u], u, x.states[u])
    BY <2>3 DEF Got
  <2> QED BY <2>2, <2>4, <2>5
<1>14. ASSUME NEW e \in Device PROVE DeviceOrder(e)'
  <2>1. CASE e = d
    <3>1. file'[d] = merged /\ memory'[d] = b /\ disk'[d] = disk[d] /\ run'[d].out = {}
      BY <1>1, <1>2 DEF TypeInv, UserInv
    <3>2. \A u \in Entry : /\ b.states[u] \in Nat /\ b.lastSeq \in Nat
                           /\ disk[d].states[u] \in Nat /\ disk[d].lastSeq \in Nat
      BY <1>9, OrderTypes DEF Binding
    <3>3. Keeps(d, disk[d])
      BY <1>8 DEF DeviceOrder
    <3>4. \A u \in Entry :
            /\ b.states[u] <= clock
            /\ latest[u] # None /\ latest[u].seq <= b.lastSeq => Got(merged[u], u, b.states[u])
            /\ Stamp(merged[u]) > ServerTime(u) => b.states[u] < Stamp(merged[u])
      BY <1>7, <1>13, <3>2
    <3>5. \A u \in Entry :
            /\ disk[d].states[u] <= clock
            /\ latest[u] # None /\ latest[u].seq <= disk[d].lastSeq =>
                 Got(merged[u], u, disk[d].states[u])
            /\ Stamp(merged[u]) > ServerTime(u) => disk[d].states[u] < Stamp(merged[u])
      BY <1>13, <3>2, <3>3
    <3>6. Keeps(d, memory[d])'
      BY <1>1, <3>1, <3>4 DEF Keeps, Got, ServerTime
    <3>7. Keeps(d, disk[d])'
      BY <1>1, <3>1, <3>5 DEF Keeps, Got, ServerTime
    <3>8. HasAll(d, pc[d], memory[d])'
      BY <1>1, <1>12, <3>1 DEF HasAll, Got
    <3>9. OrdersOf(d, run[d].out)'
      BY <3>1 DEF OrdersOf
    <3> QED BY <2>1, <3>6, <3>7, <3>8, <3>9 DEF DeviceOrder
  <2>2. CASE e # d
    <3>1. file'[e] = file[e] /\ memory'[e] = memory[e] /\ disk'[e] = disk[e] /\ run'[e] = run[e]
          /\ pc'[e] = pc[e]
      BY <1>1, <1>2, <2>2 DEF TypeInv, UserInv
    <3>2. DeviceOrder(e)
      BY <1>8
    <3> QED BY <1>1, <3>1, <3>2 DEF DeviceOrder, Keeps, HasAll, OrdersOf, Order, Got, ServerTime
  <2> QED BY <2>1, <2>2
<1> QED BY <1>10, <1>11, <1>14 DEF OrderInv

\* A change of a user is later than everything else, or leaves payload and time alone.
LEMMA ChangeOrder ==
  ASSUME TypeInv, MemoryInv, OrderInv, NEW d \in Device, NEW u \in Entry, NEW t, t = clock + 1,
         NEW o, NEW last, TimedObject(o), Change(d, u, t, o, last), ~Binned(o),
         \/ Stamp(o) = t /\ last.data = Payload(o)
         \/ /\ newest[u] # None /\ last.data = newest[u].data
            /\ o.entry # None /\ file[d][u].entry # None
            /\ Stamp(o) = Stamp(file[d][u]) /\ Payload(o) = Payload(file[d][u])
  PROVE OrderInv'
<1>1. /\ file' = [file EXCEPT ![d][u] = o] /\ newest' = [newest EXCEPT ![u] = last]
      /\ clock' = t /\ UNCHANGED <<latest, disk, memory, pc, run>>
  BY DEF Change, server
<1>2. /\ \A e \in Device, v \in Entry : file'[e][v] = IF e = d /\ v = u THEN o ELSE file[e][v]
      /\ \A v \in Entry : newest'[v] = IF v = u THEN last ELSE newest[v]
      /\ clock \in Nat /\ t \in Nat /\ clock < t
  BY <1>1 DEF TypeInv, UserInv
<1>3. Stamp(o) \in Nat /\ Payload(o) \in Nat
  BY StampTypes
<1>4. Stamp(o) >= Stamp(file[d][u])
  BY <1>2, MarksPast, OrderTypes
<1>5. OutsideBin'
  <2>1. \A e \in Device, v \in Entry : ~Binned(file'[e][v])
    BY <1>2 DEF OrderInv, OutsideBin
  <2> QED BY <1>1, <2>1 DEF OrderInv, OutsideBin
<1>6. ASSUME NEW v \in Entry, NEW m \in Nat, NEW y \in Nat, Mark(v, m, y)'
      PROVE Mark(v, m, y) \/ (v = u /\ m = Stamp(o) /\ y = Payload(o))
  <2>1. CASE \E e \in Device : Stamp(file'[e][v]) = m /\ Payload(file'[e][v]) = y
    <3>1. PICK e \in Device : Stamp(file'[e][v]) = m /\ Payload(file'[e][v]) = y
      BY <2>1
    <3> QED BY <1>2, <3>1 DEF Mark
  <2>2. CASE ~(\E e \in Device : Stamp(file'[e][v]) = m /\ Payload(file'[e][v]) = y)
    BY <1>1, <1>6, <2>2 DEF Mark
  <2> QED BY <2>1, <2>2
<1>7. ASSUME NEW v \in Entry, newest'[v] # None PROVE Lead(v)'
  <2>1. CASE v = u /\ Stamp(o) = t /\ last.data = Payload(o)
    <3>1. \A m, y \in Nat : Mark(u, m, y)' => m <= t /\ (m = t => y = newest'[u].data)
      BY <1>2, <1>6, <2>1, MarksPast
    <3>2. t \in 1 .. clock' /\ Stamp(file'[d][u]) = t
      BY <1>1, <1>2, <2>1
    <3> QED BY <2>1, <3>1, <3>2 DEF Lead
  <2>2. CASE ~(v = u /\ Stamp(o) = t /\ last.data = Payload(o))
    <3>1. newest[v] # None /\ newest'[v].data = newest[v].data
      BY <1>2, <1>7, <2>2
    <3>2. \A e \in Device : /\ Stamp(file'[e][v]) = Stamp(file[e][v])
                            /\ Payload(file'[e][v]) = Payload(file[e][v])
      BY <1>2, <2>2
    <3>3. Mark(u, Stamp(file[d][u]), Payload(file[d][u]))
      BY DEF Mark
    <3>4. \A m, y \in Nat : Mark(v, m, y)' => Mark(v, m, y)
      BY <1>2, <1>6, <2>2, <3>3
    <3>5. Lead(v)
      BY <3>1 DEF OrderInv
    <3>6. PICK k \in 1 .. clock :
            /\ \A m, y \in Nat : Mark(v, m, y) => m <= k /\ (m = k => y = newest[v].data)
            /\ \E e \in Device : Stamp(file[e][v]) = k
      BY <3>5 DEF Lead
    <3>7. k \in 1 .. clock' /\ \E e \in Device : Stamp(file'[e][v]) = k
      BY <1>1, <1>2, <3>2, <3>6
    <3>8. \A m, y \in Nat : Mark(v, m, y)' => m <= k /\ (m = k => y = newest'[v].data)
      BY <3>1, <3>4, <3>6
    <3> QED BY <3>7, <3>8 DEF Lead
  <2> QED BY <2>1, <2>2
<1>8. ASSUME NEW e \in Device, NEW v \in Entry, NEW s \in Nat, Got(file[e][v], v, s)
      PROVE Got(file'[e][v], v, s)
  <2>1. CASE e = d /\ v = u
    <3>1. latest[u] # None => latest[u].content.mod <= clock /\ latest[u].content.mod \in Nat
      BY MarksPast, OrderTypes DEF ServerTime
    <3>2. latest[u] = None \/ Stamp(o) >= latest[u].content.mod
      <4>1. CASE Stamp(o) = t
        BY <1>2, <3>1, <4>1
      <4>2. CASE Stamp(o) = Stamp(file[d][u]) /\ file[d][u].entry # None
        BY <1>8, <2>1, <4>2 DEF Got
      <4> QED BY <4>1, <4>2
    <3> QED BY <1>2, <2>1, <3>2 DEF Got
  <2>2. CASE ~(e = d /\ v = u)
    BY <1>2, <1>8, <2>2
  <2> QED BY <2>1, <2>2
<1>9. ASSUME NEW e \in Device, NEW b, Keeps(e, b), \A v \in Entry : b.states[v] \in Nat
      PROVE \A v \in Entry :
              /\ b.states[v] <= clock'
              /\ latest[v] # None /\ latest[v].seq <= b.lastSeq =>
                   Got(file'[e][v], v, b.states[v])
              /\ Stamp(file'[e][v]) > ServerTime(v) => b.states[v] < Stamp(file'[e][v])
  <2>1. SUFFICES ASSUME NEW v \in Entry
        PROVE /\ b.states[v] <= clock'
              /\ latest[v] # None /\ latest[v].seq <= b.lastSeq =>
                   Got(file'[e][v], v, b.states[v])
              /\ Stamp(file'[e][v]) > ServerTime(v) => b.states[v] < Stamp(file'[e][v])
    OBVIOUS
  <2>2. /\ b.states[v] <= clock /\ b.states[v] \in Nat
        /\ latest[v] # None /\ latest[v].seq <= b.lastSeq => Got(file[e][v], v, b.states[v])
        /\ Stamp(file[e][v]) > ServerTime(v) => b.states[v] < Stamp(file[e][v])
    BY <1>9 DEF Keeps
  <2>3. b.states[v] < t
    BY <1>2, <2>2
  <2>4. Stamp(file'[e][v]) = t \/ Stamp(file'[e][v]) = Stamp(file[e][v])
    BY <1>2
  <2>5. Stamp(file'[e][v]) > ServerTime(v) => b.states[v] < Stamp(file'[e][v])
    BY <2>2, <2>3, <2>4
  <2>6. b.states[v] <= clock'
    BY <1>1, <1>2, <2>2, <2>3
  <2> QED BY <1>8, <2>2, <2>5, <2>6
<1>10. ASSUME NEW e \in Device PROVE DeviceOrder(e)'
  <2>1. DeviceOrder(e)
    BY DEF OrderInv
  <2>2. \A v \in Entry : memory[e].states[v] \in Nat /\ disk[e].states[v] \in Nat
    BY OrderTypes
  <2>3. Keeps(e, memory[e])'
    <3>1. Keeps(e, memory[e])
      BY <2>1 DEF DeviceOrder
    <3>2. \A v \in Entry :
            /\ memory[e].states[v] <= clock'
            /\ latest[v] # None /\ latest[v].seq <= memory[e].lastSeq =>
                 Got(file'[e][v], v, memory[e].states[v])
            /\ Stamp(file'[e][v]) > ServerTime(v) => memory[e].states[v] < Stamp(file'[e][v])
      BY <1>9, <2>2, <3>1
    <3> QED BY <1>1, <3>2 DEF Keeps, Got, ServerTime
  <2>6. Keeps(e, disk[e])'
    <3>1. Keeps(e, disk[e])
      BY <2>1 DEF DeviceOrder
    <3>2. \A v \in Entry :
            /\ disk[e].states[v] <= clock'
            /\ latest[v] # None /\ latest[v].seq <= disk[e].lastSeq =>
                 Got(file'[e][v], v, disk[e].states[v])
            /\ Stamp(file'[e][v]) > ServerTime(v) => disk[e].states[v] < Stamp(file'[e][v])
      BY <1>9, <2>2, <3>1
    <3> QED BY <1>1, <3>2 DEF Keeps, Got, ServerTime
  <2>4. HasAll(e, pc[e], memory[e])'
    BY <1>1, <1>8, <2>1, <2>2 DEF DeviceOrder, HasAll, Got
  <2>5. OrdersOf(e, run[e].out)'
    <3>1. ASSUME NEW op \in run[e].out PROVE Order(e, op)'
      <4>1. /\ op.uuid \in Entry /\ op.trigger \in Nat /\ op.trigger <= clock /\ Order(e, op)
        BY <2>1, RunParts DEF MemoryInv, PushesFit, DeviceOrder, OrdersOf
      <4>2. Stamp(file'[e][op.uuid]) = t \/ Stamp(file'[e][op.uuid]) = Stamp(file[e][op.uuid])
        BY <1>2, <4>1
      <4>3. \/ Stamp(file'[e][op.uuid]) = op.content.mod
            \/ Stamp(file'[e][op.uuid]) > op.trigger
        BY <1>2, <4>1, <4>2 DEF Order
      <4> QED BY <1>1, <4>1, <4>3 DEF Order, ServerTime
    <3> QED BY <1>1, <2>1, <3>1 DEF DeviceOrder, OrdersOf
  <2> QED BY <2>3, <2>4, <2>5, <2>6 DEF DeviceOrder
<1> QED BY <1>5, <1>7, <1>10 DEF OrderInv

\* What users do, when every change has a second of its own and none is a deletion into
\* the recycle bin.
LEMMA UserOrder ==
  ASSUME ~SameSecond, NoBin, TypeInv, MemoryInv, OrderInv, NEW d \in Device, UserStep(d)
  PROVE OrderInv'
<1> DEFINE t == clock + 1
           x(u) == file[d][u].entry
<1>1. PICK u \in Entry :
        \/ \E p \in Folder : Create(d, u, p, t)
        \/ Edit(d, u, t)
        \/ \E p \in Place : Relocate(d, u, p, t)
        \/ Purge(d, u, t)
  BY DEF UserStep, Times
<1>2. t \in Nat \ {0} /\ changed \in Nat /\ t = clock + 1
  BY DEF TypeInv, UserInv
<1>3. /\ TimedObject(file[d][u])
      /\ x(u) # None => /\ x(u) \in Local /\ x(u).mod # 0 /\ x(u).loc # 0 /\ x(u).place # Bin
                        /\ newest[u] \in Last
  <2>1. TimedObject(file[d][u]) /\ ~Binned(file[d][u]) /\ (x(u) # None => newest[u] \in Last)
    BY DEF TypeInv, UserInv, OrderInv, OutsideBin, Present
  <2> QED BY <2>1 DEF TimedObject, Object, Local, Binned
<1> HIDE DEF t
<1>4. ASSUME NEW e \in Local, e.mod # 0, e.loc # 0
      PROVE TimedObject([entry |-> e, dead |-> 0]) /\ e # None
  BY <1>4, NoneIsNotLocal DEF TimedObject, Object
<1>5. ASSUME NEW e \in Local, e.mod = t, e.loc # 0, e.place # Bin, NEW last, last.data = e.data,
             Change(d, u, t, [entry |-> e, dead |-> 0], last)
      PROVE OrderInv'
  <2> DEFINE o == [entry |-> e, dead |-> 0]
  <2>1. TimedObject(o) /\ o.entry = e /\ e # None
    BY <1>2, <1>4, <1>5
  <2>2. Change(d, u, t, o, last)
    BY <1>5
  <2> HIDE DEF o
  <2>3. Stamp(o) = t /\ Payload(o) = last.data /\ ~Binned(o)
    BY <1>5, <2>1 DEF Stamp, Payload, Binned
  <2> QED BY <1>2, <2>1, <2>2, <2>3, ChangeOrder
<1>6. ASSUME NEW p \in Folder, Create(d, u, p, t) PROVE OrderInv'
  <2> DEFINE e == [place |-> p, data |-> changed + 1, mod |-> t, loc |-> t]
             last == [data |-> e.data, place |-> p]
  <2>1. Change(d, u, t, [entry |-> e, dead |-> 0], last)
    BY <1>6 DEF Create
  <2>2. e \in Local /\ e.mod = t /\ e.loc # 0 /\ e.place # Bin /\ last.data = e.data
    BY <1>2, BinAssumption DEF Local, Place
  <2> HIDE DEF e, last
  <2> QED BY <1>5, <2>1, <2>2
<1>7. CASE Edit(d, u, t)
  <2> DEFINE n == changed + 1
             old == file[d][u].entry
             e == [old EXCEPT !.data = n, !.mod = t]
             last == [newest[u] EXCEPT !.data = e.data]
  <2>1. Change(d, u, t, [entry |-> e, dead |-> 0], last) /\ old # None
    BY <1>7 DEF Edit, Live, Present
  <2>2. old \in Local /\ old.place # Bin /\ old.loc # 0 /\ newest[u] \in Last /\ n \in Nat
    BY <1>2, <1>3, <2>1
  <2> HIDE DEF old, n
  <2>3. e \in Local /\ e.mod = t /\ e.loc # 0 /\ e.place # Bin
    BY <1>2, <2>2 DEF Local
  <2> HIDE DEF e
  <2>4. last.data = e.data
    BY <2>2 DEF Last
  <2> HIDE DEF last
  <2> QED BY <1>5, <2>1, <2>3, <2>4
<1>8. ASSUME NEW p \in Place, Relocate(d, u, p, t) PROVE OrderInv'
  <2> DEFINE old == file[d][u].entry
             e == [old EXCEPT !.place = p, !.loc = t]
             o == [entry |-> e, dead |-> 0]
             last == [data |-> IF p = Bin THEN 0
                               ELSE IF old.place = Bin THEN e.data
                               ELSE newest[u].data,
                      place |-> p]
  <2>1. /\ Change(d, u, t, o, last) /\ old # None /\ p # Bin
    BY <1>8 DEF Relocate, Present, NoBin
  <2>2. old \in Local /\ old.mod # 0 /\ old.place # Bin /\ newest[u] \in Last
    BY <1>3, <2>1
  <2>3. last.data = newest[u].data /\ newest[u] # None
    BY <2>1, <2>2, NoneAssumption DEF Last
  <2>4. /\ e \in Local /\ e.loc = t /\ e.mod = old.mod /\ e.data = old.data
        /\ e.place # Bin
    BY <1>2, <2>1, <2>2 DEF Local
  <2> HIDE DEF e, last
  <2>5. TimedObject(o) /\ o.entry = e /\ e # None
    BY <1>2, <1>4, <2>2, <2>4
  <2> HIDE DEF o
  <2>6. /\ ~Binned(o) /\ o.entry # None /\ file[d][u].entry # None
        /\ Stamp(o) = Stamp(file[d][u]) /\ Payload(o) = Payload(file[d][u])
    BY <2>1, <2>4, <2>5 DEF Binned, Stamp, Payload
  <2> QED BY <1>2, <2>1, <2>3, <2>5, <2>6, ChangeOrder
<1>9. CASE Purge(d, u, t)
  <2> DEFINE o == [entry |-> None, dead |-> t]
             last == [newest[u] EXCEPT !.data = 0]
  <2>1. Change(d, u, t, o, last) /\ x(u) # None
    BY <1>9 DEF Purge, Present
  <2>2. TimedObject(o) /\ o.entry = None /\ o.dead = t
    BY <1>2 DEF TimedObject, Object
  <2>3. last.data = 0
    BY <1>3, <2>1 DEF Last
  <2> HIDE DEF o, last
  <2>4. ~Binned(o) /\ Stamp(o) = t /\ Payload(o) = 0
    BY <2>2 DEF Binned, Stamp, Payload
  <2> QED BY <1>2, <2>1, <2>2, <2>3, <2>4, ChangeOrder
<1> QED BY <1>1, <1>6, <1>7, <1>8, <1>9 DEF t

\* Every step keeps the order of the changes.
LEMMA OrderInvStep ==
  ~SameSecond /\ NoBin /\ TakeTurns /\ TypeInv /\ MemoryInv /\ CursorInv /\ RowsNumbered
    /\ OrderInv /\ [Next]_vars => OrderInv'
<1> SUFFICES ASSUME ~SameSecond, NoBin, TakeTurns, TypeInv, MemoryInv, CursorInv, RowsNumbered,
                    OrderInv, [Next]_vars
             PROVE OrderInv'
  OBVIOUS
<1>1. ASSUME NEW d \in Device, Finish(d) PROVE OrderInv'
  <2>1. pc[d] \in Late
    BY <1>1 DEF Finish, AllDone, Late
  <2>2. UNCHANGED <<clock, newest, file, latest>>
    BY <1>1 DEF Finish, server, user
  <2>3. Save(d, [memory[d] EXCEPT !.lastSeq = Cursor(d)])
    BY <1>1 DEF Finish
  <2> QED BY <2>1, <2>2, <2>3, LateEndOrder
<1>2. ASSUME NEW d \in Device, RunStep(d) PROVE OrderInv'
  BY <1>1, <1>2, StartOrder, SelectRowsOrder, SelectCurrentSeqOrder, pullChangesOrder,
     doSyncOrder, ExportOrder, PushOrder DEF RunStep
<1>3. ASSUME NEW d \in Device, FaultStep(d) PROVE OrderInv'
  BY <1>3, FaultStepOrder, PushOrder DEF FaultStep
<1>4. CASE UNCHANGED vars
  <2>1. UNCHANGED <<latest, clock, file, disk, memory, pc, run, newest>>
    BY <1>4 DEF vars
  <2>2. OutsideBin'
    BY <2>1 DEF OrderInv, OutsideBin
  <2>3. \A d \in Device : DeviceOrder(d)'
    BY <2>1 DEF OrderInv, DeviceOrder, Keeps, HasAll, OrdersOf, Order, Got, ServerTime
  <2>4. \A u \in Entry : newest'[u] # None => Lead(u)'
    BY <2>1 DEF OrderInv, Lead, Mark
  <2> QED BY <2>2, <2>3, <2>4 DEF OrderInv
<1> QED BY <1>2, <1>3, <1>4, UserOrder DEF Next

\* Settled devices have the newest state: its carrier would push it unless the server
\* had it, and the server's last_seq is everyone's.
LEMMA OrderSettles ==
  TypeInv /\ MemoryInv /\ CursorInv /\ OrderInv => LastWriterWins
<1> SUFFICES ASSUME TypeInv, MemoryInv, CursorInv, OrderInv, Settled,
                    NEW u \in Entry, newest[u] # None
             PROVE /\ \A d \in Device : Shown(d, u) = newest[u].data
                   /\ latest[u] # None => latest[u].content.data = newest[u].data
  BY DEF LastWriterWins
<1>1. PICK t \in 1 .. clock :
        /\ \A s, x \in Nat : Mark(u, s, x) => s <= t /\ (s = t => x = newest[u].data)
        /\ \E d \in Device : Stamp(file[d][u]) = t
  BY DEF OrderInv, Lead
<1>2. PICK c \in Device : Stamp(file[c][u]) = t
  BY <1>1
<1>3. t \in Nat \ {0}
  BY <1>1
<1>4. memory[c].states[u] >= t
  <2> DEFINE o == file[c][u]
             x == Exported(o)
  <2>1. TimedObject(o) /\ ~Binned(o) /\ memory[c].states[u] \in Nat
    BY OrderTypes DEF OrderInv, OutsideBin
  <2>2. x # None
    <3>1. o.entry # None => o.entry \in Local /\ o.entry.place # Bin /\ o.entry.mod # 0
      BY <2>1 DEF TimedObject, Object, Binned
    <3>2. o.entry # None => x = collectTree(o.entry)
      BY DEF Exported
    <3>3. o.entry = None => x = [content |-> Tombstone(o.dead), trigger |-> o.dead]
      BY <1>2, <1>3 DEF Exported, Stamp
    <3>4. CASE o.entry # None
      <4> DEFINE e == o.entry
                 k == [deleted |-> FALSE, place |-> e.place, data |-> e.data,
                       mod |-> e.mod, loc |-> e.loc]
      <4>1. x = [content |-> k, trigger |-> laterTime(e.mod, e.loc)]
        BY <3>1, <3>2, <3>4 DEF collectTree
      <4>2. k \in Content /\ laterTime(e.mod, e.loc) \in Nat
        BY <3>1, <3>4 DEF Content, Local, laterTime
      <4> HIDE DEF k, x
      <4> QED BY <4>1, <4>2, NoneAssumption
    <3>5. CASE o.entry = None
      <4>1. Tombstone(o.dead) \in Content /\ o.dead \in Nat
        BY <2>1 DEF TimedObject, Object, Tombstone, Content, Place
      <4> QED BY <3>3, <3>5, <4>1, NoneAssumption
    <3> QED BY <3>4, <3>5
  <2>3. x.trigger \in Nat /\ t <= x.trigger
    <3>1. t <= x.trigger
      BY <1>2, <2>1, <2>2, ExportMark
    <3>2. x.trigger \in Nat
      BY <2>1, <2>2, ExportTypes
    <3> QED BY <3>1, <3>2
  <2>4. ~shouldPush(memory[c].states[u], x.trigger)
    <3>1. ToPush(c, FALSE) = {}
      BY DEF Settled, NothingToPush
    <3> QED BY <2>2, <3>1 DEF ToPush
  <2> QED BY <1>3, <2>1, <2>3, <2>4 DEF shouldPush
<1>5. t <= ServerTime(u) /\ ServerTime(u) \in Nat
  <2>1. Keeps(c, memory[c])
    BY DEF OrderInv, DeviceOrder
  <2>2. Stamp(file[c][u]) > ServerTime(u) => memory[c].states[u] < Stamp(file[c][u])
    BY <2>1 DEF Keeps
  <2> QED BY <1>2, <1>3, <1>4, <2>2, OrderTypes
<1>6. /\ latest[u] # None /\ latest[u].content.mod = t /\ latest[u].content.data \in Nat
      /\ latest[u].content.data = newest[u].data
  <2>1. latest[u] # None
    BY <1>3, <1>5 DEF ServerTime
  <2>2. /\ latest[u].content.mod \in Nat /\ latest[u].content.data \in Nat
        /\ t <= latest[u].content.mod
    BY <1>5, <2>1, OrderTypes DEF ServerTime
  <2>3. Mark(u, latest[u].content.mod, latest[u].content.data)
    BY <2>1 DEF Mark
  <2> QED BY <1>1, <1>3, <2>1, <2>2, <2>3
<1>7. ASSUME NEW d \in Device PROVE Shown(d, u) = newest[u].data
  <2> DEFINE o == file[d][u]
  <2>1. TimedObject(o) /\ Stamp(o) \in Nat /\ Payload(o) \in Nat
    BY OrderTypes
  <2>2. Got(o, u, memory[d].states[u])
    <3>1. Keeps(d, memory[d])
      BY DEF OrderInv, DeviceOrder
    <3>2. latest[u].seq <= memory[d].lastSeq
      BY <1>6 DEF Settled, CaughtUp, CursorInv, NumbersBounded
    <3> QED BY <1>6, <3>1, <3>2 DEF Keeps
  <2>3. Payload(o) = newest[u].data
    <3>1. CASE Stamp(o) >= t
      <4>1. Mark(u, Stamp(o), Payload(o))
        BY DEF Mark
      <4> QED BY <1>1, <1>3, <2>1, <3>1, <4>1
    <3>2. CASE o.entry = None /\ latest[u].content.deleted
      BY <1>6, <3>2, MarksPast DEF Payload
    <3> QED BY <1>6, <2>2, <3>1, <3>2 DEF Got
  <2>4. ~Binned(o)
    BY DEF OrderInv, OutsideBin
  <2> QED BY <2>3, <2>4 DEF Shown, Live, Present, Binned, Payload
<1> QED BY <1>6, <1>7

\* The last writer wins, for any number of devices, entries, changes and faults, when
\* runs exclude each other, no command forces or pushes without a pull, every change
\* has a second of its own and nothing is put into the recycle bin: once all is settled,
\* every device shows the payload that some user gave an entry last, and the server's
\* newest version has it.
THEOREM LastWriterAlwaysWins ==
  TakeTurns /\ ~SameSecond /\ NoBin => (Spec => []LastWriterWins)
<1> DEFINE IInv == MemoryInv /\ CursorInv /\ RowsNumbered /\ OrderInv
<1> SUFFICES ASSUME TakeTurns, ~SameSecond, NoBin PROVE Spec => []LastWriterWins
  OBVIOUS
<1>1. Init => IInv
  BY MemoryInvInit, CursorInvInit, RowsNumberedInit, OrderInvInit
<1>2. TypeInv /\ UnmergedInv /\ IInv /\ [Next]_vars => IInv'
  BY MemoryInvStep, CursorInvStep, RowsNumberedStep, OrderInvStep
<1>3. TypeInv /\ IInv => LastWriterWins
  BY OrderSettles
<1> HIDE DEF IInv
<1> QED BY <1>1, <1>2, <1>3, TypeInvHolds, UnmergedHolds, PTL DEF Spec

-----------------------------------------------------------------------------
(* The last move wins between two devices, on the same conditions, as long as *)
(* an entry is not edited.                                                    *)

AtMostTwo == \A a, b, c \in Device : a = b \/ a = c \/ b = c

\* The server got no payload of entry u but the newest, and no deletion.
Unedited(u) ==
  newest[u] # None /\ newest[u].data # 0 /\ \A v \in uploaded[u] : v.data = newest[u].data

\* c, an entry or a version of one, is e with its move or an earlier one.
Follows(c, e) ==
  /\ c.data = e.data /\ c.mod = e.mod
  /\ c.loc <= e.loc /\ (c.loc = e.loc => c.place = e.place)

\* Whatever the process of device d has recorded of entry u, and the next one, it would
\* push the entry, and go on to do so when it pulls.
Pending(d, u) ==
  LET e == file[d][u].entry IN
  /\ memory[d].states[u] < laterTime(e.mod, e.loc)
  /\ disk[d].states[u] < laterTime(e.mod, e.loc)
  /\ latest[u] # None => e.mod < e.loc

\* Neither the server nor a recorded time knows where device d moved entry u.
Fresh(d, u) ==
  LET e == file[d][u].entry IN
  /\ Pending(d, u) /\ e.mod < e.loc
  /\ latest[u] # None => latest[u].content.loc < e.loc

\* Device m has the newest place of entry u, and all that others have is older.
Leads(m, u) ==
  LET e == file[m][u].entry IN
  /\ Present(m, u) /\ e.data = newest[u].data /\ e.place = newest[u].place
  /\ \A d \in Device : IF Present(d, u) THEN Follows(file[d][u].entry, e)
                       ELSE file[d][u].dead = 0
  /\ latest[u] # None => Follows(latest[u].content, e)

\* The newest place of entry u is still to be pushed, or is on the server, with its time
\* or with that of a move to the same place; then the other device has moved it there.
Reached(m, u) ==
  \/ Pending(m, u)
  \/ latest[u] # None /\ latest[u].content.loc = file[m][u].entry.loc
  \/ /\ latest[u] # None /\ latest[u].content.place = newest[u].place
     /\ \A d \in Device : d # m =>
          /\ Present(d, u) /\ file[d][u].entry.place = newest[u].place
          /\ latest[u].content.loc <= file[d][u].entry.loc

\* Device d is about to push entry u as it is in the file, or as it was before a move;
\* then whoever moved it then or later has not told the server.
PushFollows(d, u, op) ==
  LET e == file[d][u].entry IN
  op.content.data = newest[u].data =>
    /\ Present(d, u) /\ op.content.mod = e.mod
    /\ op.trigger = laterTime(op.content.mod, op.content.loc)
    /\ \/ op.content.loc = e.loc /\ op.content.place = e.place
       \/ /\ op.content.loc < e.loc
          /\ \A x \in Device : Present(x, u) /\ e.loc <= file[x][u].entry.loc => Fresh(x, u)

\* Device d has moved entry u no earlier than the server's version, or to the same place.
Shows(d, u) ==
  /\ Present(d, u)
  /\ \/ latest[u].content.loc <= file[d][u].entry.loc
     \/ latest[u].content.place = file[d][u].entry.place

\* Device d has pulled the server's version of entry u.
Due(d, u) ==
  latest[u].seq <= memory[d].lastSeq \/ latest[u].seq <= disk[d].lastSeq \/ pc[d] \in Late

\* Payloads are numbers of changes.
Counted(u) ==
  /\ \A v \in uploaded[u] : v.data <= changed
  /\ \A d \in Device : Present(d, u) => file[d][u].entry.data <= changed
  /\ \A d \in Device : \A op \in run[d].out : op.uuid = u => op.content.data <= changed

\* An entry the server has never had is on one device at most.
Unsent(u) ==
  /\ uploaded[u] = {}
  /\ \A d \in Device : Present(d, u) => newest[u] # None /\ newest[u].data # 0
  /\ \A d, e \in Device : Present(d, u) /\ Present(e, u) => d = e

Uncreated(u) == uploaded[u] = {} /\ \A d \in Device : ~Present(d, u) /\ file[d][u].dead = 0

EntryMoves(u) ==
  /\ Unedited(u) =>
       /\ \E m \in Device : Leads(m, u) /\ Reached(m, u)
       /\ \A d \in Device : \A op \in run[d].out : op.uuid = u => PushFollows(d, u, op)
       /\ latest[u] # None => \A d \in Device : Due(d, u) => Shows(d, u)
  /\ latest[u] = None => Unsent(u)
  /\ newest[u] = None => Uncreated(u)
  /\ Counted(u)

\* LastMoveWinsUnedited speaks of the moment when all is settled.
MoveInv == \A u \in Entry : EntryMoves(u)

LEMMA MoveInvInit == Init => MoveInv
<1> SUFFICES ASSUME Init, NEW u \in Entry PROVE EntryMoves(u)
  BY DEF MoveInv
<1>1. /\ \A d \in Device : file[d][u] = [entry |-> None, dead |-> 0]
      /\ latest[u] = None /\ newest[u] = None /\ uploaded[u] = {}
      /\ \A d \in Device : run[d].out = {}
  BY DEF Init, Store!Init, NoRun
<1> QED BY <1>1 DEF EntryMoves, Unedited, Unsent, Uncreated, Counted, Present

\* The numbers these definitions compare.
LEMMA MoveTypes ==
  ASSUME TypeInv, NEW u \in Entry
  PROVE /\ \A d \in Device : Present(d, u) =>
             /\ file[d][u].entry \in Local /\ file[d][u].entry.data \in Nat
             /\ file[d][u].entry.mod \in Nat /\ file[d][u].entry.loc \in Nat
             /\ file[d][u].dead = 0 /\ newest[u] # None /\ newest[u] \in Last
        /\ latest[u] # None => /\ latest[u].content.mod \in Nat /\ latest[u].content.loc \in Nat
                               /\ latest[u].content.data \in Nat /\ latest[u].seq \in Nat
        /\ \A d \in Device : /\ memory[d].states[u] \in Nat /\ disk[d].states[u] \in Nat
                             /\ memory[d].lastSeq \in Nat /\ disk[d].lastSeq \in Nat
        /\ \A d \in Device : \A op \in run[d].out :
             /\ op.uuid \in Entry /\ op.content \in Content /\ op.trigger \in Nat \ {0}
             /\ op.content.data \in Nat /\ op.content.mod \in Nat /\ op.content.loc \in Nat
        /\ changed \in Nat /\ clock \in Nat /\ seq \in Nat
<1>1. ASSUME NEW d \in Device, Present(d, u)
      PROVE /\ file[d][u].entry \in Local /\ file[d][u].entry.data \in Nat
            /\ file[d][u].entry.mod \in Nat /\ file[d][u].entry.loc \in Nat
            /\ file[d][u].dead = 0 /\ newest[u] # None /\ newest[u] \in Last
  <2>1. TimedObject(file[d][u]) /\ newest[u] \in Last
    BY <1>1 DEF TypeInv, UserInv
  <2>2. file[d][u].entry \in Local /\ file[d][u].dead = 0
    BY <1>1, <2>1 DEF TimedObject, Object, Present
  <2>3. newest[u] # None
    BY <2>1, NoneAssumption DEF Last
  <2> QED BY <2>1, <2>2, <2>3 DEF Local
<1>2. latest[u] # None => /\ latest[u].content.mod \in Nat /\ latest[u].content.loc \in Nat
                          /\ latest[u].content.data \in Nat /\ latest[u].seq \in Nat
  BY DEF TypeInv, ServerInv, Store!Version, Content
<1>3. \A d \in Device : \A op \in run[d].out :
        /\ op.uuid \in Entry /\ op.content \in Content /\ op.trigger \in Nat \ {0}
        /\ op.content.data \in Nat /\ op.content.mod \in Nat /\ op.content.loc \in Nat
  BY RunParts DEF Content
<1>4. \A d \in Device : /\ memory[d].states[u] \in Nat /\ disk[d].states[u] \in Nat
                        /\ memory[d].lastSeq \in Nat /\ disk[d].lastSeq \in Nat
  BY RunParts DEF Binding
<1>5. changed \in Nat /\ clock \in Nat /\ seq \in Nat
  BY DEF TypeInv, UserInv, ServerInv
<1> QED BY <1>1, <1>2, <1>3, <1>4, <1>5

\* Steps that leave entry u alone, everywhere.
LEMMA EntryKept ==
  ASSUME TypeInv, NEW u \in Entry, EntryMoves(u),
         changed' \in Nat, changed <= changed',
         latest'[u] = latest[u], newest'[u] = newest[u], uploaded'[u] = uploaded[u],
         \A d \in Device : file'[d][u] = file[d][u],
         \A d \in Device : \A op \in run'[d].out : op.uuid = u =>
           \/ op \in run[d].out
           \/ /\ Unedited(u) => PushFollows(d, u, op)
              /\ op.content.data <= changed /\ op.content.data \in Nat,
         \A d \in Device : Unedited(u) /\ Present(d, u) /\ Pending(d, u) => Pending(d, u)',
         \A d \in Device : Unedited(u) /\ latest[u] # None /\ Due(d, u)' =>
           Due(d, u) \/ Shows(d, u)
  PROVE EntryMoves(u)'
<1>1. Unedited(u)' <=> Unedited(u)
  BY DEF Unedited
<1>2. \A d \in Device : Present(d, u)' <=> Present(d, u)
  BY DEF Present
<1>3. \A m \in Device : Leads(m, u) => Leads(m, u)'
  BY <1>2 DEF Leads
<1>4. ASSUME Unedited(u), NEW d \in Device, Present(d, u), Fresh(d, u) PROVE Fresh(d, u)'
  <2>1. Pending(d, u)'
    BY <1>4 DEF Fresh
  <2> QED BY <1>4, <2>1 DEF Fresh
<1>5. ASSUME Unedited(u), NEW m \in Device, Leads(m, u), Reached(m, u) PROVE Reached(m, u)'
  <2>1. CASE Pending(m, u)
    BY <1>5, <2>1 DEF Reached, Leads
  <2>2. CASE ~Pending(m, u)
    BY <1>2, <1>5, <2>2 DEF Reached
  <2> QED BY <2>1, <2>2
<1>6. ASSUME Unedited(u), NEW d \in Device, NEW op, PushFollows(d, u, op)
      PROVE PushFollows(d, u, op)'
  <2>1. \A x \in Device : Present(x, u) /\ Fresh(x, u) => Fresh(x, u)'
    BY <1>4, <1>6
  <2> QED BY <1>2, <1>6, <2>1 DEF PushFollows
<1>7. ASSUME Unedited(u), NEW d \in Device, NEW op \in run'[d].out, op.uuid = u
      PROVE PushFollows(d, u, op)'
  <2>1. PushFollows(d, u, op)
    BY <1>7 DEF EntryMoves
  <2> QED BY <1>6, <1>7, <2>1
<1>8. ASSUME Unedited(u), latest[u] # None, NEW d \in Device, Due(d, u)' PROVE Shows(d, u)'
  <2>1. Shows(d, u)
    BY <1>8 DEF EntryMoves
  <2> QED BY <1>2, <2>1 DEF Shows
<1>9. (latest[u] = None => Unsent(u))' /\ (newest[u] = None => Uncreated(u))'
  BY <1>2 DEF EntryMoves, Unsent, Uncreated
<1>10. Counted(u)'
  <2>1. \A x \in Nat : x <= changed => x <= changed'
    BY MoveTypes
  <2>2. \A v \in uploaded[u] : v.data \in Nat
    BY DEF TypeInv, ServerInv
  <2>3. Counted(u)
    BY DEF EntryMoves
  <2>4. \A v \in uploaded'[u] : v.data <= changed'
    BY <2>1, <2>2, <2>3 DEF Counted
  <2>5. \A d \in Device : Present(d, u)' => file'[d][u].entry.data <= changed'
    BY <1>2, <2>1, <2>3, MoveTypes DEF Counted
  <2>6. ASSUME NEW d \in Device, NEW op \in run'[d].out, op.uuid = u
        PROVE op.content.data <= changed'
    <3>1. CASE op \in run[d].out
      BY <2>1, <2>3, <2>6, <3>1, MoveTypes DEF Counted
    <3>2. CASE op \notin run[d].out
      BY <2>1, <2>6, <3>2
    <3> QED BY <3>1, <3>2
  <2> QED BY <2>4, <2>5, <2>6 DEF Counted
<1>11. Unedited(u) => \E m \in Device : Leads(m, u)' /\ Reached(m, u)'
  BY <1>3, <1>5 DEF EntryMoves
<1>12. Unedited(u)' =>
         /\ (\E m \in Device : Leads(m, u) /\ Reached(m, u))'
         /\ (\A d \in Device : \A op \in run[d].out : op.uuid = u => PushFollows(d, u, op))'
         /\ (latest[u] # None => \A d \in Device : Due(d, u) => Shows(d, u))'
  BY <1>1, <1>7, <1>8, <1>11
<1> QED BY <1>9, <1>10, <1>12 DEF EntryMoves

\* Times a run may leave in a binding when it has pushed nothing.
RecordedTimes(d, b) ==
  \A u \in Entry :
    \/ b.states[u] \in {memory[d].states[u], disk[d].states[u]}
    \/ latest[u] # None /\ b.states[u] = laterTime(memory[d].states[u], latest[u].content.mod)

\* At step s, with binding b, device d has what it has to.
ShowsAll(d, b, s) ==
  \A u \in Entry :
    Unedited(u) /\ latest[u] # None /\ (latest[u].seq <= b.lastSeq \/ s \in Late) => Shows(d, u)

\* A step of one run, or to the end of one, that leaves files and the server alone.
LEMMA RunMoves ==
  ASSUME TypeInv, MoveInv, NEW d \in Device, NEW s \in Steps, NEW r \in Run, NEW b \in Binding,
         UNCHANGED <<changed, newest, file, latest, uploaded>>,
         pc' = [pc EXCEPT ![d] = s], run' = [run EXCEPT ![d] = r],
         memory' = [memory EXCEPT ![d] = b],
         disk' = disk \/ disk' = [disk EXCEPT ![d] = b],
         RecordedTimes(d, b), ShowsAll(d, b, s),
         \A op \in r.out : \/ op \in run[d].out
                           \/ /\ Unedited(op.uuid) => PushFollows(d, op.uuid, op)
                              /\ op.content.data <= changed /\ op.content.data \in Nat
  PROVE MoveInv'
<1>1. \A e \in Device : /\ pc'[e] = IF e = d THEN s ELSE pc[e]
                        /\ run'[e] = IF e = d THEN r ELSE run[e]
                        /\ memory'[e] = IF e = d THEN b ELSE memory[e]
                        /\ (disk'[e] = disk[e] \/ (e = d /\ disk'[e] = b))
  <2>1. /\ pc \in [Device -> Steps] /\ run \in [Device -> Run]
        /\ memory \in [Device -> Binding] /\ disk \in [Device -> Binding]
    BY DEF TypeInv, RunInv
  <2>2. \A e \in Device : (disk'[e] = disk[e] \/ (e = d /\ disk'[e] = b))
    BY <2>1
  <2> QED BY <2>1, <2>2
<1>2. SUFFICES ASSUME NEW u \in Entry, EntryMoves(u) PROVE EntryMoves(u)'
  BY DEF MoveInv
<1>3. changed' \in Nat /\ changed <= changed'
  BY MoveTypes
<1>4. \A e \in Device : \A op \in run'[e].out : op.uuid = u =>
        \/ op \in run[e].out
        \/ /\ Unedited(u) => PushFollows(e, u, op)
           /\ op.content.data <= changed /\ op.content.data \in Nat
  BY <1>1
<1>5. ASSUME NEW e \in Device, Unedited(u), Present(e, u), Pending(e, u)
      PROVE Pending(e, u)'
  <2> DEFINE x == file[e][u].entry
  <2>1. PICK m \in Device : Leads(m, u)
    BY <1>2, <1>5 DEF EntryMoves
  <2>2. latest[u] # None => latest[u].content.mod = x.mod
    BY <1>5, <2>1 DEF Leads, Follows
  <2>3. /\ memory[e].states[u] < laterTime(x.mod, x.loc)
        /\ disk[e].states[u] < laterTime(x.mod, x.loc)
        /\ latest[u] # None => x.mod < x.loc
    BY <1>5 DEF Pending
  <2>4. x.mod \in Nat /\ x.loc \in Nat /\ memory[e].states[u] \in Nat
    BY <1>5, MoveTypes
  <2> HIDE DEF x
  <2>5. e = d => b.states[u] < laterTime(x.mod, x.loc)
    <3>1. CASE b.states[u] \in {memory[d].states[u], disk[d].states[u]}
      BY <2>3, <3>1
    <3>2. CASE latest[u] # None /\ b.states[u] = laterTime(memory[d].states[u], x.mod)
      BY <2>3, <2>4, <3>2 DEF laterTime
    <3> QED BY <2>2, <3>1, <3>2 DEF RecordedTimes
  <2>6. /\ memory'[e].states[u] < laterTime(x.mod, x.loc)
        /\ disk'[e].states[u] < laterTime(x.mod, x.loc)
    BY <1>1, <2>3, <2>5
  <2> QED BY <2>3, <2>6 DEF Pending, x
<1>6. ASSUME NEW e \in Device, Unedited(u), latest[u] # None, Due(e, u)'
      PROVE Due(e, u) \/ Shows(e, u)
  <2>1. \/ latest[u].seq <= memory'[e].lastSeq \/ latest[u].seq <= disk'[e].lastSeq
        \/ pc'[e] \in Late
    BY <1>6 DEF Due
  <2>2. CASE e # d
    BY <1>1, <2>1, <2>2 DEF Due
  <2>3. CASE e = d
    BY <1>1, <1>6, <2>1, <2>3 DEF Due, ShowsAll
  <2> QED BY <2>2, <2>3
<1> QED BY <1>2, <1>3, <1>4, <1>5, <1>6, EntryKept

\* What a device has in memory and on the disk.
LEMMA OwnMoves ==
  ASSUME TypeInv, MoveInv, NEW d \in Device
  PROVE /\ \A s \in Steps : s \notin Late => ShowsAll(d, memory[d], s) /\ ShowsAll(d, disk[d], s)
        /\ RecordedTimes(d, memory[d]) /\ RecordedTimes(d, disk[d])
        /\ pc[d] \in Late => \A b, s : ShowsAll(d, b, s)
BY DEF MoveInv, EntryMoves, ShowsAll, RecordedTimes, Due

\* A run that ends.
LEMMA EndMoves ==
  ASSUME TypeInv, MoveInv, NEW d \in Device, NEW b \in Binding, End(d, b),
         UNCHANGED <<changed, newest, file, latest, uploaded>>,
         disk' = disk \/ disk' = [disk EXCEPT ![d] = b],
         RecordedTimes(d, b), ShowsAll(d, b, "idle")
  PROVE MoveInv'
<1>1. NoRun \in Run /\ NoRun.out = {}
  BY NoRunAt DEF NoRun, RunAt, Steps
<1>2. /\ pc' = [pc EXCEPT ![d] = "idle"] /\ run' = [run EXCEPT ![d] = NoRun]
      /\ memory' = [memory EXCEPT ![d] = b] /\ "idle" \in Steps
  BY DEF End, Goto, Steps
<1> HIDE DEF NoRun
<1> QED BY <1>1, <1>2, RunMoves

LEMMA ReturnMoves ==
  ASSUME TypeInv, MoveInv, NEW d \in Device, NEW b \in Binding, Return(d, b),
         UNCHANGED <<changed, newest, file, latest, uploaded, disk>>,
         RecordedTimes(d, b), ShowsAll(d, b, "idle")
  PROVE MoveInv'
<1> DEFINE c == IF d \in Daemon THEN b ELSE disk[d]
<1>1. ShowsAll(d, disk[d], "idle") /\ RecordedTimes(d, disk[d]) /\ disk[d] \in Binding
  BY OwnMoves, RunParts DEF Steps, Late
<1>2. End(d, c) /\ c \in Binding /\ RecordedTimes(d, c) /\ ShowsAll(d, c, "idle")
  BY <1>1 DEF Return
<1> HIDE DEF c
<1> QED BY <1>2, EndMoves

\* The end of a run that has pulled everything.
LEMMA LateEndMoves ==
  ASSUME TypeInv, MoveInv, NEW d \in Device, pc[d] \in Late,
         UNCHANGED <<changed, newest, file, latest, uploaded>>,
         \/ Save(d, [memory[d] EXCEPT !.lastSeq = Cursor(d)])
         \/ Save(d, [memory[d] EXCEPT !.lastSeq = run[d].newSeq])
         \/ Return(d, memory[d]) /\ UNCHANGED disk
         \/ Return(d, disk[d]) /\ UNCHANGED disk
         \/ Return(d, [memory[d] EXCEPT !.lastSeq = Cursor(d)]) /\ UNCHANGED disk
  PROVE MoveInv'
<1> DEFINE b == [memory[d] EXCEPT !.lastSeq = Cursor(d)]
           c == [memory[d] EXCEPT !.lastSeq = run[d].newSeq]
<1>1. b \in Binding /\ c \in Binding /\ memory[d] \in Binding /\ disk[d] \in Binding
  BY CursorTypes, RunParts
<1>2. b.states = memory[d].states /\ c.states = memory[d].states
  BY CursorStates
<1>3. \A x : ShowsAll(d, x, "idle")
  BY OwnMoves
<1>4. RecordedTimes(d, memory[d]) /\ RecordedTimes(d, disk[d])
  BY OwnMoves
<1>5. RecordedTimes(d, b) /\ RecordedTimes(d, c)
  BY <1>2, <1>4 DEF RecordedTimes
<1>6. \/ Save(d, b) \/ Save(d, c)
      \/ Return(d, memory[d]) /\ UNCHANGED disk
      \/ Return(d, disk[d]) /\ UNCHANGED disk
      \/ Return(d, b) /\ UNCHANGED disk
  OBVIOUS
<1> HIDE DEF b, c
<1>7. CASE Save(d, b) \/ Save(d, c)
  BY <1>1, <1>3, <1>5, <1>7, EndMoves DEF Save
<1>8. CASE \/ Return(d, memory[d]) /\ UNCHANGED disk
           \/ Return(d, disk[d]) /\ UNCHANGED disk
           \/ Return(d, b) /\ UNCHANGED disk
  BY <1>1, <1>3, <1>4, <1>5, <1>8, ReturnMoves
<1> QED BY <1>6, <1>7, <1>8

\* A run begins.
LEMMA StartMoves ==
  ASSUME TakeTurns, TypeInv, MoveInv, NEW d \in Device, NEW c \in Command, Start(d, c)
  PROVE MoveInv'
<1> DEFINE r == [run[d] EXCEPT !.command = c, !.newSeq = memory[d].lastSeq]
<1>1. run' = [run EXCEPT ![d] = r] /\ pc' = [pc EXCEPT ![d] = "rows"]
  BY DEF Start, Goto, TakeTurns
<1>2. run[d] \in Run /\ memory[d].lastSeq \in Nat /\ memory[d] \in Binding
  BY RunParts DEF Binding
<1>3. r \in Run /\ r.out = run[d].out
  BY <1>2 DEF Run
<1> HIDE DEF r
<1>4. /\ memory' = [memory EXCEPT ![d] = memory[d]]
      /\ UNCHANGED <<changed, newest, file, latest, uploaded, disk>>
  BY DEF Start, server, history, TypeInv, RunInv, TakeTurns
<1>5. ShowsAll(d, memory[d], "rows") /\ RecordedTimes(d, memory[d]) /\ "rows" \in Steps
  BY OwnMoves DEF Late, Steps
<1> QED BY <1>1, <1>2, <1>3, <1>4, <1>5, RunMoves

\* It selects the rows above its number.
LEMMA SelectRowsMoves ==
  ASSUME TypeInv, MoveInv, NEW d \in Device, SelectRows(d)
  PROVE MoveInv'
<1> DEFINE rws == [u \in Entry |-> IF latest[u] # None /\ latest[u].seq > memory[d].lastSeq
                                    THEN latest[u] ELSE None]
           r == [run[d] EXCEPT !.rows = rws]
<1>1. /\ run' = [run EXCEPT ![d] = r] /\ pc' = [pc EXCEPT ![d] = "current"]
      /\ memory' = [memory EXCEPT ![d] = memory[d]]
      /\ UNCHANGED <<changed, newest, file, latest, uploaded, disk>>
  BY DEF SelectRows, Goto, server, user, history, TypeInv, RunInv
<1>2. rws \in [Entry -> Store!Version \cup {None}]
  BY DEF TypeInv, ServerInv
<1> HIDE DEF rws
<1>3. r \in Run /\ r.out = run[d].out
  BY <1>2, RunParts DEF Run
<1> HIDE DEF r
<1>4. ShowsAll(d, memory[d], "current") /\ RecordedTimes(d, memory[d]) /\ "current" \in Steps
      /\ memory[d] \in Binding
  BY OwnMoves, RunParts DEF Late, Steps
<1> QED BY <1>1, <1>3, <1>4, RunMoves

\* With no news the device has everything.
LEMMA SelectCurrentSeqMoves ==
  ASSUME TypeInv, CursorInv, MoveInv, NEW d \in Device, SelectCurrentSeq(d)
  PROVE MoveInv'
<1> DEFINE r == [run[d] EXCEPT !.newSeq = seq]
           s == IF run[d].rows = NoRows THEN AfterPull(d) ELSE "merge"
           b == memory[d]
<1>1. /\ run' = [run EXCEPT ![d] = r] /\ pc' = [pc EXCEPT ![d] = s]
      /\ memory' = [memory EXCEPT ![d] = b]
      /\ UNCHANGED <<changed, newest, file, latest, uploaded, disk>>
  BY DEF SelectCurrentSeq, Goto, server, user, history, TypeInv, RunInv
<1>2. seq \in Nat /\ \A u \in Entry : latest[u] # None => latest[u].seq \in Nat
  BY DEF TypeInv, ServerInv, Store!Version
<1>3. r \in Run /\ r.out = run[d].out
  BY <1>2, RunParts DEF Run
<1>4. b \in Binding /\ b.lastSeq \in Nat /\ RecordedTimes(d, b) /\ ShowsAll(d, b, "merge")
  BY OwnMoves, RunParts DEF Binding, Steps, Late
<1>5. RowsAreNews(run[d].rows, b)
  BY DEF CursorInv, Knows, SelectCurrentSeq
<1>6. s \in Steps
  BY DEF Steps, AfterPull
<1>7. ShowsAll(d, b, s)
  <2>1. CASE run[d].rows = NoRows
    <3>1. \A u \in Entry : latest[u] # None => latest[u].seq <= b.lastSeq
      BY <1>2, <1>4, <1>5, <2>1 DEF RowsAreNews, NoRows
    <3> QED BY <1>4, <3>1 DEF ShowsAll
  <2>2. CASE run[d].rows # NoRows
    BY <1>4, <2>2
  <2> QED BY <2>1, <2>2
<1> HIDE DEF r, s, b
<1> QED BY <1>1, <1>3, <1>4, <1>6, <1>7, RunMoves

\* The daemon skips the push, or goes on to it.
LEMMA doSyncMoves ==
  ASSUME TypeInv, MoveInv, NEW d \in Device, doSync(d)
  PROVE MoveInv'
<1>1. UNCHANGED <<changed, newest, file, latest, uploaded>> /\ pc[d] \in Late
  BY DEF doSync, server, user, history, Late
<1>2. CASE Unchanged(d)
  BY <1>1, <1>2, LateEndMoves DEF doSync
<1>3. CASE ~Unchanged(d)
  <2>1. pc' = [pc EXCEPT ![d] = "export"] /\ UNCHANGED <<disk, memory, run>>
    BY <1>3 DEF doSync, Goto
  <2>2. run' = [run EXCEPT ![d] = run[d]] /\ memory' = [memory EXCEPT ![d] = memory[d]]
    BY <2>1 DEF TypeInv, RunInv
  <2>3. ShowsAll(d, memory[d], "export") /\ RecordedTimes(d, memory[d])
    BY <1>1, OwnMoves
  <2>4. run[d] \in Run /\ memory[d] \in Binding /\ "export" \in Steps
    BY RunParts DEF Steps
  <2> QED BY <1>1, <2>1, <2>2, <2>3, <2>4, RunMoves
<1> QED BY <1>2, <1>3

\* What is exported is what the file has.
LEMMA ExportMoves ==
  ASSUME TypeInv, OrderInv, MoveInv, NEW d \in Device, Export(d)
  PROVE MoveInv'
<1> DEFINE ops == ToPush(d, run[d].command = "force")
           r == [run[d] EXCEPT !.out = ops]
<1>1. /\ run' = [run EXCEPT ![d] = r] /\ pc' = [pc EXCEPT ![d] = "push"]
      /\ memory' = [memory EXCEPT ![d] = memory[d]]
      /\ UNCHANGED <<changed, newest, file, latest, uploaded, disk>>
  BY DEF Export, Goto, server, user, history, TypeInv, RunInv
<1>2. \A op \in ops : \E u \in Entry :
        /\ Exported(file[d][u]) # None
        /\ op = [uuid |-> u, content |-> Exported(file[d][u]).content,
                 trigger |-> Exported(file[d][u]).trigger]
  BY DEF ToPush
<1>3. ASSUME NEW op \in ops
      PROVE /\ Unedited(op.uuid) => PushFollows(d, op.uuid, op)
            /\ op.content.data <= changed /\ op.content.data \in Nat
  <2>1. PICK u \in Entry :
          /\ Exported(file[d][u]) # None
          /\ op = [uuid |-> u, content |-> Exported(file[d][u]).content,
                   trigger |-> Exported(file[d][u]).trigger]
    BY <1>2
  <2> DEFINE o == file[d][u]
             x == Exported(o)
  <2>2. op.uuid = u /\ op.content = x.content /\ op.trigger = x.trigger
    BY <2>1
  <2>3. CASE Present(d, u)
    <3>1. x = collectTree(o.entry) /\ o.entry.place # Bin
      BY <2>3 DEF Present, Exported, OrderInv, OutsideBin, Binned
    <3>2. /\ x.content.data = o.entry.data /\ x.content.mod = o.entry.mod
          /\ x.content.loc = o.entry.loc /\ x.content.place = o.entry.place
          /\ x.trigger = laterTime(o.entry.mod, o.entry.loc)
      BY <3>1 DEF collectTree
    <3>3. o.entry.data <= changed /\ o.entry.data \in Nat
      BY <2>3, MoveTypes DEF MoveInv, EntryMoves, Counted
    <3> HIDE DEF o, x
    <3> QED BY <2>2, <2>3, <3>2, <3>3 DEF PushFollows, o
  <2>4. CASE ~Present(d, u)
    <3>1. x.content = Tombstone(o.dead)
      BY <2>1, <2>4 DEF Present, Exported
    <3>2. op.content.data = 0
      BY <2>2, <3>1 DEF Tombstone
    <3>3. changed \in Nat
      BY MoveTypes
    <3>4. op.content.data <= changed /\ op.content.data \in Nat
      BY <3>2, <3>3
    <3>5. Unedited(u) => PushFollows(d, u, op)
      BY <3>2 DEF Unedited, PushFollows
    <3> HIDE DEF o, x
    <3> QED BY <2>2, <3>4, <3>5
  <2> QED BY <2>3, <2>4
<1> HIDE DEF ops
<1>4. r.out = ops
  BY RunParts DEF Run
<1>5. r \in Run
  <2>1. run' \in [Device -> Run] /\ run \in [Device -> Run]
    BY ExportStepTypes DEF TypeInv, RunInv
  <2>2. run'[d] = r
    BY <1>1, <2>1
  <2> QED BY <2>1, <2>2
<1> HIDE DEF r
<1>6. ShowsAll(d, memory[d], "push") /\ RecordedTimes(d, memory[d]) /\ memory[d] \in Binding
      /\ "push" \in Steps
  BY OwnMoves, RunParts DEF Steps, Export, Late
<1> QED BY <1>1, <1>3, <1>4, <1>5, <1>6, RunMoves

\* A run that fails to merge has recorded times of versions that the server has.
LEMMA RecordedMoves ==
  ASSUME TypeInv, CursorInv, MoveInv, NEW d \in Device, NEW n \in Nat, pc[d] = "merge" \/ n = 0
  PROVE /\ RecordedTimes(d, Recorded(d, n))
        /\ \A s \in Steps : s \notin Late => ShowsAll(d, Recorded(d, n), s)
<1> DEFINE row == run[d].rows
           b == Recorded(d, n)
           m == memory[d]
<1>1. /\ b \in Binding /\ b.lastSeq = m.lastSeq
      /\ \A u \in Entry : b.states[u] = IF row[u] # None /\ row[u].seq <= n
                                        THEN laterTime(m.states[u], row[u].content.mod)
                                        ELSE m.states[u]
  BY RecordedStates
<1>2. ASSUME NEW u \in Entry, row[u] # None, row[u].seq <= n PROVE row[u] = latest[u]
  <2>1. pc[d] = "merge"
    <3>1. row[u].seq \in Nat \ {0}
      BY <1>2, RunParts DEF Store!Version
    <3> QED BY <1>2, <3>1
  <2> QED BY <1>2, <2>1 DEF CursorInv, Knows, RowsAreNews
<1>3. \A s \in Steps : s \notin Late => ShowsAll(d, m, s)
  BY OwnMoves
<1> HIDE DEF row, b, m
<1>4. RecordedTimes(d, b)
  BY <1>1, <1>2 DEF RecordedTimes, m
<1>5. \A s \in Steps : s \notin Late => ShowsAll(d, b, s)
  BY <1>1, <1>3 DEF ShowsAll
<1> QED BY <1>4, <1>5 DEF b

\* A failed run leaves what it had.
LEMMA FaultStepMoves ==
  ASSUME TypeInv, CursorInv, MoveInv, NEW d \in Device,
         PullFails(d) \/ PushFails(d) \/ SaveFails(d) \/ Crash(d)
  PROVE MoveInv'
<1>1. CASE PullFails(d)
  <2>1. PICK n \in 0 .. run[d].newSeq : (pc[d] # "merge" => n = 0) /\ Return(d, Recorded(d, n))
    BY <1>1 DEF PullFails
  <2>2. n \in Nat
    BY RunParts
  <2>3. Recorded(d, n) \in Binding /\ RecordedTimes(d, Recorded(d, n))
        /\ ShowsAll(d, Recorded(d, n), "idle")
    BY <2>1, <2>2, RecordedTypes, RecordedMoves DEF Steps, Late
  <2>4. UNCHANGED <<changed, newest, file, latest, uploaded, disk>>
    BY <1>1 DEF PullFails, server, user
  <2> QED BY <2>1, <2>3, <2>4, ReturnMoves
<1>2. CASE PushFails(d)
  BY <1>2, LateEndMoves DEF PushFails, PushError, server, user, history, Late
<1>3. CASE SaveFails(d)
  BY <1>3, LateEndMoves DEF SaveFails, AllDone, Unchanged, server, user, history, Late
<1>4. CASE Crash(d)
  <2>1. End(d, disk[d]) /\ UNCHANGED <<changed, newest, file, latest, uploaded, disk>>
    BY <1>4 DEF Crash, End, server, user, history
  <2>2. disk[d] \in Binding /\ RecordedTimes(d, disk[d]) /\ ShowsAll(d, disk[d], "idle")
    BY OwnMoves, RunParts DEF Steps, Late
  <2> QED BY <2>1, <2>2, EndMoves
<1> QED BY <1>1, <1>2, <1>3, <1>4

\* A write keeps the lead, and if the lead was known before, it still is: between two
\* devices, whoever writes has the newest place, or is about to be told of it.
LEMMA WriteMoves ==
  ASSUME AtMostTwo, TypeInv, MemoryInv, CursorInv, OrderInv, MoveInv, NEW d \in Device, NEW op,
         NEW s, NEW r, NEW b, NEW x, Writes(d, op, s, r, b, x),
         \A u \in Entry : x.states[u] \in {memory[d].states[u], disk[d].states[u]}
  PROVE MoveInv'
<1>0. /\ op \in run[d].out /\ Put(d, op)
      /\ s \in {"push", "idle"} /\ r \in Run /\ b \in Binding /\ x \in Binding
      /\ pc' = [pc EXCEPT ![d] = s] /\ run' = [run EXCEPT ![d] = r]
      /\ memory' = [memory EXCEPT ![d] = b]
      /\ disk' = disk \/ disk' = [disk EXCEPT ![d] = b]
      /\ r.out \subseteq run[d].out \ {op}
      /\ b.lastSeq = x.lastSeq /\ b.lastSeq <= seq
      /\ \A u \in Entry : b.states[u] = x.states[u] \/ (u = op.uuid /\ b.states[u] = op.trigger)
  BY DEF Writes
<1> USE <1>0
<1> DEFINE w == op.uuid
           v == [uuid |-> w, content |-> op.content, seq |-> seq + 1]
           c == op.content
<1>1. /\ latest' = [latest EXCEPT ![w] = v]
      /\ uploaded' = [uploaded EXCEPT ![w] = @ \cup {Upload(op)}]
      /\ UNCHANGED <<changed, newest, file>> /\ pc[d] = "push" /\ pc[d] \in Late
  BY DEF Put, Store!Write, user, Late
<1>2. /\ w \in Entry /\ c \in Content /\ op.trigger \in Nat /\ c.mod \in Nat /\ c.loc \in Nat
      /\ c.data \in Nat /\ v.content = c /\ v.seq = seq + 1 /\ seq \in Nat
  BY MoveTypes, RunParts DEF Content, TypeInv, ServerInv
<1>3. v # None
  <2>1. v \in Store!Version
    BY <1>2 DEF Store!Version
  <2> QED BY <2>1, NoneAssumption
<1> HIDE DEF v, w, c
<1>4. /\ \A u \in Entry : latest'[u] = IF u = w THEN v ELSE latest[u]
      /\ \A u \in Entry : u # w => uploaded'[u] = uploaded[u]
      /\ uploaded'[w] = uploaded[w] \cup {Upload(op)}
      /\ Upload(op).data = c.data
  BY <1>1, <1>2 DEF TypeInv, ServerInv, Upload, c
<1>5. \A q \in run[d].out : q.uuid = w => q = op
  BY DEF OrderInv, DeviceOrder, OrdersOf, w
<1>6. \A e \in Device : /\ pc'[e] = IF e = d THEN s ELSE pc[e]
                        /\ run'[e] = IF e = d THEN r ELSE run[e]
                        /\ memory'[e] = IF e = d THEN b ELSE memory[e]
                        /\ (disk'[e] = disk[e] \/ (e = d /\ disk'[e] = b))
  <2>1. /\ pc \in [Device -> Steps] /\ run \in [Device -> Run]
        /\ memory \in [Device -> Binding] /\ disk \in [Device -> Binding]
    BY DEF TypeInv, RunInv
  <2>2. \A e \in Device : (disk'[e] = disk[e] \/ (e = d /\ disk'[e] = b))
    BY <2>1
  <2> QED BY <2>1, <2>2
<1>7. \A e \in Device : e # d => pc[e] = "idle" /\ run[e].out = {}
  BY <1>1, OthersIdle, RunParts DEF RunAt, Late
<1>8. \A e \in Device : run'[e].out \subseteq run[e].out
  BY <1>6
<1>9. changed' = changed /\ changed \in Nat /\ changed <= changed' /\ changed' \in Nat
  BY <1>1, <1>2, MoveTypes
<1>10. ASSUME NEW u \in Entry, u # w PROVE EntryMoves(u)'
  <2>1. EntryMoves(u)
    BY DEF MoveInv
  <2>2. \A e \in Device : \A q \in run'[e].out : q.uuid = u => q \in run[e].out
    BY <1>8
  <2>3. ASSUME NEW e \in Device, Pending(e, u) PROVE Pending(e, u)'
    <3>1. /\ memory'[e].states[u] \in {memory[e].states[u], disk[e].states[u]}
          /\ disk'[e].states[u] \in {memory[e].states[u], disk[e].states[u]}
      BY <1>6, <1>10 DEF w
    <3>2. latest'[u] = latest[u] /\ file' = file
      BY <1>1, <1>4, <1>10
    <3> QED BY <2>3, <3>1, <3>2 DEF Pending
  <2>4. ASSUME NEW e \in Device, Unedited(u), latest[u] # None, Due(e, u)'
        PROVE Due(e, u) \/ Shows(e, u)
    <3>1. CASE e = d
      BY <1>1, <3>1 DEF Due
    <3>2. CASE e # d
      BY <1>4, <1>6, <1>10, <2>4, <3>2 DEF Due
    <3> QED BY <3>1, <3>2
  <2>5. latest'[u] = latest[u] /\ newest'[u] = newest[u] /\ uploaded'[u] = uploaded[u]
    BY <1>1, <1>4, <1>10
  <2>6. \A e \in Device : file'[e][u] = file[e][u]
    BY <1>1
  <2> QED BY <1>9, <2>1, <2>2, <2>3, <2>4, <2>5, <2>6, EntryKept
<1>11. EntryMoves(w)'
  <2> DEFINE e(y) == file[y][w].entry
  <2>1. /\ EntryMoves(w) /\ latest'[w] = v /\ v # None /\ v.content = c
        /\ \A y \in Device : Present(y, w)' <=> Present(y, w)
    BY <1>1, <1>2, <1>3, <1>4 DEF MoveInv, Present
  <2>2. Unedited(w)' => Unedited(w) /\ c.data = newest[w].data
    BY <1>1, <1>4 DEF Unedited
  <2>3. Unedited(w) => PushFollows(d, w, op)
    BY <2>1 DEF EntryMoves, w
  <2>4. newest[w] # None
    <3>1. Fits(file[d][w], op)
      BY DEF MemoryInv, PushesFit, w
    <3>2. ~Present(d, w) /\ file[d][w].dead = 0 => FALSE
      <4>1. op.trigger > 0
        BY <1>2, RunParts
      <4> QED BY <1>2, <3>1, <4>1 DEF Fits, Present, Exported
    <3> QED BY <2>1, <3>2 DEF EntryMoves, Uncreated
  <2>5. (latest[w] = None => Unsent(w))' /\ (newest[w] = None => Uncreated(w))'
    BY <1>1, <2>1, <2>4
  <2>6. Counted(w)'
    <3>1. Counted(w) /\ c.data <= changed
      BY <2>1 DEF EntryMoves, Counted, w, c
    <3>2. \A y \in uploaded'[w] : y.data <= changed
      BY <1>4, <3>1 DEF Counted
    <3>3. \A y \in Device : \A q \in run'[y].out : q.uuid = w => q.content.data <= changed
      BY <1>8, <3>1 DEF Counted
    <3>4. \A y \in Device : Present(y, w)' => file'[y][w].entry.data <= changed
      BY <1>1, <2>1, <3>1 DEF Counted
    <3> QED BY <1>9, <3>2, <3>3, <3>4 DEF Counted
  <2>7. ASSUME NEW y \in Device, NEW q \in run'[y].out, q.uuid = w PROVE FALSE
    <3>1. y = d
      BY <1>7, <1>8, <2>7
    <3>2. q \in run[d].out \ {op}
      BY <1>6, <2>7, <3>1
    <3> QED BY <1>5, <2>7, <3>2
  <2>8. ASSUME Unedited(w)'
        PROVE /\ \E m \in Device : Leads(m, w)' /\ Reached(m, w)'
              /\ \A y \in Device : Due(y, w)' => Shows(y, w)'
    <3>1. Unedited(w) /\ c.data = newest[w].data /\ PushFollows(d, w, op)
      BY <2>2, <2>3, <2>8
    <3>2. PICK m \in Device : Leads(m, w) /\ Reached(m, w)
      BY <2>1, <3>1 DEF EntryMoves
    <3>3. /\ Present(d, w) /\ Present(m, w)
          /\ e(d).loc \in Nat /\ e(m).loc \in Nat /\ e(d).mod \in Nat /\ e(m).mod \in Nat
          /\ memory[m].states[w] \in Nat /\ disk[m].states[w] \in Nat
      BY <1>2, <3>1, <3>2, MoveTypes DEF PushFollows, Leads, c
    <3>4. /\ c.mod = e(d).mod /\ op.trigger = laterTime(c.mod, c.loc)
          /\ \/ c.loc = e(d).loc /\ c.place = e(d).place
             \/ /\ c.loc < e(d).loc
                /\ \A y \in Device : Present(y, w) /\ e(d).loc <= e(y).loc => Fresh(y, w)
      BY <3>1 DEF PushFollows, c
    <3>5. /\ e(m).data = newest[w].data /\ e(m).place = newest[w].place
          /\ \A y \in Device : IF Present(y, w) THEN Follows(e(y), e(m))
                               ELSE file[y][w].dead = 0
          /\ Follows(e(d), e(m)) /\ latest[w] # None => Follows(latest[w].content, e(m))
      BY <3>2, <3>3 DEF Leads
    <3>6. /\ e(d).mod = e(m).mod /\ e(d).loc <= e(m).loc
          /\ e(d).loc = e(m).loc => e(d).place = e(m).place
          /\ latest[w] # None => /\ latest[w].content.loc <= e(m).loc
                                 /\ latest[w].content.loc = e(m).loc =>
                                      latest[w].content.place = e(m).place
                                 /\ latest[w].content.loc \in Nat
      BY <1>2, <3>3, <3>5, MoveTypes DEF Follows
    <3>7. Follows(c, e(m))
      <4>1. c.data = e(m).data /\ c.mod = e(m).mod
        BY <3>1, <3>4, <3>5, <3>6
      <4>2. CASE c.loc = e(d).loc /\ c.place = e(d).place
        BY <3>6, <4>1, <4>2 DEF Follows
      <4>3. CASE c.loc < e(d).loc
        <5>1. c.loc \in Nat /\ c.loc < e(m).loc
          BY <1>2, <3>3, <3>6, <4>3
        <5> QED BY <3>3, <4>1, <5>1 DEF Follows
      <4> QED BY <3>4, <4>2, <4>3
    <3>8. Leads(m, w)'
      <4>1. \A y \in Device : file'[y][w] = file[y][w]
        BY <1>1
      <4> QED BY <1>1, <2>1, <3>3, <3>5, <3>7, <4>1 DEF Leads
    <3>9. c.loc < e(d).loc => Fresh(m, w)
      <4>1. Present(m, w) /\ e(d).loc <= e(m).loc
        BY <3>3, <3>6
      <4>2. \/ c.loc = e(d).loc
            \/ \A y \in Device : Present(y, w) /\ e(d).loc <= e(y).loc => Fresh(y, w)
        BY <3>4
      <4>3. c.loc \in Nat
        BY <1>2
      <4> QED BY <3>3, <4>1, <4>2, <4>3
    <3>10. \A y \in Device : file'[y][w].entry = e(y)
      BY <1>1
    <3> HIDE DEF e
    <3>11. Reached(m, w)'
      <4>1. CASE c.loc < e(d).loc
        <5>1. /\ memory[m].states[w] < laterTime(e(m).mod, e(m).loc)
              /\ disk[m].states[w] < laterTime(e(m).mod, e(m).loc) /\ e(m).mod < e(m).loc
          BY <3>9, <4>1 DEF Fresh, Pending, e
        <5>2. op.trigger < laterTime(e(m).mod, e(m).loc)
          BY <1>2, <3>3, <3>4, <3>6, <4>1, <5>1 DEF laterTime
        <5>3. x.states[w] \in {memory[d].states[w], disk[d].states[w]}
          BY <1>2
        <5>4. /\ memory'[m].states[w] \in {memory[m].states[w], disk[m].states[w], op.trigger}
              /\ disk'[m].states[w] \in {memory[m].states[w], disk[m].states[w], op.trigger}
          BY <1>2, <1>6, <5>3
        <5>5. Pending(m, w)'
          BY <3>10, <5>1, <5>2, <5>4 DEF Pending
        <5> QED BY <5>5 DEF Reached
      <4>2. CASE c.loc = e(d).loc /\ c.place = e(d).place
        <5>1. CASE c.loc = e(m).loc
          BY <2>1, <3>10, <5>1 DEF Reached
        <5>2. CASE c.loc # e(m).loc
          <6>1. m # d
            BY <4>2, <5>2
          <6>2. CASE Pending(m, w)
            <7>1. latest[w] # None
              <8>1. latest[w] = None => m = d
                BY <2>1, <3>3 DEF EntryMoves, Unsent
              <8> QED BY <6>1, <8>1
            <7>2. memory'[m] = memory[m] /\ disk'[m] = disk[m]
              BY <1>6, <6>1
            <7>3. Pending(m, w)'
              BY <3>10, <6>2, <7>1, <7>2 DEF Pending, e
            <7> QED BY <7>3 DEF Reached
          <6>3. ASSUME latest[w] # None, e(d).place = newest[w].place PROVE Reached(m, w)'
            <7>1. \A y \in Device : y # m => y = d
              BY <6>1 DEF AtMostTwo
            <7>2. c.place = newest'[w].place /\ \A y \in Device : y # m =>
                    /\ Present(y, w)' /\ file'[y][w].entry.place = newest'[w].place
                    /\ c.loc <= file'[y][w].entry.loc
              BY <1>1, <1>2, <2>1, <3>3, <3>10, <4>2, <6>3, <7>1
            <7> QED BY <2>1, <7>2 DEF Reached
          <6>4. CASE latest[w] # None /\ latest[w].content.loc = e(m).loc
            <7>1. Shows(d, w)
              BY <1>1, <2>1, <3>1, <6>4 DEF EntryMoves, Due
            <7>2. ~(latest[w].content.loc <= e(d).loc)
              BY <1>2, <3>3, <3>6, <4>2, <5>2, <6>4
            <7>3. latest[w].content.place = e(d).place
              BY <7>1, <7>2 DEF Shows, e
            <7> QED BY <3>5, <3>6, <6>3, <6>4, <7>3
          <6>5. CASE /\ latest[w] # None
                     /\ \A y \in Device : y # m => e(y).place = newest[w].place
            BY <6>1, <6>3, <6>5
          <6> QED BY <3>2, <6>2, <6>4, <6>5 DEF Reached, e
        <5> QED BY <5>1, <5>2
      <4> QED BY <3>4, <4>1, <4>2
    <3>12. ASSUME NEW y \in Device, Due(y, w)' PROVE Shows(y, w)'
      <4>1. memory[y].lastSeq <= seq /\ disk[y].lastSeq <= seq
        BY DEF CursorInv, NumbersBounded
      <4>2. memory'[y].lastSeq <= seq /\ disk'[y].lastSeq <= seq
        BY <1>6, <4>1
      <4>3. memory'[y].lastSeq \in Nat /\ disk'[y].lastSeq \in Nat
        <5>1. b.lastSeq \in Nat /\ memory[y].lastSeq \in Nat /\ disk[y].lastSeq \in Nat
          BY RunParts DEF Binding
        <5> QED BY <1>6, <5>1
      <4>4. latest'[w].seq = seq + 1
        BY <1>2, <2>1
      <4>5. ~(latest'[w].seq <= memory'[y].lastSeq) /\ ~(latest'[w].seq <= disk'[y].lastSeq)
        BY <1>2, <4>2, <4>3, <4>4
      <4>6. pc'[y] \in Late
        BY <3>12, <4>5 DEF Due
      <4>7. y = d
        BY <1>6, <1>7, <4>6 DEF Late
      <4>8. c.loc <= e(d).loc
        BY <1>2, <3>3, <3>4
      <4> QED BY <2>1, <3>3, <3>10, <4>7, <4>8 DEF Shows
    <3> QED BY <3>8, <3>11, <3>12
  <2>9. Unedited(w)' =>
         /\ (\E m \in Device : Leads(m, w) /\ Reached(m, w))'
         /\ (\A y \in Device : \A q \in run[y].out : q.uuid = w => PushFollows(y, w, q))'
         /\ (latest[w] # None => \A y \in Device : Due(y, w) => Shows(y, w))'
    BY <2>7, <2>8
  <2> QED BY <2>5, <2>6, <2>9 DEF EntryMoves
<1> QED BY <1>10, <1>11 DEF MoveInv

\* The merge of a version of an entry that was not edited since.
LEMMA MergeMoves ==
  ASSUME NEW o, TimedObject(o), NEW c \in Content, TimedContent(c), ~c.deleted, o.dead = 0,
         o.entry # None => o.entry.mod = c.mod
  PROVE LET e == o.entry
            r == Merge(o, c)
        IN /\ r.entry # None /\ r.dead = 0
           /\ e = None => /\ r.entry.place = c.place /\ r.entry.data = c.data
                          /\ r.entry.mod = c.mod /\ r.entry.loc = c.loc
           /\ e # None => /\ r.entry.place = IF e.loc < c.loc THEN c.place ELSE e.place
                          /\ r.entry.data = e.data /\ r.entry.mod = e.mod /\ r.entry.loc = e.loc
<1>1. Merge(o, c) = [entry |-> MergeEntry(o.entry, c), dead |-> 0]
  BY DEF Merge
<1>2. o.entry # None => o.entry \in Local
  BY DEF TimedObject, Object
<1>3. MergeEntry(o.entry, c) \in Local
  BY MergeEntryTypes
<1>4. c.mod \in Nat /\ ~(c.mod < c.mod)
  BY DEF Content
<1>5. CASE o.entry = None
  BY <1>1, <1>3, <1>5, NoneIsNotLocal DEF MergeEntry
<1>6. CASE o.entry # None
  BY <1>1, <1>3, <1>4, <1>6, NoneIsNotLocal DEF MergeEntry
<1> QED BY <1>5, <1>6

\* A merge leaves a device with the server's place, or with a later move of its own.
LEMMA pullChangesMoves ==
  ASSUME TypeInv, MemoryInv, CursorInv, MoveInv, NEW d \in Device, pullChanges(d)
  PROVE MoveInv'
<1> DEFINE row == run[d].rows
           merged == [u \in Entry |-> IF row[u] = None THEN file[d][u]
                                      ELSE Merge(file[d][u], row[u].content)]
           b == Recorded(d, run[d].newSeq)
<1>1. /\ file' = [file EXCEPT ![d] = merged]
      /\ memory' = [memory EXCEPT ![d] = b] /\ pc' = [pc EXCEPT ![d] = AfterPull(d)]
      /\ UNCHANGED <<latest, changed, newest, disk, run, uploaded>>
  BY DEF pullChanges, server, user, Goto
<1>2. /\ \A e \in Device, u \in Entry :
           file'[e][u] = IF e = d THEN merged[u] ELSE file[e][u]
      /\ \A e \in Device : memory'[e] = IF e = d THEN b ELSE memory[e]
      /\ \A e \in Device : pc'[e] = IF e = d THEN AfterPull(d) ELSE pc[e]
      /\ \A e \in Device : run'[e].out = {}
  <2>1. pc[d] = "merge"
    BY DEF pullChanges
  <2>2. \A e \in Device : pc[e] # "push"
    BY <2>1, OthersIdle
  <2>3. \A e \in Device : run[e].out = {}
    BY <2>2, RunParts DEF RunAt
  <2> QED BY <1>1, <2>3 DEF TypeInv, RunInv, UserInv
<1>3. ASSUME NEW u \in Entry, row[u] # None
      PROVE /\ row[u] = latest[u] /\ Up(u, latest[u].content)
            /\ latest[u].content \in Content /\ TimedContent(latest[u].content)
            /\ latest[u].content.deleted => latest[u].content.data = 0
  <2>1. row[u] = latest[u]
    BY <1>3 DEF CursorInv, Knows, RowsAreNews, pullChanges
  <2> QED BY <1>3, <2>1, OrderTypes, MarksPast DEF MemoryInv, VersionsGot
<1>4. RowsAreNews(row, memory[d])
  BY DEF CursorInv, Knows, pullChanges
<1>5. /\ RecordedTimes(d, b) /\ b.lastSeq = memory[d].lastSeq /\ b \in Binding
      /\ \A u \in Entry : row[u] = None => b.states[u] = memory[d].states[u]
  <2>1. run[d].newSeq \in Nat /\ pc[d] = "merge"
    BY RunParts DEF pullChanges
  <2> DEFINE n == run[d].newSeq
             m == memory[d]
             sts == [v \in Entry |-> IF row[v] # None /\ row[v].seq <= n
                                     THEN RecordEntryStateIfNewer(m.states[v], row[v])
                                     ELSE m.states[v]]
  <2>2. b = [m EXCEPT !.states = sts] /\ m \in Binding
    BY RunParts DEF Recorded
  <2> HIDE DEF sts
  <2>3. b.states = sts
    BY <2>2 DEF Binding
  <2> QED BY <2>1, <2>3, RecordedMoves, RecordedTypes DEF sts
<1>6. AfterPull(d) \in Late
  BY DEF AfterPull, Late
<1>7. changed' = changed /\ changed \in Nat /\ changed' \in Nat /\ changed <= changed'
  BY <1>1 DEF TypeInv, UserInv
<1> SUFFICES ASSUME NEW u \in Entry PROVE EntryMoves(u)'
  BY DEF MoveInv
<1>8. /\ EntryMoves(u) /\ latest'[u] = latest[u]
      /\ newest'[u] = newest[u] /\ uploaded'[u] = uploaded[u]
  BY <1>1 DEF MoveInv
<1>9. CASE row[u] = None
  <2>1. \A e \in Device : file'[e][u] = file[e][u]
    BY <1>2, <1>9
  <2>2. \A e \in Device : Pending(e, u) => Pending(e, u)'
    <3>1. \A e \in Device : memory'[e].states[u] = memory[e].states[u] /\ disk' = disk
      BY <1>1, <1>2, <1>5, <1>9
    <3> QED BY <1>8, <2>1, <3>1 DEF Pending
  <2>3. ASSUME NEW e \in Device, latest[u] # None, Due(e, u)' PROVE Due(e, u)
    <3>1. CASE e = d
      <4>1. ~(latest[u].seq > memory[d].lastSeq)
        BY <1>4, <1>9, <2>3 DEF RowsAreNews
      <4>2. latest[u].seq \in Nat /\ memory[d].lastSeq \in Nat
        BY <2>3, MoveTypes
      <4> QED BY <3>1, <4>1, <4>2 DEF Due
    <3>2. CASE e # d
      BY <1>1, <1>2, <1>8, <2>3, <3>2 DEF Due
    <3> QED BY <3>1, <3>2
  <2> QED BY <1>2, <1>7, <1>8, <2>1, <2>2, <2>3, EntryKept
<1>10. CASE row[u] # None
  <2> DEFINE c == latest[u].content
             o == file[d][u]
             x == Merge(o, c)
  <2>1. /\ merged[u] = x /\ file'[d][u] = x /\ o \in Object /\ TimedObject(o)
        /\ Up(u, c) /\ c \in Content /\ TimedContent(c) /\ latest[u] # None
        /\ c.deleted => c.data = 0
        /\ c.mod \in Nat /\ c.loc \in Nat /\ c.data \in Nat
    BY <1>2, <1>3, <1>10, MoveTypes, NumbersOfCopies
  <2>2. newest[u] # None
    BY <1>8, <2>1 DEF Up, EntryMoves, Uncreated
  <2>3. \A e \in Device : e # d => file'[e][u] = file[e][u]
    BY <1>2
  <2> HIDE DEF c, o, x, merged
  <2>4. Counted(u)'
    <3>1. Counted(u) /\ c.data <= changed
      BY <1>8, <2>1 DEF EntryMoves, Counted, Up
    <3>2. ASSUME x.entry # None PROVE x.entry.data <= changed
      <4>1. Payload(x) = Payload(o) \/ Payload(x) = c.data
        BY <2>1, MergeMark DEF x
      <4>2. Payload(o) <= changed
        BY <1>7, <3>1 DEF Counted, Payload, Present, o
      <4> QED BY <3>1, <3>2, <4>1, <4>2 DEF Payload
    <3>3. \A e \in Device : Present(e, u)' => file'[e][u].entry.data <= changed
      BY <2>1, <2>3, <3>1, <3>2 DEF Counted, Present
    <3> QED BY <1>2, <1>7, <1>8, <3>1, <3>3 DEF Counted
  <2>5. ASSUME Unedited(u)
        PROVE /\ \E m \in Device : Leads(m, u)' /\ Reached(m, u)'
              /\ \A e \in Device : Due(e, u)' => Shows(e, u)'
    <3>1. PICK m \in Device : Leads(m, u) /\ Reached(m, u)
      BY <1>8, <2>5 DEF EntryMoves
    <3> DEFINE l == file[m][u].entry
               y == x.entry
    <3>2. /\ Present(m, u) /\ l.data = newest[u].data /\ l.place = newest[u].place
          /\ \A e \in Device : IF Present(e, u) THEN Follows(file[e][u].entry, l)
                               ELSE file[e][u].dead = 0
          /\ Follows(c, l) /\ l.loc \in Nat /\ l.mod \in Nat
      BY <2>1, <3>1, MoveTypes DEF Leads, c
    <3>3. ~c.deleted
      BY <2>1, <2>5, <3>2 DEF Unedited, Follows
    <3>4. IF o.entry # None THEN Follows(o.entry, l) /\ o.dead = 0 ELSE o.dead = 0
      BY <2>1, <3>2 DEF Present, o, TimedObject
    <3>5. o.entry # None => o.entry.loc \in Nat /\ o.entry.mod = c.mod
      BY <3>2, <3>4, MoveTypes DEF Present, o, Follows
    <3>6. /\ y # None /\ x.dead = 0
          /\ o.entry = None => /\ y.place = c.place /\ y.data = c.data
                               /\ y.mod = c.mod /\ y.loc = c.loc
          /\ o.entry # None => /\ y.place = IF o.entry.loc < c.loc THEN c.place ELSE o.entry.place
                               /\ y.data = o.entry.data /\ y.mod = o.entry.mod
                               /\ y.loc = o.entry.loc
      BY <2>1, <3>3, <3>4, <3>5, MergeMoves DEF x
    <3> HIDE DEF y
    <3>7. Follows(y, l)
      BY <2>1, <3>2, <3>4, <3>5, <3>6 DEF Follows
    <3>8. c.loc <= y.loc \/ c.place = y.place
      BY <2>1, <3>5, <3>6
    <3>9. file'[m][u].entry.loc = l.loc /\ file'[m][u].entry.place = l.place
          /\ file'[m][u].entry.mod = l.mod /\ file'[m][u].entry.data = l.data /\ Present(m, u)'
      <4>1. CASE m = d
        <5>1. o.entry # None /\ o.entry = l
          BY <3>2, <4>1 DEF Present, o
        <5>2. ~(o.entry.loc < c.loc)
          BY <2>1, <3>2, <5>1 DEF Follows
        <5> QED BY <2>1, <3>6, <4>1, <5>1, <5>2 DEF y, Present
      <4>2. CASE m # d
        BY <2>3, <3>2, <4>2 DEF Present
      <4> QED BY <4>1, <4>2
    <3>10. \A e \in Device : file'[e][u].entry = IF e = d THEN y ELSE file[e][u].entry
      BY <2>1, <2>3 DEF y
    <3> HIDE DEF l
    <3>11. Leads(m, u)'
      <4> DEFINE k == file'[m][u].entry
      <4>1. k.loc = l.loc /\ k.place = l.place /\ k.mod = l.mod /\ k.data = l.data
        BY <3>9
      <4>2. \A z : Follows(z, l) => Follows(z, k)
        BY <4>1 DEF Follows
      <4>3. \A e \in Device : IF Present(e, u)' THEN Follows(file'[e][u].entry, k)
                              ELSE file'[e][u].dead = 0
        <5>1. SUFFICES ASSUME NEW e \in Device
              PROVE IF Present(e, u)' THEN Follows(file'[e][u].entry, k)
                    ELSE file'[e][u].dead = 0
          OBVIOUS
        <5>2. CASE e = d
          BY <2>1, <3>6, <3>7, <3>10, <4>2, <5>2 DEF Present, y
        <5>3. CASE e # d
          <6>1. IF Present(e, u) THEN Follows(file[e][u].entry, l) ELSE file[e][u].dead = 0
            BY <3>2
          <6> QED BY <2>3, <4>2, <5>3, <6>1 DEF Present
        <5> QED BY <5>2, <5>3
      <4>4. Follows(latest'[u].content, k)
        BY <1>8, <3>2, <4>2 DEF c
      <4> HIDE DEF k
      <4>5. Present(m, u)' /\ k.data = newest'[u].data /\ k.place = newest'[u].place
        BY <1>8, <3>2, <3>9, <4>1
      <4> QED BY <4>3, <4>4, <4>5 DEF Leads, k
    <3>12. Reached(m, u)'
      <4>1. CASE Pending(m, u)
        <5>1. /\ memory[m].states[u] < laterTime(l.mod, l.loc)
              /\ disk[m].states[u] < laterTime(l.mod, l.loc) /\ l.mod < l.loc
          BY <2>1, <4>1 DEF Pending, l
        <5>2. b.states[u] \in {memory[d].states[u], disk[d].states[u]}
              \/ b.states[u] = laterTime(memory[d].states[u], l.mod)
          BY <1>5, <3>2 DEF RecordedTimes, Follows, c
        <5>3. memory[m].states[u] \in Nat
          BY MoveTypes
        <5>4. memory'[m].states[u] < laterTime(l.mod, l.loc)
          BY <1>2, <3>2, <5>1, <5>2, <5>3 DEF laterTime
        <5>5. Pending(m, u)'
          BY <1>1, <3>9, <5>1, <5>4 DEF Pending
        <5> QED BY <5>5 DEF Reached
      <4>2. CASE c.loc = l.loc
        BY <1>8, <2>1, <3>9, <4>2 DEF Reached, c
      <4>3. CASE /\ c.place = newest[u].place
                 /\ \A e \in Device : e # m =>
                      /\ Present(e, u) /\ file[e][u].entry.place = newest[u].place
                      /\ c.loc <= file[e][u].entry.loc
        <5>1. \A e \in Device : e # m =>
                /\ Present(e, u)' /\ file'[e][u].entry.place = newest'[u].place
                /\ c.loc <= file'[e][u].entry.loc
          <6>1. SUFFICES ASSUME NEW e \in Device, e # m
                PROVE /\ Present(e, u)' /\ file'[e][u].entry.place = newest'[u].place
                      /\ c.loc <= file'[e][u].entry.loc
            OBVIOUS
          <6>2. CASE e = d
            <7>1. o.entry # None /\ o.entry.place = newest[u].place /\ c.loc <= o.entry.loc
              BY <4>3, <6>1, <6>2 DEF Present, o
            <7>2. y.place = o.entry.place /\ y.loc = o.entry.loc
              BY <2>1, <3>5, <3>6, <7>1
            <7> QED BY <1>8, <3>6, <3>10, <6>2, <7>1, <7>2 DEF Present
          <6>3. CASE e # d
            BY <1>8, <2>3, <4>3, <6>1, <6>3 DEF Present
          <6> QED BY <6>2, <6>3
        <5> QED BY <1>8, <2>1, <4>3, <5>1 DEF Reached, c
      <4> QED BY <3>1, <4>1, <4>2, <4>3 DEF Reached, c, l
    <3>13. ASSUME NEW e \in Device, Due(e, u)' PROVE Shows(e, u)'
      <4>1. CASE e = d
        BY <1>8, <3>6, <3>8, <3>10, <4>1 DEF Shows, Present, c
      <4>2. CASE e # d
        <5>1. Due(e, u)
          BY <1>1, <1>2, <1>8, <3>13, <4>2 DEF Due
        <5>2. Shows(e, u)
          BY <1>8, <2>1, <2>5, <5>1 DEF EntryMoves
        <5> QED BY <1>8, <2>3, <4>2, <5>2 DEF Shows, Present
      <4> QED BY <4>1, <4>2
    <3> QED BY <3>11, <3>12, <3>13
  <2>6. Unedited(u)' => Unedited(u)
    BY <1>8 DEF Unedited
  <2>7. Unedited(u)' =>
         /\ (\E m \in Device : Leads(m, u) /\ Reached(m, u))'
         /\ (\A e \in Device : \A q \in run[e].out : q.uuid = u => PushFollows(e, u, q))'
         /\ (latest[u] # None => \A e \in Device : Due(e, u) => Shows(e, u))'
    BY <1>2, <2>5, <2>6
  <2>8. (latest[u] = None => Unsent(u))' /\ (newest[u] = None => Uncreated(u))'
    BY <1>8, <2>1, <2>2
  <2> QED BY <2>4, <2>7, <2>8 DEF EntryMoves
<1> QED BY <1>9, <1>10

\* A change of a user, if it keeps what is said of its entry.
LEMMA ChangeMoves ==
  ASSUME TypeInv, MoveInv, NEW d \in Device, NEW u \in Entry, NEW t, NEW o, NEW last,
         Change(d, u, t, o, last), EntryMoves(u)'
  PROVE MoveInv'
<1>1. /\ file' = [file EXCEPT ![d][u] = o] /\ newest' = [newest EXCEPT ![u] = last]
      /\ changed' = changed + 1 /\ UNCHANGED <<latest, uploaded, disk, memory, pc, run>>
  BY DEF Change, server, history
<1>2. SUFFICES ASSUME NEW v \in Entry, v # u PROVE EntryMoves(v)'
  BY DEF MoveInv
<1>3. /\ \A e \in Device : file'[e][v] = file[e][v]
      /\ newest'[v] = newest[v]
  BY <1>1, <1>2 DEF TypeInv, UserInv
<1>4. EntryMoves(v) /\ changed' \in Nat /\ changed <= changed'
      /\ latest'[v] = latest[v] /\ uploaded'[v] = uploaded[v] /\ run' = run
  BY <1>1, MoveTypes DEF MoveInv
<1>5. \A e \in Device : (Pending(e, v) => Pending(e, v)') /\ (Due(e, v)' => Due(e, v))
  BY <1>1, <1>3 DEF Pending, Due
<1> QED BY <1>3, <1>4, <1>5, EntryKept

\* What is known of an entry before a user changes it, at time t.
Before(u, t) ==
  /\ \A d \in Device : memory[d].states[u] < t /\ disk[d].states[u] < t
  /\ \A d \in Device : Present(d, u) => file[d][u].entry.mod < t /\ file[d][u].entry.loc < t
  /\ latest[u] # None => /\ latest[u].content.mod < t /\ latest[u].content.loc < t
                         /\ uploaded[u] # {}

LEMMA BeforeChange ==
  ASSUME TypeInv, MemoryInv, OrderInv, NEW u \in Entry
  PROVE Before(u, clock + 1)
<1>1. clock \in Nat
  BY MoveTypes
<1>2. \A x \in Nat : x <= clock => x < clock + 1
  BY <1>1
<1>3. \A d \in Device : memory[d].states[u] <= clock /\ disk[d].states[u] <= clock
  BY DEF OrderInv, DeviceOrder, Keeps
<1>4. \A d \in Device : Present(d, u) => file[d][u].entry.mod <= clock
                                         /\ file[d][u].entry.loc <= clock
  BY DEF MemoryInv, FilesPast, Present
<1>5. latest[u] # None => /\ latest[u].content.mod <= clock /\ latest[u].content.loc <= clock
                          /\ uploaded[u] # {}
  BY DEF MemoryInv, VersionsGot, Past, Up
<1> QED BY <1>2, <1>3, <1>4, <1>5, MoveTypes DEF Before

\* A new payload: the server has it not.
LEMMA PayloadMoves ==
  ASSUME TypeInv, MemoryInv, OrderInv, MoveInv, NEW d \in Device, NEW u \in Entry, NEW t,
         t = clock + 1, NEW e \in Local, NEW last \in Last,
         Change(d, u, t, [entry |-> e, dead |-> 0], last),
         e.data = changed + 1, last.data = e.data, e.mod = t, e.loc <= t,
         \/ newest[u] = None /\ last.place = e.place
         \/ /\ Present(d, u) /\ last.place = newest[u].place
            /\ e.place = file[d][u].entry.place
  PROVE MoveInv'
<1>1. /\ file' = [file EXCEPT ![d][u] = [entry |-> e, dead |-> 0]]
      /\ newest' = [newest EXCEPT ![u] = last]
      /\ changed' = changed + 1 /\ UNCHANGED <<latest, uploaded, disk, memory, pc, run>>
  BY DEF Change, server, history
<1>2. /\ \A y \in Device : file'[y][u] = IF y = d THEN [entry |-> e, dead |-> 0] ELSE file[y][u]
      /\ newest'[u] = last
  BY <1>1 DEF TypeInv, UserInv
<1>3. e # None /\ last # None /\ e.data \in Nat /\ last.data # 0 /\ changed \in Nat
      /\ e.loc \in Nat /\ t \in Nat
  BY MoveTypes, NoneIsNotLocal, NoneAssumption DEF Local, Last
<1>4. EntryMoves(u) /\ Counted(u) /\ Before(u, t)
  BY BeforeChange DEF MoveInv, EntryMoves
<1>5. Present(d, u)' /\ \A y \in Device : y # d => (Present(y, u)' <=> Present(y, u))
  BY <1>2, <1>3 DEF Present
<1>6. \A x \in Nat : x <= changed => x <= changed' /\ x # changed + 1
  BY <1>1, <1>3
<1>7. Counted(u)'
  <2>1. \A v \in uploaded'[u] : v.data <= changed'
    BY <1>1, <1>4, <1>6 DEF Counted, TypeInv, ServerInv
  <2>2. \A y \in Device : Present(y, u)' => file'[y][u].entry.data <= changed'
    BY <1>1, <1>2, <1>3, <1>4, <1>5, <1>6, MoveTypes DEF Counted
  <2>3. \A y \in Device : \A op \in run'[y].out : op.uuid = u => op.content.data <= changed'
    BY <1>1, <1>4, <1>6, MoveTypes DEF Counted
  <2> QED BY <2>1, <2>2, <2>3 DEF Counted
<1>8. latest[u] = None \/ uploaded[u] = {} =>
        /\ uploaded[u] = {} /\ latest[u] = None
        /\ \A y \in Device : y # d => ~Present(y, u) /\ file[y][u].dead = 0
        /\ e.place = last.place
  <2>1. SUFFICES ASSUME latest[u] = None \/ uploaded[u] = {}
        PROVE /\ uploaded[u] = {} /\ latest[u] = None
              /\ \A y \in Device : y # d => ~Present(y, u) /\ file[y][u].dead = 0
              /\ e.place = last.place
    OBVIOUS
  <2>2. latest[u] = None /\ Unsent(u)
    BY <1>4, <2>1 DEF Before, EntryMoves
  <2>3. CASE newest[u] = None
    <3>1. last.place = e.place
      <4>1. Present(d, u) => newest[u] # None
        BY MoveTypes
      <4> QED BY <2>3, <4>1
    <3> QED BY <1>4, <2>2, <2>3, <3>1 DEF EntryMoves, Uncreated, Unsent
  <2>4. CASE newest[u] # None
    <3>1. Present(d, u) /\ last.place = newest[u].place /\ e.place = file[d][u].entry.place
      BY <2>4
    <3>2. Unedited(u)
      BY <2>2, <3>1 DEF Unsent, Unedited
    <3>3. PICK m \in Device : Leads(m, u)
      BY <1>4, <3>2 DEF EntryMoves
    <3>4. m = d
      BY <2>2, <3>1, <3>3 DEF Leads, Unsent
    <3>5. \A y \in Device : y # d => ~Present(y, u)
      BY <2>2, <3>1 DEF Unsent
    <3>6. \A y \in Device : ~Present(y, u) => file[y][u].dead = 0
      BY <3>3 DEF Leads
    <3>7. e.place = last.place
      BY <3>1, <3>3, <3>4 DEF Leads
    <3> QED BY <2>2, <3>5, <3>6, <3>7 DEF Unsent
  <2> QED BY <2>3, <2>4
<1>9. Unedited(u)' => uploaded[u] = {}
  <2>1. \A v \in uploaded[u] : v.data # changed + 1
    BY <1>4, <1>6 DEF Counted, TypeInv, ServerInv
  <2> QED BY <1>1, <1>2, <2>1 DEF Unedited
<1>10. ASSUME Unedited(u)'
       PROVE /\ Leads(d, u)' /\ Pending(d, u)' /\ latest'[u] = None
  <2>1. /\ latest'[u] = None /\ e.place = last.place
        /\ \A y \in Device : y # d => ~Present(y, u) /\ file[y][u].dead = 0
    BY <1>1, <1>8, <1>9, <1>10
  <2>2. Follows(e, e)
    BY <1>3 DEF Follows
  <2>3. Leads(d, u)'
    BY <1>2, <1>5, <2>1, <2>2 DEF Leads
  <2>4. laterTime(e.mod, e.loc) = t
    BY <1>3 DEF laterTime
  <2>5. Pending(d, u)'
    BY <1>1, <1>2, <1>4, <2>1, <2>4 DEF Pending, Before
  <2> QED BY <2>1, <2>3, <2>5
<1>11. ASSUME NEW y \in Device, NEW op \in run'[y].out, op.uuid = u PROVE PushFollows(y, u, op)'
  <2>1. op.content.data # changed + 1
    BY <1>1, <1>4, <1>6, <1>11, MoveTypes DEF Counted
  <2> QED BY <1>2, <2>1 DEF PushFollows
<1>12. (latest[u] = None => Unsent(u))' /\ (newest[u] = None => Uncreated(u))'
  <2>1. latest'[u] = None => Unsent(u)'
    BY <1>1, <1>2, <1>3, <1>5, <1>8 DEF Unsent
  <2> QED BY <1>2, <1>3, <2>1
<1>13. Unedited(u)' =>
         /\ (\E m \in Device : Leads(m, u) /\ Reached(m, u))'
         /\ (\A y \in Device : \A op \in run[y].out : op.uuid = u => PushFollows(y, u, op))'
         /\ (latest[u] # None => \A y \in Device : Due(y, u) => Shows(y, u))'
  BY <1>10, <1>11 DEF Reached
<1>14. EntryMoves(u)'
  BY <1>7, <1>12, <1>13 DEF EntryMoves
<1> QED BY <1>14, ChangeMoves

\* A move: whoever makes it leads, and nobody has it.
LEMMA PlaceMoves ==
  ASSUME TypeInv, MemoryInv, OrderInv, MoveInv, NEW d \in Device, NEW u \in Entry, NEW t,
         t = clock + 1, NEW e \in Local, NEW last \in Last,
         Change(d, u, t, [entry |-> e, dead |-> 0], last), Present(d, u),
         e.data = file[d][u].entry.data, e.mod = file[d][u].entry.mod, e.loc = t,
         last.data = newest[u].data, last.place = e.place
  PROVE MoveInv'
<1>1. /\ file' = [file EXCEPT ![d][u] = [entry |-> e, dead |-> 0]]
      /\ newest' = [newest EXCEPT ![u] = last]
      /\ changed' = changed + 1 /\ UNCHANGED <<latest, uploaded, disk, memory, pc, run>>
  BY DEF Change, server, history
<1>2. /\ \A y \in Device : file'[y][u] = IF y = d THEN [entry |-> e, dead |-> 0] ELSE file[y][u]
      /\ newest'[u] = last
  BY <1>1 DEF TypeInv, UserInv
<1>3. e # None /\ last # None /\ e.data \in Nat /\ changed \in Nat /\ newest[u] # None
      /\ e.loc \in Nat /\ e.mod \in Nat /\ t \in Nat
  BY MoveTypes, NoneIsNotLocal, NoneAssumption DEF Local, Last
<1>4. EntryMoves(u) /\ Counted(u) /\ Before(u, t)
  BY BeforeChange DEF MoveInv, EntryMoves
<1>5. \A y \in Device : Present(y, u)' <=> Present(y, u)
  BY <1>2, <1>3 DEF Present
<1>6. \A x \in Nat : x <= changed => x <= changed'
  BY <1>1, <1>3
<1>7. Counted(u)'
  <2>1. \A v \in uploaded'[u] : v.data <= changed'
    BY <1>1, <1>4, <1>6 DEF Counted, TypeInv, ServerInv
  <2>2. \A y \in Device : Present(y, u)' => file'[y][u].entry.data <= changed'
    BY <1>1, <1>2, <1>3, <1>4, <1>5, <1>6, MoveTypes DEF Counted
  <2>3. \A y \in Device : \A op \in run'[y].out : op.uuid = u => op.content.data <= changed'
    BY <1>1, <1>4, <1>6, MoveTypes DEF Counted
  <2> QED BY <2>1, <2>2, <2>3 DEF Counted
<1>8. (latest[u] = None => Unsent(u))' /\ (newest[u] = None => Uncreated(u))'
  <2>1. latest[u] = None => Unsent(u)
    BY <1>4 DEF EntryMoves
  <2> QED BY <1>1, <1>2, <1>3, <1>5, <2>1 DEF Unsent
<1>9. Unedited(u)' => Unedited(u)
  BY <1>1, <1>2, <1>3 DEF Unedited
<1>10. e.mod < t /\ laterTime(e.mod, e.loc) = t
  BY <1>3, <1>4 DEF Before, laterTime
<1>11. Fresh(d, u)' /\ Pending(d, u)'
  <2>1. Pending(d, u)'
    BY <1>1, <1>2, <1>4, <1>10 DEF Pending, Before
  <2> QED BY <1>1, <1>2, <1>4, <1>10, <2>1 DEF Fresh, Before
<1>12. \A y \in Device : Fresh(y, u) => Fresh(y, u)'
  <2>1. ASSUME NEW y \in Device, y # d, Fresh(y, u) PROVE Fresh(y, u)'
    <3>1. file'[y][u] = file[y][u]
      BY <1>2, <2>1
    <3> QED BY <1>1, <2>1, <3>1 DEF Fresh, Pending
  <2> QED BY <1>11, <2>1
<1>13. ASSUME Unedited(u)
       PROVE /\ Leads(d, u)'
             /\ \A y \in Device : \A op \in run'[y].out : op.uuid = u => PushFollows(y, u, op)'
             /\ latest[u] # None => \A y \in Device : Due(y, u)' => Shows(y, u)'
  <2>1. PICK m \in Device : Leads(m, u)
    BY <1>4, <1>13 DEF EntryMoves
  <2> DEFINE l == file[m][u].entry
  <2>2. /\ Present(m, u) /\ l.data = newest[u].data /\ Follows(file[d][u].entry, l)
        /\ \A y \in Device : IF Present(y, u) THEN Follows(file[y][u].entry, l)
                             ELSE file[y][u].dead = 0
        /\ latest[u] # None => Follows(latest[u].content, l)
    BY <2>1 DEF Leads
  <2>3. e.data = l.data /\ e.mod = l.mod
    BY <2>2 DEF Follows
  <2> HIDE DEF l
  <2>4. /\ \A y \in Device : y # d =>
             IF Present(y, u) THEN Follows(file[y][u].entry, e) ELSE file[y][u].dead = 0
        /\ latest[u] # None => Follows(latest[u].content, e)
    <3>1. ASSUME NEW c, Follows(c, l), c.loc < t, c.loc \in Nat PROVE Follows(c, e)
      BY <1>3, <2>3, <3>1 DEF Follows
    <3> QED BY <1>4, <2>2, <3>1, MoveTypes DEF Before
  <2>5. Leads(d, u)'
    <3>1. Follows(e, e)
      BY <1>3 DEF Follows
    <3>2. e.data = last.data
      BY <2>2, <2>3
    <3> QED BY <1>1, <1>2, <1>5, <2>4, <3>1, <3>2 DEF Leads
  <2>6. ASSUME NEW y \in Device, NEW op \in run'[y].out, op.uuid = u PROVE PushFollows(y, u, op)'
    <3> DEFINE z == file[y][u].entry
    <3>1. PushFollows(y, u, op)
      BY <1>1, <1>4, <1>13, <2>6 DEF EntryMoves
    <3>2. SUFFICES ASSUME op.content.data = newest[u].data PROVE PushFollows(y, u, op)'
      BY <1>2 DEF PushFollows
    <3>3. /\ Present(y, u) /\ op.content.mod = z.mod
          /\ op.trigger = laterTime(op.content.mod, op.content.loc)
          /\ \/ op.content.loc = z.loc /\ op.content.place = z.place
             \/ /\ op.content.loc < z.loc
                /\ \A x \in Device : Present(x, u) /\ z.loc <= file[x][u].entry.loc => Fresh(x, u)
      BY <3>1, <3>2 DEF PushFollows
    <3>4. CASE y = d
      <4>1. file'[y][u].entry = e
        BY <1>2, <3>4
      <4>2. op.content.loc \in Nat /\ z.loc \in Nat /\ z.loc < t
        BY <1>1, <1>4, <2>6, <3>3, MoveTypes DEF Before
      <4>3. op.content.loc < e.loc
        BY <1>3, <3>3, <4>2
      <4>4. \A x \in Device : Present(x, u)' /\ e.loc <= file'[x][u].entry.loc => Fresh(x, u)'
        <5>1. SUFFICES ASSUME NEW x \in Device, x # d, Present(x, u),
                              t <= file[x][u].entry.loc
                       PROVE FALSE
          BY <1>2, <1>5, <1>11
        <5> QED BY <1>3, <1>4, <5>1, MoveTypes DEF Before
      <4> QED BY <1>5, <3>3, <3>4, <4>1, <4>3, <4>4 DEF PushFollows
    <3>5. CASE y # d
      <4>1. file'[y][u] = file[y][u]
        BY <1>2, <3>5
      <4>2. ASSUME \A x \in Device : Present(x, u) /\ z.loc <= file[x][u].entry.loc => Fresh(x, u)
            PROVE \A x \in Device :
                    Present(x, u)' /\ z.loc <= file'[x][u].entry.loc => Fresh(x, u)'
        BY <1>2, <1>5, <1>11, <1>12, <4>2
      <4> QED BY <1>5, <3>3, <4>1, <4>2 DEF PushFollows
    <3> QED BY <3>4, <3>5
  <2>7. ASSUME latest[u] # None, NEW y \in Device, Due(y, u)' PROVE Shows(y, u)'
    <3>1. Due(y, u)
      BY <1>1, <2>7 DEF Due
    <3>2. Shows(y, u)
      BY <1>4, <1>13, <2>7, <3>1 DEF EntryMoves
    <3>3. CASE y = d
      BY <1>1, <1>2, <1>3, <1>4, <1>5, <2>7, <3>3, MoveTypes DEF Shows, Before
    <3>4. CASE y # d
      BY <1>1, <1>2, <1>5, <3>2, <3>4 DEF Shows
    <3> QED BY <3>3, <3>4
  <2> QED BY <2>5, <2>6, <2>7
<1>14. Unedited(u)' =>
         /\ (\E m \in Device : Leads(m, u) /\ Reached(m, u))'
         /\ (\A y \in Device : \A op \in run[y].out : op.uuid = u => PushFollows(y, u, op))'
         /\ (latest[u] # None => \A y \in Device : Due(y, u) => Shows(y, u))'
  BY <1>1, <1>9, <1>11, <1>13 DEF Reached
<1>15. EntryMoves(u)'
  BY <1>7, <1>8, <1>14 DEF EntryMoves
<1> QED BY <1>15, ChangeMoves

\* A deletion: the newest payload is none.
LEMMA PurgeMoves ==
  ASSUME TypeInv, MoveInv, NEW d \in Device, NEW u \in Entry, NEW t, NEW o, NEW last,
         Change(d, u, t, o, last), Present(d, u), o.entry = None, last # None, last.data = 0
  PROVE MoveInv'
<1>1. /\ file' = [file EXCEPT ![d][u] = o] /\ newest' = [newest EXCEPT ![u] = last]
      /\ changed' = changed + 1 /\ UNCHANGED <<latest, uploaded, disk, memory, pc, run>>
  BY DEF Change, server, history
<1>2. /\ \A y \in Device : file'[y][u] = IF y = d THEN o ELSE file[y][u]
      /\ newest'[u] = last
  BY <1>1 DEF TypeInv, UserInv
<1>3. EntryMoves(u) /\ Counted(u) /\ changed \in Nat
  BY MoveTypes DEF MoveInv, EntryMoves
<1>4. \A y \in Device : Present(y, u)' <=> y # d /\ Present(y, u)
  BY <1>2 DEF Present
<1>5. \A x \in Nat : x <= changed => x <= changed'
  BY <1>1, <1>3
<1>6. Counted(u)'
  <2>1. \A v \in uploaded'[u] : v.data <= changed'
    BY <1>1, <1>3, <1>5 DEF Counted, TypeInv, ServerInv
  <2>2. \A y \in Device : Present(y, u)' => file'[y][u].entry.data <= changed'
    BY <1>2, <1>3, <1>4, <1>5, MoveTypes DEF Counted
  <2>3. \A y \in Device : \A op \in run'[y].out : op.uuid = u => op.content.data <= changed'
    BY <1>1, <1>3, <1>5, MoveTypes DEF Counted
  <2> QED BY <2>1, <2>2, <2>3 DEF Counted
<1>7. (latest[u] = None => Unsent(u))'
  <2>1. SUFFICES ASSUME latest[u] = None PROVE Unsent(u)'
    BY <1>1
  <2>2. Unsent(u)
    BY <1>3, <2>1 DEF EntryMoves
  <2>3. \A y \in Device : ~Present(y, u)'
    BY <1>4, <2>2 DEF Unsent
  <2> QED BY <1>1, <2>2, <2>3 DEF Unsent
<1>8. EntryMoves(u)'
  BY <1>2, <1>6, <1>7 DEF EntryMoves, Unedited
<1> QED BY <1>8, ChangeMoves

\* What users do, when every change has a second of its own and none is a deletion into
\* the recycle bin.
LEMMA UserMoves ==
  ASSUME ~SameSecond, NoBin, TypeInv, MemoryInv, OrderInv, MoveInv, NEW d \in Device, UserStep(d)
  PROVE MoveInv'
<1> DEFINE t == clock + 1
<1>1. PICK u \in Entry :
        \/ \E p \in Folder : Create(d, u, p, t)
        \/ Edit(d, u, t)
        \/ \E p \in Place : Relocate(d, u, p, t)
        \/ Purge(d, u, t)
  BY DEF UserStep, Times
<1>2. t \in Nat \ {0} /\ changed \in Nat /\ t = clock + 1 /\ clock \in Nat
  BY DEF TypeInv, UserInv
<1> DEFINE old == file[d][u].entry
<1>3. Present(d, u) => /\ old \in Local /\ old.place # Bin /\ old.loc <= clock
                       /\ newest[u] \in Last /\ newest[u] # None
  <2>1. Present(d, u) => old \in Local /\ newest[u] \in Last /\ newest[u] # None
    BY MoveTypes
  <2> QED BY <2>1 DEF OrderInv, OutsideBin, Binned, MemoryInv, FilesPast, Present
<1> HIDE DEF t, old
<1>4. ASSUME NEW p \in Folder, Create(d, u, p, t) PROVE MoveInv'
  <2> DEFINE e == [place |-> p, data |-> changed + 1, mod |-> t, loc |-> t]
             last == [data |-> e.data, place |-> p]
  <2>1. Change(d, u, t, [entry |-> e, dead |-> 0], last) /\ newest[u] = None
    BY <1>4 DEF Create
  <2>2. e \in Local /\ last \in Last
    BY <1>2 DEF Local, Last, Place
  <2>3. /\ e.mod = t /\ e.loc <= t /\ e.data = changed + 1 /\ last.data = e.data
        /\ last.place = e.place
    BY <1>2
  <2> HIDE DEF e, last
  <2> QED BY <1>2, <2>1, <2>2, <2>3, PayloadMoves
<1>5. CASE Edit(d, u, t)
  <2> DEFINE n == changed + 1
             e == [old EXCEPT !.data = n, !.mod = t]
             last == [newest[u] EXCEPT !.data = e.data]
  <2>1. Change(d, u, t, [entry |-> e, dead |-> 0], last) /\ Present(d, u)
    BY <1>5 DEF Edit, Live, old
  <2>2. old \in Local /\ old.loc <= clock /\ newest[u] \in Last /\ n \in Nat
    BY <1>2, <1>3, <2>1
  <2>3. n = changed + 1
    OBVIOUS
  <2> HIDE DEF n
  <2>4. /\ e \in Local /\ e.mod = t /\ e.data = n /\ e.place = old.place /\ e.loc = old.loc
        /\ old.loc \in Nat
    BY <1>2, <2>2 DEF Local
  <2>5. e.loc <= t
    BY <1>2, <2>2, <2>4
  <2> HIDE DEF e
  <2>6. last \in Last /\ last.data = e.data /\ last.place = newest[u].place
    BY <2>2, <2>4, <2>3, <1>2 DEF Last, Local
  <2> HIDE DEF last
  <2> QED BY <1>2, <2>1, <2>3, <2>4, <2>5, <2>6, PayloadMoves DEF old
<1>6. ASSUME NEW p \in Place, Relocate(d, u, p, t) PROVE MoveInv'
  <2> DEFINE e == [old EXCEPT !.place = p, !.loc = t]
             last == [data |-> IF p = Bin THEN 0
                               ELSE IF old.place = Bin THEN e.data
                               ELSE newest[u].data,
                      place |-> p]
  <2>1. Change(d, u, t, [entry |-> e, dead |-> 0], last) /\ Present(d, u) /\ p # Bin
    BY <1>6 DEF Relocate, NoBin, old
  <2>2. old \in Local /\ old.place # Bin /\ newest[u] \in Last
    BY <1>3, <2>1
  <2>3. last.data = newest[u].data /\ last.place = p /\ last \in Last
    BY <2>1, <2>2 DEF Last
  <2>4. /\ e \in Local /\ e.loc = t /\ e.mod = old.mod /\ e.data = old.data /\ e.place = p
    BY <1>2, <2>1, <2>2 DEF Local
  <2> HIDE DEF e, last
  <2> QED BY <1>2, <2>1, <2>3, <2>4, PlaceMoves DEF old
<1>7. CASE Purge(d, u, t)
  <2> DEFINE o == [entry |-> None, dead |-> t]
             last == [newest[u] EXCEPT !.data = 0]
  <2>1. Change(d, u, t, o, last) /\ Present(d, u)
    BY <1>7 DEF Purge
  <2>2. last \in Last /\ last.data = 0
    BY <1>3, <2>1 DEF Last
  <2>3. last # None /\ o.entry = None
    BY <2>2, NoneAssumption DEF Last
  <2> HIDE DEF o, last
  <2> QED BY <2>1, <2>2, <2>3, PurgeMoves
<1> QED BY <1>1, <1>4, <1>5, <1>6, <1>7 DEF t

\* A push that is answered, and one that is not.
LEMMA PushMoves ==
  ASSUME AtMostTwo, TypeInv, MemoryInv, CursorInv, OrderInv, MoveInv, NEW d \in Device,
         NEW op \in run[d].out, pushChanges(d, op) \/ AnswerLost(d, op)
  PROVE MoveInv'
BY PushWrites, WriteMoves

\* Every step keeps the order of the moves.
LEMMA MoveInvStep ==
  AtMostTwo /\ ~SameSecond /\ NoBin /\ TakeTurns /\ TypeInv /\ MemoryInv /\ CursorInv
    /\ OrderInv /\ MoveInv /\ [Next]_vars => MoveInv'
<1> SUFFICES ASSUME AtMostTwo, ~SameSecond, NoBin, TakeTurns, TypeInv, MemoryInv, CursorInv,
                    OrderInv, MoveInv, [Next]_vars
             PROVE MoveInv'
  OBVIOUS
<1>1. ASSUME NEW d \in Device, Finish(d) PROVE MoveInv'
  <2>1. pc[d] \in Late
    BY <1>1 DEF Finish, AllDone, Late
  <2>2. UNCHANGED <<changed, newest, file, latest, uploaded>>
    BY <1>1 DEF Finish, server, user, history
  <2>3. Save(d, [memory[d] EXCEPT !.lastSeq = Cursor(d)])
    BY <1>1 DEF Finish
  <2> QED BY <2>1, <2>2, <2>3, LateEndMoves
<1>2. ASSUME NEW d \in Device, RunStep(d) PROVE MoveInv'
  BY <1>1, <1>2, StartMoves, SelectRowsMoves, SelectCurrentSeqMoves, pullChangesMoves,
     doSyncMoves, ExportMoves, PushMoves DEF RunStep
<1>3. ASSUME NEW d \in Device, FaultStep(d) PROVE MoveInv'
  BY <1>3, FaultStepMoves, PushMoves DEF FaultStep
<1>4. CASE UNCHANGED vars
  <2>1. UNCHANGED <<latest, changed, file, disk, memory, pc, run, newest, uploaded>>
    BY <1>4 DEF vars
  <2>2. ASSUME NEW u \in Entry PROVE EntryMoves(u)'
    <3>1. EntryMoves(u) /\ changed' \in Nat /\ changed <= changed'
      BY <2>1, MoveTypes DEF MoveInv
    <3>2. \A d \in Device : (Pending(d, u) => Pending(d, u)') /\ (Due(d, u)' => Due(d, u))
      BY <2>1 DEF Pending, Due
    <3> QED BY <2>1, <3>1, <3>2, EntryKept
  <2> QED BY <2>2 DEF MoveInv
<1> QED BY <1>2, <1>3, <1>4, UserMoves DEF Next

\* Settled devices have nothing pending and all that the server has.
LEMMA MovesSettle ==
  TypeInv /\ MemoryInv /\ CursorInv /\ OrderInv /\ MoveInv => LastMoveWinsUnedited
<1> SUFFICES ASSUME TypeInv, MemoryInv, CursorInv, OrderInv, MoveInv, Settled,
                    NEW u \in Entry, newest[u] # None, newest[u].data # 0,
                    {v.data : v \in uploaded[u]} = {newest[u].data}, NEW d \in Device
             PROVE Live(d, u) /\ file[d][u].entry.place = newest[u].place
  BY DEF LastMoveWinsUnedited
<1>1. Unedited(u) /\ uploaded[u] # {}
  BY DEF Unedited
<1>2. EntryMoves(u) /\ latest[u] # None
  BY <1>1 DEF MoveInv, EntryMoves, Unsent
<1>3. PICK m \in Device : Leads(m, u) /\ Reached(m, u)
  BY <1>1, <1>2 DEF EntryMoves
<1> DEFINE l == file[m][u].entry
           c == latest[u].content
<1>4. /\ Present(m, u) /\ l.place = newest[u].place /\ l \in Local
      /\ l.loc \in Nat /\ c.loc \in Nat /\ Follows(c, l)
      /\ Present(d, u) => Follows(file[d][u].entry, l) /\ file[d][u].entry.loc \in Nat
  BY <1>2, <1>3, MoveTypes DEF Leads
<1>5. \A e \in Device : Present(e, u) => file[e][u].entry.place # Bin
  BY DEF OrderInv, OutsideBin, Binned, Present
<1>6. ~Pending(m, u)
  <2> DEFINE x == Exported(file[m][u])
             k == [deleted |-> FALSE, place |-> l.place, data |-> l.data,
                   mod |-> l.mod, loc |-> l.loc]
  <2>1. x = [content |-> k, trigger |-> laterTime(l.mod, l.loc)]
    BY <1>4, <1>5 DEF Exported, collectTree, Present
  <2>2. x # None
    <3>1. k \in Content /\ laterTime(l.mod, l.loc) \in Nat
      BY <1>4 DEF Content, Local, laterTime
    <3> HIDE DEF k, x
    <3> QED BY <2>1, <3>1, NoneAssumption
  <2>3. ToPush(m, FALSE) = {}
    BY DEF Settled, NothingToPush
  <2>4. ~shouldPush(memory[m].states[u], x.trigger)
    BY <2>2, <2>3 DEF ToPush
  <2> QED BY <2>1, <2>4 DEF shouldPush, Pending
<1>7. Shows(d, u)
  <2>1. latest[u].seq <= memory[d].lastSeq
    BY <1>2 DEF Settled, CaughtUp, CursorInv, NumbersBounded
  <2> QED BY <1>1, <1>2, <2>1 DEF EntryMoves, Due
<1>8. Live(d, u)
  BY <1>5, <1>7 DEF Shows, Live, Present
<1>9. file[d][u].entry.place = newest[u].place
  <2>1. CASE c.loc = l.loc
    <3>1. c.place = l.place
      BY <1>4, <2>1 DEF Follows
    <3>2. CASE c.loc <= file[d][u].entry.loc
      <4>1. Follows(file[d][u].entry, l) /\ file[d][u].entry.loc \in Nat
        BY <1>4, <1>7 DEF Shows
      <4> QED BY <1>4, <2>1, <3>2, <4>1 DEF Follows
    <3> QED BY <1>4, <1>7, <3>1, <3>2 DEF Shows
  <2>2. CASE \A e \in Device : e # m => file[e][u].entry.place = newest[u].place
    BY <1>4, <2>2
  <2> QED BY <1>3, <1>6, <2>1, <2>2 DEF Reached
<1> QED BY <1>8, <1>9

LEMMA PairIsTwo ==
  ASSUME NEW S, IsFiniteSet(S), Cardinality(S) = 2
  PROVE \A a, b, c \in S : a = b \/ a = c \/ b = c
<1> SUFFICES ASSUME NEW a \in S, NEW b \in S, NEW c \in S, a # b, a # c, b # c PROVE FALSE
  OBVIOUS
<1>1. IsFiniteSet(S \ {a}) /\ Cardinality(S \ {a}) = 1
  BY FS_RemoveElement
<1>2. IsFiniteSet((S \ {a}) \ {b}) /\ Cardinality((S \ {a}) \ {b}) = 0
  BY <1>1, FS_RemoveElement
<1>3. (S \ {a}) \ {b} = {}
  BY <1>2, FS_EmptySet
<1> QED BY <1>3

\* Between two devices an entry that is not edited stays where the user moved it last,
\* for any entries, folders, changes and faults, when runs exclude each other, no command
\* forces or pushes without a pull, every change has a second of its own and nothing is
\* put into the recycle bin: once all is settled, both devices have it in that folder.
THEOREM LastMoveAlwaysWins ==
  TakeTurns /\ ~SameSecond /\ NoBin => (Spec => []LastMoveWinsUnedited)
<1> DEFINE IInv == MemoryInv /\ CursorInv /\ RowsNumbered /\ OrderInv /\ MoveInv
<1> SUFFICES ASSUME TakeTurns, ~SameSecond, NoBin PROVE Spec => []LastMoveWinsUnedited
  OBVIOUS
<1>1. CASE Cardinality(Device) = 2
  <2>1. AtMostTwo
    BY <1>1, DeviceAssumption, PairIsTwo DEF AtMostTwo
  <2>2. Init => IInv
    BY MemoryInvInit, CursorInvInit, RowsNumberedInit, OrderInvInit, MoveInvInit
  <2>3. TypeInv /\ UnmergedInv /\ IInv /\ [Next]_vars => IInv'
    BY <2>1, MemoryInvStep, CursorInvStep, RowsNumberedStep, OrderInvStep, MoveInvStep
  <2>4. TypeInv /\ IInv => LastMoveWinsUnedited
    BY MovesSettle
  <2> HIDE DEF IInv
  <2> QED BY <2>2, <2>3, <2>4, TypeInvHolds, UnmergedHolds, PTL DEF Spec
<1>2. CASE Cardinality(Device) # 2
  <2>1. LastMoveWinsUnedited
    BY <1>2 DEF LastMoveWinsUnedited
  <2> QED BY <2>1, PTL
<1> QED BY <1>1, <1>2
=============================================================================
