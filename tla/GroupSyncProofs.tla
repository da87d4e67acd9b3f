--------------------------- MODULE GroupSyncProofs ---------------------------
(***************************************************************************)
(* Proofs about GroupSync, for all finite sets of groups, entries and devices, *)
(* every barrier, and whether keepassxc-cli merge deletes empty groups or not  *)
(* (honoured): the files, runs and versions keep their types, no merge puts an *)
(* entry into a group the file does not have, no deletion of a known group is  *)
(* forgotten, and each lost file costs the server no more groups than one push *)
(* may delete.                                                                 *)
(***************************************************************************)
EXTENDS GroupSync, FiniteSetTheorems, FunctionTheorems, TLAPS

-----------------------------------------------------------------------------
(* What keepassxc-cli merge and export make of one object *)

\* A merged entry is well formed, and is where it was or where the version is.
LEMMA MergeEntryPlace ==
  ASSUME NEW e \in Local \cup {None}, NEW c \in Content
  PROVE /\ MergeEntry(e, c) \in Local
        /\ \/ MergeEntry(e, c).place = c.place
           \/ e # None /\ MergeEntry(e, c).place = e.place
<1>1. CASE e = None
  BY <1>1 DEF MergeEntry, Content, Local
<1>2. CASE e # None
  <2> DEFINE newer == IF e.mod < c.mod THEN c ELSE e
             place == IF e.loc < c.loc THEN c.place ELSE e.place
  <2>1. newer.data \in Nat /\ newer.mod \in Nat /\ newer.loc \in Nat
    BY <1>2 DEF Content, Local
  <2>2. place \in Place /\ (place = c.place \/ place = e.place)
    BY <1>2 DEF Content, Local
  <2>3. MergeEntry(e, c) =
          [place |-> place, data |-> newer.data, mod |-> newer.mod, loc |-> newer.loc]
    BY <1>2 DEF MergeEntry
  <2> HIDE DEF newer, place
  <2> QED BY <1>2, <2>1, <2>2, <2>3 DEF Local
<1> QED BY <1>1, <1>2

\* An object of a file has an entry or a deletion, not both.
Sound(o) == o \in Object /\ (o.entry # None => o.dead = 0)

\* A deletion leaves a sound object, whose entry, if any, is the one it had.
LEMMA MergeDeletionSound ==
  ASSUME NEW e \in Local \cup {None},
         NEW times \in SUBSET Nat, \E t \in times : \A s \in times : t <= s
  PROVE /\ Sound(MergeDeletion(e, times))
        /\ MergeDeletion(e, times).entry \in {e, None}
<1> DEFINE first == CHOOSE t \in times : \A s \in times : t <= s
<1>1. first \in Nat
  OBVIOUS
<1>2. MergeDeletion(e, times) = IF e # None /\ e.mod > first
                                THEN [entry |-> e, dead |-> 0]
                                ELSE [entry |-> None, dead |-> first]
  BY DEF MergeDeletion
<1> HIDE DEF first
<1> QED BY <1>1, <1>2 DEF Sound, Object

\* The merge of a version keeps an object sound; an entry is where it was or where
\* the version, then not a tombstone, is.
LEMMA MergeSound ==
  ASSUME NEW o, Sound(o), NEW c \in Content
  PROVE /\ Sound(Merge(o, c))
        /\ Merge(o, c).entry # None =>
             \/ ~c.deleted /\ Merge(o, c).entry.place = c.place
             \/ o.entry # None /\ Merge(o, c).entry.place = o.entry.place
<1> DEFINE e == IF c.deleted THEN o.entry ELSE MergeEntry(o.entry, c)
           times == {t \in {o.dead} \cup (IF c.deleted THEN {c.mod} ELSE {}) : t # 0}
<1>1. /\ e \in Local \cup {None}
      /\ e # None => \/ ~c.deleted /\ e.place = c.place
                     \/ o.entry # None /\ e.place = o.entry.place
  BY MergeEntryPlace DEF Sound, Object
<1>2. o.dead \in Nat /\ c.mod \in Nat
  BY DEF Sound, Object, Content
<1>3. times \in SUBSET Nat
  BY <1>2
<1>4. times = {} \/ \E t \in times : \A s \in times : t <= s
  <2>1. CASE c.deleted /\ c.mod # 0
    <3>1. times = {t \in {o.dead, c.mod} : t # 0}
      BY <2>1
    <3> HIDE DEF times
    <3>2. CASE o.dead = 0 \/ c.mod <= o.dead
      <4>1. c.mod \in times /\ \A s \in times : c.mod <= s
        BY <1>2, <2>1, <3>1, <3>2
      <4> QED BY <4>1
    <3>3. CASE o.dead # 0 /\ o.dead < c.mod
      <4>1. o.dead \in times /\ \A s \in times : o.dead <= s
        BY <1>2, <2>1, <3>1, <3>3
      <4> QED BY <4>1
    <3> QED BY <1>2, <3>2, <3>3
  <2>2. CASE ~c.deleted \/ c.mod = 0
    <3>1. times = {t \in {o.dead} : t # 0}
      BY <2>2
    <3> HIDE DEF times
    <3> QED BY <1>2, <3>1
  <2> QED BY <2>1, <2>2
<1>5. Merge(o, c) = IF times = {} THEN [entry |-> e, dead |-> 0]
                    ELSE IF e = None /\ o.dead # 0 THEN o
                    ELSE MergeDeletion(e, times)
  BY DEF Merge
<1> HIDE DEF times, e
<1>6. CASE times = {}
  BY <1>1, <1>5, <1>6 DEF Sound, Object
<1>7. CASE times # {} /\ e = None /\ o.dead # 0
  BY <1>5, <1>7 DEF Sound
<1>8. CASE times # {} /\ ~(e = None /\ o.dead # 0)
  <2>1. Merge(o, c) = MergeDeletion(e, times)
    BY <1>5, <1>8
  <2> QED BY <1>1, <1>3, <1>4, <1>8, <2>1, MergeDeletionSound
<1> QED BY <1>6, <1>7, <1>8

\* What is exported of an object is well formed, and where the object is.
LEMMA ExportedPlace ==
  ASSUME NEW o \in Object, Exported(o) # None
  PROVE /\ Exported(o) \in Exports
        /\ \/ Exported(o).content.place = Bin
           \/ o.entry # None /\ Exported(o).content.place = o.entry.place
<1>1. CASE o.entry # None
  <2>1. o.entry \in Local /\ Exported(o) = collectTree(o.entry)
    BY <1>1 DEF Exported, Object
  <2>2. CASE o.entry.place = Bin
    BY <2>1, <2>2 DEF collectTree, Exports, Tombstone, Content, Local, Place
  <2>3. CASE o.entry.place # Bin
    <3> DEFINE c == [deleted |-> FALSE, place |-> o.entry.place, data |-> o.entry.data,
                     mod |-> o.entry.mod, loc |-> o.entry.loc]
    <3>1. Exported(o) = [content |-> c, trigger |-> laterTime(o.entry.mod, o.entry.loc)]
      BY <2>1, <2>3 DEF collectTree
    <3>2. c \in Content /\ c.place = o.entry.place
      BY <2>1 DEF Content, Local
    <3>3. laterTime(o.entry.mod, o.entry.loc) \in Nat
      BY <2>1 DEF laterTime, Local
    <3> HIDE DEF c
    <3> QED BY <1>1, <3>1, <3>2, <3>3 DEF Exports
  <2> QED BY <2>2, <2>3
<1>2. CASE o.entry = None
  <2>1. Exported(o) = [content |-> Tombstone(o.dead), trigger |-> o.dead] /\ o.dead \in Nat
    BY <1>2 DEF Exported, Object
  <2> QED BY <2>1 DEF Exports, Tombstone, Content, Place
<1> QED BY <1>1, <1>2

-----------------------------------------------------------------------------
(* A whole file *)

\* Groups are at the top or in the bin, and the group an entry is in is there.
WellFormed(f) ==
  /\ f \in [Uuid -> Object]
  /\ \A o \in Uuid : Sound(f[o])
  /\ \A g \in Group : Present(f, g) => f[g].entry.place \notin Group
  /\ \A e \in Entry : Present(f, e) /\ f[e].entry.place \in Group
       => Present(f, f[e].entry.place)

\* Versions by object; those of groups are at the top or deleted.
WellPlaced(rows) ==
  /\ rows \in [Uuid -> Store!Version \cup {None}]
  /\ \A g \in Group : rows[g] # None => rows[g].content.place \notin Group

LEMMA Disjoint == Root \notin Group /\ Bin \notin Group /\ Bin # Root
BY FolderAssumption, BinAssumption

\* A staged version differs from its row in its place only, which is the root, the bin
\* or a group of the staging file.
LEMMA StagedPlace ==
  ASSUME NEW f, NEW rows, WellPlaced(rows), NEW o \in Uuid, rows[o] # None
  PROVE /\ Staged(f, rows, o) \in Content
        /\ Staged(f, rows, o).deleted = rows[o].content.deleted
        /\ Staged(f, rows, o).place \in mergeGroupTree(f, rows) \cup {Bin, Root}
        /\ o \in Group => Staged(f, rows, o).place \notin Group
<1>1. rows[o].content \in Content
  BY DEF WellPlaced, Store!Version
<1> DEFINE p == rows[o].content.place
           q == IF p \in mergeGroupTree(f, rows) \cup {Bin} THEN p ELSE Root
<1>2. q \in Place
  BY <1>1, FolderAssumption DEF Content, Place
<1>3. q \in mergeGroupTree(f, rows) \cup {Bin, Root} /\ (o \in Group => q \notin Group)
  BY Disjoint DEF WellPlaced
<1>4. Staged(f, rows, o) = [rows[o].content EXCEPT !.place = q]
  BY DEF Staged
<1> HIDE DEF q
<1> QED BY <1>1, <1>2, <1>3, <1>4 DEF Content

\* The merge of a staging file leaves no entry in a group that it deletes or that the
\* file never had.
LEMMA MergeFileWellFormed ==
  ASSUME NEW f, WellFormed(f), NEW rows, WellPlaced(rows)
  PROVE WellFormed(MergeFile(f, rows))
<1> DEFINE merged == [e \in Entry |-> IF rows[e] = None THEN f[e]
                                      ELSE Merge(f[e], Staged(f, rows, e))]
           Used(g) == \E e \in Entry : merged[e].entry # None /\ merged[e].entry.place = g
           kept(g) == IF rows[g].content.deleted THEN f[g].entry
                      ELSE MergeEntry(f[g].entry, Staged(f, rows, g))
           MergeGroup(g) == IF ~honoured \/ Used(g) THEN [entry |-> kept(g), dead |-> 0]
                            ELSE Merge(f[g], Staged(f, rows, g))
           F == MergeFile(f, rows)
<1>1. F = [o \in Uuid |-> IF o \in Entry THEN merged[o]
                          ELSE IF rows[o] = None THEN f[o] ELSE MergeGroup(o)]
  BY DEF MergeFile
<1>2. /\ \A e \in Entry : F[e] = merged[e]
      /\ \A g \in Group : F[g] = IF rows[g] = None THEN f[g] ELSE MergeGroup(g)
  <2> HIDE DEF F, merged, MergeGroup
  <2> QED BY <1>1, ObjectAssumption DEF Uuid
<1>3. ASSUME NEW e \in Entry
      PROVE /\ Sound(F[e])
            /\ Present(F, e) => \/ Present(f, e) /\ F[e].entry.place = f[e].entry.place
                                \/ F[e].entry.place \in mergeGroupTree(f, rows) \cup {Bin, Root}
  <2>1. CASE rows[e] = None
    BY <1>2, <2>1 DEF WellFormed, Uuid, Present
  <2>2. CASE rows[e] # None
    <3> DEFINE c == Staged(f, rows, e)
    <3>1. c \in Content /\ c.place \in mergeGroupTree(f, rows) \cup {Bin, Root}
      BY <2>2, StagedPlace DEF Uuid
    <3>2. F[e] = Merge(f[e], c)
      BY <1>2, <2>2
    <3>3. Sound(f[e])
      BY DEF WellFormed, Uuid
    <3> HIDE DEF c, F
    <3> QED BY <3>1, <3>2, <3>3, MergeSound DEF Present
  <2> QED BY <2>1, <2>2
<1>4. ASSUME NEW g \in Group, rows[g] # None
      PROVE /\ kept(g) \in Local \cup {None}
            /\ kept(g) # None => kept(g).place \notin Group
            /\ ~rows[g].content.deleted => kept(g) # None
            /\ Present(f, g) => kept(g) # None
  <2>1. Sound(f[g]) /\ (Present(f, g) => f[g].entry.place \notin Group)
    BY DEF WellFormed, Uuid
  <2>2. f[g].entry \in Local \cup {None}
    BY <2>1 DEF Sound, Object
  <2>3. Staged(f, rows, g) \in Content /\ Staged(f, rows, g).place \notin Group
    BY <1>4, StagedPlace DEF Uuid
  <2> QED BY <2>1, <2>2, <2>3, MergeEntryPlace, NoneIsNotLocal DEF Present
<1>5. ASSUME NEW g \in Group
      PROVE /\ Sound(F[g])
            /\ Present(F, g) => F[g].entry.place \notin Group
            /\ Used(g) => Present(F, g)
  <2>1. Sound(f[g]) /\ (Present(f, g) => f[g].entry.place \notin Group)
    BY DEF WellFormed, Uuid
  <2>2. ASSUME Used(g) PROVE Present(f, g) \/ (rows[g] # None /\ ~rows[g].content.deleted)
    <3>1. PICK e \in Entry : merged[e].entry # None /\ merged[e].entry.place = g
      BY <2>2
    <3>2. Present(F, e) /\ F[e].entry.place = g
      BY <1>2, <3>1 DEF Present
    <3>3. CASE g \in mergeGroupTree(f, rows)
      BY <3>3 DEF mergeGroupTree, Tree
    <3>4. CASE Present(f, e) /\ f[e].entry.place = g
      BY <3>4 DEF WellFormed
    <3> HIDE DEF F
    <3> QED BY <1>3, <3>2, <3>3, <3>4, Disjoint
  <2> HIDE DEF Used
  <2>3. CASE rows[g] = None
    BY <1>2, <2>1, <2>2, <2>3 DEF Present
  <2>4. CASE rows[g] # None /\ (~honoured \/ Used(g))
    <3>1. F[g] = [entry |-> kept(g), dead |-> 0]
      BY <1>2, <2>4
    <3> HIDE DEF F, kept
    <3> QED BY <1>4, <2>2, <2>4, <3>1 DEF Present, Sound, Object
  <2>5. CASE rows[g] # None /\ ~(~honoured \/ Used(g))
    <3> DEFINE c == Staged(f, rows, g)
    <3>1. F[g] = Merge(f[g], c)
      BY <1>2, <2>5
    <3>2. c \in Content /\ c.place \notin Group
      BY <2>5, StagedPlace DEF Uuid
    <3> HIDE DEF F, c
    <3> QED BY <2>1, <2>5, <3>1, <3>2, MergeSound DEF Present
  <2> QED BY <2>3, <2>4, <2>5
<1>6. \A e \in Entry : Present(F, e) /\ F[e].entry.place \in Group
        => Present(F, F[e].entry.place)
  <2>1. SUFFICES ASSUME NEW e \in Entry, Present(F, e), NEW g \in Group, F[e].entry.place = g
        PROVE Present(F, g)
    OBVIOUS
  <2>2. Used(g)
    BY <1>2, <2>1 DEF Present
  <2> HIDE DEF F, Used
  <2> QED BY <1>5, <2>2
<1>7. \A o \in Uuid : Sound(F[o])
  <2> HIDE DEF F
  <2> QED BY <1>3, <1>5 DEF Uuid
<1>8. F \in [Uuid -> Object]
  <2>1. \E h : F = [o \in Uuid |-> h[o]]
    <3> DEFINE h == [o \in Uuid |-> IF o \in Entry THEN merged[o]
                          ELSE IF rows[o] = None THEN f[o] ELSE MergeGroup(o)]
    <3>1. F = [o \in Uuid |-> h[o]]
      BY <1>1
    <3> QED BY <3>1
  <2> HIDE DEF F
  <2> QED BY <1>7, <2>1 DEF Sound
<1> HIDE DEF F
<1>9. WellFormed(F)
  BY <1>5, <1>6, <1>7, <1>8 DEF WellFormed
<1> QED BY <1>9 DEF F

\* An export names an object where it is, or in the bin.
LEMMA ExportWellPlaced ==
  ASSUME NEW f, WellFormed(f)
  PROVE /\ ParseExportFull(f) \in [Uuid -> Exports \cup {None}]
        /\ \A g \in Group : ParseExportFull(f)[g] # None =>
             ParseExportFull(f)[g].content.place \notin Group
<1> DEFINE x(o) == IF ~Trashed(f, o) THEN Exported(f[o])
                   ELSE IF o \in Entry THEN Exported([f[o] EXCEPT !.entry.place = Bin])
                   ELSE None
<1>1. ParseExportFull(f) = [o \in Uuid |-> x(o)]
  BY DEF ParseExportFull
<1>2. ASSUME NEW o \in Uuid PROVE x(o) \in Exports \cup {None}
  <2>1. f[o] \in Object
    BY DEF WellFormed
  <2>2. CASE ~Trashed(f, o)
    BY <2>1, <2>2, ExportedPlace
  <2>3. CASE Trashed(f, o) /\ o \in Entry
    <3> DEFINE b == [f[o] EXCEPT !.entry.place = Bin]
    <3>1. f[o].entry \in Local
      BY <2>1, <2>3 DEF Trashed, Present, Object
    <3>2. b \in Object
      BY <2>1, <3>1 DEF Object, Local, Place
    <3>3. x(o) = Exported(b)
      BY <2>3
    <3> HIDE DEF b, x
    <3> QED BY <3>2, <3>3, ExportedPlace
  <2> QED BY <2>2, <2>3
<1>3. ASSUME NEW g \in Group, x(g) # None PROVE x(g).content.place \notin Group
  <2>1. f[g] \in Object /\ (f[g].entry # None => f[g].entry.place \notin Group)
    BY DEF WellFormed, Uuid, Present
  <2>2. g \notin Entry
    BY ObjectAssumption
  <2>3. x(g) = Exported(f[g])
    BY <1>3, <2>2
  <2> HIDE DEF x
  <2> QED BY <1>3, <2>1, <2>3, ExportedPlace, Disjoint
<1> HIDE DEF x
<1> QED BY <1>1, <1>2, <1>3 DEF Uuid

-----------------------------------------------------------------------------
(* The inductive invariant *)

UserInv ==
  /\ clock \in Nat /\ changed \in Nat /\ losses \in Nat
  /\ file \in [Device -> [Uuid -> Object]]
  /\ \A d \in Device : WellFormed(file[d])
  /\ removed \in [Device -> SUBSET Group]

ServerInv ==
  /\ seq \in Nat
  /\ WellPlaced(latest)
  /\ buried \subseteq Uuid

\* What run r exported: groups at the top or tombstones.
RunOK(r) ==
  /\ r \in Runs
  /\ \A g \in Group : r.exported[g] # None => r.exported[g].content.place \notin Group

RunInv ==
  /\ faults \in Nat
  /\ config \in [Device -> Binding]
  /\ run \in [Device -> Runs]
  /\ \A d \in Device : RunOK(run[d])

\* What the server has to be told of, config.toml knows, and so does the run: it will
\* have told the server before it knows the groups of its export only.
OwedInv ==
  /\ owed \in [Device -> SUBSET Group]
  /\ \A d \in Device : owed[d] \subseteq config[d].known \cap Remembered(d)

Inv == UserInv /\ ServerInv /\ RunInv /\ OwedInv

LEMMA InvTypes == Inv => TypeOK
BY DEF Inv, UserInv, ServerInv, RunInv, OwedInv, TypeOK, WellFormed, WellPlaced, Sound, Present,
       Uuid

\* There are as many numbers as objects, so that every object can have one of its own.
LEMMA Numbering ==
  LET m == Cardinality(Uuid)
      n == CHOOSE f \in [Uuid -> 1 .. m] : \A o, p \in Uuid : f[o] = f[p] => o = p
  IN m \in Nat /\ n \in [Uuid -> 1 .. m]
<1>1. IsFiniteSet(Uuid)
  BY FiniteAssumption, FS_Union DEF Uuid
<1>2. Cardinality(Uuid) \in Nat /\ ExistsBijection(1 .. Cardinality(Uuid), Uuid)
  BY <1>1, FS_CardinalityType
<1>3. ExistsBijection(Uuid, 1 .. Cardinality(Uuid))
  BY <1>2, Fun_ExistsBijSymmetric
<1>4. \E f \in [Uuid -> 1 .. Cardinality(Uuid)] : \A o, p \in Uuid : f[o] = f[p] => o = p
  BY <1>3 DEF ExistsBijection, Bijection, Injection, Surjection, IsInjective
<1> QED BY <1>2, <1>4

LEMMA InitInv == Init => Inv
<1> SUFFICES ASSUME Init PROVE Inv
  OBVIOUS
<1> DEFINE m == Cardinality(Uuid)
           n == CHOOSE f \in [Uuid -> 1 .. m] : \A o, p \in Uuid : f[o] = f[p] => o = p
           c(o) == [deleted |-> FALSE, place |-> IF o \in Group THEN Root ELSE home[o],
                    data |-> 0, mod |-> 1, loc |-> 1]
           l(o) == [place |-> c(o).place, data |-> 0, mod |-> 1, loc |-> 1]
<1>1. m \in Nat /\ n \in [Uuid -> 1 .. m]
  BY Numbering
<1>2. seq = m /\ latest = [o \in Uuid |-> [uuid |-> o, seq |-> n[o], content |-> c(o)]]
  BY DEF Init
<1> HIDE DEF m, n
<1>3. \A o \in Uuid : c(o) \in Content /\ (o \in Group => c(o).place = Root)
                      /\ (o \in Entry => c(o).place \in Group)
  BY FolderAssumption, ObjectAssumption DEF Content, Place, Uuid
<1>4. \A o \in Uuid : l(o) \in Local /\ l(o).place = c(o).place
  BY <1>3 DEF Local, Content
<1>5. ServerInv
  <2>1. \A o \in Uuid : [uuid |-> o, seq |-> n[o], content |-> c(o)] \in Store!Version
    BY <1>1, <1>3 DEF Store!Version
  <2>2. WellPlaced(latest)
    BY <1>2, <1>3, <2>1, Disjoint DEF WellPlaced, Uuid
  <2> QED BY <1>1, <1>2, <2>2 DEF ServerInv, Init
<1>6. UserInv
  <2> DEFINE f == [o \in Uuid |-> [dead |-> 0, entry |-> l(o)]]
  <2>1. file = [d \in Device |-> f]
    BY <1>2 DEF Init
  <2> HIDE DEF l
  <2>2. f \in [Uuid -> Object] /\ \A o \in Uuid : Sound(f[o])
    BY <1>4 DEF Object, Sound
  <2>3. \A o \in Uuid : Present(f, o) /\ f[o].entry.place = c(o).place
    BY <1>4, NoneIsNotLocal DEF Present
  <2>4. WellFormed(f)
    <3> HIDE DEF f, c
    <3> QED BY <1>3, <2>2, <2>3, Disjoint DEF WellFormed, Uuid
  <2> HIDE DEF f
  <2>5. f \in [Uuid -> Object]
    BY <2>4 DEF WellFormed
  <2> QED BY <2>1, <2>4, <2>5 DEF UserInv, Init
<1>7. RunInv /\ OwedInv
  <2> DEFINE b == [lastSeq |-> seq, states |-> [o \in Uuid |-> 1], known |-> Group]
  <2>1. b \in Binding /\ config = [d \in Device |-> b]
    BY <1>1, <1>2 DEF Binding, Init
  <2> HIDE DEF b
  <2>2. RunOK(NoRun(b)) /\ run = [d \in Device |-> NoRun(b)]
    BY <2>1 DEF NoRun, NoExport, RunOK, Runs, Step, Uuid, Init
  <2>3. RunOK(NoRun(b)) => NoRun(b) \in Runs
    BY DEF RunOK
  <2>4. b.known = Group /\ NoRun(b).mem = b /\ NoRun(b).at # "doomed"
    BY DEF b, NoRun
  <2> QED BY <2>1, <2>2, <2>3, <2>4 DEF RunInv, OwedInv, Remembered, Init
<1> QED BY <1>5, <1>6, <1>7 DEF Inv

-----------------------------------------------------------------------------
(* Users *)

\* A user puts a well-formed file in the place of the device's.
LEMMA ChangeInv ==
  ASSUME Inv, NEW d \in Device, NEW what, NEW f, WellFormed(f), Change(d, what, f),
         removed' \in [Device -> SUBSET Group], owed' \in [Device -> SUBSET Group],
         \A e \in Device : owed'[e] \subseteq owed[e] \cup (config[e].known \cap Remembered(e))
  PROVE Inv'
<1>1. UserInv'
  <2>1. clock' \in Nat /\ changed' \in Nat /\ losses' \in Nat /\ file' = [file EXCEPT ![d] = f]
    BY DEF Change, Inv, UserInv
  <2>2. f \in [Uuid -> Object]
    BY DEF WellFormed
  <2>3. file' \in [Device -> [Uuid -> Object]] /\ \A e \in Device : WellFormed(file'[e])
    BY <2>1, <2>2 DEF Inv, UserInv
  <2> QED BY <2>1, <2>3 DEF UserInv
<1>2. ServerInv' /\ RunInv'
  BY DEF Change, server, Inv, ServerInv, RunInv
<1>3. OwedInv'
  BY DEF Change, Inv, OwedInv, Remembered, CurrentGroups
<1> QED BY <1>1, <1>2, <1>3 DEF Inv

\* A rename leaves everything where it is.
LEMMA RenameInv ==
  ASSUME Inv, NEW d \in Device, NEW g \in Group, Rename(d, g)
  PROVE Inv'
<1> DEFINE e == [file[d][g].entry EXCEPT !.mod = clock + 1]
           f == [file[d] EXCEPT ![g] = [file[d][g] EXCEPT !.entry = e]]
<1>1. /\ WellFormed(file[d]) /\ clock \in Nat /\ g \in Uuid /\ file[d][g] \in Object
      /\ Present(file[d], g) /\ Sound(file[d][g])
  BY DEF Inv, UserInv, WellFormed, Uuid, Rename, Tree
<1>2. e \in Local /\ e.place = file[d][g].entry.place
  BY <1>1 DEF Present, Object, Local
<1>3. Change(d, "rename", f)
  BY DEF Rename
<1> HIDE DEF e
<1>4. f \in [Uuid -> Object] /\ \A o \in Uuid : Sound(f[o])
  BY <1>1, <1>2 DEF WellFormed, Sound, Present, Object
<1>5. \A o \in Uuid : /\ Present(f, o) <=> Present(file[d], o)
                      /\ Present(f, o) => f[o].entry.place = file[d][o].entry.place
  BY <1>1, <1>2, NoneIsNotLocal DEF Present, WellFormed, Object
<1> HIDE DEF f
<1>6. WellFormed(f)
  BY <1>1, <1>4, <1>5 DEF WellFormed, Uuid
<1> QED BY <1>3, <1>6, ChangeInv DEF Rename, Inv, UserInv, OwedInv

\* The file after a move of object o to place p.
MovedTo(f, o, p, t) == [f EXCEPT ![o].entry.place = p, ![o].entry.loc = t]

\* A group goes to the top or the bin, an entry to a group that the file has.
LEMMA MovedWellFormed ==
  ASSUME NEW f, WellFormed(f), NEW o \in Uuid, Present(f, o), NEW p \in Place, NEW t \in Nat,
         o \in Group => p \notin Group, p \in Group => Present(f, p)
  PROVE WellFormed(MovedTo(f, o, p, t))
<1> DEFINE e == [f[o].entry EXCEPT !.place = p, !.loc = t]
           h == [f EXCEPT ![o] = [f[o] EXCEPT !.entry = e]]
<1>1. f[o] \in Object /\ Sound(f[o]) /\ f \in [Uuid -> Object]
  BY DEF WellFormed
<1>2. e \in Local /\ e.place = p
  BY <1>1 DEF Present, Object, Local
<1>3. MovedTo(f, o, p, t) = h
  BY <1>1 DEF MovedTo, Present, Object
<1> HIDE DEF e
<1>4. h \in [Uuid -> Object] /\ \A x \in Uuid : Sound(h[x])
  BY <1>1, <1>2 DEF WellFormed, Sound, Present, Object
<1>5. \A x \in Uuid : /\ Present(h, x) <=> Present(f, x)
                      /\ Present(h, x) => h[x].entry.place = IF x = o THEN p ELSE f[x].entry.place
  BY <1>1, <1>2, NoneIsNotLocal DEF Present, Object
<1> HIDE DEF h
<1>6. WellFormed(h)
  BY <1>4, <1>5 DEF WellFormed, Uuid
<1> QED BY <1>3, <1>6

LEMMA RelocateFile ==
  ASSUME NEW d \in Device, NEW o, NEW p, NEW what, Relocate(d, o, p, what)
  PROVE Change(d, what, MovedTo(file[d], o, p, clock + 1))
BY DEF Relocate, MovedTo

LEMMA TrashInv ==
  ASSUME Inv, NEW d \in Device, NEW g \in Group, Trash(d, g)
  PROVE Inv'
<1>1. WellFormed(MovedTo(file[d], g, Bin, clock + 1))
  BY MovedWellFormed, Disjoint DEF Inv, UserInv, Trash, Tree, Uuid, Place
<1>2. Change(d, "trash", MovedTo(file[d], g, Bin, clock + 1))
  BY RelocateFile DEF Trash
<1>3. removed' \in [Device -> SUBSET Group]
  BY DEF Trash, Inv, UserInv
<1>4. /\ owed' \in [Device -> SUBSET Group]
      /\ \A e \in Device : owed'[e] \subseteq owed[e] \cup (config[e].known \cap Remembered(e))
  BY DEF Trash, Inv, OwedInv
<1> QED BY <1>1, <1>2, <1>3, <1>4, ChangeInv

LEMMA RestoreInv ==
  ASSUME Inv, NEW d \in Device, NEW g \in Group, Restore(d, g)
  PROVE Inv'
<1>1. WellFormed(MovedTo(file[d], g, Root, clock + 1))
  BY MovedWellFormed, Disjoint, FolderAssumption
     DEF Inv, UserInv, Restore, TrashedGroups, Trashed, Uuid, Place
<1>2. Change(d, "restore", MovedTo(file[d], g, Root, clock + 1))
  BY RelocateFile DEF Restore
<1>3. /\ owed' \in [Device -> SUBSET Group]
      /\ \A e \in Device : owed'[e] \subseteq owed[e] \cup (config[e].known \cap Remembered(e))
  BY DEF Restore, Inv, OwedInv
<1> QED BY <1>1, <1>2, <1>3, ChangeInv DEF Restore, Inv, UserInv

LEMMA MoveInv ==
  ASSUME Inv, NEW d \in Device, NEW e \in Entry, NEW p \in Folder, Move(d, e, p)
  PROVE Inv'
<1>1. WellFormed(MovedTo(file[d], e, p, clock + 1))
  <2>1. p \in Group => Present(file[d], p)
    BY Disjoint DEF Move, Tree
  <2> QED BY <2>1, MovedWellFormed, ObjectAssumption DEF Inv, UserInv, Move, Uuid, Place
<1>2. Change(d, "move", MovedTo(file[d], e, p, clock + 1))
  BY RelocateFile DEF Move
<1> QED BY <1>1, <1>2, ChangeInv DEF Move, Inv, UserInv, OwedInv

\* An entry that is left after the bin was emptied is not in a group that was in it.
LEMMA EmptyBinInv ==
  ASSUME Inv, NEW d \in Device, EmptyBin(d)
  PROVE Inv'
<1> DEFINE f == file[d]
           h == [o \in Uuid |-> IF Trashed(f, o) THEN [entry |-> None, dead |-> clock + 1]
                                ELSE f[o]]
<1>1. WellFormed(f) /\ clock \in Nat
  BY DEF Inv, UserInv
<1>2. Change(d, "empty", h)
  BY DEF EmptyBin
<1> HIDE DEF f
<1>3. h \in [Uuid -> Object] /\ \A o \in Uuid : Sound(h[o])
  BY <1>1 DEF WellFormed, Sound, Object
<1>4. \A o \in Uuid : /\ Present(h, o) <=> Present(f, o) /\ ~Trashed(f, o)
                      /\ Present(h, o) => h[o] = f[o]
  BY DEF Present, Trashed
<1> HIDE DEF h
<1>5. ASSUME NEW e \in Entry, Present(h, e), h[e].entry.place \in Group
      PROVE Present(h, h[e].entry.place)
  <2> DEFINE g == f[e].entry.place
  <2>1. g \in Group /\ h[e].entry.place = g /\ Present(f, e) /\ ~Trashed(f, e)
    BY <1>4, <1>5 DEF Uuid
  <2>2. Present(f, g) /\ f[g].entry.place \notin Group
    BY <1>1, <2>1 DEF WellFormed
  <2>3. ~Trashed(f, g)
    BY <2>1, <2>2 DEF Trashed
  <2> QED BY <1>4, <2>1, <2>2, <2>3 DEF Uuid
<1>6. WellFormed(h)
  BY <1>1, <1>3, <1>4, <1>5 DEF WellFormed, Uuid
<1> QED BY <1>2, <1>6, ChangeInv DEF EmptyBin, Inv, UserInv, OwedInv

\* A file that lost groups has lost the entries in them too.
LEMMA LoseInv ==
  ASSUME Inv, NEW d \in Device, Lose(d)
  PROVE Inv'
<1> DEFINE f == file[d]
           gone(gs, o) == o \in gs \/ (Present(f, o) /\ f[o].entry.place \in gs)
           h(gs) == [o \in Uuid |-> IF gone(gs, o) THEN [entry |-> None, dead |-> 0] ELSE f[o]]
<1>1. WellFormed(f)
  BY DEF Inv, UserInv
<1>2. PICK gs \in SUBSET Tree(f) : Change(d, "lose", h(gs))
  BY DEF Lose
<1> HIDE DEF f
<1>3. h(gs) \in [Uuid -> Object] /\ \A o \in Uuid : Sound(h(gs)[o])
  BY <1>1 DEF WellFormed, Sound, Object
<1>4. \A o \in Uuid : /\ Present(h(gs), o) <=> Present(f, o) /\ ~gone(gs, o)
                      /\ Present(h(gs), o) => h(gs)[o] = f[o]
  BY DEF Present
<1>5. gs \subseteq Group
  BY <1>2 DEF Tree
<1> HIDE DEF h
<1>6. WellFormed(h(gs))
  BY <1>1, <1>3, <1>4, <1>5 DEF WellFormed, Uuid
<1> QED BY <1>2, <1>6, ChangeInv DEF Lose, Inv, UserInv, OwedInv

-----------------------------------------------------------------------------
(* Runs *)

\* The groups that run r exported, and those it has not given up.
Current(r) == {g \in Group : r.exported[g] # None /\ ~r.exported[g].content.deleted}
Holds(r) ==
  IF r.at = "doomed" THEN r.mem.known \cap (Current(r) \cup r.doomed) ELSE r.mem.known

\* One run goes on with r, and may leave binding b: enough that what its device owes is
\* known to both.
LEMMA RunStepInv ==
  ASSUME RunInv, OwedInv, NEW d \in Device, NEW r, RunOK(r), run' = [run EXCEPT ![d] = r],
         NEW b \in Binding, config' = [config EXCEPT ![d] = b], faults' \in Nat,
         owed' \in [Device -> SUBSET Group],
         \A e \in Device : owed'[e] \subseteq owed[e],
         owed'[d] \subseteq b.known \cap Holds(r)
  PROVE RunInv' /\ OwedInv'
<1>1. r \in Runs
  BY DEF RunOK
<1>2. RunInv'
  BY <1>1 DEF RunInv
<1>3. \A e \in Device : /\ e # d => run'[e] = run[e] /\ config'[e] = config[e]
                        /\ run'[d] = r /\ config'[d] = b
  BY DEF RunInv
<1>4. \A e \in Device : Remembered(e) = Holds(run[e]) /\ Remembered(e)' = Holds(run'[e])
  BY DEF Remembered, CurrentGroups, Holds, Current
<1>5. \A e \in Device : owed'[e] \subseteq config'[e].known \cap Holds(run'[e])
  BY <1>3, <1>4 DEF OwedInv
<1> QED BY <1>2, <1>4, <1>5 DEF OwedInv

\* A run goes on with r and config.toml is left alone.
LEMMA GoesOn ==
  ASSUME RunInv, OwedInv, NEW d \in Device, NEW r, RunOK(r), run' = [run EXCEPT ![d] = r],
         UNCHANGED config, faults' \in Nat, owed' \in [Device -> SUBSET Group],
         \A e \in Device : owed'[e] \subseteq owed[e], owed'[d] \subseteq Holds(r)
  PROVE RunInv' /\ OwedInv'
<1>1. config[d] \in Binding /\ config' = [config EXCEPT ![d] = config[d]]
  BY DEF RunInv
<1>2. owed'[d] \subseteq config[d].known
  BY DEF OwedInv
<1> QED BY <1>1, <1>2, RunStepInv

LEMMA OwedIsHeld ==
  ASSUME OwedInv, NEW d \in Device
  PROVE /\ owed \in [Device -> SUBSET Group]
        /\ owed[d] \subseteq Holds(run[d]) /\ owed[d] \subseteq config[d].known
        /\ owed[d] \subseteq run[d].mem.known
BY DEF OwedInv, Remembered, CurrentGroups, Holds, Current

\* The end of a run.
LEMMA EndOK ==
  ASSUME NEW b \in Binding
  PROVE RunOK(NoRun(b)) /\ Holds(NoRun(b)) = b.known
BY DEF RunOK, NoRun, NoExport, Runs, Step, Uuid, Holds

\* What run[d] is made of.
LEMMA RunParts ==
  ASSUME RunInv, NEW d \in Device
  PROVE /\ RunOK(run[d]) /\ run[d] \in Runs /\ run[d].mem \in Binding /\ config[d] \in Binding
        /\ run[d].mem.lastSeq \in Nat /\ run[d].mem.states \in [Uuid -> Nat]
        /\ run[d].mem.known \in SUBSET Group /\ run[d].doomed \in SUBSET Group
        /\ run[d].exported \in [Uuid -> Exports \cup {None}]
BY DEF RunInv, Runs, Binding

\* The rows above last_seq.
LEMMA PullInv ==
  ASSUME Inv, NEW d \in Device, pullChanges(d)
  PROVE Inv'
<1> DEFINE rows == [o \in Uuid |-> IF latest[o] # None /\ latest[o].seq > run[d].mem.lastSeq
                                   THEN latest[o] ELSE None]
           gone == {o \in Uuid : rows[o] # None /\ rows[o].content.deleted}
           states == [o \in Uuid |-> IF rows[o] = None THEN run[d].mem.states[o]
                        ELSE laterTime(run[d].mem.states[o], rows[o].content.mod)]
           b == [lastSeq |-> seq, states |-> states, known |-> run[d].mem.known \ gone]
           r(next) == [run[d] EXCEPT !.at = next, !.mem = b]
<1>1. Inv /\ UserInv /\ ServerInv /\ RunInv /\ OwedInv
  BY DEF Inv
<1>2. WellPlaced(rows)
  BY <1>1 DEF ServerInv, WellPlaced, Uuid
<1>3. states \in [Uuid -> Nat]
  <2>1. \A o \in Uuid : rows[o] # None => rows[o].content.mod \in Nat
    BY <1>2 DEF WellPlaced, Store!Version, Content
  <2> HIDE DEF rows
  <2> QED BY <1>1, <2>1, RunParts DEF laterTime
<1>4. b \in Binding
  BY <1>1, <1>3, RunParts DEF Binding, ServerInv
<1>5. PICK next \in {"export", "save"} : run' = [run EXCEPT ![d] = r(next)]
  <2>1. PICK next \in {"export", "save"} : run' = [run EXCEPT
             ![d].at = next,
             ![d].mem = [
               lastSeq |-> seq,
               states |-> [o \in Uuid |-> IF rows[o] = None THEN @.states[o]
                             ELSE laterTime(@.states[o], rows[o].content.mod)],
               known |-> pruneKnownGroups(@.known, gone)]]
    BY DEF pullChanges
  <2> HIDE DEF rows, gone
  <2>2. run' = [run EXCEPT ![d] = r(next)]
    BY <1>1, <2>1, RunParts DEF pruneKnownGroups, RunInv, Runs, Binding
  <2> QED BY <2>2
<1>6. /\ file' = [file EXCEPT ![d] = MergeFile(@, rows)]
      /\ owed' = [owed EXCEPT ![d] = @ \ gone]
      /\ UNCHANGED <<server, user, faults, config>>
  BY DEF pullChanges
<1> HIDE DEF rows, gone, states
<1>7. UserInv'
  <2>1. WellFormed(MergeFile(file[d], rows))
    BY <1>1, <1>2, MergeFileWellFormed DEF UserInv
  <2>2. MergeFile(file[d], rows) \in [Uuid -> Object]
    BY <2>1 DEF WellFormed
  <2> QED BY <1>1, <1>6, <2>1, <2>2 DEF UserInv, user
<1>8. ServerInv'
  BY <1>1, <1>6 DEF ServerInv, server
<1>9. RunOK(r(next)) /\ Holds(r(next)) = run[d].mem.known \ gone
  BY <1>1, <1>4, RunParts DEF RunOK, Runs, Step, Holds
<1> HIDE DEF r, b
<1>10. owed' \in [Device -> SUBSET Group] /\ (\A e \in Device : owed'[e] \subseteq owed[e])
       /\ owed'[d] \subseteq run[d].mem.known \ gone
  BY <1>1, <1>6, OwedIsHeld
<1>11. RunInv' /\ OwedInv'
  BY <1>1, <1>5, <1>6, <1>9, <1>10, GoesOn DEF RunInv
<1> QED BY <1>7, <1>8, <1>11 DEF Inv

\* A step of a run that writes nothing to the server or the file.
LEMMA QuietStep ==
  ASSUME Inv, UNCHANGED <<server, user, file>>, RunInv', OwedInv'
  PROVE Inv'
BY DEF Inv, UserInv, ServerInv, server, user

LEMMA PushChangesInv ==
  ASSUME Inv, NEW d \in Device, pushChanges(d)
  PROVE Inv'
<1> DEFINE r == [run[d] EXCEPT !.at = "groups", !.exported = ParseExportFull(file[d]),
                               !.trashed = TrashedGroups(file[d])]
<1>1. RunInv /\ OwedInv /\ WellFormed(file[d]) /\ run[d].at # "doomed"
  BY DEF Inv, UserInv, pushChanges
<1>2. TrashedGroups(file[d]) \subseteq Group
  BY DEF TrashedGroups
<1>3. RunOK(r) /\ Holds(r) = Holds(run[d])
  BY <1>1, <1>2, RunParts, ExportWellPlaced DEF RunOK, Runs, Step, Holds
<1>4. run' = [run EXCEPT ![d] = r]
  BY <1>1 DEF pushChanges, RunInv
<1> HIDE DEF r
<1>5. RunInv' /\ OwedInv'
  BY <1>1, <1>3, <1>4, OwedIsHeld, GoesOn DEF pushChanges, RunInv
<1> QED BY <1>5, QuietStep DEF pushChanges, user, server

\* The barrier, the known groups and the groups to delete: either way nothing is
\* forgotten that is not about to be deleted.
LEMMA FindDoomedInv ==
  ASSUME Inv, NEW d \in Device, FindDoomed(d)
  PROVE Inv'
<1> DEFINE b == [run[d].mem EXCEPT !.known = CurrentGroups(d)]
           r1 == [run[d] EXCEPT !.at = "entries"]
           r2 == [run[d] EXCEPT !.at = "entries", !.mem = b]
           r3 == [run[d] EXCEPT !.at = "doomed", !.doomed = doomedGroups(d)]
<1>1. RunInv /\ OwedInv /\ run[d].at = "groups" /\ CurrentGroups(d) \subseteq Group
  BY DEF Inv, FindDoomed, CurrentGroups
<1>2. b \in Binding /\ b.known = CurrentGroups(d) /\ doomedGroups(d) \subseteq Group
  BY <1>1, RunParts DEF Binding, doomedGroups
<1>3. KnowGroups(d, run[d]) = r2
  BY <1>1, RunParts DEF KnowGroups, Runs, Binding
<1>4. /\ RunOK(r1) /\ RunOK(r2) /\ RunOK(r3)
      /\ Holds(r1) = run[d].mem.known /\ Holds(r2) = CurrentGroups(d)
      /\ Holds(r3) = run[d].mem.known \cap (CurrentGroups(d) \cup doomedGroups(d))
  BY <1>1, <1>2, RunParts DEF RunOK, Runs, Step, Holds, Current, CurrentGroups
<1>5. \/ run' = [run EXCEPT ![d] = r1]
      \/ run' = [run EXCEPT ![d] = r2] /\ doomedGroups(d) = {}
      \/ run' = [run EXCEPT ![d] = r3]
  <2> HIDE DEF r2
  <2> QED BY <1>1, <1>3 DEF FindDoomed, RunInv
<1>6. /\ owed[d] \subseteq Holds(r1) /\ owed[d] \subseteq Holds(r3)
      /\ doomedGroups(d) = {} => owed[d] \subseteq Holds(r2)
  BY <1>1, <1>4, OwedIsHeld DEF doomedGroups
<1> HIDE DEF b, r1, r2, r3
<1>7. RunInv' /\ OwedInv'
  BY <1>1, <1>4, <1>5, <1>6, OwedIsHeld, GoesOn DEF FindDoomed, RunInv
<1> QED BY <1>7, QuietStep DEF FindDoomed, user, server

\* A write of the server: who owed its deletion does no more.
LEMMA WriteInv ==
  ASSUME ServerInv, OwedInv, NEW o \in Uuid, NEW c \in Content,
         o \in Group => c.place \notin Group, Write(o, c)
  PROVE /\ ServerInv' /\ seq' = seq + 1
        /\ owed' \in [Device -> SUBSET Group]
        /\ \A e \in Device : owed'[e] \subseteq owed[e] /\ (c.deleted => o \notin owed'[e])
<1> DEFINE v == [uuid |-> o, content |-> c, seq |-> seq + 1]
<1>1. seq' = seq + 1 /\ latest' = [latest EXCEPT ![o] = v]
  BY DEF Write, Store!Write
<1>2. seq \in Nat /\ v \in Store!Version /\ v.content = c
  BY DEF ServerInv, Store!Version
<1> HIDE DEF v
<1>3. WellPlaced(latest')
  BY <1>1, <1>2 DEF ServerInv, WellPlaced
<1>4. ServerInv'
  BY <1>1, <1>2, <1>3 DEF ServerInv, Write
<1>5. /\ owed' \in [Device -> SUBSET Group]
      /\ \A e \in Device : owed'[e] \subseteq owed[e] /\ (c.deleted => o \notin owed'[e])
  BY DEF Write, OwedInv
<1> QED BY <1>1, <1>4, <1>5

\* A recorded state leaves a binding, with the same known groups.
LEMMA RecordedTypes ==
  ASSUME seq \in Nat, NEW b \in Binding, NEW o \in Uuid, NEW t \in Nat
  PROVE /\ RecordEntryState(b, o, t) \in Binding
        /\ RecordEntryState(b, o, t).known = b.known
<1> DEFINE states == [b.states EXCEPT ![o] = t]
<1>1. states \in [Uuid -> Nat]
  BY DEF Binding
<1>2. RecordEntryState(b, o, t) = [lastSeq |-> seq + 1, states |-> states, known |-> b.known]
  BY DEF RecordEntryState
<1>3. b.known \in SUBSET Group
  BY DEF Binding
<1> HIDE DEF states
<1> QED BY <1>1, <1>2, <1>3 DEF Binding

\* One round of the push loops.
LEMMA PushInv ==
  ASSUME Inv, NEW d \in Device, NEW o \in Uuid, run[d].exported[o] # None,
         run[d].at # "doomed", Push(d, o)
  PROVE Inv'
<1> DEFINE x == run[d].exported[o]
           b == RecordEntryState(run[d].mem, o, x.trigger)
           r == [run[d] EXCEPT !.mem = b]
<1>1. ServerInv /\ RunInv /\ OwedInv
  BY DEF Inv
<1>2. x \in Exports /\ (o \in Group => x.content.place \notin Group)
  BY <1>1, RunParts DEF RunOK
<1>3. x.content \in Content /\ x.trigger \in Nat
  BY <1>2 DEF Exports
<1>4. /\ ServerInv' /\ owed' \in [Device -> SUBSET Group]
      /\ \A e \in Device : owed'[e] \subseteq owed[e]
  <2> HIDE DEF x
  <2> QED BY <1>1, <1>2, <1>3, WriteInv DEF Push, x
<1>5. run' = [run EXCEPT ![d] = r]
  BY <1>1 DEF Push, RunInv
<1>6. b \in Binding /\ b.known = run[d].mem.known
  BY <1>1, <1>3, RunParts, RecordedTypes DEF ServerInv
<1> HIDE DEF b
<1>7. RunOK(r) /\ Holds(r) = run[d].mem.known
  BY <1>1, <1>6, RunParts DEF RunOK, Runs, Holds
<1> HIDE DEF r
<1>8. RunInv' /\ OwedInv'
  <2>1. UNCHANGED <<config, faults>> /\ faults \in Nat
    BY <1>1 DEF Push, RunInv
  <2>2. owed'[d] \subseteq Holds(r)
    BY <1>1, <1>4, <1>7, OwedIsHeld
  <2> QED BY <1>1, <1>4, <1>5, <1>7, <2>1, <2>2, GoesOn
<1>9. UserInv'
  BY DEF Push, Inv, UserInv, user
<1> QED BY <1>4, <1>8, <1>9 DEF Inv

\* The tombstone of a group that is gone; after the last one the groups of the export
\* are the known ones, and nothing that was owed is forgotten by that.
LEMMA DeleteGroupInv ==
  ASSUME Inv, NEW d \in Device, DeleteGroup(d)
  PROVE Inv'
<1>1. ServerInv /\ RunInv /\ OwedInv /\ clock \in Nat /\ run[d].at = "doomed"
  BY DEF Inv, UserInv, DeleteGroup
<1>2. PICK g \in run[d].doomed :
        /\ Write(g, Tombstone(clock))
        /\ LET r == [run[d] EXCEPT !.doomed = @ \ {g}, !.mem.lastSeq = seq + 1]
           IN run' = [run EXCEPT ![d] = IF r.doomed = {} THEN KnowGroups(d, r) ELSE r]
  BY DEF DeleteGroup
<1> DEFINE rest == run[d].doomed \ {g}
           b == [run[d].mem EXCEPT !.lastSeq = seq + 1]
           r1 == [run[d] EXCEPT !.doomed = rest, !.mem = b]
           known == [b EXCEPT !.known = CurrentGroups(d)]
           r2 == [run[d] EXCEPT !.doomed = rest, !.at = "entries", !.mem = known]
<1>3. g \in Uuid /\ g \in Group
  BY <1>1, RunParts DEF Uuid
<1>4. /\ Tombstone(clock) \in Content /\ Tombstone(clock).deleted
      /\ Tombstone(clock).place \notin Group
  BY <1>1, Disjoint DEF Tombstone, Content, Place
<1>5. /\ ServerInv' /\ owed' \in [Device -> SUBSET Group]
      /\ \A e \in Device : owed'[e] \subseteq owed[e] /\ g \notin owed'[e]
  BY <1>1, <1>2, <1>3, <1>4, WriteInv
<1>6. run' = [run EXCEPT ![d] = IF rest = {} THEN r2 ELSE r1]
  <2> DEFINE r == [run[d] EXCEPT !.doomed = @ \ {g}, !.mem.lastSeq = seq + 1]
  <2>1. r = r1
    BY <1>1, RunParts DEF Runs, Binding
  <2>4. run' = [run EXCEPT ![d] = IF r.doomed = {} THEN KnowGroups(d, r) ELSE r]
    BY <1>2
  <2>2. KnowGroups(d, r1) = r2
    BY <1>1, RunParts DEF KnowGroups, Runs, Binding
  <2>3. r1.doomed = rest
    BY <1>1, RunParts DEF Runs
  <2> HIDE DEF r, r1, r2
  <2> QED BY <2>1, <2>2, <2>3, <2>4
<1>7. b \in Binding /\ b.known = run[d].mem.known
  BY <1>1, RunParts DEF Binding, ServerInv
<1>8. known \in Binding /\ known.known = CurrentGroups(d) /\ CurrentGroups(d) \subseteq Group
  BY <1>7 DEF Binding, CurrentGroups
<1> HIDE DEF b, known
<1>9. /\ RunOK(r1) /\ RunOK(r2)
      /\ Holds(r1) = run[d].mem.known \cap (CurrentGroups(d) \cup rest)
      /\ Holds(r2) = CurrentGroups(d)
  BY <1>1, <1>7, <1>8, RunParts DEF RunOK, Runs, Step, Holds, Current, CurrentGroups
<1>10. owed'[d] \subseteq Holds(r1) /\ (rest = {} => owed'[d] \subseteq Holds(r2))
  <2>1. owed[d] \subseteq run[d].mem.known \cap (CurrentGroups(d) \cup run[d].doomed)
    BY <1>1 DEF OwedInv, Remembered
  <2> HIDE DEF r1, r2
  <2> QED BY <1>5, <1>9, <2>1
<1> HIDE DEF r1, r2, rest
<1>11. RunInv' /\ OwedInv'
  BY <1>1, <1>5, <1>6, <1>9, <1>10, GoesOn DEF DeleteGroup, RunInv
<1>12. UserInv'
  BY DEF DeleteGroup, Inv, UserInv, user
<1> QED BY <1>5, <1>11, <1>12 DEF Inv

\* config.toml takes the run's binding.
LEMMA SaveBindingInv ==
  ASSUME Inv, NEW d \in Device, SaveBinding(d), UNCHANGED <<server, user, file, owed>>,
         faults' \in Nat
  PROVE Inv'
<1>1. RunInv /\ OwedInv
  BY DEF Inv
<1> DEFINE b == run[d].mem
           r == NoRun(b)
<1>2. b \in Binding /\ RunOK(r) /\ Holds(r) = b.known
  BY <1>1, RunParts, EndOK
<1>3. config' = [config EXCEPT ![d] = b] /\ run' = [run EXCEPT ![d] = r]
  BY DEF SaveBinding
<1>4. owed \in [Device -> SUBSET Group] /\ owed' = owed /\ owed[d] \subseteq b.known
  BY <1>1, OwedIsHeld
<1> HIDE DEF b, r
<1>5. RunInv' /\ OwedInv'
  BY <1>1, <1>2, <1>3, <1>4, RunStepInv
<1> QED BY <1>5, QuietStep

\* The next run starts from config.toml.
LEMMA InterruptInv ==
  ASSUME Inv, NEW d \in Device, Interrupt(d), UNCHANGED <<server, user, file, owed>>,
         faults' \in Nat
  PROVE Inv'
<1>1. RunInv /\ OwedInv
  BY DEF Inv
<1> DEFINE b == config[d]
           r == NoRun(b)
<1>2. RunOK(r) /\ Holds(r) = b.known
  BY <1>1, RunParts, EndOK
<1>3. config' = config /\ run' = [run EXCEPT ![d] = r]
  BY DEF Interrupt
<1>4. owed \in [Device -> SUBSET Group] /\ owed' = owed /\ owed[d] \subseteq b.known
  BY <1>1, OwedIsHeld
<1> HIDE DEF b, r
<1>5. RunInv' /\ OwedInv'
  BY <1>1, <1>2, <1>3, <1>4, GoesOn
<1> QED BY <1>5, QuietStep

LEMMA UserStepInv ==
  ASSUME Inv, NEW d \in Device, UserStep(d)
  PROVE Inv'
BY RenameInv, TrashInv, RestoreInv, MoveInv, EmptyBinInv, LoseInv DEF UserStep

LEMMA RunStepsInv ==
  ASSUME Inv, NEW d \in Device, RunStep(d)
  PROVE Inv'
<1>0. faults \in Nat
  BY DEF Inv, RunInv
<1>1. CASE pullChanges(d)
  BY <1>1, PullInv
<1>2. CASE pushChanges(d)
  BY <1>2, PushChangesInv
<1>3. CASE PutGroup(d)
  BY <1>3, PushInv DEF PutGroup, Pending, Uuid
<1>4. CASE FindDoomed(d)
  BY <1>4, FindDoomedInv
<1>5. CASE DeleteGroup(d)
  BY <1>5, DeleteGroupInv
<1>6. CASE PutEntry(d)
  BY <1>6, PushInv DEF PutEntry, Pending, Uuid
<1>7. CASE DeleteEntry(d)
  BY <1>7, PushInv DEF DeleteEntry, Pending
<1>8. CASE Save(d)
  BY <1>0, <1>8, SaveBindingInv DEF Save
<1>9. CASE PushFails(d)
  BY <1>0, <1>9, SaveBindingInv, InterruptInv DEF PushFails
<1>10. CASE Crash(d)
  BY <1>0, <1>10, InterruptInv DEF Crash
<1> QED BY <1>1, <1>2, <1>3, <1>4, <1>5, <1>6, <1>7, <1>8, <1>9, <1>10 DEF RunStep

LEMMA NextInv == Inv /\ [Next]_vars => Inv'
<1>1. ASSUME Inv, Next PROVE Inv'
  BY <1>1, UserStepInv, RunStepsInv DEF Next
<1>2. ASSUME Inv, UNCHANGED vars PROVE Inv'
  BY <1>2 DEF vars, Inv, UserInv, ServerInv, RunInv, OwedInv, Remembered, CurrentGroups
<1> QED BY <1>1, <1>2

\* The invariant holds in every state.
LEMMA Invariance == Spec => []Inv
BY InitInv, NextInv, PTL DEF Spec

\* Files, runs and versions keep their types, and the group an entry is in is in the
\* file with it: the staging file sends an entry of an unknown group to the root, and
\* a tombstone spares a group that something is still in (buildStagingXML, Merger).
THEOREM TypeCorrect == Spec => []TypeOK
BY Invariance, InvTypes, PTL

\* Whatever fails between the tombstones of several groups, and whatever users and other
\* devices do meanwhile, the deletion of a known group is found again until the server
\* has it: known_groups changes after the loop that sends them, or not at all (pushChanges).
THEOREM DeletionsTold == Spec => []DeletionsAreTold
<1>1. Inv => DeletionsAreTold
  BY DEF Inv, OwedInv, DeletionsAreTold
<1> QED BY <1>1, Invariance, PTL

-----------------------------------------------------------------------------
(* Few deletions that nobody meant: the barrier and the count *)

\* What one push may delete of the groups that are gone without a trace.
Barrier ==
  LET share == (Cardinality(Group) * groupDeletePercent) \div 100
  IN IF share > groupDeleteFloor THEN share ELSE groupDeleteFloor

\* A share of the known groups is a share of all.
LEMMA BarrierHolds ==
  ASSUME NEW n \in Nat, NEW k \in Nat, k <= Cardinality(Group), ~refuseGroupDeletion(n, k)
  PROVE n <= Barrier
<1> DEFINE m == Cardinality(Group)
           p == m * groupDeletePercent
<1>1. m \in Nat
  BY FiniteAssumption, FS_CardinalityType
<1>2. k * groupDeletePercent \in Nat /\ p \in Nat /\ k * groupDeletePercent <= p
  BY <1>1, BarrierAssumption
<1>3. n <= groupDeleteFloor \/ n * 100 <= p
  BY <1>2, BarrierAssumption DEF refuseGroupDeletion
<1>4. Barrier = IF p \div 100 > groupDeleteFloor THEN p \div 100 ELSE groupDeleteFloor
  BY DEF Barrier
<1> HIDE DEF p
<1>5. p \div 100 \in Nat /\ (n * 100 <= p => n <= p \div 100)
  BY <1>2
<1> QED BY <1>3, <1>4, <1>5, BarrierAssumption

\* What so many pushes may delete.
LEMMA BarrierBounds ==
  ASSUME NEW n \in Nat, NEW k \in Nat, n <= k * Barrier
  PROVE n <= k * groupDeleteFloor \/ n * 100 <= k * Cardinality(Group) * groupDeletePercent
<1> DEFINE m == Cardinality(Group)
           p == m * groupDeletePercent
           q == p \div 100
<1>1. m \in Nat
  BY FiniteAssumption, FS_CardinalityType
<1>2. p \in Nat /\ k * m * groupDeletePercent = k * p
  BY <1>1, BarrierAssumption
<1>3. Barrier = IF q > groupDeleteFloor THEN q ELSE groupDeleteFloor
  BY DEF Barrier
<1> HIDE DEF p
<1>4. q \in Nat /\ 100 * q <= p
  BY <1>2
<1> HIDE DEF q
<1>5. k * (100 * q) <= k * p
  BY <1>2, <1>4
<1>6. n * 100 <= k * p \/ n <= k * groupDeleteFloor
  <2>1. CASE Barrier = q
    <3>1. n * 100 <= (k * q) * 100 /\ (k * q) * 100 = k * (100 * q)
      BY <1>4, <2>1
    <3> QED BY <1>2, <1>4, <1>5, <3>1
  <2>2. CASE Barrier = groupDeleteFloor
    BY <2>2
  <2> QED BY <1>3, <2>1, <2>2
<1> QED BY <1>2, <1>6

LEMMA BarrierType == Barrier \in Nat
<1>1. Cardinality(Group) \in Nat
  BY FiniteAssumption, FS_CardinalityType
<1> DEFINE p == Cardinality(Group) * groupDeletePercent
<1>2. p \in Nat
  BY <1>1, BarrierAssumption
<1>3. Barrier = IF p \div 100 > groupDeleteFloor THEN p \div 100 ELSE groupDeleteFloor
  BY DEF Barrier
<1> HIDE DEF p
<1> QED BY <1>2, <1>3, BarrierAssumption

\* What the devices have to their charge: n by device, each up to the barrier.
Least(n) == IF n <= Barrier THEN n ELSE Barrier
Charged(n) == {x \in Device \X (1 .. Barrier) : x[2] <= n[x[1]]}
Total(n) == Cardinality(Charged(n))

\* The total is that of one device and that of the others.
LEMMA TotalSplit ==
  ASSUME NEW n \in [Device -> Nat], NEW d \in Device
  PROVE /\ IsFiniteSet({x \in Charged(n) : x[1] # d})
        /\ Cardinality({x \in Charged(n) : x[1] # d}) \in Nat
        /\ Total(n) = Cardinality({x \in Charged(n) : x[1] # d}) + Least(n[d])
<1> DEFINE all == Device \X (1 .. Barrier)
           rest == {x \in Charged(n) : x[1] # d}
           own == {d} \X (1 .. Least(n[d]))
<1>1. IsFiniteSet(all)
  <2>1. IsFiniteSet(1 .. Barrier)
    BY BarrierType, FS_Interval
  <2> QED BY <2>1, FiniteAssumption, FS_Product
<1>2. IsFiniteSet(rest) /\ Cardinality(rest) \in Nat
  <2>1. rest \in SUBSET all
    BY DEF Charged
  <2> QED BY <1>1, <2>1, FS_Subset, FS_CardinalityType
<1>3. Least(n[d]) \in Nat /\ Least(n[d]) <= Barrier
  BY BarrierType DEF Least
<1>4. IsFiniteSet(own) /\ Cardinality(own) = Least(n[d])
  <2>1. IsFiniteSet(1 .. Least(n[d])) /\ Cardinality(1 .. Least(n[d])) = Least(n[d])
    BY <1>3, FS_Interval
  <2>2. IsFiniteSet({d}) /\ Cardinality({d}) = 1
    BY FS_Singleton
  <2>3. ASSUME NEW l \in Nat, IsFiniteSet(1 .. l), Cardinality(1 .. l) = l
        PROVE IsFiniteSet({d} \X (1 .. l)) /\ Cardinality({d} \X (1 .. l)) = l
    <3>1. /\ IsFiniteSet({d} \X (1 .. l))
          /\ Cardinality({d} \X (1 .. l)) = Cardinality({d}) * Cardinality(1 .. l)
      BY <2>2, <2>3, FS_Product, Zenon
    <3>2. Cardinality({d}) * Cardinality(1 .. l) = 1 * l
      BY <2>2, <2>3, Zenon
    <3>3. 1 * l = l
      BY <2>3
    <3> QED BY <3>1, <3>2, <3>3, Zenon
  <2> QED BY <1>3, <2>1, <2>3
<1>5. Charged(n) = rest \cup own /\ rest \cap own = {}
  <2>1. \A i \in 1 .. Barrier : i <= n[d] <=> i \in 1 .. Least(n[d])
    BY BarrierType DEF Least
  <2>2. 1 .. Least(n[d]) \subseteq 1 .. Barrier
    BY <1>3, BarrierType
  <2> QED BY <2>1, <2>2 DEF Charged
<1>6. Cardinality({}) = 0
  BY FS_EmptySet
<1>7. Cardinality(rest \cup own) = Cardinality(rest) + Cardinality(own) - 0
  BY <1>2, <1>4, <1>5, <1>6, FS_Union
<1>8. Total(n) = Cardinality(rest \cup own)
  BY <1>5, Zenon DEF Total
<1> HIDE DEF own
<1>9. Total(n) = Cardinality(rest) + Least(n[d])
  <2> HIDE DEF rest
  <2> QED BY <1>2, <1>3, <1>4, <1>7, <1>8
<1> QED BY <1>2, <1>9

\* When the others have no more to their charge, one device makes the difference.
LEMMA TotalStep ==
  ASSUME NEW n \in [Device -> Nat], NEW m \in [Device -> Nat], NEW d \in Device,
         \A e \in Device \ {d} : m[e] <= n[e]
  PROVE /\ Total(n) \in Nat /\ Total(m) \in Nat
        /\ Total(m) + Least(n[d]) <= Total(n) + Least(m[d])
<1> DEFINE others(c) == {x \in Charged(c) : x[1] # d}
<1>1. /\ IsFiniteSet(others(n)) /\ Cardinality(others(n)) \in Nat
      /\ Cardinality(others(m)) \in Nat
      /\ Total(n) = Cardinality(others(n)) + Least(n[d])
      /\ Total(m) = Cardinality(others(m)) + Least(m[d])
  BY TotalSplit
<1>2. Cardinality(others(m)) <= Cardinality(others(n))
  <2>1. others(m) \in SUBSET others(n)
    BY DEF Charged
  <2> QED BY <1>1, <2>1, FS_Subset
<1>3. Least(n[d]) \in Nat /\ Least(m[d]) \in Nat
  BY BarrierType DEF Least
<1> HIDE DEF others
<1> QED BY <1>1, <1>2, <1>3

\* The groups no user removed: those the server has kept, and those it was told to delete.
Innocent == {g \in Group : g \notin buried /\ \A d \in Device : g \notin removed[d]}
Unmeant == {g \in Group : g \in buried /\ \A d \in Device : g \notin removed[d]}

Pushing(r) == r.at \in {"groups", "doomed", "entries"}

\* Known groups that the export of run r lacks, and groups that file f has lost and the
\* next export, or what the run makes known, will show.
GoneOf(r, b) == {g \in b.known \ Current(r) : Pushing(r)}
LostOf(f, r, b) == {g \in IF Pushing(r) THEN Current(r) ELSE b.known : ~Present(f, g)}

Gone(d) == Innocent \cap GoneOf(run[d], config[d])
Lost(d) == Innocent \cap LostOf(file[d], run[d], config[d])

\* Every lost file pays for one push: for what was deleted without a user's wish, and
\* for what a device might still delete.
Count ==
  Cardinality(Unmeant) + Total([d \in Device |-> Cardinality(Gone(d))])
    + Total([d \in Device |-> Cardinality(Lost(d))]) <= losses * Barrier

LEMMA SetSizes ==
  /\ IsFiniteSet(Unmeant) /\ Cardinality(Unmeant) \in Nat
  /\ \A d \in Device : /\ IsFiniteSet(Gone(d)) /\ Cardinality(Gone(d)) \in Nat
                       /\ IsFiniteSet(Lost(d)) /\ Cardinality(Lost(d)) \in Nat
<1>1. /\ Unmeant \in SUBSET Group
      /\ \A d \in Device : Gone(d) \in SUBSET Group /\ Lost(d) \in SUBSET Group
  BY DEF Unmeant, Gone, Lost, Innocent
<1> QED BY <1>1, FiniteAssumption, FS_Subset, FS_CardinalityType

LEMMA SetSizesNext ==
  /\ IsFiniteSet(Unmeant') /\ Cardinality(Unmeant') \in Nat
  /\ \A d \in Device : /\ IsFiniteSet(Gone(d)') /\ Cardinality(Gone(d)') \in Nat
                       /\ IsFiniteSet(Lost(d)') /\ Cardinality(Lost(d)') \in Nat
<1>1. /\ Unmeant' \in SUBSET Group
      /\ \A d \in Device : Gone(d)' \in SUBSET Group /\ Lost(d)' \in SUBSET Group
  BY DEF Unmeant, Gone, Lost, Innocent
<1> QED BY <1>1, FiniteAssumption, FS_Subset, FS_CardinalityType

\* A step of one device that takes nothing on for the others.
OthersKeep(d) ==
  \A e \in Device \ {d} : Gone(e)' \subseteq Gone(e) /\ Lost(e)' \subseteq Lost(e)

\* The count is kept when the device has no more to its charge than before, or a lost
\* file pays for it.
LEMMA CountStep ==
  ASSUME Count, losses \in Nat, losses' \in Nat, NEW d \in Device, OthersKeep(d),
         NEW k \in Nat, losses' = losses + k,
         Cardinality(Unmeant') + Least(Cardinality(Gone(d)')) + Least(Cardinality(Lost(d)'))
           <= Cardinality(Unmeant) + Least(Cardinality(Gone(d))) + Least(Cardinality(Lost(d)))
                + k * Barrier
  PROVE Count'
<1> DEFINE g == [e \in Device |-> Cardinality(Gone(e))]
           l == [e \in Device |-> Cardinality(Lost(e))]
           gn == [e \in Device |-> Cardinality(Gone(e)')]
           ln == [e \in Device |-> Cardinality(Lost(e)')]
           u == Cardinality(Unmeant)
           un == Cardinality(Unmeant')
<1>1. /\ g \in [Device -> Nat] /\ l \in [Device -> Nat] /\ gn \in [Device -> Nat]
      /\ ln \in [Device -> Nat] /\ u \in Nat /\ un \in Nat
  BY SetSizes, SetSizesNext
<1>2. \A e \in Device \ {d} : gn[e] <= g[e] /\ ln[e] <= l[e]
  BY SetSizes, FS_Subset DEF OthersKeep
<1>3. un + Least(gn[d]) + Least(ln[d]) <= u + Least(g[d]) + Least(l[d]) + k * Barrier
  OBVIOUS
<1>4. u + Total(g) + Total(l) <= losses * Barrier
  BY DEF Count
<1>5. Count' <=> un + Total(gn) + Total(ln) <= losses' * Barrier
  BY DEF Count, Total, Charged
<1> HIDE DEF g, l, gn, ln, u, un
<1>6. /\ Total(g) \in Nat /\ Total(l) \in Nat /\ Total(gn) \in Nat /\ Total(ln) \in Nat
      /\ Total(gn) + Least(g[d]) <= Total(g) + Least(gn[d])
      /\ Total(ln) + Least(l[d]) <= Total(l) + Least(ln[d])
  BY <1>1, <1>2, TotalStep
<1>7. /\ Least(g[d]) \in Nat /\ Least(l[d]) \in Nat
      /\ Least(gn[d]) \in Nat /\ Least(ln[d]) \in Nat
  BY <1>1, BarrierType DEF Least
<1>8. losses' * Barrier = losses * Barrier + k * Barrier
      /\ losses * Barrier \in Nat /\ k * Barrier \in Nat
  BY BarrierType
<1>9. un + Total(gn) + Total(ln) <= losses * Barrier + k * Barrier
  <2> DEFINE p == losses * Barrier
             q == k * Barrier
  <2>1. p \in Nat /\ q \in Nat
    BY <1>8
  <2> HIDE DEF p, q
  <2> QED BY <1>1, <1>3, <1>4, <1>6, <1>7, <2>1 DEF p, q
<1> QED BY <1>5, <1>8, <1>9

\* The charge of a set is no more than that of two that cover it.
LEMMA LeastOfUnion ==
  ASSUME NEW A, NEW B, NEW C, IsFiniteSet(B), IsFiniteSet(C), A \subseteq B \cup C
  PROVE Least(Cardinality(A)) <= Least(Cardinality(B)) + Least(Cardinality(C))
<1>1. /\ IsFiniteSet(B \cup C)
      /\ Cardinality(B \cup C) = Cardinality(B) + Cardinality(C) - Cardinality(B \cap C)
  BY FS_Union
<1>2. IsFiniteSet(A) /\ IsFiniteSet(B \cap C) /\ Cardinality(A) <= Cardinality(B \cup C)
  BY <1>1, FS_Subset
<1>3. /\ Cardinality(A) \in Nat /\ Cardinality(B) \in Nat /\ Cardinality(C) \in Nat
      /\ Cardinality(B \cap C) \in Nat
  BY <1>2, FS_CardinalityType
<1>4. Cardinality(A) <= Cardinality(B) + Cardinality(C)
  BY <1>1, <1>2, <1>3
<1> QED BY <1>3, <1>4, BarrierType DEF Least

LEMMA LeastOfSubset ==
  ASSUME NEW A, NEW B, IsFiniteSet(B), A \subseteq B
  PROVE Least(Cardinality(A)) <= Least(Cardinality(B))
<1>1. /\ Cardinality(A) \in Nat /\ Cardinality(B) \in Nat
      /\ Cardinality(A) <= Cardinality(B)
  BY FS_Subset, FS_CardinalityType
<1> QED BY <1>1, BarrierType DEF Least

LEMMA LeastOfNone == Least(Cardinality({})) = 0
BY FS_EmptySet, BarrierType DEF Least

\* A step that deletes nothing and takes nothing on: what the device has to its charge is
\* less, or is in one of the two sets afterwards.
LEMMA CountKept ==
  ASSUME Count, losses \in Nat, losses' = losses, NEW d \in Device, OthersKeep(d),
         Unmeant' \subseteq Unmeant,
         \/ Gone(d)' \subseteq Gone(d) /\ Lost(d)' \subseteq Lost(d)
         \/ Gone(d)' = {} /\ Lost(d)' \subseteq Gone(d) \cup Lost(d)
         \/ Lost(d)' = {} /\ Gone(d)' \subseteq Gone(d) \cup Lost(d)
  PROVE Count'
<1> DEFINE u == Cardinality(Unmeant)
           un == Cardinality(Unmeant')
           g == Least(Cardinality(Gone(d)))
           gn == Least(Cardinality(Gone(d)'))
           l == Least(Cardinality(Lost(d)))
           ln == Least(Cardinality(Lost(d)'))
<1>1. u \in Nat /\ un \in Nat /\ un <= u
  BY SetSizes, SetSizesNext, FS_Subset
<1>2. g \in Nat /\ gn \in Nat /\ l \in Nat /\ ln \in Nat
  BY SetSizes, SetSizesNext, BarrierType DEF Least
<1>3. gn + ln <= g + l
  <2>1. CASE Gone(d)' \subseteq Gone(d) /\ Lost(d)' \subseteq Lost(d)
    <3>1. gn <= g /\ ln <= l
      BY <2>1, SetSizes, LeastOfSubset
    <3> HIDE DEF g, gn, l, ln
    <3> QED BY <1>2, <3>1
  <2>2. CASE Gone(d)' = {} /\ Lost(d)' \subseteq Gone(d) \cup Lost(d)
    <3>1. gn = 0 /\ ln <= g + l
      BY <2>2, SetSizes, LeastOfUnion, LeastOfNone
    <3> HIDE DEF g, gn, l, ln
    <3> QED BY <1>2, <3>1
  <2>3. CASE Lost(d)' = {} /\ Gone(d)' \subseteq Gone(d) \cup Lost(d)
    <3>1. ln = 0 /\ gn <= g + l
      BY <2>3, SetSizes, LeastOfUnion, LeastOfNone
    <3> HIDE DEF g, gn, l, ln
    <3> QED BY <1>2, <3>1
  <2> QED BY <2>1, <2>2, <2>3
<1>4. un + gn + ln <= u + g + l + 0 * Barrier
  <2>1. 0 * Barrier = 0
    BY BarrierType
  <2> HIDE DEF u, un, g, gn, l, ln
  <2> QED BY <1>1, <1>2, <1>3, <2>1
<1> QED BY <1>4, CountStep

\* The property from the count.
LEMMA CountMeansFew == Count /\ losses \in Nat => FewUnmeantDeletions
<1> SUFFICES ASSUME Count, losses \in Nat PROVE FewUnmeantDeletions
  OBVIOUS
<1> DEFINE n == Cardinality(Unmeant)
           g == [d \in Device |-> Cardinality(Gone(d))]
           l == [d \in Device |-> Cardinality(Lost(d))]
<1>1. n \in Nat /\ g \in [Device -> Nat] /\ l \in [Device -> Nat]
  BY SetSizes
<1>2. Total(g) \in Nat /\ Total(l) \in Nat
  <2> HIDE DEF g, l
  <2>1. \A c \in [Device -> Nat] : IsFiniteSet(Charged(c))
    <3>1. IsFiniteSet(Device \X (1 .. Barrier))
      <4>1. IsFiniteSet(1 .. Barrier)
        BY BarrierType, FS_Interval
      <4> QED BY <4>1, FiniteAssumption, FS_Product
    <3>2. \A c : Charged(c) \in SUBSET (Device \X (1 .. Barrier))
      BY DEF Charged
    <3> QED BY <3>1, <3>2, FS_Subset
  <2> QED BY <1>1, <2>1, FS_CardinalityType DEF Total
<1>3. n + Total(g) + Total(l) <= losses * Barrier /\ losses * Barrier \in Nat
  BY BarrierType DEF Count
<1>4. n <= losses * Barrier
  <2> HIDE DEF n, g, l
  <2> QED BY <1>1, <1>2, <1>3
<1>5. \/ n <= losses * groupDeleteFloor
      \/ n * 100 <= losses * Cardinality(Group) * groupDeletePercent
  <2> HIDE DEF n
  <2> QED BY <1>1, <1>4, BarrierBounds
<1> QED BY <1>5 DEF FewUnmeantDeletions, Unmeant

-----------------------------------------------------------------------------
(* What is deleted without a user's wish was deleted before: B stands for the groups    *)
(* the server has a tombstone of, R for those a device's user removed.                *)

\* Versions: a tombstone is one of the server's, and no other version is in the bin.
RowsTold(rows, B) ==
  \A g \in Group : rows[g] # None =>
    IF rows[g].content.deleted THEN g \in B ELSE rows[g].content.place # Bin

\* A file: what is in the bin, and what it has a deletion of.
FileTold(f, R, B) ==
  \A g \in Group : /\ Trashed(f, g) => g \in R
                   /\ f[g].dead # 0 => g \in B \cup R

\* A run: what it found in the bin, and what it exported.
ExportTold(x, R, B) ==
  \A g \in Group : x[g] # None =>
    IF x[g].content.deleted THEN g \in B \cup R ELSE x[g].content.place # Bin

RunTold(r, R, B) == r.trashed \subseteq R /\ ExportTold(r.exported, R, B)

Told ==
  /\ RowsTold(latest, buried)
  /\ \A d \in Device : /\ FileTold(file[d], removed[d], buried)
                       /\ RunTold(run[d], removed[d], buried)

\* A group of a well-formed file is in no group.
LEMMA GroupTrashed ==
  ASSUME NEW f, WellFormed(f), NEW g \in Group
  PROVE Trashed(f, g) <=> Present(f, g) /\ f[g].entry.place = Bin
BY DEF WellFormed, Trashed, Present

\* A version that is no tombstone leaves an object without a deletion.
LEMMA MergeAlive ==
  ASSUME NEW o, o.dead = 0, NEW c, ~c.deleted
  PROVE Merge(o, c) = [entry |-> MergeEntry(o.entry, c), dead |-> 0]
<1> DEFINE times == {t \in {o.dead} \cup (IF c.deleted THEN {c.mod} ELSE {}) : t # 0}
<1>1. times = {}
  OBVIOUS
<1>2. Merge(o, c) = IF times = {} THEN [entry |-> MergeEntry(o.entry, c), dead |-> 0]
                    ELSE IF MergeEntry(o.entry, c) = None /\ o.dead # 0 THEN o
                         ELSE MergeDeletion(MergeEntry(o.entry, c), times)
  BY DEF Merge
<1> QED BY <1>1, <1>2

\* A merge neither deletes nor bins a group without a tombstone or a user's wish.
LEMMA MergeFileTold ==
  ASSUME NEW f, WellFormed(f), NEW rows, WellPlaced(rows), NEW R, NEW B,
         FileTold(f, R, B), RowsTold(rows, B)
  PROVE /\ FileTold(MergeFile(f, rows), R, B)
        /\ \A g \in Group \ B : Present(f, g) => Present(MergeFile(f, rows), g)
<1> DEFINE merged == [e \in Entry |-> IF rows[e] = None THEN f[e]
                                      ELSE Merge(f[e], Staged(f, rows, e))]
           Used(g) == \E e \in Entry : merged[e].entry # None /\ merged[e].entry.place = g
           kept(g) == IF rows[g].content.deleted THEN f[g].entry
                      ELSE MergeEntry(f[g].entry, Staged(f, rows, g))
           MergeGroup(g) == IF ~honoured \/ Used(g) THEN [entry |-> kept(g), dead |-> 0]
                            ELSE Merge(f[g], Staged(f, rows, g))
           F == MergeFile(f, rows)
<1>1. F = [o \in Uuid |-> IF o \in Entry THEN merged[o]
                          ELSE IF rows[o] = None THEN f[o] ELSE MergeGroup(o)]
  BY DEF MergeFile
<1>2. \A g \in Group : F[g] = IF rows[g] = None THEN f[g] ELSE MergeGroup(g)
  <2> HIDE DEF F, merged, MergeGroup
  <2> QED BY <1>1, ObjectAssumption DEF Uuid
<1>3. WellFormed(F)
  BY MergeFileWellFormed
<1> HIDE DEF merged
<1>4. ASSUME NEW g \in Group, rows[g] # None
      PROVE \/ F[g] = [entry |-> kept(g), dead |-> 0]
            \/ F[g] = Merge(f[g], Staged(f, rows, g))
  <2> HIDE DEF F, Used
  <2> QED BY <1>2, <1>4
<1> HIDE DEF F, MergeGroup, Used
<1>5. ASSUME NEW g \in Group
      PROVE /\ Present(F, g) /\ F[g].entry.place = Bin => g \in R
            /\ F[g].dead # 0 => g \in B \cup R
            /\ g \notin B /\ Present(f, g) => Present(F, g)
  <2> DEFINE c == Staged(f, rows, g)
  <2>1. /\ Sound(f[g]) /\ f[g].entry \in Local \cup {None}
        /\ Present(f, g) /\ f[g].entry.place = Bin => g \in R
        /\ f[g].dead # 0 => g \in B \cup R
        /\ Present(f, g) => f[g].dead = 0
    BY GroupTrashed DEF WellFormed, Uuid, FileTold, Sound, Object, Present
  <2>2. CASE rows[g] = None
    BY <1>2, <2>1, <2>2 DEF Present
  <2>3. CASE rows[g] # None
    <3>1. /\ c \in Content /\ c.deleted = rows[g].content.deleted
          /\ c.deleted => g \in B
          /\ ~c.deleted => c.place # Bin
      <4>1. /\ c \in Content /\ c.deleted = rows[g].content.deleted
            /\ c.place = rows[g].content.place \/ c.place = Root
        <5>1. rows[g].content \in Content
          BY <2>3 DEF WellPlaced, Store!Version, Uuid
        <5> QED BY <2>3, <5>1, StagedPlace DEF Uuid, Staged, Content
      <4> HIDE DEF c
      <4> QED BY <2>3, <4>1, Disjoint DEF RowsTold
    <3>2. /\ MergeEntry(f[g].entry, c) \in Local
          /\ \/ MergeEntry(f[g].entry, c).place = c.place
             \/ Present(f, g) /\ MergeEntry(f[g].entry, c).place = f[g].entry.place
      <4> HIDE DEF c
      <4> QED BY <2>1, <3>1, MergeEntryPlace DEF Present
    <3>3. kept(g) = IF c.deleted THEN f[g].entry ELSE MergeEntry(f[g].entry, c)
      BY <3>1
    <3>4. F[g] = [entry |-> kept(g), dead |-> 0] \/ F[g] = Merge(f[g], c)
      BY <1>4, <2>3
    <3> HIDE DEF c, kept
    <3>5. CASE F[g] = [entry |-> kept(g), dead |-> 0]
      BY <2>1, <3>1, <3>2, <3>3, <3>5, NoneIsNotLocal DEF Present
    <3>6. CASE F[g] = Merge(f[g], c) /\ c.deleted
      BY <2>1, <3>1, <3>6, MergeSound DEF Present
    <3>7. CASE F[g] = Merge(f[g], c) /\ ~c.deleted /\ f[g].dead = 0
      BY <2>1, <3>1, <3>2, <3>7, MergeAlive, NoneIsNotLocal DEF Present
    <3>8. CASE F[g] = Merge(f[g], c) /\ ~c.deleted /\ f[g].dead # 0
      BY <2>1, <3>1, <3>8, MergeSound DEF Present
    <3> QED BY <3>4, <3>5, <3>6, <3>7, <3>8
  <2> QED BY <2>2, <2>3
<1>6. FileTold(F, R, B) /\ \A g \in Group \ B : Present(f, g) => Present(F, g)
  BY <1>3, <1>5, GroupTrashed DEF FileTold
<1> QED BY <1>6 DEF F

\* An export names the groups of the file, and of the others only deletions that were
\* wished or are known.
LEMMA ExportedTold ==
  ASSUME NEW f, WellFormed(f), NEW R, NEW B, FileTold(f, R, B)
  PROVE /\ TrashedGroups(f) \subseteq R
        /\ ExportTold(ParseExportFull(f), R, B)
        /\ \A g \in Group \ (B \cup R) :
             Present(f, g) <=> /\ ParseExportFull(f)[g] # None
                               /\ ~ParseExportFull(f)[g].content.deleted
<1> DEFINE x == ParseExportFull(f)
<1>1. TrashedGroups(f) \subseteq R
  BY DEF TrashedGroups, FileTold
<1>2. ASSUME NEW g \in Group
      PROVE /\ x[g] # None => IF x[g].content.deleted THEN g \in B \cup R
                              ELSE x[g].content.place # Bin
            /\ g \notin B \cup R => (Present(f, g) <=> x[g] # None /\ ~x[g].content.deleted)
  <2>1. f[g] \in Object
    BY DEF WellFormed, Uuid
  <2>2. x[g] = IF Trashed(f, g) THEN None ELSE Exported(f[g])
    BY ObjectAssumption DEF ParseExportFull, Uuid
  <2>3. /\ Trashed(f, g) => g \in R
        /\ Trashed(f, g) <=> Present(f, g) /\ f[g].entry.place = Bin
        /\ f[g].dead # 0 => g \in B \cup R
    BY GroupTrashed DEF FileTold
  <2> HIDE DEF x
  <2>4. CASE Trashed(f, g)
    BY <2>2, <2>3, <2>4
  <2>5. CASE ~Trashed(f, g) /\ Present(f, g)
    <3> DEFINE e == f[g].entry
               c == [deleted |-> FALSE, place |-> e.place, data |-> e.data,
                     mod |-> e.mod, loc |-> e.loc]
    <3>1. e \in Local /\ e.place # Bin
      BY <2>1, <2>3, <2>5 DEF Present, Object
    <3>2. x[g] = [content |-> c, trigger |-> laterTime(e.mod, e.loc)]
      BY <2>2, <2>5, <3>1 DEF Exported, collectTree, Present
    <3>3. c \in Content /\ laterTime(e.mod, e.loc) \in Nat
      BY <3>1 DEF Content, Local, laterTime
    <3>4. x[g] \in Exports /\ x[g].content = c
      <4> HIDE DEF c
      <4> QED BY <3>2, <3>3 DEF Exports
    <3> QED BY <2>5, <3>1, <3>4, NoneIsNotExport
  <2>6. CASE ~Trashed(f, g) /\ ~Present(f, g)
    <3>1. x[g] = IF f[g].dead # 0 THEN [content |-> Tombstone(f[g].dead),
                                        trigger |-> f[g].dead] ELSE None
      BY <2>2, <2>6 DEF Exported, Present
    <3> QED BY <2>3, <2>6, <3>1 DEF Tombstone
  <2> QED BY <2>4, <2>5, <2>6
<1> HIDE DEF x
<1>3. ExportTold(x, R, B) /\ \A g \in Group \ (B \cup R) :
        Present(f, g) <=> x[g] # None /\ ~x[g].content.deleted
  BY <1>2 DEF ExportTold
<1> QED BY <1>1, <1>3 DEF x

-----------------------------------------------------------------------------
(* Few deletions that nobody meant: the inductive invariant *)

\* Of the innocent groups I a run knows those of config.toml, or it has made those of its
\* export known and none was gone; those it is about to delete were let through.
KnownFits(r, b, I) ==
  /\ \/ r.mem.known \cap I = b.known \cap I
     \/ r.at = "entries" /\ r.mem.known \cap I = Current(r) \cap I /\ I \cap GoneOf(r, b) = {}
  /\ r.at = "doomed" => /\ I \cap GoneOf(r, b) = I \cap r.doomed
                        /\ Cardinality(I \cap GoneOf(r, b)) <= Barrier

KnownInv == \A d \in Device : KnownFits(run[d], config[d], Innocent)

FewInv == Told /\ KnownInv /\ Count

\* The sets after a step.
LEMMA NextSets ==
  /\ Innocent' = {g \in Group : g \notin buried' /\ \A d \in Device : g \notin removed'[d]}
  /\ Unmeant' = {g \in Group : g \in buried' /\ \A d \in Device : g \notin removed'[d]}
  /\ \A e \in Device : /\ Gone(e)' = Innocent' \cap GoneOf(run'[e], config'[e])
                       /\ Lost(e)' = Innocent' \cap LostOf(file'[e], run'[e], config'[e])
  /\ KnownInv' <=> \A e \in Device : KnownFits(run'[e], config'[e], Innocent')
  /\ Told' <=> /\ RowsTold(latest', buried')
               /\ \A e \in Device : /\ FileTold(file'[e], removed'[e], buried')
                                    /\ RunTold(run'[e], removed'[e], buried')
BY DEF Innocent, Unmeant, Gone, GoneOf, Lost, LostOf, Current, Pushing, Present, KnownInv,
       KnownFits, Told, RowsTold, FileTold, RunTold, ExportTold, Trashed

\* Of fewer groups.
LEMMA KnownFitsLess ==
  ASSUME NEW r, NEW b, NEW I \in SUBSET Group, NEW J \in SUBSET I, KnownFits(r, b, I)
  PROVE KnownFits(r, b, J)
<1> DEFINE G == I \cap GoneOf(r, b)
           H == J \cap GoneOf(r, b)
<1>1. IsFiniteSet(G) /\ H \subseteq G
  BY FiniteAssumption, FS_Subset
<1>2. Cardinality(H) \in Nat /\ Cardinality(G) \in Nat /\ Cardinality(H) <= Cardinality(G)
  BY <1>1, FS_Subset, FS_CardinalityType
<1>3. Cardinality(G) <= Barrier => Cardinality(H) <= Barrier
  BY <1>2, BarrierType
<1> QED BY <1>3 DEF KnownFits

\* A step of one device, whatever its user and the server learn.
Alone(d) ==
  /\ \A e \in Device \ {d} : /\ file'[e] = file[e] /\ run'[e] = run[e]
                             /\ config'[e] = config[e]
  /\ buried \subseteq buried'
  /\ \A e \in Device : removed[e] \subseteq removed'[e]

LEMMA AloneKeeps ==
  ASSUME NEW d \in Device, Alone(d)
  PROVE /\ Innocent' \subseteq Innocent /\ Innocent \subseteq Group
        /\ OthersKeep(d)
        /\ buried' = buried => Unmeant' \subseteq Unmeant
<1>1. Innocent' \subseteq Innocent /\ Innocent \subseteq Group
  BY NextSets DEF Alone, Innocent
<1>2. OthersKeep(d)
  BY <1>1, NextSets DEF Alone, OthersKeep, Gone, Lost
<1>3. buried' = buried => Unmeant' \subseteq Unmeant
  BY NextSets DEF Alone, Unmeant
<1> QED BY <1>1, <1>2, <1>3

\* What is told stays told when more was removed or buried.
LEMMA ToldMore ==
  ASSUME NEW f, NEW r, NEW R, NEW B, NEW S, NEW C, R \subseteq S, B \subseteq C
  PROVE /\ FileTold(f, R, B) => FileTold(f, S, C)
        /\ RunTold(r, R, B) => RunTold(r, S, C)
BY DEF FileTold, RunTold, ExportTold

\* The invariant after a step of one device, from what it means for that device.
LEMMA FewStep ==
  ASSUME FewInv, NEW d \in Device, Alone(d), RowsTold(latest', buried'),
         FileTold(file'[d], removed'[d], buried'), RunTold(run'[d], removed'[d], buried'),
         KnownFits(run'[d], config'[d], Innocent'), Count'
  PROVE FewInv'
<1>1. Told'
  <2>1. ASSUME NEW e \in Device \ {d}
        PROVE /\ FileTold(file'[e], removed'[e], buried')
              /\ RunTold(run'[e], removed'[e], buried')
    <3>1. file'[e] = file[e] /\ run'[e] = run[e] /\ removed[e] \subseteq removed'[e]
          /\ buried \subseteq buried'
      BY DEF Alone
    <3>2. FileTold(file[e], removed[e], buried) /\ RunTold(run[e], removed[e], buried)
      BY DEF FewInv, Told
    <3> QED BY <3>1, <3>2, ToldMore
  <2> QED BY <2>1, NextSets
<1>2. KnownInv'
  <2>1. ASSUME NEW e \in Device \ {d}
        PROVE KnownFits(run'[e], config'[e], Innocent')
    <3>1. run'[e] = run[e] /\ config'[e] = config[e]
      BY DEF Alone
    <3>2. KnownFits(run[e], config[e], Innocent)
      BY DEF FewInv, KnownInv
    <3> QED BY <3>1, <3>2, AloneKeeps, KnownFitsLess
  <2> QED BY <2>1, NextSets
<1> QED BY <1>1, <1>2 DEF FewInv

-----------------------------------------------------------------------------
(* Few deletions that nobody meant: steps of users *)

\* A user puts file f in the place of the device's: one that has lost no group but those
\* the user removed, or for which a lost file is charged.
LEMMA ChangeFew ==
  ASSUME Inv, Inv', FewInv, NEW d \in Device, NEW what, NEW f, Change(d, what, f),
         \A e \in Device : removed[e] \subseteq removed'[e],
         FileTold(f, removed'[d], buried),
         \/ what # "lose" /\ \A g \in Innocent' : Present(file[d], g) => Present(f, g)
         \/ what = "lose" /\ removed' = removed
  PROVE FewInv'
<1>1. /\ file' = [file EXCEPT ![d] = f] /\ UNCHANGED <<latest, buried, run, config>>
      /\ losses' = IF what = "lose" THEN losses + 1 ELSE losses
      /\ losses \in Nat /\ file'[d] = f
  BY DEF Change, server, Inv, UserInv
<1>2. Alone(d)
  BY <1>1 DEF Alone, Inv, UserInv
<1>3. /\ RowsTold(latest', buried') /\ FileTold(file'[d], removed'[d], buried')
  BY <1>1 DEF FewInv, Told
<1>4. RunTold(run'[d], removed'[d], buried')
  <2>1. RunTold(run[d], removed[d], buried) /\ removed[d] \subseteq removed'[d]
    BY DEF FewInv, Told
  <2> QED BY <1>1, <2>1, ToldMore
<1>5. KnownFits(run'[d], config'[d], Innocent')
  <2>1. KnownFits(run[d], config[d], Innocent)
    BY DEF FewInv, KnownInv
  <2> QED BY <1>1, <1>2, <2>1, AloneKeeps, KnownFitsLess
<1>6. Gone(d)' \subseteq Gone(d) /\ Unmeant' \subseteq Unmeant
  BY <1>1, <1>2, AloneKeeps, NextSets DEF Gone
<1>7. CASE what # "lose" /\ \A g \in Innocent' : Present(file[d], g) => Present(f, g)
  <2>1. Lost(d)' \subseteq Lost(d)
    BY <1>1, <1>2, <1>7, AloneKeeps, NextSets DEF Lost, LostOf
  <2>2. losses' = losses
    BY <1>1, <1>7
  <2>3. Count'
    BY <1>1, <1>2, <1>6, <2>1, <2>2, AloneKeeps, CountKept DEF FewInv
  <2> QED BY <1>2, <1>3, <1>4, <1>5, <2>3, FewStep
<1>8. CASE what = "lose" /\ removed' = removed
  <2> DEFINE u == Cardinality(Unmeant)
             un == Cardinality(Unmeant')
             g == Least(Cardinality(Gone(d)))
             gn == Least(Cardinality(Gone(d)'))
             l == Least(Cardinality(Lost(d)))
             ln == Least(Cardinality(Lost(d)'))
  <2>1. u \in Nat /\ un \in Nat /\ un <= u
    BY <1>6, SetSizes, SetSizesNext, FS_Subset
  <2>2. g \in Nat /\ gn \in Nat /\ l \in Nat /\ ln \in Nat /\ ln <= Barrier
    BY SetSizes, SetSizesNext, BarrierType DEF Least
  <2>3. gn <= g
    BY <1>6, SetSizes, LeastOfSubset
  <2>4. un + gn + ln <= u + g + l + 1 * Barrier
    <3>1. 1 * Barrier = Barrier
      BY BarrierType
    <3> HIDE DEF u, un, g, gn, l, ln
    <3> QED BY <2>1, <2>2, <2>3, <3>1, BarrierType
  <2>5. losses' = losses + 1 /\ losses' \in Nat
    BY <1>1, <1>8
  <2>6. Count'
    <3>1. Count /\ losses \in Nat /\ OthersKeep(d)
      BY <1>1, <1>2, AloneKeeps DEF FewInv
    <3> QED BY <2>4, <2>5, <3>1, CountStep
  <2> QED BY <1>2, <1>3, <1>4, <1>5, <2>6, FewStep
<1> QED BY <1>7, <1>8

\* A move tells of no more than where it goes.
LEMMA MovedTold ==
  ASSUME NEW f, WellFormed(f), NEW o \in Uuid, Present(f, o), NEW p \in Place, NEW t \in Nat,
         o \in Group => p \notin Group, p \in Group => Present(f, p),
         NEW R, NEW B, FileTold(f, R, B), o \in Group /\ p = Bin => o \in R
  PROVE /\ FileTold(MovedTo(f, o, p, t), R, B)
        /\ \A g \in Group : Present(f, g) => Present(MovedTo(f, o, p, t), g)
<1> DEFINE e == [f[o].entry EXCEPT !.place = p, !.loc = t]
           h == [f EXCEPT ![o] = [f[o] EXCEPT !.entry = e]]
<1>1. f[o] \in Object /\ f \in [Uuid -> Object]
  BY DEF WellFormed
<1>2. e \in Local /\ e.place = p
  BY <1>1 DEF Present, Object, Local
<1>3. MovedTo(f, o, p, t) = h
  BY <1>1 DEF MovedTo, Present, Object
<1> HIDE DEF e
<1>4. WellFormed(h)
  <2>1. WellFormed(MovedTo(f, o, p, t))
    BY MovedWellFormed
  <2> HIDE DEF h
  <2> QED BY <1>3, <2>1
<1>5. \A x \in Uuid : /\ Present(h, x) <=> Present(f, x)
                      /\ h[x].dead = f[x].dead
                      /\ Present(h, x) => h[x].entry.place = IF x = o THEN p ELSE f[x].entry.place
  BY <1>1, <1>2, NoneIsNotLocal DEF Present, Object
<1> HIDE DEF h
<1>6. FileTold(h, R, B)
  <2>1. ASSUME NEW g \in Group
        PROVE (Trashed(h, g) => g \in R) /\ (h[g].dead # 0 => g \in B \cup R)
    <3>1. /\ Trashed(h, g) <=> Present(h, g) /\ h[g].entry.place = Bin
          /\ Trashed(f, g) <=> Present(f, g) /\ f[g].entry.place = Bin
      BY <1>4, GroupTrashed
    <3>2. (Trashed(f, g) => g \in R) /\ (f[g].dead # 0 => g \in B \cup R)
      BY DEF FileTold
    <3> QED BY <1>5, <3>1, <3>2 DEF Uuid
  <2> QED BY <2>1 DEF FileTold
<1> QED BY <1>3, <1>5, <1>6 DEF Uuid

LEMMA UserParts ==
  ASSUME Inv, FewInv, NEW d \in Device
  PROVE /\ WellFormed(file[d]) /\ FileTold(file[d], removed[d], buried)
        /\ clock \in Nat /\ removed \in [Device -> SUBSET Group]
BY DEF Inv, UserInv, FewInv, Told

LEMMA RenameFew ==
  ASSUME Inv, Inv', FewInv, NEW d \in Device, NEW g \in Group, Rename(d, g)
  PROVE FewInv'
<1> DEFINE e == [file[d][g].entry EXCEPT !.mod = clock + 1]
           f == [file[d] EXCEPT ![g] = [file[d][g] EXCEPT !.entry = e]]
<1>1. /\ g \in Uuid /\ file[d] \in [Uuid -> Object] /\ Present(file[d], g) /\ clock \in Nat
      /\ WellFormed(file[d]) /\ FileTold(file[d], removed[d], buried) /\ file[d][g] \in Object
  BY UserParts DEF WellFormed, Rename, Tree, Uuid
<1>2. e \in Local /\ e.place = file[d][g].entry.place
  BY <1>1 DEF Present, Object, Local
<1>3. Change(d, "rename", f) /\ removed' = removed
  BY DEF Rename
<1> HIDE DEF e
<1>4. \A x \in Uuid : /\ Present(f, x) <=> Present(file[d], x)
                      /\ f[x].dead = file[d][x].dead
                      /\ Present(f, x) => f[x].entry.place = file[d][x].entry.place
  BY <1>1, <1>2, NoneIsNotLocal DEF Present, Object
<1> HIDE DEF f
<1>5. WellFormed(f)
  <2>1. file' = [file EXCEPT ![d] = f] /\ WellFormed(file'[d])
    BY <1>3 DEF Change, Inv, UserInv
  <2> QED BY <2>1 DEF Inv, UserInv
<1>6. FileTold(f, removed[d], buried)
  <2>1. ASSUME NEW h \in Group
        PROVE /\ Trashed(f, h) => h \in removed[d]
              /\ f[h].dead # 0 => h \in buried \cup removed[d]
    <3>1. /\ Trashed(f, h) <=> Present(f, h) /\ f[h].entry.place = Bin
          /\ Trashed(file[d], h) <=> Present(file[d], h) /\ file[d][h].entry.place = Bin
      BY <1>1, <1>5, GroupTrashed
    <3>2. /\ Trashed(file[d], h) => h \in removed[d]
          /\ file[d][h].dead # 0 => h \in buried \cup removed[d]
      BY <1>1 DEF FileTold
    <3> QED BY <1>4, <3>1, <3>2 DEF Uuid
  <2> QED BY <2>1 DEF FileTold
<1>7. \A h \in Innocent' : Present(file[d], h) => Present(f, h)
  BY <1>4, NextSets DEF Uuid
<1> QED BY <1>3, <1>6, <1>7, ChangeFew

LEMMA TrashFew ==
  ASSUME Inv, Inv', FewInv, NEW d \in Device, NEW g \in Group, Trash(d, g)
  PROVE FewInv'
<1> DEFINE f == MovedTo(file[d], g, Bin, clock + 1)
<1>1. Change(d, "trash", f)
  BY RelocateFile DEF Trash
<1>2. /\ \A e \in Device : removed[e] \subseteq removed'[e]
      /\ removed[d] \subseteq removed'[d] /\ g \in removed'[d]
  BY UserParts DEF Trash
<1>3. FileTold(file[d], removed'[d], buried)
  BY <1>2, UserParts, ToldMore
<1>4. FileTold(f, removed'[d], buried) /\ \A h \in Group : Present(file[d], h) => Present(f, h)
  <2>1. /\ g \in Uuid /\ Present(file[d], g) /\ Bin \in Place /\ clock + 1 \in Nat
        /\ Bin \notin Group
    BY UserParts, Disjoint DEF Trash, Tree, Uuid, Place
  <2> QED BY <1>2, <1>3, <2>1, UserParts, MovedTold
<1> HIDE DEF f
<1> QED BY <1>1, <1>2, <1>4, NextSets, ChangeFew

LEMMA RestoreFew ==
  ASSUME Inv, Inv', FewInv, NEW d \in Device, NEW g \in Group, Restore(d, g)
  PROVE FewInv'
<1> DEFINE f == MovedTo(file[d], g, Root, clock + 1)
<1>1. Change(d, "restore", f) /\ removed' = removed
  BY RelocateFile DEF Restore
<1>2. FileTold(f, removed[d], buried) /\ \A h \in Group : Present(file[d], h) => Present(f, h)
  <2>1. /\ g \in Uuid /\ Present(file[d], g) /\ Root \in Place /\ clock + 1 \in Nat
        /\ Root \notin Group /\ Root # Bin
    BY UserParts, Disjoint, FolderAssumption DEF Restore, TrashedGroups, Trashed, Uuid, Place
  <2> QED BY <2>1, UserParts, MovedTold
<1> HIDE DEF f
<1> QED BY <1>1, <1>2, NextSets, ChangeFew

LEMMA MoveFew ==
  ASSUME Inv, Inv', FewInv, NEW d \in Device, NEW e \in Entry, NEW p \in Folder, Move(d, e, p)
  PROVE FewInv'
<1> DEFINE f == MovedTo(file[d], e, p, clock + 1)
<1>1. Change(d, "move", f) /\ removed' = removed
  BY RelocateFile DEF Move
<1>2. FileTold(f, removed[d], buried) /\ \A h \in Group : Present(file[d], h) => Present(f, h)
  <2>1. /\ e \in Uuid /\ e \notin Group /\ Present(file[d], e) /\ p \in Place /\ clock + 1 \in Nat
        /\ p \in Group => Present(file[d], p)
    BY UserParts, ObjectAssumption, Disjoint DEF Move, Tree, Uuid, Place
  <2> QED BY <2>1, UserParts, MovedTold
<1> HIDE DEF f
<1> QED BY <1>1, <1>2, NextSets, ChangeFew

\* What the bin held was removed by this user.
LEMMA EmptyBinFew ==
  ASSUME Inv, Inv', FewInv, NEW d \in Device, EmptyBin(d)
  PROVE FewInv'
<1> DEFINE f == [o \in Uuid |-> IF Trashed(file[d], o) THEN [entry |-> None, dead |-> clock + 1]
                                ELSE file[d][o]]
<1>1. Change(d, "empty", f) /\ removed' = removed
  BY DEF EmptyBin
<1>2. WellFormed(f)
  <2> HIDE DEF f
  <2>1. file' = [file EXCEPT ![d] = f] /\ WellFormed(file'[d])
    BY <1>1 DEF Change, Inv, UserInv
  <2> QED BY <2>1 DEF Inv, UserInv
<1>3. ASSUME NEW g \in Group
      PROVE /\ Trashed(f, g) => g \in removed[d]
            /\ f[g].dead # 0 => g \in buried \cup removed[d]
            /\ g \notin removed[d] /\ Present(file[d], g) => Present(f, g)
  <2>1. /\ Trashed(file[d], g) => g \in removed[d]
        /\ file[d][g].dead # 0 => g \in buried \cup removed[d]
        /\ Trashed(file[d], g) <=> Present(file[d], g) /\ file[d][g].entry.place = Bin
    BY UserParts, GroupTrashed DEF FileTold
  <2>2. f[g] = IF Trashed(file[d], g) THEN [entry |-> None, dead |-> clock + 1] ELSE file[d][g]
    BY DEF Uuid
  <2> HIDE DEF f
  <2>3. Trashed(f, g) <=> Present(f, g) /\ f[g].entry.place = Bin
    BY <1>2, GroupTrashed
  <2> QED BY <2>1, <2>2, <2>3 DEF Present
<1> HIDE DEF f
<1>4. FileTold(f, removed[d], buried) /\ \A g \in Innocent' : Present(file[d], g) => Present(f, g)
  BY <1>1, <1>3, NextSets DEF FileTold
<1> QED BY <1>1, <1>4, ChangeFew

\* A file that lost groups says nothing of them.
LEMMA LoseFew ==
  ASSUME Inv, Inv', FewInv, NEW d \in Device, Lose(d)
  PROVE FewInv'
<1> DEFINE f(gs) == [o \in Uuid |->
         IF o \in gs \/ (Present(file[d], o) /\ file[d][o].entry.place \in gs)
         THEN [entry |-> None, dead |-> 0] ELSE file[d][o]]
<1>1. PICK gs \in SUBSET Tree(file[d]) \ {{}} : Change(d, "lose", f(gs))
  BY DEF Lose
<1>2. removed' = removed
  BY DEF Lose
<1>3. WellFormed(f(gs))
  <2> HIDE DEF f
  <2>1. file' = [file EXCEPT ![d] = f(gs)] /\ WellFormed(file'[d])
    BY <1>1 DEF Change, Inv, UserInv
  <2> QED BY <2>1 DEF Inv, UserInv
<1>4. ASSUME NEW g \in Group
      PROVE /\ Trashed(f(gs), g) => g \in removed[d]
            /\ f(gs)[g].dead # 0 => g \in buried \cup removed[d]
  <2>1. /\ Trashed(file[d], g) => g \in removed[d]
        /\ file[d][g].dead # 0 => g \in buried \cup removed[d]
        /\ Trashed(file[d], g) <=> Present(file[d], g) /\ file[d][g].entry.place = Bin
    BY UserParts, GroupTrashed DEF FileTold
  <2>2. f(gs)[g] = [entry |-> None, dead |-> 0] \/ f(gs)[g] = file[d][g]
    BY DEF Uuid
  <2> HIDE DEF f
  <2>3. Trashed(f(gs), g) <=> Present(f(gs), g) /\ f(gs)[g].entry.place = Bin
    BY <1>3, GroupTrashed
  <2> QED BY <2>1, <2>2, <2>3 DEF Present
<1> HIDE DEF f
<1>5. FileTold(f(gs), removed[d], buried)
  BY <1>4 DEF FileTold
<1> QED BY <1>1, <1>2, <1>5, ChangeFew

LEMMA UserStepFew ==
  ASSUME Inv, FewInv, NEW d \in Device, UserStep(d)
  PROVE FewInv'
<1>1. Inv'
  BY UserStepInv
<1> QED BY <1>1, RenameFew, TrashFew, RestoreFew, MoveFew, EmptyBinFew, LoseFew DEF UserStep

-----------------------------------------------------------------------------
(* Few deletions that nobody meant: steps of runs *)

LEMMA RunKnown ==
  ASSUME FewInv, NEW d \in Device
  PROVE /\ KnownFits(run[d], config[d], Innocent)
        /\ RunTold(run[d], removed[d], buried) /\ FileTold(file[d], removed[d], buried)
        /\ RowsTold(latest, buried)
        /\ Count
BY DEF FewInv, KnownInv, Told

\* A run goes on with r and leaves binding b, and nothing else happens.
LEMMA QuietFew ==
  ASSUME Inv, FewInv, NEW d \in Device, UNCHANGED <<server, user, file>>,
         NEW r, run' = [run EXCEPT ![d] = r], NEW b, config' = [config EXCEPT ![d] = b],
         RunTold(r, removed[d], buried), KnownFits(r, b, Innocent),
         LET G == Innocent \cap GoneOf(r, b)
             L == Innocent \cap LostOf(file[d], r, b)
         IN \/ G \subseteq Gone(d) /\ L \subseteq Lost(d)
            \/ G = {} /\ L \subseteq Gone(d) \cup Lost(d)
            \/ L = {} /\ G \subseteq Gone(d) \cup Lost(d)
  PROVE FewInv'
<1>1. /\ removed' = removed /\ buried' = buried /\ latest' = latest /\ file' = file
      /\ losses' = losses /\ losses \in Nat
      /\ run \in [Device -> Runs] /\ config \in [Device -> Binding]
  BY DEF server, user, Inv, UserInv, RunInv
<1>2. /\ run'[d] = r /\ config'[d] = b
      /\ \A e \in Device \ {d} : run'[e] = run[e] /\ config'[e] = config[e]
  BY <1>1
<1>3. Alone(d)
  BY <1>1, <1>2 DEF Alone
<1>4. Innocent' = Innocent /\ Unmeant' = Unmeant
  BY <1>1, NextSets DEF Innocent, Unmeant
<1>5. /\ Gone(d)' = Innocent \cap GoneOf(r, b)
      /\ Lost(d)' = Innocent \cap LostOf(file[d], r, b)
  BY <1>1, <1>2, <1>4, NextSets
<1>6. Count'
  BY <1>1, <1>3, <1>4, <1>5, AloneKeeps, CountKept, RunKnown
<1> QED BY <1>1, <1>2, <1>3, <1>4, <1>6, RunKnown, FewStep

\* The end of a run that leaves binding b.
LEMMA EndFits ==
  ASSUME NEW b, NEW I
  PROVE /\ KnownFits(NoRun(b), b, I) /\ GoneOf(NoRun(b), b) = {}
        /\ \A f : LostOf(f, NoRun(b), b) = {g \in b.known : ~Present(f, g)}
        /\ \A R, B : RunTold(NoRun(b), R, B)
<1>1. NoRun(b).at = "idle" /\ NoRun(b).mem = b /\ NoRun(b).trashed = {}
      /\ \A g \in Group : NoRun(b).exported[g] = None
  BY DEF NoRun, NoExport, Uuid
<1>2. ~Pushing(NoRun(b))
  BY <1>1 DEF Pushing
<1> QED BY <1>1, <1>2 DEF KnownFits, GoneOf, LostOf, RunTold, ExportTold

LEMMA SaveFew ==
  ASSUME Inv, FewInv, NEW d \in Device, SaveBinding(d), UNCHANGED <<server, user, file>>
  PROVE FewInv'
<1> DEFINE b == run[d].mem
           r == NoRun(b)
<1>1. run' = [run EXCEPT ![d] = r] /\ config' = [config EXCEPT ![d] = b]
  BY DEF SaveBinding
<1>2. \/ b.known \cap Innocent = config[d].known \cap Innocent
      \/ b.known \cap Innocent = Current(run[d]) \cap Innocent /\ Pushing(run[d])
  BY RunKnown DEF KnownFits, Pushing
<1> HIDE DEF b
<1>3. Innocent \cap LostOf(file[d], r, b) \subseteq Gone(d) \cup Lost(d)
  BY <1>2, EndFits DEF LostOf, Gone, GoneOf, Lost
<1> QED BY <1>1, <1>3, EndFits, QuietFew

LEMMA InterruptFew ==
  ASSUME Inv, FewInv, NEW d \in Device, Interrupt(d), UNCHANGED <<server, user, file>>
  PROVE FewInv'
<1> DEFINE b == config[d]
           r == NoRun(b)
<1>1. run' = [run EXCEPT ![d] = r] /\ config' = [config EXCEPT ![d] = b]
  BY DEF Interrupt, Inv, RunInv
<1> HIDE DEF b
<1>2. Innocent \cap LostOf(file[d], r, b) \subseteq Gone(d) \cup Lost(d)
  BY EndFits DEF LostOf, Gone, GoneOf, Lost, b
<1> QED BY <1>1, <1>2, EndFits, QuietFew

\* What the file has lost is what the export lacks.
LEMMA PushChangesFew ==
  ASSUME Inv, FewInv, NEW d \in Device, pushChanges(d)
  PROVE FewInv'
<1> DEFINE r == [run[d] EXCEPT !.at = "groups", !.exported = ParseExportFull(file[d]),
                               !.trashed = TrashedGroups(file[d])]
           b == config[d]
<1>1. /\ RunInv /\ WellFormed(file[d]) /\ run[d].at \in {"idle", "export"}
      /\ FileTold(file[d], removed[d], buried)
  BY RunKnown DEF Inv, UserInv, pushChanges
<1>2. /\ run' = [run EXCEPT ![d] = r] /\ config' = [config EXCEPT ![d] = b]
      /\ UNCHANGED <<server, user, file>>
  BY <1>1 DEF pushChanges, RunInv
<1>3. /\ r.at = "groups" /\ r.exported = ParseExportFull(file[d]) /\ r.mem = run[d].mem
      /\ r.trashed = TrashedGroups(file[d])
  BY <1>1, RunParts DEF Runs
<1> HIDE DEF r
<1>4. RunTold(r, removed[d], buried)
  BY <1>1, <1>3, ExportedTold DEF RunTold
<1>5. \A g \in Innocent : g \in Current(r) <=> Present(file[d], g)
  <2>1. \A g \in Innocent : g \in Group \ (buried \cup removed[d])
    BY DEF Innocent
  <2> QED BY <1>1, <1>3, <2>1, ExportedTold DEF Current
<1>6. KnownFits(r, b, Innocent)
  BY <1>1, <1>3, RunKnown DEF KnownFits
<1>7. Pushing(r) /\ ~Pushing(run[d])
  BY <1>1, <1>3 DEF Pushing
<1>8. /\ Innocent \cap LostOf(file[d], r, b) = {}
      /\ Innocent \cap GoneOf(r, b) \subseteq Lost(d)
  BY <1>5, <1>7 DEF LostOf, GoneOf, Lost
<1> HIDE DEF b
<1> QED BY <1>2, <1>4, <1>6, <1>8, QuietFew

\* The barrier: a push that goes on to delete groups was let through, one that is not
\* deletes none.
LEMMA FindDoomedFew ==
  ASSUME Inv, FewInv, NEW d \in Device, FindDoomed(d)
  PROVE FewInv'
<1> DEFINE m == [run[d].mem EXCEPT !.known = CurrentGroups(d)]
           r1 == [run[d] EXCEPT !.at = "entries"]
           r2 == [run[d] EXCEPT !.at = "entries", !.mem = m]
           r3 == [run[d] EXCEPT !.at = "doomed", !.doomed = doomedGroups(d)]
           b == config[d]
<1>1. RunInv /\ run[d].at = "groups" /\ CurrentGroups(d) = Current(run[d])
  BY DEF Inv, FindDoomed, CurrentGroups, Current
<1>2. /\ m.known = CurrentGroups(d) /\ KnowGroups(d, run[d]) = r2
  BY <1>1, RunParts DEF Binding, KnowGroups, Runs
<1>3. /\ config' = [config EXCEPT ![d] = b] /\ UNCHANGED <<server, user, file>>
      /\ \/ run' = [run EXCEPT ![d] = r1]
         \/ run' = [run EXCEPT ![d] = r2] /\ doomedGroups(d) = {}
         \/ run' = [run EXCEPT ![d] = r3] /\ ~Refuses(d)
  <2>1. run' = [run EXCEPT ![d] = IF Refuses(d) THEN r1
                                  ELSE IF doomedGroups(d) = {} THEN r2 ELSE r3]
    BY <1>1, <1>2 DEF FindDoomed, RunInv
  <2> HIDE DEF r1, r2, r3
  <2> QED BY <1>1, <2>1 DEF FindDoomed, RunInv
<1>4. /\ r1.at = "entries" /\ r1.mem = run[d].mem /\ r1.exported = run[d].exported
      /\ r2.at = "entries" /\ r2.mem = m /\ r2.exported = run[d].exported
      /\ r3.at = "doomed" /\ r3.mem = run[d].mem /\ r3.exported = run[d].exported
      /\ r1.trashed = run[d].trashed /\ r2.trashed = run[d].trashed
      /\ r3.trashed = run[d].trashed /\ r3.doomed = doomedGroups(d)
  BY <1>1, RunParts DEF Runs
<1> HIDE DEF m, r1, r2, r3, b
<1>5. /\ RunTold(r1, removed[d], buried) /\ RunTold(r2, removed[d], buried)
      /\ RunTold(r3, removed[d], buried)
  BY <1>4, RunKnown DEF RunTold
<1>6. ASSUME NEW r \in {r1, r2, r3}
      PROVE /\ Innocent \cap GoneOf(r, b) = Gone(d)
            /\ Innocent \cap LostOf(file[d], r, b) = Lost(d)
            /\ Current(r) = CurrentGroups(d)
  <2>1. Current(r) = Current(run[d]) /\ Pushing(r) /\ Pushing(run[d])
    BY <1>1, <1>4 DEF Current, Pushing
  <2> QED BY <1>1, <2>1 DEF Gone, GoneOf, Lost, LostOf, b
<1>7. run[d].mem.known \cap Innocent = b.known \cap Innocent
  BY <1>1, RunKnown DEF KnownFits, b
<1>8. Gone(d) = Innocent \cap doomedGroups(d)
  BY <1>1, <1>7 DEF Gone, GoneOf, Pushing, doomedGroups, b
<1>9. KnownFits(r1, b, Innocent)
  BY <1>4, <1>7 DEF KnownFits
<1>10. doomedGroups(d) = {} => KnownFits(r2, b, Innocent)
  BY <1>2, <1>4, <1>6, <1>8 DEF KnownFits
<1>11. ~Refuses(d) => KnownFits(r3, b, Innocent)
  <2>1. Gone(d) \subseteq unexplained(d)
    BY <1>8, RunKnown DEF unexplained, RunTold, Innocent
  <2>2. IsFiniteSet(unexplained(d)) /\ IsFiniteSet(run[d].mem.known)
        /\ Cardinality(run[d].mem.known) <= Cardinality(Group)
    <3>1. unexplained(d) \in SUBSET Group /\ run[d].mem.known \in SUBSET Group
      BY <1>1, RunParts DEF unexplained, doomedGroups
    <3> QED BY <3>1, FiniteAssumption, FS_Subset
  <2>3. /\ Cardinality(unexplained(d)) \in Nat /\ Cardinality(run[d].mem.known) \in Nat
        /\ Cardinality(Gone(d)) \in Nat
        /\ Cardinality(Gone(d)) <= Cardinality(unexplained(d))
    BY <2>1, <2>2, SetSizes, FS_Subset, FS_CardinalityType
  <2>4. ASSUME ~Refuses(d) PROVE Cardinality(Gone(d)) <= Barrier
    <3>1. Cardinality(unexplained(d)) <= Barrier
      BY <2>2, <2>3, <2>4, BarrierHolds DEF Refuses
    <3> QED BY <2>3, <3>1, BarrierType
  <2> QED BY <1>4, <1>6, <1>7, <1>8, <2>4 DEF KnownFits
<1> QED BY <1>3, <1>5, <1>6, <1>9, <1>10, <1>11, QuietFew

\* A pull brings back what the server still has, and forgets only what it has not.
LEMMA PullFew ==
  ASSUME Inv, FewInv, NEW d \in Device, pullChanges(d)
  PROVE FewInv'
<1> DEFINE rows == [o \in Uuid |-> IF latest[o] # None /\ latest[o].seq > run[d].mem.lastSeq
                                   THEN latest[o] ELSE None]
           gone == {o \in Uuid : rows[o] # None /\ rows[o].content.deleted}
           states == [o \in Uuid |-> IF rows[o] = None THEN run[d].mem.states[o]
                        ELSE laterTime(run[d].mem.states[o], rows[o].content.mod)]
           m == [lastSeq |-> seq, states |-> states, known |-> run[d].mem.known \ gone]
           r(next) == [run[d] EXCEPT !.at = next, !.mem = m]
           F == MergeFile(file[d], rows)
<1>1. Inv /\ UserInv /\ ServerInv /\ RunInv /\ run[d].at = "idle" /\ WellFormed(file[d])
  BY DEF Inv, UserInv, pullChanges
<1>2. WellPlaced(rows) /\ RowsTold(rows, buried)
  BY <1>1, RunKnown DEF ServerInv, WellPlaced, RowsTold, Uuid
<1>3. PICK next \in {"export", "save"} : run' = [run EXCEPT ![d] = r(next)]
  <2>1. PICK next \in {"export", "save"} : run' = [run EXCEPT
             ![d].at = next,
             ![d].mem = [
               lastSeq |-> seq,
               states |-> [o \in Uuid |-> IF rows[o] = None THEN @.states[o]
                             ELSE laterTime(@.states[o], rows[o].content.mod)],
               known |-> pruneKnownGroups(@.known, gone)]]
    BY DEF pullChanges
  <2> HIDE DEF rows, gone
  <2>2. run' = [run EXCEPT ![d] = r(next)]
    BY <1>1, <2>1, RunParts DEF pruneKnownGroups, RunInv, Runs, Binding
  <2> QED BY <2>2
<1>4. file' = [file EXCEPT ![d] = F] /\ UNCHANGED <<latest, buried, removed, losses, config>>
  BY DEF pullChanges, server, user
<1>5. \A g \in Innocent : g \notin gone
  BY <1>2 DEF RowsTold, Innocent
<1> HIDE DEF rows, gone, states
<1>6. r(next).at = next /\ r(next).mem = m /\ r(next).exported = run[d].exported
      /\ r(next).trashed = run[d].trashed
  BY <1>1, RunParts DEF Runs
<1>7. m.known = run[d].mem.known \ gone
  OBVIOUS
<1> HIDE DEF r, m
<1>8. FileTold(F, removed[d], buried) /\ \A g \in Group \ buried :
        Present(file[d], g) => Present(F, g)
  BY <1>1, <1>2, RunKnown, MergeFileTold
<1> HIDE DEF F
<1>9. /\ file'[d] = F /\ run'[d] = r(next) /\ config'[d] = config[d]
      /\ \A e \in Device \ {d} : file'[e] = file[e] /\ run'[e] = run[e]
  BY <1>1, <1>3, <1>4 DEF UserInv, RunInv
<1>10. Alone(d)
  BY <1>4, <1>9 DEF Alone
<1>11. Innocent' = Innocent /\ Unmeant' = Unmeant
  BY <1>4, NextSets DEF Innocent, Unmeant
<1>12. RunTold(r(next), removed[d], buried)
  BY <1>6, RunKnown DEF RunTold
<1>13. KnownFits(r(next), config[d], Innocent)
  BY <1>1, <1>3, <1>5, <1>6, <1>7, RunKnown DEF KnownFits
<1>14. ~Pushing(run[d]) /\ ~Pushing(r(next))
  BY <1>1, <1>3, <1>6 DEF Pushing
<1>15. Gone(d)' = {} /\ Lost(d)' \subseteq Lost(d)
  BY <1>8, <1>9, <1>11, <1>14, NextSets DEF GoneOf, Lost, LostOf, Innocent
<1>16. Count'
  <2>1. losses \in Nat
    BY <1>1 DEF UserInv
  <2> QED BY <1>4, <1>10, <1>11, <1>15, <2>1, AloneKeeps, CountKept, RunKnown
<1> QED BY <1>4, <1>8, <1>9, <1>10, <1>11, <1>12, <1>13, <1>16, RunKnown, FewStep

\* The rows after a write that is told.
LEMMA WriteTold ==
  ASSUME Inv, FewInv, NEW o \in Uuid, NEW c, Write(o, c),
         o \in Group /\ ~c.deleted => c.place # Bin
  PROVE RowsTold(latest', buried')
<1> DEFINE v == [uuid |-> o, content |-> c, seq |-> seq + 1]
<1>1. latest' = [latest EXCEPT ![o] = v] /\ latest \in [Uuid -> Store!Version \cup {None}]
  BY DEF Write, Store!Write, Inv, ServerInv, WellPlaced
<1>2. v.content = c
  OBVIOUS
<1> HIDE DEF v
<1>3. buried' = IF c.deleted THEN buried \cup {o} ELSE buried
  BY DEF Write
<1> QED BY <1>1, <1>2, <1>3, RunKnown DEF RowsTold, Uuid, FewInv, Told

\* A write of what was exported deletes no group that was not removed.
LEMMA PushFew ==
  ASSUME Inv, FewInv, NEW d \in Device, NEW o \in Uuid, run[d].exported[o] # None,
         Push(d, o)
  PROVE FewInv'
<1> DEFINE x == run[d].exported[o]
           c == x.content
           m == RecordEntryState(run[d].mem, o, x.trigger)
           r == [run[d] EXCEPT !.mem = m]
<1>1. RunInv /\ ServerInv /\ x \in Exports /\ losses \in Nat
  BY RunParts DEF Inv, UserInv
<1>2. m.known = run[d].mem.known
  BY DEF RecordEntryState
<1>3. run' = [run EXCEPT ![d] = r] /\ UNCHANGED <<file, config, removed, losses>>
  BY <1>1 DEF Push, RunInv, user
<1> HIDE DEF m
<1>4. r.at = run[d].at /\ r.mem = m /\ r.exported = run[d].exported
      /\ r.trashed = run[d].trashed /\ r.doomed = run[d].doomed
  BY <1>1, RunParts DEF Runs
<1> HIDE DEF r
<1>5. o \in Group => IF c.deleted THEN o \in buried \cup removed[d] ELSE c.place # Bin
  BY RunKnown DEF RunTold, ExportTold
<1>6. Write(o, c) /\ buried' = IF c.deleted THEN buried \cup {o} ELSE buried
  BY DEF Push, Write
<1> HIDE DEF c, x
<1>7. RowsTold(latest', buried')
  BY <1>5, <1>6, WriteTold
<1>8. /\ file'[d] = file[d] /\ run'[d] = r /\ config'[d] = config[d]
      /\ \A e \in Device \ {d} : run'[e] = run[e]
  BY <1>1, <1>3 DEF RunInv
<1>9. Alone(d)
  BY <1>3, <1>6, <1>8 DEF Alone
<1>10. Innocent' = Innocent /\ Unmeant' \subseteq Unmeant
  BY <1>3, <1>5, <1>6, NextSets DEF Innocent, Unmeant
<1>11. /\ FileTold(file'[d], removed'[d], buried') /\ RunTold(run'[d], removed'[d], buried')
  <2>1. RunTold(r, removed[d], buried)
    BY <1>4, RunKnown DEF RunTold
  <2>2. buried \subseteq buried' /\ removed'[d] = removed[d]
    BY <1>3, <1>6
  <2>3. FileTold(file[d], removed[d], buried)
    BY RunKnown
  <2>4. FileTold(file[d], removed[d], buried') /\ RunTold(r, removed[d], buried')
    BY <2>1, <2>2, <2>3, ToldMore
  <2> QED BY <1>8, <2>2, <2>4
<1>12. /\ Current(r) = Current(run[d])
       /\ GoneOf(r, config[d]) = GoneOf(run[d], config[d])
       /\ LostOf(file[d], r, config[d]) = LostOf(file[d], run[d], config[d])
  <2>1. Current(r) = Current(run[d]) /\ (Pushing(r) <=> Pushing(run[d]))
    BY <1>4 DEF Current, Pushing
  <2>2. /\ GoneOf(r, config[d]) = GoneOf(run[d], config[d])
        /\ \A f : LostOf(f, r, config[d]) = LostOf(f, run[d], config[d])
    BY <2>1, Zenon DEF GoneOf, LostOf
  <2> QED BY <2>1, <2>2
<1>13. KnownFits(r, config[d], Innocent)
  BY <1>2, <1>4, <1>12, RunKnown DEF KnownFits
<1>14. Gone(d)' = Gone(d) /\ Lost(d)' = Lost(d)
  BY <1>8, <1>10, <1>12, NextSets DEF Gone, Lost
<1>15. Count'
  BY <1>1, <1>3, <1>9, <1>10, <1>14, AloneKeeps, CountKept, RunKnown
<1> QED BY <1>7, <1>8, <1>9, <1>10, <1>11, <1>13, <1>15, FewStep

\* The deletion of a group no user removed: one that was let through is one less to go.
LEMMA DeleteGroupFew ==
  ASSUME Inv, FewInv, NEW d \in Device, DeleteGroup(d)
  PROVE FewInv'
<1>1. ServerInv /\ RunInv /\ losses \in Nat /\ run[d].at = "doomed"
  BY DEF Inv, UserInv, DeleteGroup
<1>2. PICK g \in run[d].doomed :
        /\ Write(g, Tombstone(clock))
        /\ LET r == [run[d] EXCEPT !.doomed = @ \ {g}, !.mem.lastSeq = seq + 1]
           IN run' = [run EXCEPT ![d] = IF r.doomed = {} THEN KnowGroups(d, r) ELSE r]
  BY DEF DeleteGroup
<1> DEFINE rest == run[d].doomed \ {g}
           b == [run[d].mem EXCEPT !.lastSeq = seq + 1]
           r1 == [run[d] EXCEPT !.doomed = rest, !.mem = b]
           known == [b EXCEPT !.known = CurrentGroups(d)]
           r2 == [run[d] EXCEPT !.doomed = rest, !.at = "entries", !.mem = known]
<1>3. g \in Uuid /\ g \in Group
  BY <1>1, RunParts DEF Uuid
<1>4. run' = [run EXCEPT ![d] = IF rest = {} THEN r2 ELSE r1]
  <2> DEFINE r == [run[d] EXCEPT !.doomed = @ \ {g}, !.mem.lastSeq = seq + 1]
  <2>1. r = r1
    BY <1>1, RunParts DEF Runs, Binding
  <2>4. run' = [run EXCEPT ![d] = IF r.doomed = {} THEN KnowGroups(d, r) ELSE r]
    BY <1>2
  <2>2. KnowGroups(d, r1) = r2
    BY <1>1, RunParts DEF KnowGroups, Runs, Binding
  <2>3. r1.doomed = rest
    BY <1>1, RunParts DEF Runs
  <2> HIDE DEF r, r1, r2
  <2> QED BY <2>1, <2>2, <2>3, <2>4
<1>5. b.known = run[d].mem.known /\ known.known = CurrentGroups(d)
  BY <1>1, RunParts DEF Binding
<1> HIDE DEF b, known
<1>6. /\ r1.at = "doomed" /\ r1.doomed = rest /\ r1.mem = b /\ r1.exported = run[d].exported
      /\ r2.at = "entries" /\ r2.mem = known /\ r2.exported = run[d].exported
      /\ r1.trashed = run[d].trashed /\ r2.trashed = run[d].trashed
  BY <1>1, RunParts DEF Runs
<1> HIDE DEF r1, r2
<1>7. buried' = buried \cup {g} /\ UNCHANGED <<file, config, removed, losses>>
  BY <1>2 DEF DeleteGroup, Write, Tombstone, user
<1>8. RowsTold(latest', buried')
  <2>1. Tombstone(clock).deleted
    BY DEF Tombstone
  <2> QED BY <1>2, <1>3, <2>1, WriteTold
<1>9. PICK r \in {r1, r2} : run'[d] = r /\ (r = r1 \/ (r = r2 /\ rest = {}))
  <2> HIDE DEF rest
  <2> QED BY <1>1, <1>4 DEF RunInv
<1>10. /\ file'[d] = file[d] /\ config'[d] = config[d]
       /\ \A e \in Device \ {d} : run'[e] = run[e]
  BY <1>1, <1>4, <1>7 DEF RunInv
<1>11. Alone(d)
  BY <1>7, <1>10 DEF Alone
<1>12. FileTold(file'[d], removed'[d], buried') /\ RunTold(run'[d], removed'[d], buried')
  <2>1. RunTold(r, removed[d], buried)
    BY <1>6, <1>9, RunKnown DEF RunTold
  <2> QED BY <1>7, <1>9, <1>10, <2>1, RunKnown, ToldMore
<1>13. /\ Innocent' = Innocent \ {g}
       /\ Unmeant' = IF g \in Innocent THEN Unmeant \cup {g} ELSE Unmeant
       /\ g \in Innocent => g \notin Unmeant
  BY <1>3, <1>7, NextSets DEF Innocent, Unmeant
<1>14. /\ Current(r) = Current(run[d]) /\ Current(run[d]) = CurrentGroups(d)
       /\ GoneOf(r, config[d]) = GoneOf(run[d], config[d])
       /\ LostOf(file[d], r, config[d]) = LostOf(file[d], run[d], config[d])
  <2>1. Current(r) = Current(run[d]) /\ Current(run[d]) = CurrentGroups(d)
    BY <1>6, <1>9 DEF Current, CurrentGroups
  <2>2. Pushing(r) /\ Pushing(run[d])
    BY <1>1, <1>6, <1>9 DEF Pushing
  <2> QED BY <2>1, <2>2 DEF GoneOf, LostOf
<1>15. /\ Gone(d)' = Gone(d) \ {g} /\ Lost(d)' \subseteq Lost(d)
       /\ Gone(d)' = Innocent' \cap GoneOf(r, config[d])
  BY <1>9, <1>10, <1>13, <1>14, NextSets DEF Gone, Lost
<1>16. /\ Gone(d) = Innocent \cap run[d].doomed /\ Cardinality(Gone(d)) <= Barrier
       /\ run[d].mem.known \cap Innocent = config[d].known \cap Innocent
  BY <1>1, RunKnown DEF KnownFits, Gone
<1>17. Cardinality(Gone(d)') <= Barrier
  <2>1. /\ Cardinality(Gone(d)') \in Nat /\ Cardinality(Gone(d)) \in Nat
        /\ Cardinality(Gone(d)') <= Cardinality(Gone(d))
    BY <1>15, SetSizes, SetSizesNext, FS_Subset
  <2> QED BY <1>16, <2>1, BarrierType
<1>18. KnownFits(r, config[d], Innocent')
  <2>1. CASE r = r1
    BY <1>5, <1>6, <1>13, <1>15, <1>16, <1>17, <2>1 DEF KnownFits
  <2>2. CASE r = r2 /\ rest = {}
    <3>1. Innocent' \cap GoneOf(r, config[d]) = {}
      BY <1>13, <1>15, <1>16, <2>2
    <3> QED BY <1>5, <1>6, <1>14, <2>2, <3>1 DEF KnownFits
  <2> QED BY <1>9, <2>1, <2>2
<1>19. Count'
  <2>1. CASE g \notin Innocent
    BY <1>1, <1>7, <1>11, <1>13, <1>15, <2>1, AloneKeeps, CountKept, RunKnown
  <2>2. CASE g \in Innocent
    <3> DEFINE u == Cardinality(Unmeant)
               un == Cardinality(Unmeant')
               n == Cardinality(Gone(d))
               nn == Cardinality(Gone(d)')
               l == Least(Cardinality(Lost(d)))
               ln == Least(Cardinality(Lost(d)'))
    <3>1. u \in Nat /\ un = u + 1
      BY <1>13, <2>2, SetSizes, FS_AddElement
    <3>2. n \in Nat /\ nn = n - 1 /\ nn \in Nat
      BY <1>2, <1>15, <1>16, <2>2, SetSizes, SetSizesNext, FS_RemoveElement
    <3>3. l \in Nat /\ ln \in Nat /\ ln <= l
      BY <1>15, SetSizes, SetSizesNext, LeastOfSubset, BarrierType DEF Least
    <3>4. Least(n) = n /\ Least(nn) = nn
      BY <1>16, <1>17 DEF Least
    <3>5. un + Least(nn) + ln <= u + Least(n) + l + 0 * Barrier
      <4>1. 0 * Barrier = 0
        BY BarrierType
      <4> HIDE DEF u, un, n, nn, l, ln
      <4> QED BY <3>1, <3>2, <3>3, <3>4, <4>1
    <3>6. Count /\ OthersKeep(d) /\ losses' = losses + 0 /\ losses' \in Nat
      BY <1>1, <1>7, <1>11, AloneKeeps, RunKnown
    <3> QED BY <1>1, <3>5, <3>6, CountStep
  <2> QED BY <2>1, <2>2
<1> QED BY <1>8, <1>9, <1>10, <1>11, <1>12, <1>18, <1>19, FewStep

LEMMA RunStepFew ==
  ASSUME Inv, FewInv, NEW d \in Device, RunStep(d)
  PROVE FewInv'
<1>1. CASE pullChanges(d)
  BY <1>1, PullFew
<1>2. CASE pushChanges(d)
  BY <1>2, PushChangesFew
<1>3. CASE PutGroup(d)
  BY <1>3, PushFew DEF PutGroup, Pending, Uuid
<1>4. CASE FindDoomed(d)
  BY <1>4, FindDoomedFew
<1>5. CASE DeleteGroup(d)
  BY <1>5, DeleteGroupFew
<1>6. CASE PutEntry(d)
  BY <1>6, PushFew DEF PutEntry, Pending, Uuid
<1>7. CASE DeleteEntry(d)
  BY <1>7, PushFew DEF DeleteEntry, Pending
<1>8. CASE Save(d)
  BY <1>8, SaveFew DEF Save
<1>9. CASE PushFails(d)
  BY <1>9, SaveFew, InterruptFew DEF PushFails
<1>10. CASE Crash(d)
  BY <1>10, InterruptFew DEF Crash
<1> QED BY <1>1, <1>2, <1>3, <1>4, <1>5, <1>6, <1>7, <1>8, <1>9, <1>10 DEF RunStep

LEMMA NextFew == Inv /\ FewInv /\ [Next]_vars => FewInv'
<1>1. ASSUME Inv, FewInv, Next PROVE FewInv'
  BY <1>1, UserStepFew, RunStepFew DEF Next
<1>2. ASSUME FewInv, UNCHANGED vars PROVE FewInv'
  <2>1. Innocent' = Innocent /\ Unmeant' = Unmeant
    BY <1>2 DEF vars, Innocent, Unmeant
  <2>2. \A d \in Device : Gone(d)' = Gone(d) /\ Lost(d)' = Lost(d)
    BY <1>2, <2>1, NextSets DEF vars, Gone, Lost
  <2>3. Told' /\ KnownInv'
    BY <1>2, <2>1, NextSets DEF vars, FewInv, Told, KnownInv
  <2>4. Count'
    BY <1>2, <2>1, <2>2 DEF vars, FewInv, Count, Total, Charged
  <2> QED BY <2>3, <2>4 DEF FewInv
<1> QED BY <1>1, <1>2

\* To begin with nothing is deleted or lost.
LEMMA InitFew == Init => FewInv
<1> SUFFICES ASSUME Init PROVE FewInv
  OBVIOUS
<1> DEFINE place(o) == IF o \in Group THEN Root ELSE home[o]
<1>1. \A o \in Uuid : latest[o].content.deleted = FALSE /\ latest[o].content.place = place(o)
  BY DEF Init
<1>2. \A d \in Device, g \in Group :
        /\ file[d][g].dead = 0
        /\ file[d][g].entry = [place |-> Root, data |-> 0, mod |-> 1, loc |-> 1]
  BY DEF Init, Uuid
<1>3. \A d \in Device, g \in Group : Present(file[d], g) /\ ~Trashed(file[d], g)
  <2>1. [place |-> Root, data |-> 0, mod |-> 1, loc |-> 1] # None
    BY FolderAssumption, NoneIsNotLocal DEF Local, Place
  <2> QED BY <1>2, <2>1, Disjoint DEF Present, Trashed
<1>4. buried = {} /\ losses = 0 /\ removed = [d \in Device |-> {}]
      /\ \A d \in Device : run[d] = NoRun(config[d])
  BY DEF Init
<1>5. Told
  <2>1. RowsTold(latest, buried)
    BY <1>1, Disjoint DEF RowsTold, Uuid
  <2>2. \A d \in Device : FileTold(file[d], removed[d], buried)
    BY <1>2, <1>3 DEF FileTold
  <2>3. \A d \in Device : RunTold(run[d], removed[d], buried)
    BY <1>4, EndFits
  <2> QED BY <2>1, <2>2, <2>3 DEF Told
<1>6. KnownInv
  BY <1>4, EndFits DEF KnownInv
<1>7. Count
  <2>1. Unmeant = {} /\ \A d \in Device : Gone(d) = {} /\ Lost(d) = {}
    <3>1. \A d \in Device : config[d].known = Group
      BY DEF Init
    <3>2. \A d \in Device : GoneOf(run[d], config[d]) = {}
      BY <1>4, EndFits
    <3>3. ASSUME NEW d \in Device PROVE LostOf(file[d], run[d], config[d]) = {}
      <4>1. LostOf(file[d], NoRun(config[d]), config[d])
              = {g \in config[d].known : ~Present(file[d], g)}
        BY EndFits
      <4> QED BY <1>3, <1>4, <3>1, <4>1
    <3> QED BY <1>4, <3>2, <3>3 DEF Unmeant, Gone, Lost
  <2> DEFINE z == [d \in Device |-> 0]
  <2>2. /\ [d \in Device |-> Cardinality(Gone(d))] = z
        /\ [d \in Device |-> Cardinality(Lost(d))] = z
        /\ Cardinality(Unmeant) = 0
    BY <2>1, FS_EmptySet
  <2>3. Charged(z) = {}
    BY BarrierType DEF Charged
  <2>4. Total(z) = 0
    BY <2>3, FS_EmptySet DEF Total
  <2> HIDE DEF z
  <2>5. 0 + Total(z) + Total(z) <= losses * Barrier
    <3>1. losses * Barrier = 0
      BY <1>4, BarrierType
    <3> QED BY <2>4, <3>1
  <2> QED BY <2>2, <2>5 DEF Count
<1> QED BY <1>5, <1>6, <1>7 DEF FewInv

\* However often a file is replaced by one that lacks groups, and whatever fails and
\* whoever pulls or pushes meanwhile, each such loss costs the server no more groups that
\* nobody removed than one push may delete without asking (refuseGroupDeletion).
THEOREM FewAreUnmeant == Spec => []FewUnmeantDeletions
<1>1. Inv /\ FewInv => FewUnmeantDeletions
  BY CountMeansFew DEF FewInv, Inv, UserInv
<1>2. Spec => [](Inv /\ FewInv)
  BY InitInv, NextInv, InitFew, NextFew, PTL DEF Spec
<1> QED BY <1>1, <1>2, PTL
==============================================================================
