------------------------------ MODULE KdbxFile ------------------------------
(***************************************************************************)
(* One object of a .kdbx file as the desktop client sees it: what           *)
(* keepassxc-cli export tells about it, and what keepassxc-cli merge does   *)
(* to it.  An object is an entry, or the deletion time DeletedObjects has   *)
(* for it (0 when there is none), or neither.  Times count seconds; the     *)
(* payload of an entry is the number of the change that wrote it.           *)
(***************************************************************************)
EXTENDS Naturals

CONSTANTS
  Folder,   \* groups an entry can be in, all of them known to every device
  Bin,      \* the recycle bin, which is never synchronised itself
  None      \* no entry; nothing to export

ASSUME BinAssumption == Bin \notin Folder

Place == Folder \cup {Bin}

\* place, payload, LastModificationTime and LocationChanged of an entry.
Local == [place : Place, data : Nat, mod : Nat, loc : Nat]

ASSUME NoneIsNotLocal == None \notin Local

Object == [entry : Local \cup {None}, dead : Nat]

\* What a version on the server holds.  mod is its modified_at: the time of
\* the edit, or for a tombstone the time of the deletion.
Content == [deleted : BOOLEAN, place : Place, data : Nat, mod : Nat, loc : Nat]

Tombstone(t) == [deleted |-> TRUE, place |-> Bin, data |-> 0, mod |-> t, loc |-> 0]

-----------------------------------------------------------------------------
(* keepassxc-cli export, read by ParseExportFull *)

laterTime(a, b) == IF b > a THEN b ELSE a

\* Mutant of collectTree: only LastModificationTime triggers a push.
collectTreeByModification(e) ==
  IF e.place = Bin
  THEN [content |-> Tombstone(e.loc), trigger |-> e.loc]
  ELSE [content |-> [deleted |-> FALSE, place |-> e.place, data |-> e.data,
                     mod |-> e.mod, loc |-> e.loc],
        trigger |-> e.mod]

\* An entry outside the bin is exported as itself, an entry in it as a
\* deletion at the time it was moved there.
collectTree(e) ==
  IF e.place = Bin
  THEN [content |-> Tombstone(e.loc), trigger |-> e.loc]
  ELSE [content |-> [deleted |-> FALSE, place |-> e.place, data |-> e.data,
                     mod |-> e.mod, loc |-> e.loc],
        trigger |-> laterTime(e.mod, e.loc)]

\* What the export says of an object and the time shouldPush compares, or None.
Exported(o) ==
  IF o.entry # None THEN collectTree(o.entry)
  ELSE IF o.dead # 0 THEN [content |-> Tombstone(o.dead), trigger |-> o.dead]
  ELSE None

-----------------------------------------------------------------------------
(* keepassxc-cli merge of a staging file that holds one version of the       *)
(* object (external: KeePassXC's Merger, in its default mode).               *)

\* A missing entry is copied.  A present one moves if the version was moved
\* later, and takes the payload and both times of a version modified later.
MergeEntry(e, c) ==
  IF e = None
  THEN [place |-> c.place, data |-> c.data, mod |-> c.mod, loc |-> c.loc]
  ELSE LET newer == IF e.mod < c.mod THEN c ELSE e IN
       [place |-> IF e.loc < c.loc THEN c.place ELSE e.place,
        data |-> newer.data, mod |-> newer.mod, loc |-> newer.loc]

\* The earliest deletion counts.  It erases an entry not modified after it and
\* is dropped for one that was.
MergeDeletion(e, times) ==
  LET first == CHOOSE t \in times : \A s \in times : t <= s IN
  IF e # None /\ e.mod > first
  THEN [entry |-> e, dead |-> 0]
  ELSE [entry |-> None, dead |-> first]

Merge(o, c) ==
  LET e == IF c.deleted THEN o.entry ELSE MergeEntry(o.entry, c)
      times == {t \in {o.dead} \cup (IF c.deleted THEN {c.mod} ELSE {}) : t # 0}
  IN IF times = {} THEN [entry |-> e, dead |-> 0]
     ELSE IF e = None /\ o.dead # 0 THEN o
     ELSE MergeDeletion(e, times)

==============================================================================
