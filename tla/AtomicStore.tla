----------------------------- MODULE AtomicStore -----------------------------
(***************************************************************************)
(* What the server promises its clients about one database: every write is  *)
(* one indivisible step that takes the next number of the database and      *)
(* becomes the newest version of its object.  There are no transactions,    *)
(* locks or version slots here; VersionStore has them and implements this.  *)
(***************************************************************************)
EXTENDS Naturals

CONSTANTS
  Uuid,      \* identifiers of entries and groups
  Content,   \* what a version carries beside its object and its number
  None       \* "no version of this object was ever written"

VARIABLES
  live,      \* the database exists
  seq,       \* number of the newest write, 0 before the first
  latest     \* the newest version of each object, or None

vars == <<live, seq, latest>>

Version == [uuid : Uuid, content : Content, seq : Nat \ {0}]

Init ==
  /\ live = TRUE
  /\ seq = 0
  /\ latest = [u \in Uuid |-> None]

\* One write: it is numbered and becomes visible in the same step.
Write(u, c) ==
  /\ live
  /\ seq' = seq + 1
  /\ latest' = [latest EXCEPT ![u] =
                  [uuid |-> u, content |-> c, seq |-> seq + 1]]
  /\ live' = live

\* The owner deletes the database and everything in it.
Drop ==
  /\ live
  /\ live' = FALSE
  /\ seq' = 0
  /\ latest' = [u \in Uuid |-> None]

Next == Drop \/ \E u \in Uuid, c \in Content : Write(u, c)

Spec == Init /\ [][Next]_vars

==============================================================================
