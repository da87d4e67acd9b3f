----------------------------- MODULE MCGroupSync -----------------------------
(***************************************************************************)
(* GroupSync with a group that holds an entry and one that holds none.       *)
(* TLC also evaluates what EntryFormatCheck assumes of the blobs that travel.*)
(***************************************************************************)
EXTENDS GroupSync, EntryFormatCheck, TLC

CONSTANTS e1, g1

mcFolder == Group \cup {Root}
mcHome == e1 :> g1

Symmetry == Permutations(Device)

==============================================================================
