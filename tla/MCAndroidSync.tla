---------------------------- MODULE MCAndroidSync ----------------------------
(***************************************************************************)
(* AndroidSync with one group and the entry in it.                           *)
(***************************************************************************)
EXTENDS AndroidSync, TLC

CONSTANTS e1, g1

mcFolder == Group \cup {Root}
mcHome == e1 :> g1

Symmetry == Permutations(Thread)

==============================================================================
