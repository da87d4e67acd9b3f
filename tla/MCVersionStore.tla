--------------------------- MODULE MCVersionStore ---------------------------
(***************************************************************************)
(* VersionStore with model values for TLC.                                  *)
(***************************************************************************)
EXTENDS VersionStore, TLC

\* Workers, and the entries among each other, are interchangeable: no action
\* or property of the safety runs tells one from another.
Symmetry == Permutations(Worker) \cup Permutations(EntryUuid)

==============================================================================
