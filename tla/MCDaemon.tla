------------------------------ MODULE MCDaemon -------------------------------
(***************************************************************************)
(* Daemon with model values for TLC.                                        *)
(***************************************************************************)
EXTENDS Daemon, TLC

\* Nothing tells one database from another.
Symmetry == Permutations(Db)

==============================================================================
