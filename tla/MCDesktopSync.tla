--------------------------- MODULE MCDesktopSync ----------------------------
(***************************************************************************)
(* DesktopSync with model values for TLC.                                   *)
(***************************************************************************)
EXTENDS DesktopSync, TLC

\* Folders are interchangeable; devices are not, one of them runs the daemon.
Symmetry == Permutations(Folder)

==============================================================================
