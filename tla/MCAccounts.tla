----------------------------- MODULE MCAccounts ------------------------------
(***************************************************************************)
(* Accounts with model values for TLC.                                      *)
(***************************************************************************)
EXTENDS Accounts, TLC

\* Ids are drawn at random and workers are alike.
Symmetry == Permutations(User) \cup Permutations(Device) \cup Permutations(Token)
            \cup Permutations(Worker)

==============================================================================
