---------------------------- MODULE MCDeviceKeys -----------------------------
(***************************************************************************)
(* DeviceKeys with an owner and one other user for TLC.                      *)
(***************************************************************************)
EXTENDS DeviceKeys, TLC

CONSTANTS alice, bob, desk, lap, d1, d2

mcUserOf == desk :> alice @@ lap :> bob

\* Both machines were enrolled before v2.
mcDevice0 == desk :> d1 @@ lap :> d2
mcKey0 == desk :> NoKey @@ lap :> NoKey

Symmetry == Permutations(Key) \cup Permutations(Device \ {d1, d2})
            \cup Permutations(Process)

==============================================================================
