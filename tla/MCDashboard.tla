---------------------------- MODULE MCDashboard ------------------------------
(***************************************************************************)
(* Dashboard with two names, two databases and two files for TLC.            *)
(***************************************************************************)
EXTENDS Dashboard, TLC

CONSTANTS home, work, r1, r2, f1, f2

mcConfig(enrolled, b) ==
  [enrolled |-> enrolled, bound |-> [n \in Name |-> IF n \in DOMAIN b THEN b[n] ELSE Unbound]]

mcFiles == f1 :> [exists |-> TRUE, got |-> Nothing] @@ f2 :> [exists |-> FALSE, got |-> Nothing]

mcServer(n, second) == r1 :> [name |-> n, role |-> "owner", seq |-> 1] @@ r2 :> second

mcBound(n) == n :> [path |-> f1, remote |-> r1, seq |-> 0]

\* A new machine of a user who has one database.  Then machines where it is bound,
\* to its own name or to another, which is that of a database shared by others.
mcBeginnings ==
  {[config |-> mcConfig(FALSE, <<>>), server |-> mcServer(home, NoDatabase),
    files |-> mcFiles]}
  \cup
  {[config |-> mcConfig(TRUE, mcBound(n)),
    server |-> mcServer(home, [name |-> work, role |-> "member", seq |-> 0]),
    files |-> mcFiles] : n \in {home, work}}

==============================================================================
