------------------------------ MODULE SyncQueue ------------------------------
(***************************************************************************)
(* What the daemon promises whoever asks for a sync: the databases are       *)
(* synced one at a time, a request is only ever answered by a run that       *)
(* starts after it, and until the daemon is told to stop no request is       *)
(* dropped.  There are no goroutines, timers or locks here; Daemon has them  *)
(* and implements this.                                                     *)
(***************************************************************************)
CONSTANTS
  Db,      \* databases the daemon watches
  NoDb     \* no database

VARIABLES
  wanted,  \* databases with a request that no run has answered yet
  active,  \* the database being synced, or NoDb
  open     \* FALSE once the daemon has been told to stop

vars == <<wanted, active, open>>

Init ==
  /\ wanted = {}
  /\ active = NoDb
  /\ open = TRUE

Ask(w) ==
  /\ wanted' = wanted \cup {w}
  /\ UNCHANGED <<active, open>>

\* The run answers the requests so far; one made while it waited for its turn
\* may be answered by a second run.
Take(w) ==
  /\ open
  /\ active = NoDb
  /\ w \in wanted
  /\ active' = w
  /\ wanted' \in {wanted, wanted \ {w}}
  /\ UNCHANGED open

Finish ==
  /\ active # NoDb
  /\ active' = NoDb
  /\ UNCHANGED <<wanted, open>>

Close ==
  /\ open
  /\ open' = FALSE
  /\ UNCHANGED <<wanted, active>>

Drop(w) ==
  /\ ~open
  /\ wanted' = wanted \ {w}
  /\ UNCHANGED <<active, open>>

Next ==
  \/ \E w \in Db : Ask(w) \/ Take(w) \/ Drop(w)
  \/ Finish
  \/ Close

Spec == Init /\ [][Next]_vars

==============================================================================
