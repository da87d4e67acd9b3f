------------------------------- MODULE Daemon --------------------------------
(***************************************************************************)
(* The scheduling of the daemon: what its goroutines do to start one sync    *)
(* after another for the databases it watches, and to stop.                 *)
(*                                                                          *)
(* Every database has a main loop (dbWorker.run), the callbacks of its       *)
(* debounce timer, and at most one runLoop, which calls doSync as long as    *)
(* the coalescer has a pending request.  All of them share syncMu.  What a   *)
(* sync does to the file and on the server is DesktopSync; here it is a      *)
(* pull, an export that reads the file, and a push.                         *)
(***************************************************************************)
EXTENDS Naturals

CONSTANTS
  Db,            \* databases the daemon watches
  NoDb,          \* no database
  Watched,       \* those on a file system that reports events
  MaxCallbacks   \* bound: callbacks of one timer that have not run yet

ASSUME NoDbAssumption == NoDb \notin Db
ASSUME WatchedAssumption == Watched \subseteq Db
ASSUME CallbackAssumption == MaxCallbacks \in Nat \ {0}

VARIABLES
  cancelled,  \* rootCtx is done: a signal has arrived
  loop,       \* where each main loop is
  event,      \* does fsnotify have an event for the loop?
  timer,      \* is the debounce timer set?
  callbacks,  \* callbacks of timers that fired and have not called request yet
  running,    \* coalescer
  pending,    \* coalescer
  runner,     \* where the runLoop is, "none" when there is none
  syncMu,     \* the database whose doSync holds the mutex, or NoDb
  zeroed,     \* keys and passwords have been overwritten
  unread,     \* history: has the file changed since an export last read it?
  failed      \* history: has a run failed to read it since?

coalescer == <<running, pending, runner>>
triggers == <<event, timer, callbacks>>
history == <<unread, failed>>
vars == <<cancelled, loop, event, timer, callbacks, running, pending, runner,
          syncMu, zeroed, unread, failed>>

\* A sync is under way: it uses the keys, the config and its maps.
Busy == {"pull", "export", "push"}

-----------------------------------------------------------------------------
(* The coalescer *)

\* If a runLoop is running it is asked for another round, else one is started.
request(w) ==
  IF running[w]
  THEN /\ pending' = [pending EXCEPT ![w] = TRUE]
       /\ UNCHANGED <<running, runner>>
  ELSE /\ running' = [running EXCEPT ![w] = TRUE]
       /\ runner' = [runner EXCEPT ![w] = "work"]
       /\ UNCHANGED pending

\* Mutant of runLoop: pending is not looked at after the last round.
runLoopOnce(w) ==
  /\ runner[w] = "after"
  /\ running' = [running EXCEPT ![w] = FALSE]
  /\ runner' = [runner EXCEPT ![w] = "none"]
  /\ UNCHANGED <<cancelled, loop, triggers, pending, syncMu, zeroed, history>>

\* Mutant of runLoop: pending is reset and not looked at.
runLoopForgets(w) ==
  /\ runner[w] = "after"
  /\ pending' = [pending EXCEPT ![w] = FALSE]
  /\ running' = [running EXCEPT ![w] = FALSE]
  /\ runner' = [runner EXCEPT ![w] = "none"]
  /\ UNCHANGED <<cancelled, loop, triggers, syncMu, zeroed, history>>

\* After a round the runLoop starts the next one or ends.
runLoop(w) ==
  /\ runner[w] = "after"
  /\ pending' = [pending EXCEPT ![w] = FALSE]
  /\ running' = [running EXCEPT ![w] = pending[w]]
  /\ runner' = [runner EXCEPT ![w] = IF pending[w] THEN "work" ELSE "none"]
  /\ UNCHANGED <<cancelled, loop, triggers, syncMu, zeroed, history>>

-----------------------------------------------------------------------------
(* The main loop *)

\* The watcher cannot be set up: this database is not watched at all.
NoWatcher(w) ==
  /\ loop[w] = "start"
  /\ loop' = [loop EXCEPT ![w] = "done"]
  /\ UNCHANGED <<cancelled, triggers, coalescer, syncMu, zeroed, history>>

InitialSync(w) ==
  /\ loop[w] = "start"
  /\ loop' = [loop EXCEPT ![w] = "select"]
  /\ request(w)
  /\ UNCHANGED <<cancelled, triggers, syncMu, zeroed, history>>

Poll(w) ==
  /\ loop[w] = "select"
  /\ request(w)
  /\ UNCHANGED <<cancelled, loop, triggers, syncMu, zeroed, history>>

startDebounce(w) ==
  /\ loop[w] = "select"
  /\ event[w]
  /\ event' = [event EXCEPT ![w] = FALSE]
  /\ timer' = [timer EXCEPT ![w] = TRUE]
  /\ UNCHANGED <<cancelled, loop, callbacks, coalescer, syncMu, zeroed, history>>

\* The timer fires and its callback becomes a goroutine, which stopping the
\* timer no longer stops.
Fire(w) ==
  /\ timer[w]
  /\ callbacks[w] < MaxCallbacks
  /\ timer' = [timer EXCEPT ![w] = FALSE]
  /\ callbacks' = [callbacks EXCEPT ![w] = @ + 1]
  /\ UNCHANGED <<cancelled, loop, event, coalescer, syncMu, zeroed, history>>

requestSync(w) ==
  /\ callbacks[w] > 0
  /\ callbacks' = [callbacks EXCEPT ![w] = @ - 1]
  /\ request(w)
  /\ UNCHANGED <<cancelled, loop, event, timer, syncMu, zeroed, history>>

\* Mutant of Stop: the loop ends without waiting for its runLoop.
StopAtOnce(w) ==
  /\ loop[w] = "select"
  /\ cancelled
  /\ loop' = [loop EXCEPT ![w] = "done"]
  /\ timer' = [timer EXCEPT ![w] = FALSE]
  /\ UNCHANGED <<cancelled, event, callbacks, coalescer, syncMu, zeroed, history>>

Stop(w) ==
  /\ loop[w] = "select"
  /\ cancelled
  /\ loop' = [loop EXCEPT ![w] = "wait"]
  /\ timer' = [timer EXCEPT ![w] = FALSE]
  /\ UNCHANGED <<cancelled, event, callbacks, coalescer, syncMu, zeroed, history>>

\* wait looks at running until it is FALSE.
wait(w) ==
  /\ loop[w] = "wait"
  /\ ~running[w]
  /\ loop' = [loop EXCEPT ![w] = "done"]
  /\ UNCHANGED <<cancelled, triggers, coalescer, syncMu, zeroed, history>>

-----------------------------------------------------------------------------
(* doSync *)

Goto(w, step) == runner' = [runner EXCEPT ![w] = step]

\* The context is looked at before the mutex is asked for ...
Enter(w) ==
  /\ runner[w] = "work"
  /\ Goto(w, IF cancelled THEN "after" ELSE "lock")
  /\ UNCHANGED <<cancelled, loop, triggers, running, pending, syncMu, zeroed, history>>

Lock(w) ==
  /\ runner[w] = "lock"
  /\ syncMu = NoDb
  /\ syncMu' = w
  /\ Goto(w, "check")
  /\ UNCHANGED <<cancelled, loop, triggers, running, pending, zeroed, history>>

\* Mutant of Check: the early return forgets the mutex.
CheckKeepsMutex(w) ==
  /\ runner[w] = "check"
  /\ Goto(w, IF cancelled THEN "after" ELSE "pull")
  /\ UNCHANGED <<cancelled, loop, triggers, running, pending, syncMu, zeroed, history>>

\* ... and once more after the wait for it.
Check(w) ==
  /\ runner[w] = "check"
  /\ Goto(w, IF cancelled THEN "after" ELSE "pull")
  /\ syncMu' = IF cancelled THEN NoDb ELSE syncMu
  /\ UNCHANGED <<cancelled, loop, triggers, running, pending, zeroed, history>>

\* A merge writes the file, which fsnotify reports like a user's save.
Pull(w) ==
  /\ runner[w] = "pull"
  /\ Goto(w, "export")
  /\ event' \in {event, [event EXCEPT ![w] = w \in Watched]}
  /\ UNCHANGED <<cancelled, loop, timer, callbacks, running, pending, syncMu, zeroed, history>>

Export(w) ==
  /\ runner[w] = "export"
  /\ Goto(w, "push")
  /\ unread' = [unread EXCEPT ![w] = FALSE]
  /\ failed' = [failed EXCEPT ![w] = FALSE]
  /\ UNCHANGED <<cancelled, loop, triggers, running, pending, syncMu, zeroed>>

\* Mutant of Return: a sync that fails keeps the mutex.
ReturnKeepsMutex(w) ==
  /\ runner[w] \in Busy
  /\ Goto(w, "after")
  /\ syncMu' = IF runner[w] = "push" THEN NoDb ELSE syncMu
  /\ failed' = [failed EXCEPT ![w] = @ \/ (runner[w] # "push" /\ unread[w])]
  /\ UNCHANGED <<cancelled, loop, triggers, running, pending, zeroed, unread>>

\* doSync returns: after the push, after an error, or because the file is the
\* one it last pushed.
Return(w) ==
  /\ runner[w] \in Busy
  /\ Goto(w, "after")
  /\ syncMu' = NoDb
  /\ failed' = [failed EXCEPT ![w] = @ \/ (runner[w] # "push" /\ unread[w])]
  /\ UNCHANGED <<cancelled, loop, triggers, running, pending, zeroed, unread>>

-----------------------------------------------------------------------------
(* The process *)

\* A user saves the file.
Save(w) ==
  /\ ~zeroed
  /\ loop[w] # "start"
  /\ event' = [event EXCEPT ![w] = w \in Watched]
  /\ unread' = [unread EXCEPT ![w] = TRUE]
  /\ UNCHANGED <<cancelled, loop, timer, callbacks, coalescer, syncMu, zeroed, failed>>

Signal ==
  /\ ~cancelled
  /\ cancelled' = TRUE
  /\ UNCHANGED <<loop, triggers, coalescer, syncMu, zeroed, history>>

\* All loops have returned, and runDaemon overwrites the keys.
zeroKeys ==
  /\ ~zeroed
  /\ \A w \in Db : loop[w] = "done"
  /\ zeroed' = TRUE
  /\ UNCHANGED <<cancelled, loop, triggers, coalescer, syncMu, history>>

Init ==
  /\ cancelled = FALSE
  /\ loop = [w \in Db |-> "start"]
  /\ event = [w \in Db |-> FALSE]
  /\ timer = [w \in Db |-> FALSE]
  /\ callbacks = [w \in Db |-> 0]
  /\ running = [w \in Db |-> FALSE]
  /\ pending = [w \in Db |-> FALSE]
  /\ runner = [w \in Db |-> "none"]
  /\ syncMu = NoDb
  /\ zeroed = FALSE
  /\ unread = [w \in Db |-> TRUE]
  /\ failed = [w \in Db |-> FALSE]

LoopStep(w) ==
  NoWatcher(w) \/ InitialSync(w) \/ Poll(w) \/ startDebounce(w) \/ Stop(w) \/ wait(w)

TimerStep(w) == Fire(w) \/ requestSync(w)

RunnerStep(w) ==
  Enter(w) \/ Lock(w) \/ Check(w) \/ Pull(w) \/ Export(w) \/ Return(w) \/ runLoop(w)

Next ==
  \/ \E w \in Db : LoopStep(w) \/ TimerStep(w) \/ RunnerStep(w) \/ Save(w)
  \/ Signal
  \/ zeroKeys

Spec == Init /\ [][Next]_vars

-----------------------------------------------------------------------------
(* Type invariant *)

\* Every variable has its type; a runLoop exists exactly while the coalescer
\* says so, and only then is a request pending.
TypeOK ==
  /\ cancelled \in BOOLEAN
  /\ loop \in [Db -> {"start", "select", "wait", "done"}]
  /\ event \in [Db -> BOOLEAN]
  /\ timer \in [Db -> BOOLEAN]
  /\ callbacks \in [Db -> 0 .. MaxCallbacks]
  /\ running \in [Db -> BOOLEAN]
  /\ pending \in [Db -> BOOLEAN]
  /\ runner \in [Db -> {"none", "work", "lock", "check", "after"} \cup Busy]
  /\ \A w \in Db : running[w] <=> runner[w] # "none"
  /\ \A w \in Db : pending[w] => running[w]
  /\ syncMu \in Db \cup {NoDb}
  /\ zeroed \in BOOLEAN
  /\ unread \in [Db -> BOOLEAN]
  /\ failed \in [Db -> BOOLEAN]

-----------------------------------------------------------------------------
(* Safety *)

\* A sync never runs with overwritten keys: not one the shutdown overtook, and
\* not one of a timer whose callback was already on its way (daemon.go:120-124,
\* 400-404).
KeysOutliveSyncs == zeroed => \A w \in Db : runner[w] \notin Busy

\* A change of the file that no export has read yet is still on its way to one:
\* as an event, a set timer, a callback, a pending request or a run that has
\* not come to its export, unless the last run failed and the poll has to help.
\* (A file system that reports no events leaves everything to the poll.)
Coming(w) ==
  \/ event[w] \/ timer[w] \/ callbacks[w] > 0 \/ pending[w]
  \/ runner[w] \in {"work", "lock", "check", "pull", "export"}

ChangesAreComing ==
  \A w \in Watched : unread[w] /\ ~failed[w] /\ loop[w] = "select" /\ ~cancelled => Coming(w)

\* One sync at a time, none after the signal, and no request forgotten: the
\* goroutines do what SyncQueue promises.
Queue == INSTANCE SyncQueue WITH
  wanted <- {w \in Db : pending[w] \/ runner[w] \in {"work", "lock", "check"}},
  active <- IF syncMu # NoDb /\ runner[syncMu] \in Busy THEN syncMu ELSE NoDb,
  open <- ~cancelled

ImplementsQueue == Queue!Spec

-----------------------------------------------------------------------------
(* Liveness *)

\* Goroutines get to run, select takes every case that stays ready, a mutex that
\* is given up again and again is got in the end (Go hands it to the longest
\* waiter), and a sync ends (--sync-timeout).  Neither events nor timers are
\* relied on, users need not save, and nobody has to send the signal.
Fairness ==
  /\ \A w \in Db :
       /\ WF_vars(NoWatcher(w) \/ InitialSync(w) \/ Stop(w) \/ wait(w))
       /\ WF_vars(Poll(w))
       /\ WF_vars(RunnerStep(w))
       /\ SF_vars(Lock(w))
  /\ WF_vars(zeroKeys)

FairSpec == Spec /\ Fairness

\* After the signal the daemon stops: no loop waits for ever for a sync that
\* waits for the mutex, or for requests that keep coming.
StopsOnSignal == cancelled ~> zeroed

\* A changed file is synced in the end, or a run of it fails, however the
\* databases compete for the mutex.
ChangesAreRead ==
  \A w \in Db : unread[w] ~> ~unread[w] \/ failed[w] \/ loop[w] # "select"

==============================================================================
