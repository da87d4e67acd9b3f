---------------------------- MODULE BrowserHost ----------------------------
(***************************************************************************)
(* The browser extension and its native host: the extension caches an index *)
(* of every unlocked database in the session storage, the host reads the    *)
(* file with the password of the OS keyring or one typed in the popup,      *)
(* keeps the typed one until a timer takes it, and announces that a file    *)
(* has changed.                                                             *)
(*                                                                          *)
(* The background page is one thread that gives way at every `await'.  A     *)
(* task is one asynchronous routine: manualUnlock, lockAll, runAutoConnect   *)
(* or handleHostEvent; between two awaits it is one step.  Calls of the      *)
(* session storage are answered in the order they were made.  The host      *)
(* serves one request at a time; beside it run the timers, the watches and   *)
(* whoever saves the file.                                                  *)
(*                                                                          *)
(* An index is the number of the save it was read from.  A database has an   *)
(* index of one page.                                                       *)
(***************************************************************************)
EXTENDS Integers, SequencesExt

CONSTANTS Database,    \* the names in config.toml
          MaxClicks,   \* routines the user has started, running at once
          MaxSaves,    \* how many states of a file there are
          Stored,      \* what the OS keyring may hold for a database
          MaxFaults    \* how often a process ends, a call times out or an export fails

ASSUME BoundsAssumption == MaxClicks \in Nat /\ MaxSaves \in Nat \ {0} /\ MaxFaults \in Nat

\* There is always room for an event: a watch announces at most every save.
Clicked == 1..MaxClicks
Event == (MaxClicks + 1)..(MaxClicks + Cardinality(Database) * (MaxSaves - 1))
Task == Clicked \cup Event

NoIndex == 0
Index == 0..MaxSaves
Password == {"none", "right", "wrong"}
Nobody == 0     \* the asker of a request that has timed out
NoDatabase == "none"

VARIABLES file,      \* the save that is on the disk
          keyring,   \* what the OS keyring has for the database
          port,      \* the extension's end of the pipe: "none", "up" or "dead"
          index, fallbackPW, timer, firing, watching,   \* the host's
          serving,   \* the request the host is busy with
          toHost, toExt,
          task, storage,        \* the routines, and who waits for the storage, in order
          cache, auto,          \* what the session storage holds
          locked,    \* ghost: "yes" after a Lock whose writes no routine that opens a database saw
          faults     \* bound

fileVars == <<file, keyring>>
hostVars == <<index, fallbackPW, timer, firing, watching, serving>>
extVars == <<task, storage, cache, auto, locked>>
vars == <<fileVars, port, hostVars, toHost, toExt, extVars, faults>>

-----------------------------------------------------------------------------
\* The routines.

NoTask == [kind |-> "none", at |-> "none", db |-> NoDatabase, typed |-> "none",
           got |-> NoIndex, seen |-> [d \in Database |-> NoIndex],
           auto |-> [suppressed |-> FALSE, failed |-> {}], todo |-> <<>>]

HostCall == {"unlock", "index", "status", "lock"}
StorageCall == {"getCache", "setCache", "getAuto", "setAuto", "check", "remove"}

Running(t) == task[t].kind # "none"
\* It may still open a database: it no longer has to look whether it should.
Unlocking(t) == /\ task[t].kind \in {"unlock", "auto", "changed"}
                /\ task[t].kind = "auto" => task[t].at # "getAuto"
                /\ task[t].kind = "changed" => task[t].at # "check"

\* The next database of runAutoConnect's loop, or the end of the loop.
NextDatabase(r) == IF r.todo = <<>> THEN [r EXCEPT !.at = "setAuto"]
                   ELSE [r EXCEPT !.at = "unlock", !.db = Head(r.todo), !.todo = Tail(r.todo)]

\* Routine t goes on as r, with these requests and these waiting for the storage
\* before it: to its end, to a request (which starts the host) or to the storage.
Continue(t, r, requests, waiting) ==
  /\ task' = [task EXCEPT ![t] = r]
  /\ toHost' = IF r.at \in HostCall
               THEN Append(requests, [id |-> t, cmd |-> r.at, db |-> r.db,
                                      password |-> IF r.at = "unlock" THEN r.typed ELSE "none"])
               ELSE requests
  /\ storage' = IF r.at \in StorageCall THEN Append(waiting, t) ELSE waiting
  /\ port' = IF r.at \in HostCall /\ port = "none" THEN "up" ELSE port

\* A routine starts, in the first place that is free.
Begin(r, places) == \E t \in places : /\ ~Running(t)
                                      /\ \A u \in places : u < t => Running(u)
                                      /\ Continue(t, r, toHost, storage)

\* A click on Unlock, which the popup shows for a locked database.  The field for
\* a password is there when the keyring had none.
ManualUnlock(d) ==
  /\ cache[d] = NoIndex
  /\ \E pw \in IF keyring[d] = "none" THEN Password ELSE {"none"} :
       Begin([NoTask EXCEPT !.kind = "unlock", !.at = "unlock", !.db = d, !.typed = pw], Clicked)
  /\ locked' = "no"
  /\ UNCHANGED <<fileVars, hostVars, toExt, cache, auto, faults>>

\* A click on Lock, which is shown when something is unlocked.
LockAll ==
  /\ \E d \in Database : cache[d] # NoIndex
  /\ ~\E t \in Task : task[t].kind = "lock"
  /\ Begin([NoTask EXCEPT !.kind = "lock", !.at = "lock"], Clicked)
  /\ UNCHANGED <<fileVars, hostVars, toExt, cache, auto, locked, faults>>

\* The popup or the address bar asks for it; a running attempt is shared.
AutoConnect ==
  /\ \E d \in Database : cache[d] = NoIndex
  /\ ~\E t \in Task : task[t].kind = "auto"
  /\ Begin([NoTask EXCEPT !.kind = "auto", !.at = "getAuto"], Clicked)
  /\ UNCHANGED <<fileVars, hostVars, toExt, cache, auto, locked, faults>>

-----------------------------------------------------------------------------
\* The storage answers the first of the routines that wait for it.

Served(t) == storage # <<>> /\ Head(storage) = t

\* Mutant of StillOpen: every change unlocks.
alwaysOpen(r) == TRUE

\* A change is of interest as long as the index of the database is in the cache.
StillOpen(r) == cache[r.db] # NoIndex

\* What routine t does with the answer of a call that reads.
AfterRead(t) == LET r == task[t] IN
  CASE r.at = "check" /\ r.kind = "changed" ->
         IF StillOpen(r) THEN [r EXCEPT !.at = "unlock"] ELSE NoTask
    [] r.at = "check" ->
         NextDatabase([r EXCEPT !.todo = SelectSeq(SetToSeq(Database),
                          LAMBDA d : cache[d] = NoIndex /\ d \notin r.auto.failed)])
    [] r.at = "getCache" -> [r EXCEPT !.at = "setCache", !.seen = cache]
    [] r.at = "getAuto" /\ r.kind = "unlock" ->
         [r EXCEPT !.at = "setAuto", !.auto = [suppressed |-> FALSE, failed |-> auto.failed \ {r.db}]]
    [] r.at = "getAuto" ->
         IF auto.suppressed THEN NoTask ELSE [r EXCEPT !.at = "status", !.auto = auto]

ContinueServed(t, r) == Continue(t, r, toHost, Tail(storage))

ReadStorage(t) ==
  /\ Served(t)
  /\ task[t].at \in {"check", "getCache", "getAuto"}
  /\ ContinueServed(t, AfterRead(t))
  /\ UNCHANGED <<fileVars, hostVars, toExt, cache, auto, locked, faults>>

\* unlockDatabase writes the whole cache back, with the new index in it.
WriteCache(t) ==
  LET r == task[t]
      written == [r EXCEPT !.typed = "none", !.got = NoIndex, !.seen = NoTask.seen]
  IN
  /\ Served(t)
  /\ r.at = "setCache"
  /\ cache' = [r.seen EXCEPT ![r.db] = r.got]
  /\ ContinueServed(t, CASE r.kind = "unlock" -> [written EXCEPT !.at = "getAuto"]
                         [] r.kind = "changed" -> NoTask
                         [] r.kind = "auto" ->
                              NextDatabase([written EXCEPT !.auto.failed = @ \ {r.db}]))
  /\ UNCHANGED <<fileVars, hostVars, toExt, auto, locked, faults>>

\* lockAll, after the host's answer or failure.
RemoveCache(t) ==
  /\ Served(t)
  /\ task[t].at = "remove"
  /\ cache' = [d \in Database |-> NoIndex]
  /\ locked' = IF \E u \in Task : Unlocking(u) THEN "no" ELSE "removed"
  /\ ContinueServed(t, [task[t] EXCEPT !.at = "setAuto",
                                       !.auto = [suppressed |-> TRUE, failed |-> {}]])
  /\ UNCHANGED <<fileVars, hostVars, toExt, auto, faults>>

WriteAuto(t) ==
  /\ Served(t)
  /\ task[t].at = "setAuto"
  /\ auto' = task[t].auto
  /\ locked' = IF locked = "removed" /\ task[t].kind = "lock"
               THEN IF \E u \in Task : Unlocking(u) THEN "no" ELSE "yes"
               ELSE locked
  /\ ContinueServed(t, NoTask)
  /\ UNCHANGED <<fileVars, hostVars, toExt, cache, faults>>

-----------------------------------------------------------------------------
\* Messages from the host.

Answer(id, ok, d, ix) == [event |-> FALSE, id |-> id, ok |-> ok, db |-> d, index |-> ix]
Changed(d) == [event |-> TRUE, id |-> Nobody, ok |-> TRUE, db |-> d, index |-> NoIndex]

\* What routine t does when its request is answered, or rejected.
AfterAnswer(t, ok, ix) == LET r == task[t] IN
  CASE r.at = "lock" -> [r EXCEPT !.at = "remove"]
    [] r.at = "unlock" /\ ok -> [r EXCEPT !.at = "index"]
    [] r.at = "index" /\ ok -> [r EXCEPT !.at = "getCache", !.got = ix]
    [] r.at = "status" /\ ok -> [r EXCEPT !.at = "check"]
    [] ~ok /\ r.kind = "auto" /\ r.at # "status" ->
         NextDatabase([r EXCEPT !.auto.failed = @ \cup {r.db}])
    [] OTHER -> NoTask

HearAnswer == toExt # <<>> /\ LET m == Head(toExt) IN
  /\ ~m.event
  /\ toExt' = Tail(toExt)
  /\ IF m.id = Nobody THEN UNCHANGED <<port, toHost, task, storage>>
     ELSE Continue(m.id, AfterAnswer(m.id, m.ok, m.index), toHost, storage)
  /\ UNCHANGED <<fileVars, hostVars, cache, auto, locked, faults>>

\* handleHostEvent
HearChanged == toExt # <<>> /\ LET m == Head(toExt) IN
  /\ m.event
  /\ toExt' = Tail(toExt)
  /\ Begin([NoTask EXCEPT !.kind = "changed", !.at = "check", !.db = m.db], Event)
  /\ UNCHANGED <<fileVars, hostVars, cache, auto, locked, faults>>

\* Mutant of Orphaned: the one who waited is still known when the answer comes.
notOrphaned(q, t) == q

\* A request nobody waits for any more keeps its place in the pipe.
Orphaned(q, t) == [i \in DOMAIN q |-> IF q[i].id = t THEN [q[i] EXCEPT !.id = Nobody] ELSE q[i]]

TimeOut(t) ==
  /\ faults < MaxFaults
  /\ task[t].at \in HostCall
  /\ faults' = faults + 1
  /\ Continue(t, AfterAnswer(t, FALSE, NoIndex), Orphaned(toHost, t), storage)
  /\ toExt' = Orphaned(toExt, t)
  /\ serving' = IF serving.id = t THEN [serving EXCEPT !.id = Nobody] ELSE serving
  /\ UNCHANGED <<fileVars, index, fallbackPW, timer, firing, watching, cache, auto, locked>>

-----------------------------------------------------------------------------
\* The host.

Free == [at |-> "none", id |-> Nobody, db |-> NoDatabase, own |-> FALSE, index |-> NoIndex]

Take(cmd) == /\ port = "up" /\ serving = Free /\ toHost # <<>>
             /\ Head(toHost).cmd = cmd
             /\ toHost' = Tail(toHost)

Emit(m) == toExt' = Append(toExt, m)

ServeStatus ==
  /\ Take("status")
  /\ Emit(Answer(Head(toHost).id, TRUE, NoDatabase, NoIndex))
  /\ UNCHANGED <<fileVars, port, hostVars, extVars, faults>>

\* indexPage
ServeIndex == LET m == Head(toHost) IN
  /\ Take("index")
  /\ Emit(Answer(m.id, index[m.db] # NoIndex, m.db, index[m.db]))
  /\ UNCHANGED <<fileVars, port, hostVars, extVars, faults>>

zeroAll ==
  /\ Take("lock")
  /\ fallbackPW' = [d \in Database |-> "none"]
  /\ timer' = [d \in Database |-> FALSE]
  /\ index' = [d \in Database |-> NoIndex]
  /\ Emit(Answer(Head(toHost).id, TRUE, NoDatabase, NoIndex))
  /\ UNCHANGED <<fileVars, port, firing, watching, serving, extVars, faults>>

resetIdleLocked(d) == [timer EXCEPT ![d] = TRUE]

\* acquirePassword: what was typed, what is held, what the keyring has.
acquirePassword == LET m == Head(toHost) IN
  /\ Take("unlock")
  /\ fallbackPW' = IF m.password # "none" THEN [fallbackPW EXCEPT ![m.db] = m.password]
                   ELSE fallbackPW
  /\ timer' = IF fallbackPW'[m.db] # "none" THEN resetIdleLocked(m.db) ELSE timer
  /\ IF fallbackPW'[m.db] = "none" /\ keyring[m.db] = "none"
     THEN Emit(Answer(m.id, FALSE, m.db, NoIndex)) /\ UNCHANGED serving
     ELSE /\ serving' = [at |-> "export", id |-> m.id, db |-> m.db,
                         own |-> fallbackPW'[m.db] = "none", index |-> NoIndex]
          /\ UNCHANGED toExt
  /\ UNCHANGED <<fileVars, port, index, firing, watching, extVars, faults>>

\* Mutant of Exported: a database that is open is not read again.
exportedOnce(d, pw) == IF pw # "right" THEN NoIndex
                       ELSE IF index[d] # NoIndex THEN index[d] ELSE file[d]

\* buildIndex, of what keepassxc-cli exports with that password.
Exported(d, pw) == IF pw = "right" THEN file[d] ELSE NoIndex

\* keepassxc-cli reads the password, which a timer may have zeroed, and the file.
Export == LET d == serving.db IN
  /\ serving.at = "export"
  /\ LET pw == IF serving.own THEN keyring[d] ELSE fallbackPW[d] IN
     \/ /\ serving' = [serving EXCEPT !.at = "finish", !.index = Exported(d, pw)]
        /\ UNCHANGED faults
     \/ /\ pw = "right" /\ faults < MaxFaults
        /\ serving' = [serving EXCEPT !.at = "finish"]
        /\ faults' = faults + 1
  /\ UNCHANGED <<fileVars, port, index, fallbackPW, timer, firing, watching, toHost, toExt, extVars>>

\* A password that did not open the file is forgotten.
unlock == LET d == serving.db IN
  /\ serving.at = "finish"
  /\ IF serving.index = NoIndex
     THEN /\ fallbackPW' = [fallbackPW EXCEPT ![d] = "none"]
          /\ timer' = [timer EXCEPT ![d] = FALSE]
          /\ UNCHANGED <<index, watching>>
     ELSE /\ index' = [index EXCEPT ![d] = serving.index]
          /\ watching' = [watching EXCEPT ![d] = IF @ = "off" THEN "starting" ELSE @]
          /\ UNCHANGED <<fallbackPW, timer>>
  /\ Emit(Answer(serving.id, serving.index # NoIndex, d, NoIndex))
  /\ serving' = Free
  /\ UNCHANGED <<fileVars, port, firing, toHost, extVars, faults>>

\* The idle timer runs out; its function then waits for the lock.
Elapse(d) ==
  /\ timer[d] /\ ~firing[d]
  /\ timer' = [timer EXCEPT ![d] = FALSE]
  /\ firing' = [firing EXCEPT ![d] = TRUE]
  /\ UNCHANGED <<fileVars, port, index, fallbackPW, watching, serving, toHost, toExt, extVars, faults>>

\* It stops the timer there is by then, which may be a newer one.
forgetPassword(d) ==
  /\ firing[d]
  /\ firing' = [firing EXCEPT ![d] = FALSE]
  /\ timer' = [timer EXCEPT ![d] = FALSE]
  /\ fallbackPW' = [fallbackPW EXCEPT ![d] = "none"]
  /\ UNCHANGED <<fileVars, port, index, watching, serving, toHost, toExt, extVars, faults>>

Watch(d, from, to) == watching[d] = from /\ watching' = [watching EXCEPT ![d] = to]

startWatch(d) ==
  /\ \/ Watch(d, "starting", "on") /\ UNCHANGED faults
     \/ /\ Watch(d, "starting", "unavailable")
        /\ faults < MaxFaults /\ faults' = faults + 1
  /\ UNCHANGED <<fileVars, port, index, fallbackPW, timer, firing, serving, toHost, toExt, extVars>>

\* The file has been quiet for watchDebounce.
announce(d) ==
  /\ Watch(d, "pending", "on")
  /\ Emit(Changed(d))
  /\ UNCHANGED <<fileVars, port, index, fallbackPW, timer, firing, serving, toHost, extVars, faults>>

\* A sync or a password manager saves the file.
Save(d) ==
  /\ file[d] < MaxSaves
  /\ file' = [file EXCEPT ![d] = @ + 1]
  /\ watching' = [watching EXCEPT ![d] = IF @ = "on" THEN "pending" ELSE @]
  /\ UNCHANGED <<keyring, port, index, fallbackPW, timer, firing, serving, toHost, toExt, extVars, faults>>

-----------------------------------------------------------------------------
\* The process and the background page.

HostGone ==
  /\ index' = [d \in Database |-> NoIndex]
  /\ fallbackPW' = [d \in Database |-> "none"]
  /\ timer' = [d \in Database |-> FALSE]
  /\ firing' = [d \in Database |-> FALSE]
  /\ watching' = [d \in Database |-> "off"]
  /\ serving' = Free

HostDies ==
  /\ port = "up" /\ faults < MaxFaults
  /\ faults' = faults + 1
  /\ port' = "dead"
  /\ HostGone
  /\ UNCHANGED <<fileVars, toHost, toExt, extVars>>

\* Mutant of Rejections: those who wait are forgotten.
noRejections == <<>>

\* Every request that waits is rejected.
Rejections == LET waiting == SetToSeq({t \in Task : task[t].at \in HostCall}) IN
  [i \in DOMAIN waiting |-> Answer(waiting[i], FALSE, NoDatabase, NoIndex)]

\* onDisconnect
Disconnect ==
  /\ port = "dead" /\ toExt = <<>>
  /\ port' = "none"
  /\ toHost' = <<>>
  /\ toExt' = Rejections
  /\ UNCHANGED <<fileVars, hostVars, extVars, faults>>

\* The browser unloads a background page with nothing to do; the host goes with it.
Unload ==
  /\ port = "up" /\ faults < MaxFaults
  /\ \A t \in Task : ~Running(t)
  /\ faults' = faults + 1
  /\ port' = "none" /\ toHost' = <<>> /\ toExt' = <<>>
  /\ HostGone
  /\ UNCHANGED <<fileVars, extVars>>

-----------------------------------------------------------------------------
Init ==
  /\ file = [d \in Database |-> 1]
  /\ keyring \in [Database -> Stored]
  /\ port = "none"
  /\ index = [d \in Database |-> NoIndex]
  /\ fallbackPW = [d \in Database |-> "none"]
  /\ timer = [d \in Database |-> FALSE]
  /\ firing = [d \in Database |-> FALSE]
  /\ watching = [d \in Database |-> "off"]
  /\ serving = Free
  /\ toHost = <<>> /\ toExt = <<>> /\ storage = <<>>
  /\ task = [t \in Task |-> NoTask]
  /\ cache = [d \in Database |-> NoIndex]
  /\ auto = NoTask.auto
  /\ locked = "no"
  /\ faults = 0

Storage == \E t \in Task : ReadStorage(t) \/ WriteCache(t) \/ RemoveCache(t) \/ WriteAuto(t)
Hear == HearAnswer \/ HearChanged
Serve == ServeStatus \/ ServeIndex \/ zeroAll \/ acquirePassword \/ Export \/ unlock

Next ==
  \/ Storage \/ Hear \/ Serve \/ Disconnect
  \/ LockAll \/ AutoConnect \/ HostDies \/ Unload
  \/ \E t \in Task : TimeOut(t)
  \/ \E d \in Database : \/ ManualUnlock(d) \/ Save(d)
                         \/ Elapse(d) \/ forgetPassword(d) \/ startWatch(d) \/ announce(d)

\* Callbacks, messages, the host and the debounce come round; nobody has to
\* click, to save, to die or to be slow.
Fairness == /\ WF_vars(Storage) /\ WF_vars(Hear) /\ WF_vars(Serve) /\ WF_vars(Disconnect)
            /\ \A d \in Database : WF_vars(announce(d))

Spec == Init /\ [][Next]_vars
FairSpec == Spec /\ Fairness

-----------------------------------------------------------------------------
\* A typed password never stays in the host's memory without a timer that will
\* take it, or one that has gone off and is about to (browser_host.go:338-380).
PasswordHasTimer == \A d \in Database : fallbackPW[d] # "none" => timer[d] \/ firing[d]

\* Types; a held password has its timer; and the storage queue names exactly the
\* routines that wait for the storage, each once, so that no answer of the host
\* reaches a routine that has given up (background.js:76-79).
TypeOK ==
  /\ file \in [Database -> 1..MaxSaves] /\ keyring \in [Database -> Stored]
  /\ port \in {"none", "up", "dead"}
  /\ index \in [Database -> Index] /\ cache \in [Database -> Index]
  /\ fallbackPW \in [Database -> Password]
  /\ timer \in [Database -> BOOLEAN] /\ firing \in [Database -> BOOLEAN]
  /\ watching \in [Database -> {"off", "starting", "on", "pending", "unavailable"}]
  /\ auto \in [suppressed : BOOLEAN, failed : SUBSET Database]
  /\ PasswordHasTimer
  /\ IsInjective(storage)
  /\ ToSet(storage) = {t \in Task : task[t].at \in StorageCall}

\* After a Lock beside which no routine was opening a database, the databases
\* stay locked until the user unlocks one, whatever the watches announce, the
\* popup asks for or the pipe still held; and the host has nothing either,
\* unless a request that had timed out reached it later (background.js:94-99,178-188).
LockSticks == locked = "yes" =>
  /\ auto.suppressed
  /\ \A d \in Database : /\ cache[d] = NoIndex
                         /\ faults = 0 => index[d] = NoIndex /\ fallbackPW[d] = "none"

\* With the password in the keyring, a save the watch has seen is in the cache
\* in the end, or the database has been locked, once nothing fails any more: no
\* routine leaves an older index behind (browser_host.go:399-402, background.js:91-109).
Fresh == \A d \in Database, v \in 2..MaxSaves :
  (keyring[d] = "right" /\ watching[d] = "pending" /\ file[d] = v /\ faults = MaxFaults)
    ~> (cache[d] >= v \/ cache[d] = NoIndex)

\* Every routine ends: no popup waits for ever for an answer that was lost with
\* the host or came after the time-out (background.js:25-41,70-89).
RoutinesEnd == \A t \in Task : Running(t) ~> ~Running(t)

==============================================================================
