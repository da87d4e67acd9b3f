------------------------------ MODULE Dashboard ------------------------------
(***************************************************************************)
(* The desktop GUI: the guide that enrolls a machine and the list of its     *)
(* databases.                                                                *)
(*                                                                          *)
(* The GUI does nothing itself: a goroutine runs the command line program    *)
(* (Bindings) and hands the outcome to the window's thread, which draws it    *)
(* and may start the next command.  Goroutines end in any order.  A click acts *)
(* on the row as it was drawn; a dialog that stays open between the two only   *)
(* makes the row older.  Meanwhile the same program is run in a terminal.     *)
(***************************************************************************)
EXTENDS Bindings

CONSTANTS MaxClicks, MaxShell   \* bounds: what the user does in the window, and outside

ASSUME ClicksAssumption == MaxClicks \in Nat /\ MaxShell \in Nat

VARIABLES
  screen,   \* what fills the window
  list,     \* the list of databases: being fetched, an error, or rows
  clicks,   \* clicks so far
  typed     \* commands typed in a terminal so far

gui == <<screen, list>>
vars == <<cliVars, gui, clicks, typed>>

Working == [is |-> "working", rows |-> {}]
Failed == [is |-> "error", rows |-> {}]
Rows(rs) == [is |-> "rows", rows |-> rs]

Init ==
  /\ \E b \in Beginnings : config = b.config /\ server = b.server /\ files = b.files
  /\ proc = [p \in Process |-> Idle]
  /\ screen = "start" /\ list = Rows({})
  /\ clicks = 0 /\ typed = 0

Click == clicks < MaxClicks /\ clicks' = clicks + 1 /\ UNCHANGED typed
On(s) == screen = s
\* The window reads and writes no file and asks no server.
UnchangedFiles == UNCHANGED <<config, server, files>>

-----------------------------------------------------------------------------
(* Which of the two the window shows *)

\* Who this device is, for which it must be enrolled.
status(p) == Begin(p, "wizard", "status", config.enrolled, "ask", SomeName, NoRemote, "none")

\* The server says who this device is.
AskStatus(p) ==
  /\ proc[p].at = "ask" /\ proc[p].cmd = "status"
  /\ UnchangedFiles
  /\ Exit(p, "ok")

route ==
  /\ On("start") /\ screen' = "spinner"
  /\ \E p \in Process : Free(p) /\ status(p)
  /\ UNCHANGED <<list, clicks, typed>> /\ UnchangedFiles

\* `databases`: the server's list, marked with what is bound, and the local-only.
databases(p, from, cmd) ==
  Begin(p, from, cmd,
        config.enrolled \/ \E n \in Name : IsBound(config, n) /\ LocalOnly(config.bound[n]),
        "list", SomeName, NoRemote, "none")

Listing(c) ==
  {[name |-> server[r].name, id |-> r, bound |-> \E n \in Name : c.bound[n].remote = r] :
     r \in {q \in Remote : Visible(q) /\ c.enrolled}}
  \cup {[name |-> n, id |-> NoRemote, bound |-> FALSE] :
          n \in {m \in Name : IsBound(c, m) /\ LocalOnly(c.bound[m])}}

ListDatabases(p) ==
  /\ proc[p].at = "list"
  /\ UnchangedFiles
  /\ Go(p, Outcome(proc[p].from, proc[p].cmd, "ok", Listing(proc[p].cfg)))

refreshDatabases(p) == list' = Working /\ databases(p, "dashboard", "databases")

showDashboard(p) == screen' = "dashboard" /\ refreshDatabases(p)

\* Mutant of DatabasesDone: an error is logged and nothing is drawn.
DatabasesDoneQuietly(p) ==
  /\ proc[p].cmd = "databases"
  /\ list' = IF proc[p].at = "ok" THEN Rows(proc[p].rows) ELSE list
  /\ Go(p, Idle)
  /\ UNCHANGED screen

\* The outcome replaces what is shown, also when a newer fetch is under way.
DatabasesDone(p) ==
  /\ proc[p].cmd = "databases"
  /\ list' = IF proc[p].at = "ok" THEN Rows(proc[p].rows) ELSE Failed
  /\ Go(p, Idle)
  /\ UNCHANGED screen

\* Any failure of `status` counts as not enrolled.
routeDone(p) ==
  /\ proc[p].cmd = "status"
  /\ IF proc[p].at = "ok" THEN showDashboard(p)
     ELSE screen' = "guide" /\ Go(p, Idle) /\ UNCHANGED list

-----------------------------------------------------------------------------
(* The guide *)

\* The spinner has no buttons: one command of the guide runs at a time.
Spin(start) == /\ screen' = "spinner" /\ UNCHANGED list
               /\ start

showEnrollStep(p) == On("guide") /\ Spin(runEnroll(p, "wizard"))

\* An administrator's machine gets an enrollment token first.
showAdvancedEnroll(p) ==
  /\ On("guide")
  /\ Spin(Begin(p, "wizard", "user-enrollment", TRUE, "ask", SomeName, NoRemote, "none"))

IssueToken(p) ==
  /\ proc[p].at = "ask" /\ proc[p].cmd = "user-enrollment"
  /\ UnchangedFiles
  /\ Exit(p, "ok")

IssueDone(p) ==
  /\ proc[p].cmd = "user-enrollment"
  /\ UNCHANGED list
  /\ IF proc[p].at = "ok" THEN screen' = "spinner" /\ runEnroll(p, "wizard")
     ELSE screen' = "guide" /\ Go(p, Idle)

EnrollDone(p) ==
  /\ proc[p].cmd = "enroll"
  /\ screen' = IF proc[p].at = "ok" THEN "add database" ELSE "guide"
  /\ Go(p, Idle) /\ UNCHANGED list

showAddDBStep(p) ==
  /\ On("add database")
  /\ \E n \in Name, f \in Path : Spin(runInit(p, "wizard", n, f, NoRemote))

AddDBStepDone(p) ==
  /\ proc[p].cmd = "init" /\ proc[p].from = "wizard"
  /\ screen' = IF proc[p].at = "ok" THEN "finish" ELSE "add database"
  /\ Go(p, Idle) /\ UNCHANGED list

\* Skipping the database, or the button of the last step.
LeaveGuide(p) == screen \in {"add database", "finish"} /\ showDashboard(p)

Guide(p) ==
  \/ showEnrollStep(p) \/ showAdvancedEnroll(p) \/ showAddDBStep(p) \/ LeaveGuide(p)

-----------------------------------------------------------------------------
(* The rows' buttons *)

Start(command) == command /\ UNCHANGED gui

\* The name on the server is taken for the name of the binding.
runSync(p, row) == row.bound /\ Start(loadDBAndCLI(p, "dashboard", row.name))

\* First with the id, which `forget` never finds, then with the name.
forgetDatabase(p, row) ==
  row.bound /\ Start(Begin(p, "dashboard", "forget", TRUE, "retry", row.name, row.id, "none"))

ForgetByName(p) ==
  /\ proc[p].at = "retry"
  /\ UnchangedFiles
  /\ runForget(p, "dashboard", proc[p].name)

\* The id; a row without one, its name.
deleteDatabaseServer(p, row) ==
  Start(runDeleteDatabase(p, "dashboard", IF row.id # NoRemote THEN row.id ELSE row.name))

\* Offered for local-only rows too: `init --bind ""`.
bindDatabase(p, row) ==
  ~row.bound /\ \E f \in Path : Start(runInit(p, "dashboard", row.name, f, row.id))

setupSharedDB(p, row) ==
  ~row.bound /\ \E f \in Path : Start(runInitShared(p, "dashboard", row.name, row.name, f))

showAddDBDialog(p) ==
  \E n \in Name, f \in Path : Start(runInit(p, "dashboard", n, f, NoRemote))

\* Of what is bound when it is clicked.
syncAll(p) == Start(databases(p, "dashboard", "sync all"))

\* One process for each, all at once (bound: as many as there are slots left).
syncAllDone(p) ==
  /\ proc[p].cmd = "sync all"
  /\ UNCHANGED gui
  /\ LET names == {row.name : row \in {s \in proc[p].rows : s.bound}}
         free == {p} \cup {q \in Process : proc[q] = Idle}
         synced(n) == IF config.enrolled /\ Syncable(config, n)
                      THEN [from |-> "dashboard", cmd |-> "sync", at |-> "fetch",
                            cfg |-> config, name |-> n, remote |-> NoRemote, path |-> "none",
                            seq |-> 0]
                      ELSE Outcome("dashboard", "sync", "failed", {})
     IN \E slot \in [names -> free] :
          /\ \A m, n \in names : slot[m] = slot[n] => m = n
          /\ proc' = [q \in Process |->
               IF \E n \in names : slot[n] = q
               THEN synced(CHOOSE n \in names : slot[n] = q)
               ELSE IF q = p THEN Idle ELSE proc[q]]

\* An error is shown and the list left as it was; after success it is fetched.
afterDBOp(p) ==
  /\ proc[p].from = "dashboard" /\ proc[p].cmd \notin {"databases", "sync all"}
  /\ UNCHANGED screen
  /\ IF proc[p].at = "ok" THEN refreshDatabases(p) ELSE Go(p, Idle) /\ UNCHANGED list

RowButton(p, row) ==
  \/ runSync(p, row) \/ forgetDatabase(p, row) \/ deleteDatabaseServer(p, row)
  \/ bindDatabase(p, row) \/ setupSharedDB(p, row)

Button(p) ==
  /\ On("dashboard")
  /\ \/ \E row \in list.rows : RowButton(p, row)
     \/ showAddDBDialog(p) \/ syncAll(p)
     \/ UNCHANGED screen /\ refreshDatabases(p)

-----------------------------------------------------------------------------
\* The user of the window.
Window(p) ==
  /\ Free(p)
  /\ Click
  /\ Guide(p) \/ Button(p)
  /\ UnchangedFiles

Shell(p) ==
  /\ typed < MaxShell /\ typed' = typed + 1
  /\ Terminal(p)
  /\ UNCHANGED <<gui, clicks>>

\* A process goes on.
Work(p) ==
  /\ \/ Proceed(p) \/ AskStatus(p) \/ IssueToken(p) \/ ListDatabases(p) \/ ForgetByName(p)
  /\ UNCHANGED <<gui, clicks, typed>>

\* The window's thread runs what was handed to it by fyne.Do.
Done(p) ==
  /\ proc[p].at \in {"ok", "failed"}
  /\ \/ DatabasesDone(p) \/ routeDone(p) \/ IssueDone(p) \/ EnrollDone(p) \/ AddDBStepDone(p)
     \/ syncAllDone(p) \/ afterDBOp(p)
  /\ UNCHANGED <<clicks, typed>> /\ UnchangedFiles

Others ==
  /\ \E r \in Remote : OthersWrite(r)
  /\ UNCHANGED <<gui, clicks, typed>>

Next ==
  \/ route
  \/ \E p \in Process : Window(p) \/ Shell(p) \/ Work(p) \/ Done(p)
  \/ Others

Spec == Init /\ [][Next]_vars

\* Processes end, if only by their time-outs, and the window's thread runs.
FairSpec ==
  Spec /\ WF_vars(route) /\ \A p \in Process : WF_vars(Work(p)) /\ WF_vars(Done(p))

-----------------------------------------------------------------------------
(* Properties *)

\* The variables have their types.
TypeOK ==
  /\ CliTypeOK
  /\ screen \in {"start", "spinner", "guide", "add database", "finish", "dashboard"}
  /\ list \in [is: {"working", "error", "rows"}, rows: SUBSET Row]
  /\ clicks \in 0..MaxClicks /\ typed \in 0..MaxShell

Busy == On("spinner") \/ list.is = "working"

\* Neither the spinner, which has no buttons, nor the list's "Working..." stays.
WindowComesBack == Busy ~> ~Busy

==============================================================================
