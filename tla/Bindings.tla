------------------------------ MODULE Bindings -------------------------------
(***************************************************************************)
(* The commands that bind local files to databases on the server.            *)
(*                                                                          *)
(* Each command is a process.  It reads config.toml when it starts and       *)
(* replaces the whole file when it ends, without a lock: the last one to     *)
(* save wins.  The daemon saves what it read when it was started.  A request *)
(* may fail and a process may be killed at any step.                         *)
(*                                                                          *)
(* Of a database only the number of its newest version matters here: what    *)
(* sync does with the versions is the subject of DesktopSync, and what a push *)
(* alone does to the cursor too.                                             *)
(***************************************************************************)
EXTENDS Naturals

CONSTANTS
  Name,              \* names, of bindings and of databases on the server
  Remote, NoRemote,  \* UUIDs of databases; "" of a local-only binding
  Path,              \* .kdbx files
  Process,           \* bound: commands running at the same time
  MaxSeq,            \* bound: versions of a database
  Beginnings         \* the states of files, server and config.toml to start from

ASSUME RemotesAssumption == NoRemote \notin Remote
ASSUME SeqAssumption == MaxSeq \in Nat

VARIABLES
  config,  \* config.toml: enrolled or not, and the binding of each name
  server,  \* the databases this device's user may see
  files,   \* of each file: the number up to which it has got a database's versions
  proc     \* the processes

cliVars == <<config, server, files, proc>>

Unbound == [path |-> "none", remote |-> NoRemote, seq |-> 0]
NoDatabase == [name |-> "none", role |-> "none", seq |-> 0]
Gone == [name |-> "none", role |-> "gone", seq |-> 0]
Nothing == [r \in Remote |-> 0]
SomeName == CHOOSE n \in Name : TRUE
Idle == [at |-> "idle"]

Binding == [path: Path, remote: Remote \cup {NoRemote}, seq: 0..MaxSeq]
Database == [name: Name, role: {"owner", "member"}, seq: 0..MaxSeq]
Config == [enrolled: BOOLEAN, bound: [Name -> Binding \cup {Unbound}]]

ASSUME NameAssumption == Name # {}

\* At first, a file that does not exist has no versions; one that is bound exists and has
\* all that the cursor says.
ASSUME BeginningsAssumption ==
  \A b \in Beginnings :
    /\ b.config \in Config
    /\ b.server \in [Remote -> Database \cup {NoDatabase, Gone}]
    /\ b.files \in [Path -> [exists: BOOLEAN, got: [Remote -> 0..MaxSeq]]]
    /\ \A f \in Path : ~b.files[f].exists => b.files[f].got = Nothing
    /\ \A n \in Name :
         LET x == b.config.bound[n]
         IN x.remote # NoRemote =>
              b.files[x.path].exists /\ x.seq <= b.files[x.path].got[x.remote]

\* A row of the GUI's list.  A local-only row has no id and is not "bound".
Row == [name: Name, id: Remote \cup {NoRemote}, bound: BOOLEAN]

IsBound(c, n) == c.bound[n] # Unbound
LocalOnly(b) == b.remote = NoRemote
Exists(f) == files[f].exists
Visible(r) == server[r] \in Database

-----------------------------------------------------------------------------
(* Processes *)

\* What a process of the GUI leaves; one of the shell has printed it.
Outcome(from, cmd, code, rows) ==
  IF from = "shell" THEN Idle ELSE [from |-> from, cmd |-> cmd, at |-> code, rows |-> rows]

\* Loads the configuration and makes the checks that need nothing else (ok).
Begin(p, from, cmd, ok, at, n, r, f) ==
  /\ from # "shell" \/ ok
  /\ proc' = [proc EXCEPT ![p] =
       IF ok THEN [from |-> from, cmd |-> cmd, at |-> at, cfg |-> config,
                   name |-> n, remote |-> r, path |-> f, seq |-> 0]
       ELSE Outcome(from, cmd, "failed", {})]

Go(p, q) == proc' = [proc EXCEPT ![p] = q]
Exit(p, code) == Go(p, Outcome(proc[p].from, proc[p].cmd, code, {}))

\* Mutant of Save: a sync reads the file again and changes its own cursor only.
SaveCursor(p) ==
  config' = IF proc[p].cmd \in {"sync", "daemon"}
            THEN IF IsBound(config, proc[p].name)
                 THEN [config EXCEPT !.bound[proc[p].name].seq =
                         proc[p].cfg.bound[proc[p].name].seq]
                 ELSE config
            ELSE proc[p].cfg

\* The whole file is replaced by what the process has in memory.
Save(p) == config' = proc[p].cfg

\* The last step of a command.  The daemon goes on with what it has.
SaveConfig(p) ==
  /\ proc[p].at = "save"
  /\ Save(p)
  /\ IF proc[p].cmd = "daemon" THEN Go(p, [proc[p] EXCEPT !.at = "cycle"])
     ELSE Exit(p, "ok")
  /\ UNCHANGED <<server, files>>

\* A new process takes some free slot, no matter which.
Free(p) == proc[p] = Idle /\ p = CHOOSE q \in Process : proc[q] = Idle

Running(p) == proc[p] # Idle /\ proc[p].at \notin {"ok", "failed"}

\* A request fails, the user interrupts, the GUI's time-out kills the process.
Fail(p) ==
  /\ Running(p)
  /\ UNCHANGED <<config, server, files>>
  /\ Exit(p, "failed")

-----------------------------------------------------------------------------
(* init, with or without --bind *)

AddDatabase(c, n, b) == [c EXCEPT !.bound[n] = b]

\* An empty --bind is none.
runInit(p, from, n, f, r) ==
  Begin(p, from, "init", Exists(f) /\ config.enrolled /\ ~IsBound(config, n),
        IF r = NoRemote THEN "create" ELSE "lookup", n, r, f)

BindTo(p, r) ==
  Go(p, [proc[p] EXCEPT !.at = "save",
    !.cfg = AddDatabase(@, proc[p].name, [path |-> proc[p].path, remote |-> r, seq |-> 0])])

CreateDatabase(p) ==
  /\ proc[p].at = "create"
  /\ \E r \in Remote :
       /\ server[r] = NoDatabase
       /\ server' = [server EXCEPT ![r] = [name |-> proc[p].name, role |-> "owner", seq |-> 0]]
       /\ BindTo(p, r)
  /\ UNCHANGED <<config, files>>

LookupDatabase(p) ==
  /\ proc[p].at = "lookup" /\ Visible(proc[p].remote)
  /\ BindTo(p, proc[p].remote)
  /\ UNCHANGED <<config, server, files>>

-----------------------------------------------------------------------------
(* init-shared: a file of its own for a database shared by its owner *)

\* t is the name on the server, n the local one.
runInitShared(p, from, t, n, f) ==
  \E r \in {q \in Remote : Visible(q) /\ server[q].name = t /\ server[q].role = "member"}
           \cup {NoRemote} :
    Begin(p, from, "init-shared",
          ~Exists(f) /\ config.enrolled /\ ~IsBound(config, n) /\ r # NoRemote,
          "fetchAll", n, r, f)

\* Everything is fetched; then the user chooses a password for the new file.
FetchShared(p) ==
  /\ proc[p].at = "fetchAll" /\ Visible(proc[p].remote)
  /\ Go(p, [proc[p] EXCEPT !.at = "import", !.seq = server[proc[p].remote].seq])
  /\ UNCHANGED <<config, server, files>>

\* keepassxc-cli import refuses to replace a file.
ImportShared(p) ==
  /\ proc[p].at = "import" /\ ~Exists(proc[p].path)
  /\ files' = [files EXCEPT ![proc[p].path] =
       [exists |-> TRUE, got |-> [Nothing EXCEPT ![proc[p].remote] = proc[p].seq]]]
  /\ Go(p, [proc[p] EXCEPT !.at = "save",
       !.cfg = AddDatabase(@, proc[p].name,
                 [path |-> proc[p].path, remote |-> proc[p].remote, seq |-> proc[p].seq])])
  /\ UNCHANGED <<config, server>>

-----------------------------------------------------------------------------
(* add-local, forget, delete-database *)

\* Needs no enrollment.
runAddLocal(p, from, n, f) ==
  Begin(p, from, "add-local", Exists(f) /\ ~IsBound(config, n), "add", n, NoRemote, f)

\* The password may be asked for and checked before the binding is saved.
AddLocal(p) ==
  /\ proc[p].at = "add"
  /\ Go(p, [proc[p] EXCEPT !.at = "save",
       !.cfg = AddDatabase(@, proc[p].name,
                 [path |-> proc[p].path, remote |-> NoRemote, seq |-> 0])])
  /\ UNCHANGED <<config, server, files>>

\* Looks for names only.
runForget(p, from, n) ==
  Begin(p, from, "forget", IsBound(config, n), "drop", n, NoRemote, "none")

DropBinding(p) ==
  /\ proc[p].at = "drop"
  /\ Go(p, [proc[p] EXCEPT !.at = "save", !.cfg.bound[proc[p].name] = Unbound])
  /\ UNCHANGED <<config, server, files>>

\* A name that is bound, else a UUID.
resolveDeleteTarget(c, t) ==
  IF t \in Name THEN c.bound[t].remote ELSE t

runDeleteDatabase(p, from, t) ==
  LET r == resolveDeleteTarget(config, t)
  IN Begin(p, from, "delete-database", config.enrolled /\ r # NoRemote, "delete",
           SomeName, r, "none")

WithoutRemote(c, r) ==
  [c EXCEPT !.bound = [n \in Name |-> IF @[n].remote = r THEN Unbound ELSE @[n]]]

\* Only the owner's.  All bindings to it go; nothing is saved if there are none.
DeleteDatabase(p) ==
  /\ proc[p].at = "delete"
  /\ Visible(proc[p].remote) /\ server[proc[p].remote].role = "owner"
  /\ server' = [server EXCEPT ![proc[p].remote] = Gone]
  /\ UNCHANGED <<config, files>>
  /\ LET kept == WithoutRemote(proc[p].cfg, proc[p].remote)
     IN IF kept = proc[p].cfg THEN Exit(p, "ok")
        ELSE Go(p, [proc[p] EXCEPT !.at = "save", !.cfg = kept])

-----------------------------------------------------------------------------
(* sync and pull, and the daemon *)

Syncable(c, n) == IsBound(c, n) /\ ~LocalOnly(c.bound[n])

\* The binding of that name, which must not be local-only.
loadDBAndCLI(p, from, n) ==
  Begin(p, from, "sync", config.enrolled /\ Syncable(config, n), "fetch", n, NoRemote, "none")

runDaemon(p) ==
  Begin(p, "shell", "daemon", config.enrolled, "cycle", SomeName, NoRemote, "none")

Mine(p) == proc[p].cfg.bound[proc[p].name]

\* What is newer than the cursor; for the daemon, of any database that was bound
\* when it was started.
GetChanges(p) ==
  /\ \/ proc[p].at = "fetch" /\ Visible(Mine(p).remote)
        /\ Go(p, [proc[p] EXCEPT !.at = "merge", !.seq = server[Mine(p).remote].seq])
     \/ \E n \in Name :
          /\ proc[p].at = "cycle" /\ Syncable(proc[p].cfg, n)
          /\ Visible(proc[p].cfg.bound[n].remote)
          /\ Go(p, [proc[p] EXCEPT !.at = "merge", !.name = n,
                                   !.seq = server[proc[p].cfg.bound[n].remote].seq])
  /\ UNCHANGED <<config, server, files>>

\* Merging versions a+1..b into a file that has those up to at least a.
Received(f, r, a, b) ==
  IF a <= files[f].got[r] /\ files[f].got[r] < b
  THEN files' = [files EXCEPT ![f].got[r] = b]
  ELSE UNCHANGED files

\* Mutant of pullChanges: the cursor is the first version not yet seen.
pullNext(p) ==
  /\ proc[p].at = "merge"
  /\ Received(Mine(p).path, Mine(p).remote, Mine(p).seq, proc[p].seq)
  /\ Go(p, [proc[p] EXCEPT !.at = "save", !.seq = 0,
                           !.cfg.bound[proc[p].name].seq = proc[p].seq + 1])
  /\ UNCHANGED <<config, server>>

\* The file first, then the cursor, in memory.
pullChanges(p) ==
  /\ proc[p].at = "merge"
  /\ Received(Mine(p).path, Mine(p).remote, Mine(p).seq, proc[p].seq)
  /\ Go(p, [proc[p] EXCEPT !.at = "save", !.seq = 0,
                           !.cfg.bound[proc[p].name].seq = proc[p].seq])
  /\ UNCHANGED <<config, server>>

\* Another device writes, or deletes what this device's user owns.
OthersWrite(r) ==
  /\ Visible(r) /\ server[r].seq < MaxSeq
  /\ server' = [server EXCEPT ![r].seq = @ + 1]
  /\ UNCHANGED <<config, files, proc>>

-----------------------------------------------------------------------------
(* enroll *)

runEnroll(p, from) ==
  Begin(p, from, "enroll", TRUE, "enroll", SomeName, NoRemote, "none")

Enroll(p) ==
  /\ proc[p].at = "enroll"
  /\ Go(p, [proc[p] EXCEPT !.at = "save", !.cfg.enrolled = TRUE])
  /\ UNCHANGED <<config, server, files>>

-----------------------------------------------------------------------------
(* The terminal: a menu that runs the commands, and commands typed *)

\* The databases the menu offers, read when it is drawn.
pickDatabaseFiltered == {n \in Name : Syncable(config, n)}

\* Before enrollment the menu has nothing else.
showMain(p) == ~config.enrolled /\ runEnroll(p, "shell")

\* Saves the whole configuration, of which only the language changes.
toggleLanguage(p) == Begin(p, "shell", "language", TRUE, "save", SomeName, NoRemote, "none")

showDatabasesMenu(p) ==
  \/ \E n \in pickDatabaseFiltered :
       \/ loadDBAndCLI(p, "shell", n) \/ runForget(p, "shell", n)
       \/ runDeleteDatabase(p, "shell", n)
  \/ \E n \in Name, f \in Path : runInit(p, "shell", n, f, NoRemote)

showBrowserMenu(p) == \E n \in Name, f \in Path : runAddLocal(p, "shell", n, f)

showSettingsMenu(p) == toggleLanguage(p) \/ runDaemon(p)

\* What the menu has not.
Typed(p) ==
  \/ config.enrolled /\ runEnroll(p, "shell")
  \/ \E n \in Name, f \in Path, r \in Remote : runInit(p, "shell", n, f, r)
  \/ \E t, n \in Name, f \in Path : runInitShared(p, "shell", t, n, f)
  \/ \E n \in Name \ pickDatabaseFiltered : runForget(p, "shell", n)
  \/ \E r \in Remote : runDeleteDatabase(p, "shell", r)

Terminal(p) ==
  /\ Free(p)
  /\ \/ showMain(p) \/ showSettingsMenu(p) \/ showDatabasesMenu(p) \/ showBrowserMenu(p)
     \/ Typed(p)
  /\ UNCHANGED <<config, server, files>>

Proceed(p) ==
  \/ CreateDatabase(p) \/ LookupDatabase(p)
  \/ FetchShared(p) \/ ImportShared(p)
  \/ AddLocal(p) \/ DropBinding(p) \/ DeleteDatabase(p)
  \/ GetChanges(p) \/ pullChanges(p)
  \/ Enroll(p) \/ SaveConfig(p) \/ Fail(p)

-----------------------------------------------------------------------------
(* Properties *)

Processes ==
  {Idle} \cup
  [from: {"shell", "wizard", "dashboard"},
   cmd: {"init", "init-shared", "add-local", "forget", "delete-database", "sync", "daemon",
         "enroll", "language", "status", "databases", "sync all", "user-enrollment"},
   at: {"create", "lookup", "fetchAll", "import", "add", "drop", "delete", "fetch", "merge",
        "cycle", "enroll", "save", "ask", "list", "retry"},
   cfg: Config, name: Name, remote: Remote \cup {NoRemote}, path: Path \cup {"none"},
   seq: 0..MaxSeq]
  \cup
  [from: {"wizard", "dashboard"},
   cmd: {"init", "init-shared", "forget", "delete-database", "sync", "enroll", "status",
         "databases", "sync all", "user-enrollment"},
   at: {"ok", "failed"}, rows: SUBSET Row]

CliTypeOK ==
  /\ config \in Config
  /\ server \in [Remote -> Database \cup {NoDatabase, Gone}]
  /\ files \in [Path -> [exists: BOOLEAN, got: [Remote -> 0..MaxSeq]]]
  /\ proc \in [Process -> Processes]

\* A cursor never says that a file has versions it has not: a command that
\* overwrites what another one saved makes work be repeated, never skipped.
CursorFitsFile ==
  \A n \in Name :
    LET b == config.bound[n]
    IN b # Unbound /\ ~LocalOnly(b) => b.seq <= files[b.path].got[b.remote]

==============================================================================
