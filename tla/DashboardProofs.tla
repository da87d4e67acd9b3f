--------------------------- MODULE DashboardProofs ---------------------------
(***************************************************************************)
(* Theorems about Dashboard and the commands of Bindings, for any names,     *)
(* databases, files and processes: types, and that config.toml never says    *)
(* that a file has versions it has not got.                                  *)
(***************************************************************************)
EXTENDS Dashboard, TLAPS

-----------------------------------------------------------------------------
(* The invariant *)

\* Where a process can be before it has ended.
Steps ==
  {"create", "lookup", "fetchAll", "import", "add", "drop", "delete", "fetch", "merge",
   "cycle", "enroll", "save", "ask", "list", "retry"}

\* The commands the GUI runs.
GuiCommands ==
  {"init", "init-shared", "forget", "delete-database", "sync", "enroll", "status",
   "databases", "sync all", "user-enrollment"}

\* A running process.
Active ==
  [from: {"shell", "wizard", "dashboard"},
   cmd: GuiCommands \cup {"add-local", "daemon", "language"},
   at: Steps,
   cfg: Config, name: Name, remote: Remote \cup {NoRemote}, path: Path \cup {"none"},
   seq: 0..MaxSeq]

\* One that has ended, of which the GUI has not been told.
Ended == [from: {"wizard", "dashboard"}, cmd: GuiCommands, at: {"ok", "failed"}, rows: SUBSET Row]

\* The file of a binding is there, with all that the cursor says.
Holds(fs, b) == b.remote # NoRemote => fs[b.path].exists /\ b.seq <= fs[b.path].got[b.remote]

\* No cursor of configuration c is beyond what its file has, in files fs.
Fits(c, fs) == \A n \in Name : Holds(fs, c.bound[n])

FileSet == [Path -> [exists: BOOLEAN, got: [Remote -> 0..MaxSeq]]]

\* Files only get more.
Grows(fs, gs) ==
  \A f \in Path : /\ fs[f].exists => gs[f].exists
                  /\ \A r \in Remote : fs[f].got[r] <= gs[f].got[r]

\* What the step a process is at needs of its arguments; and what it will save over
\* config.toml fits as well.
Sound(q, fs) ==
  /\ q.from # "shell" => q.cmd \in GuiCommands
  /\ q.at \in {"create", "lookup", "fetchAll", "import", "add"} => q.path \in Path
  /\ q.at \in {"create", "lookup"} => fs[q.path].exists
  /\ q.at \in {"lookup", "fetchAll", "import", "delete"} => q.remote \in Remote
  /\ q.at \in {"fetch", "merge"} => Syncable(q.cfg, q.name)
  /\ Fits(q.cfg, fs)

Good(q, fs) == q = Idle \/ q \in Ended \/ (q \in Active /\ Sound(q, fs))

\* A file that does not exist has no versions.
FilesInv == \A f \in Path : ~Exists(f) => files[f].got = Nothing

\* The commands and their files.
CliInv ==
  /\ config \in Config
  /\ server \in [Remote -> Database \cup {NoDatabase, Gone}]
  /\ files \in FileSet
  /\ FilesInv
  /\ Fits(config, files)
  /\ proc \in [Process -> Processes]
  /\ \A p \in Process : Good(proc[p], files)

Screens == {"start", "spinner", "guide", "add database", "finish", "dashboard"}
Lists == [is: {"working", "error", "rows"}, rows: SUBSET Row]

GuiInv ==
  /\ screen \in Screens /\ list \in Lists
  /\ clicks \in 0..MaxClicks /\ typed \in 0..MaxShell

IInv == CliInv /\ GuiInv

-----------------------------------------------------------------------------
(* Configurations and processes *)

LEMMA Kinds == Processes = {Idle} \cup Active \cup Ended
BY DEF Processes, Active, Ended, Steps, GuiCommands

\* Where a process is tells which of the three it is.
LEMMA Apart ==
  ASSUME NEW q, NEW fs, Good(q, fs)
  PROVE /\ q.at \in Steps => q \in Active /\ Sound(q, fs)
        /\ q.at \in {"ok", "failed"} => q \in Ended
        /\ q \in Processes
  BY Kinds DEF Good, Active, Ended, Idle, Steps

LEMMA SomeNameIsOne == SomeName \in Name
  BY NameAssumption DEF SomeName

\* Binding one name anew.
LEMMA FitsAdd ==
  ASSUME NEW c \in Config, NEW fs, Fits(c, fs), NEW n \in Name, NEW b \in Binding \cup {Unbound},
         Holds(fs, b)
  PROVE /\ [c EXCEPT !.bound[n] = b] \in Config
        /\ Fits([c EXCEPT !.bound[n] = b], fs)
<1> DEFINE x == [c EXCEPT !.bound[n] = b]
<1>1. x.enrolled = c.enrolled /\ x.bound = [c.bound EXCEPT ![n] = b]
  BY DEF Config
<1>2. x = [enrolled |-> x.enrolled, bound |-> x.bound]
  BY DEF Config
<1>3. x \in Config
  BY <1>1, <1>2 DEF Config
<1>4. \A m \in Name : x.bound[m] = IF m = n THEN b ELSE c.bound[m]
  BY <1>1 DEF Config
<1> HIDE DEF x
<1>5. Fits(x, fs)
  BY <1>4 DEF Fits
<1> QED BY <1>3, <1>5 DEF x

\* Letting all bindings to a database go.
LEMMA FitsWithout ==
  ASSUME NEW c \in Config, NEW fs, Fits(c, fs), NEW r
  PROVE WithoutRemote(c, r) \in Config /\ Fits(WithoutRemote(c, r), fs)
<1> DEFINE x == WithoutRemote(c, r)
           g == [n \in Name |-> IF c.bound[n].remote = r THEN Unbound ELSE c.bound[n]]
<1>1. x = [enrolled |-> c.enrolled, bound |-> g]
  BY DEF WithoutRemote, Config
<1>2. g \in [Name -> Binding \cup {Unbound}]
  BY DEF Config
<1>3. x.bound = g /\ x \in Config
  BY <1>1, <1>2 DEF Config
<1>4. \A m \in Name : x.bound[m] = Unbound \/ x.bound[m] = c.bound[m]
  BY <1>3
<1> HIDE DEF x, g
<1>5. Fits(x, fs)
  BY <1>4 DEF Fits, Holds, Unbound
<1> QED BY <1>3, <1>5 DEF x

LEMMA FitsStays ==
  ASSUME NEW c \in Config, NEW fs \in FileSet, NEW gs \in FileSet, Grows(fs, gs), Fits(c, fs)
  PROVE Fits(c, gs)
<1> SUFFICES ASSUME NEW n \in Name PROVE Holds(gs, c.bound[n])
  BY DEF Fits
<1> DEFINE b == c.bound[n]
<1>1. CASE b \in Binding /\ b.remote # NoRemote
  <2>1. b.path \in Path /\ b.remote \in Remote /\ b.seq \in Nat
    BY <1>1, SeqAssumption DEF Binding
  <2>2. fs[b.path].exists /\ b.seq <= fs[b.path].got[b.remote]
    BY <1>1 DEF Fits, Holds
  <2>3. fs[b.path].got[b.remote] \in Nat /\ gs[b.path].got[b.remote] \in Nat
    BY <2>1, SeqAssumption DEF FileSet
  <2>4. gs[b.path].exists /\ fs[b.path].got[b.remote] <= gs[b.path].got[b.remote]
    BY <2>1, <2>2 DEF Grows
  <2> HIDE DEF b
  <2>5. b.seq <= gs[b.path].got[b.remote]
    BY <2>1, <2>2, <2>3, <2>4
  <2> QED BY <2>4, <2>5 DEF b, Holds
<1>2. CASE b.remote = NoRemote
  BY <1>2 DEF Holds
<1> QED BY <1>1, <1>2 DEF Config, Unbound

LEMMA GoodStays ==
  ASSUME NEW q, NEW fs \in FileSet,
         NEW gs \in FileSet,
         Grows(fs, gs), Good(q, fs)
  PROVE Good(q, gs)
<1>1. CASE q \in Active /\ Sound(q, fs)
  <2>1. q.cfg \in Config
    BY <1>1 DEF Active
  <2>2. Fits(q.cfg, gs)
    BY <1>1, <2>1, FitsStays DEF Sound
  <2>3. q.path \in Path /\ fs[q.path].exists => gs[q.path].exists
    BY DEF Grows
  <2> QED BY <1>1, <2>2, <2>3 DEF Good, Sound
<1> QED BY <1>1 DEF Good

\* A process that moves on well.
LEMMA MoveGood ==
  ASSUME CliInv, UNCHANGED <<server, files>>, NEW p \in Process, NEW q, Good(q, files), Go(p, q),
         config' \in Config, Fits(config', files)
  PROVE CliInv'
<1>1. q \in Processes
  BY Apart
<1>2. proc' \in [Process -> Processes]
  BY <1>1 DEF CliInv, Go
<1>3. \A r \in Process : proc'[r] = IF r = p THEN q ELSE proc[r]
  BY DEF CliInv, Go
<1>4. \A r \in Process : Good(proc'[r], files)
  BY <1>3 DEF CliInv
<1>5. files' = files /\ server' = server
  OBVIOUS
<1> QED BY <1>2, <1>4, <1>5 DEF CliInv, FilesInv, Exists

\* What a process leaves is well formed.
LEMMA OutcomeGood ==
  ASSUME NEW from \in {"shell", "wizard", "dashboard"}, NEW cmd, NEW code \in {"ok", "failed"},
         NEW rows \in SUBSET Row, NEW fs, from # "shell" => cmd \in GuiCommands
  PROVE Good(Outcome(from, cmd, code, rows), fs)
  BY DEF Outcome, Good, Ended

LEMMA ExitGood ==
  ASSUME CliInv, UNCHANGED <<config, server, files>>, NEW p \in Process, proc[p].at \in Steps,
         NEW code \in {"ok", "failed"}, Exit(p, code)
  PROVE CliInv'
<1>1. proc[p] \in Active /\ Sound(proc[p], files)
  BY Apart DEF CliInv
<1>2. Good(Outcome(proc[p].from, proc[p].cmd, code, {}), files)
  BY <1>1, OutcomeGood DEF Active, Sound
<1>3. config' \in Config /\ Fits(config', files)
  BY DEF CliInv
<1> QED BY <1>2, <1>3, MoveGood DEF Exit

\* A command starts with the configuration it reads.
LEMMA BeginGood ==
  ASSUME CliInv, UNCHANGED <<config, server, files>>, NEW p \in Process,
         NEW from \in {"shell", "wizard", "dashboard"},
         NEW cmd \in GuiCommands \cup {"add-local", "daemon", "language"},
         NEW ok \in BOOLEAN, NEW at \in Steps, NEW n \in Name, NEW r \in Remote \cup {NoRemote},
         NEW f \in Path \cup {"none"},
         from # "shell" => cmd \in GuiCommands,
         ok => /\ at \in {"create", "lookup", "fetchAll", "import", "add"} => f \in Path
               /\ at \in {"create", "lookup"} => Exists(f)
               /\ at \in {"lookup", "fetchAll", "import", "delete"} => r \in Remote
               /\ at \in {"fetch", "merge"} => Syncable(config, n),
         Begin(p, from, cmd, ok, at, n, r, f)
  PROVE CliInv'
<1>1. CASE ok
  <2> DEFINE q == [from |-> from, cmd |-> cmd, at |-> at, cfg |-> config,
                   name |-> n, remote |-> r, path |-> f, seq |-> 0]
  <2>1. q \in Active
    BY SeqAssumption DEF Active, CliInv
  <2>2. Sound(q, files)
    BY <1>1 DEF Sound, CliInv, Exists
  <2>3. Go(p, q)
    BY <1>1 DEF Begin, Go
  <2>4. Good(q, files)
    BY <2>1, <2>2 DEF Good
  <2> HIDE DEF q
  <2>5. config' \in Config /\ Fits(config', files)
    BY DEF CliInv
  <2> QED BY <2>3, <2>4, <2>5, MoveGood
<1>2. CASE ~ok
  <2> DEFINE q == Outcome(from, cmd, "failed", {})
  <2>1. Go(p, q)
    BY <1>2 DEF Begin, Go
  <2>2. Good(q, files)
    BY OutcomeGood
  <2> HIDE DEF q
  <2>3. config' \in Config /\ Fits(config', files)
    BY DEF CliInv
  <2> QED BY <2>1, <2>2, <2>3, MoveGood
<1> QED BY <1>1, <1>2

-----------------------------------------------------------------------------
(* The commands' steps *)

\* About to save configuration c.
LEMMA SaveNext ==
  ASSUME NEW q \in Active, NEW fs, Sound(q, fs), NEW c \in Config, Fits(c, fs)
  PROVE Good([q EXCEPT !.at = "save", !.cfg = c], fs)
<1> DEFINE x == [q EXCEPT !.at = "save", !.cfg = c]
<1>1. x \in Active
  BY DEF Active, Steps
<1>2. x.at = "save" /\ x.cfg = c /\ x.from = q.from /\ x.cmd = q.cmd
  BY DEF Active
<1> HIDE DEF x
<1>3. Sound(x, fs)
  BY <1>2 DEF Sound
<1> QED BY <1>1, <1>3 DEF Good, x

\* The process that is at one of the steps.
LEMMA ActiveAt ==
  ASSUME CliInv, NEW p \in Process, proc[p].at \in Steps
  PROVE /\ proc[p] \in Active /\ Sound(proc[p], files)
        /\ proc[p].cfg \in Config /\ Fits(proc[p].cfg, files)
        /\ proc[p].name \in Name /\ proc[p].remote \in Remote \cup {NoRemote}
        /\ proc[p].path \in Path \cup {"none"} /\ proc[p].seq \in 0..MaxSeq
<1>1. proc[p] \in Active /\ Sound(proc[p], files)
  BY Apart DEF CliInv
<1> QED BY <1>1 DEF Active, Sound

\* It goes on to save configuration c.
LEMMA SavesGood ==
  ASSUME CliInv, UNCHANGED <<config, server, files>>, NEW p \in Process, proc[p].at \in Steps,
         NEW c \in Config, Fits(c, files), Go(p, [proc[p] EXCEPT !.at = "save", !.cfg = c])
  PROVE CliInv'
<1>1. Good([proc[p] EXCEPT !.at = "save", !.cfg = c], files)
  BY ActiveAt, SaveNext
<1>2. config' \in Config /\ Fits(config', files)
  BY DEF CliInv
<1> QED BY <1>1, <1>2, MoveGood

\* What happens on the server and to the files between the steps of the processes.
LEMMA ServerChanges ==
  ASSUME CliInv, UNCHANGED <<config, files, proc>>,
         server' \in [Remote -> Database \cup {NoDatabase, Gone}]
  PROVE CliInv'
<1>1. files' = files /\ config' = config /\ proc' = proc
  OBVIOUS
<1> QED BY <1>1 DEF CliInv, FilesInv, Exists

\* A binding made by this process.
LEMMA BindsGood ==
  ASSUME CliInv, NEW p \in Process, proc[p].at \in Steps,
         NEW b \in Binding, Holds(files, b)
  PROVE /\ AddDatabase(proc[p].cfg, proc[p].name, b) \in Config
        /\ Fits(AddDatabase(proc[p].cfg, proc[p].name, b), files)
  BY ActiveAt, FitsAdd DEF AddDatabase

LEMMA CreateDatabaseGood ==
  ASSUME CliInv, NEW p \in Process, CreateDatabase(p)
  PROVE CliInv'
<1>1. proc[p].at \in Steps
  BY DEF CreateDatabase, Steps
<1>2. PICK r \in Remote :
        /\ server' = [server EXCEPT ![r] = [name |-> proc[p].name, role |-> "owner", seq |-> 0]]
        /\ BindTo(p, r)
  BY DEF CreateDatabase
<1> DEFINE b == [path |-> proc[p].path, remote |-> r, seq |-> 0]
<1>3. proc[p].path \in Path /\ files[proc[p].path].exists
  BY <1>1, ActiveAt DEF Sound, CreateDatabase
<1>4. b \in Binding /\ Holds(files, b)
  BY <1>3, SeqAssumption DEF Binding, CliInv, FileSet, Holds
<1> HIDE DEF b
<1>5. AddDatabase(proc[p].cfg, proc[p].name, b) \in Config
      /\ Fits(AddDatabase(proc[p].cfg, proc[p].name, b), files)
  BY <1>1, <1>4, BindsGood
<1>6. Good([proc[p] EXCEPT !.at = "save", !.cfg = AddDatabase(proc[p].cfg, proc[p].name, b)],
           files)
  BY <1>1, <1>5, ActiveAt, SaveNext
<1>7. Go(p, [proc[p] EXCEPT !.at = "save", !.cfg = AddDatabase(proc[p].cfg, proc[p].name, b)])
  BY <1>2 DEF BindTo, b
<1>8. [name |-> proc[p].name, role |-> "owner", seq |-> 0] \in Database
  BY <1>1, ActiveAt, SeqAssumption DEF Database
<1>9. server' \in [Remote -> Database \cup {NoDatabase, Gone}]
  BY <1>2, <1>8 DEF CliInv
<1> QED
  <2> DEFINE q == [proc[p] EXCEPT !.at = "save",
                                  !.cfg = AddDatabase(proc[p].cfg, proc[p].name, b)]
  <2>1. q \in Processes
    BY <1>6, Apart
  <2>2. proc' \in [Process -> Processes]
    BY <1>7, <2>1 DEF CliInv, Go
  <2> HIDE DEF q
  <2>3. \A r1 \in Process : Good(proc'[r1], files)
    BY <1>6, <1>7 DEF CliInv, Go, q
  <2>4. files' = files /\ config' = config
    BY DEF CreateDatabase
  <2> QED BY <1>9, <2>2, <2>3, <2>4 DEF CliInv, FilesInv, Exists

LEMMA LookupDatabaseGood ==
  ASSUME CliInv, NEW p \in Process, LookupDatabase(p)
  PROVE CliInv'
<1>1. proc[p].at \in Steps
  BY DEF LookupDatabase, Steps
<1> DEFINE b == [path |-> proc[p].path, remote |-> proc[p].remote, seq |-> 0]
<1>3. proc[p].path \in Path /\ files[proc[p].path].exists /\ proc[p].remote \in Remote
  BY <1>1, ActiveAt DEF Sound, LookupDatabase
<1>4. b \in Binding /\ Holds(files, b)
  BY <1>3, SeqAssumption DEF Binding, CliInv, FileSet, Holds
<1> HIDE DEF b
<1>5. AddDatabase(proc[p].cfg, proc[p].name, b) \in Config
      /\ Fits(AddDatabase(proc[p].cfg, proc[p].name, b), files)
  BY <1>1, <1>4, BindsGood
<1>7. Go(p, [proc[p] EXCEPT !.at = "save", !.cfg = AddDatabase(proc[p].cfg, proc[p].name, b)])
  BY DEF BindTo, b, LookupDatabase
<1>8. UNCHANGED <<config, server, files>>
  BY DEF LookupDatabase
<1> QED BY <1>1, <1>5, <1>7, <1>8, SavesGood

LEMMA FetchSharedGood ==
  ASSUME CliInv, NEW p \in Process, FetchShared(p)
  PROVE CliInv'
<1>1. proc[p].at \in Steps
  BY DEF FetchShared, Steps
<1> DEFINE s == server[proc[p].remote].seq
           q == [proc[p] EXCEPT !.at = "import", !.seq = s]
<1>2. s \in 0..MaxSeq
  BY DEF FetchShared, Visible, Database
<1>3. Go(p, q) /\ UNCHANGED <<config, server, files>>
  BY DEF FetchShared
<1>4. proc[p] \in Active /\ Sound(proc[p], files) /\ proc[p].at = "fetchAll"
  BY <1>1, ActiveAt DEF FetchShared
<1> HIDE DEF s
<1>5. q \in Active
  BY <1>2, <1>4 DEF Active, Steps
<1>6. /\ q.at = "import" /\ q.cfg = proc[p].cfg /\ q.from = proc[p].from /\ q.cmd = proc[p].cmd
      /\ q.path = proc[p].path /\ q.remote = proc[p].remote
  BY <1>4 DEF Active
<1> HIDE DEF q
<1>7. Good(q, files)
  BY <1>4, <1>5, <1>6 DEF Good, Sound
<1>8. config' \in Config /\ Fits(config', files)
  BY <1>3 DEF CliInv
<1> QED BY <1>3, <1>7, <1>8, MoveGood

\* The new file has what was fetched; it is no other process' file.
LEMMA ImportSharedGood ==
  ASSUME CliInv, NEW p \in Process, ImportShared(p)
  PROVE CliInv'
<1>1. proc[p].at \in Steps
  BY DEF ImportShared, Steps
<1> DEFINE f == proc[p].path
           r == proc[p].remote
           b == [path |-> f, remote |-> r, seq |-> proc[p].seq]
           c == AddDatabase(proc[p].cfg, proc[p].name, b)
           q == [proc[p] EXCEPT !.at = "save", !.cfg = c]
<1>2. f \in Path /\ r \in Remote /\ proc[p].seq \in 0..MaxSeq
  BY <1>1, ActiveAt DEF Sound, ImportShared
<1>3. files' = [files EXCEPT ![f] =
        [exists |-> TRUE, got |-> [Nothing EXCEPT ![r] = proc[p].seq]]]
  BY DEF ImportShared
<1>4. [Nothing EXCEPT ![r] = proc[p].seq] \in [Remote -> 0..MaxSeq]
  BY <1>2, SeqAssumption DEF Nothing
<1>5. files' \in FileSet
  BY <1>3, <1>4 DEF CliInv, FileSet
<1>6. \A g \in Path : g # f => files'[g] = files[g]
  BY <1>3 DEF CliInv, FileSet
<1>7. files'[f].exists /\ files'[f].got = [Nothing EXCEPT ![r] = proc[p].seq]
  BY <1>2, <1>3 DEF CliInv, FileSet
<1>8. files[f].got = Nothing
  BY <1>2 DEF ImportShared, CliInv, FilesInv
<1>9. Grows(files, files')
  <2>4. \A g \in Path : files[g].exists => files'[g].exists
    BY <1>6, <1>7
  <2> SUFFICES ASSUME NEW g \in Path, NEW t \in Remote
               PROVE files[g].got[t] <= files'[g].got[t]
    BY <2>4 DEF Grows
  <2>1. files[g].got[t] \in Nat
    BY SeqAssumption DEF CliInv, FileSet
  <2>2. CASE g # f
    BY <1>6, <2>1, <2>2
  <2>3. CASE g = f
    <3>1. files[g].got[t] = 0
      BY <1>8, <2>3 DEF Nothing
    <3>2. files'[g].got[t] \in 0..MaxSeq
      BY <1>5 DEF FileSet
    <3> QED BY <3>1, <3>2, SeqAssumption
  <2> QED BY <2>2, <2>3
<1>10. b \in Binding /\ Holds(files', b)
  BY <1>2, <1>7, SeqAssumption DEF Binding, Nothing, Holds
<1>11. proc[p] \in Active /\ proc[p].cfg \in Config /\ proc[p].name \in Name
  BY <1>1, ActiveAt
<1>12. Good(proc[p], files') /\ Sound(proc[p], files')
  <2>1. Good(proc[p], files') BY <1>5, <1>9, GoodStays DEF CliInv
  <2> QED BY <2>1, <1>1, Apart
<1>13. Fits(proc[p].cfg, files')
  BY <1>12 DEF Sound
<1> HIDE DEF b
<1>14. c \in Config /\ Fits(c, files')
  BY <1>10, <1>11, <1>13, FitsAdd DEF AddDatabase
<1>15. Go(p, q)
  BY DEF ImportShared, b
<1> HIDE DEF c
<1>16. Good(q, files')
  BY <1>11, <1>12, <1>14, SaveNext
<1> HIDE DEF q
<1>17. \A s \in Process : Good(proc'[s], files')
  <2> SUFFICES ASSUME NEW s \in Process PROVE Good(proc'[s], files')
    OBVIOUS
  <2>1. CASE s = p
    BY <1>15, <1>16, <2>1 DEF CliInv, Go
  <2>2. CASE s # p
    <3>1. proc'[s] = proc[s] /\ Good(proc[s], files)
      BY <1>15, <2>2 DEF CliInv, Go
    <3> QED BY <3>1, <1>5, <1>9, GoodStays DEF CliInv
  <2> QED BY <2>1, <2>2
<1>18. proc' \in [Process -> Processes]
  <2>1. q \in Processes BY <1>16, Apart
  <2> QED BY <2>1, <1>15 DEF CliInv, Go
<1>19. config' = config /\ server' = server
  BY DEF ImportShared
<1>20. Fits(config', files')
  BY <1>5, <1>9, <1>19, FitsStays DEF CliInv
<1>21. FilesInv'
  <2>1. \A g \in Path : ~files'[g].exists => files'[g].got = Nothing
    BY <1>6, <1>7 DEF CliInv, FilesInv, Exists
  <2> QED BY <2>1 DEF FilesInv, Exists, Nothing
<1> QED BY <1>5, <1>17, <1>18, <1>19, <1>20, <1>21 DEF CliInv

LEMMA AddLocalGood ==
  ASSUME CliInv, NEW p \in Process, AddLocal(p)
  PROVE CliInv'
<1>1. proc[p].at \in Steps
  BY DEF AddLocal, Steps
<1> DEFINE b == [path |-> proc[p].path, remote |-> NoRemote, seq |-> 0]
<1>2. proc[p].path \in Path
  BY <1>1, ActiveAt DEF Sound, AddLocal
<1>3. b \in Binding /\ Holds(files, b)
  BY <1>2, SeqAssumption DEF Binding, Holds
<1>4. Go(p, [proc[p] EXCEPT !.at = "save", !.cfg = AddDatabase(proc[p].cfg, proc[p].name, b)])
  BY DEF AddLocal
<1> HIDE DEF b
<1>5. AddDatabase(proc[p].cfg, proc[p].name, b) \in Config
      /\ Fits(AddDatabase(proc[p].cfg, proc[p].name, b), files)
  BY <1>1, <1>3, BindsGood
<1>6. UNCHANGED <<config, server, files>>
  BY DEF AddLocal
<1> QED BY <1>1, <1>4, <1>5, <1>6, SavesGood

LEMMA DropBindingGood ==
  ASSUME CliInv, NEW p \in Process, DropBinding(p)
  PROVE CliInv'
<1>1. proc[p].at \in Steps
  BY DEF DropBinding, Steps
<1> DEFINE c == [proc[p].cfg EXCEPT !.bound[proc[p].name] = Unbound]
<1>2. Holds(files, Unbound)
  BY DEF Unbound, Holds
<1>3. c \in Config /\ Fits(c, files)
  BY <1>1, <1>2, ActiveAt, FitsAdd
<1>4. proc[p] \in Active
  BY <1>1, ActiveAt
<1>5. [proc[p] EXCEPT !.at = "save", !.cfg.bound[proc[p].name] = Unbound]
        = [proc[p] EXCEPT !.at = "save", !.cfg = c]
  BY <1>4 DEF Active
<1>6. Go(p, [proc[p] EXCEPT !.at = "save", !.cfg = c]) /\ UNCHANGED <<config, server, files>>
  BY <1>5 DEF DropBinding
<1> HIDE DEF c
<1> QED BY <1>1, <1>3, <1>6, SavesGood

LEMMA DeleteDatabaseGood ==
  ASSUME CliInv, NEW p \in Process, DeleteDatabase(p)
  PROVE CliInv'
<1>1. proc[p].at \in Steps
  BY DEF DeleteDatabase, Steps
<1> DEFINE c == WithoutRemote(proc[p].cfg, proc[p].remote)
           e == Outcome(proc[p].from, proc[p].cmd, "ok", {})
           x == [proc[p] EXCEPT !.at = "save", !.cfg = c]
<1>2. c \in Config /\ Fits(c, files)
  BY <1>1, ActiveAt, FitsWithout
<1>3. Good(e, files)
  BY <1>1, ActiveAt, OutcomeGood DEF Active, Sound
<1>4. Good(x, files)
  BY <1>1, <1>2, ActiveAt, SaveNext
<1>5. Go(p, e) \/ Go(p, x)
  BY DEF DeleteDatabase, Exit
<1> HIDE DEF e, x, c
<1>6. proc' \in [Process -> Processes] /\ \A r \in Process : Good(proc'[r], files)
  BY <1>3, <1>4, <1>5, Apart DEF CliInv, Go
<1>7. server' \in [Remote -> Database \cup {NoDatabase, Gone}]
  BY DEF DeleteDatabase, CliInv
<1>8. files' = files /\ config' = config
  BY DEF DeleteDatabase
<1> QED BY <1>6, <1>7, <1>8 DEF CliInv, FilesInv, Exists

\* A fetch is of what the process has bound.
LEMMA GetChangesGood ==
  ASSUME CliInv, NEW p \in Process, GetChanges(p)
  PROVE CliInv'
<1>1. proc[p].at \in Steps
  BY DEF GetChanges, Steps
<1>2. proc[p] \in Active /\ Sound(proc[p], files)
  BY <1>1, ActiveAt
<1>3. config' \in Config /\ Fits(config', files) /\ UNCHANGED <<config, server, files>>
  BY DEF GetChanges, CliInv
<1>4. ASSUME NEW q, NEW s, NEW n \in Name,
             q = [proc[p] EXCEPT !.at = "merge", !.name = n, !.seq = s], s \in 0..MaxSeq, Syncable(proc[p].cfg, n)
      PROVE Good(q, files)
  <2>1. q \in Active
    BY <1>2, <1>4 DEF Active, Steps
  <2>2. q.at = "merge" /\ q.cfg = proc[p].cfg /\ q.name = n /\ q.from = proc[p].from
        /\ q.cmd = proc[p].cmd
    BY <1>2, <1>4 DEF Active
  <2>3. Sound(q, files)
    BY <1>2, <1>4, <2>2 DEF Sound
  <2> QED BY <2>1, <2>3 DEF Good
<1>5. ASSUME NEW r, Visible(r) PROVE server[r].seq \in 0..MaxSeq
  BY <1>5 DEF Visible, Database
<1>6. CASE /\ proc[p].at = "fetch" /\ Visible(Mine(p).remote)
           /\ Go(p, [proc[p] EXCEPT !.at = "merge", !.seq = server[Mine(p).remote].seq])
  <2> DEFINE s == server[Mine(p).remote].seq
             q == [proc[p] EXCEPT !.at = "merge", !.name = proc[p].name, !.seq = s]
  <2>1. s \in 0..MaxSeq
    BY <1>5, <1>6
  <2>2. q = [proc[p] EXCEPT !.at = "merge", !.seq = s]
    BY <1>2 DEF Active
  <2>3. proc[p].name \in Name /\ Syncable(proc[p].cfg, proc[p].name)
    BY <1>2, <1>6 DEF Active, Sound
  <2>4. Go(p, q)
    BY <1>6, <2>2
  <2> HIDE DEF s
  <2>5. Good(q, files)
    BY <1>4, <2>1, <2>3
  <2> QED BY <1>3, <2>4, <2>5, MoveGood
<1>7. ASSUME NEW n \in Name, Syncable(proc[p].cfg, n), Visible(proc[p].cfg.bound[n].remote),
             Go(p, [proc[p] EXCEPT !.at = "merge", !.name = n,
                                   !.seq = server[proc[p].cfg.bound[n].remote].seq])
      PROVE CliInv'
  <2> DEFINE s == server[proc[p].cfg.bound[n].remote].seq
  <2>1. s \in 0..MaxSeq
    BY <1>5, <1>7
  <2>2. Good([proc[p] EXCEPT !.at = "merge", !.name = n, !.seq = s], files)
    BY <1>4, <1>7, <2>1
  <2> QED BY <1>3, <1>7, <2>2, MoveGood
<1> QED BY <1>6, <1>7 DEF GetChanges

\* The file gets what was fetched before the cursor says so: the cursor it was fetched
\* from was not beyond the file.
LEMMA PullChangesGood ==
  ASSUME CliInv, NEW p \in Process, pullChanges(p)
  PROVE CliInv'
<1>1. proc[p].at \in Steps
  BY DEF pullChanges, Steps
<1> DEFINE f == Mine(p).path
           r == Mine(p).remote
           b == proc[p].seq
           n == proc[p].name
           c == [proc[p].cfg EXCEPT !.bound[n] = [Mine(p) EXCEPT !.seq = b]]
           q == [proc[p] EXCEPT !.at = "save", !.seq = 0, !.cfg = c]
<1>2. proc[p] \in Active /\ Sound(proc[p], files) /\ proc[p].cfg \in Config
      /\ Fits(proc[p].cfg, files) /\ n \in Name /\ b \in 0..MaxSeq
  BY <1>1, ActiveAt
<1>3. Syncable(proc[p].cfg, n)
  BY <1>2 DEF Sound, pullChanges
<1>4. Mine(p) \in Binding /\ r # NoRemote
  BY <1>2, <1>3 DEF Mine, Syncable, IsBound, LocalOnly, Config
<1>5. f \in Path /\ r \in Remote /\ Mine(p).seq \in 0..MaxSeq
  BY <1>4 DEF Binding
<1>6. files[f].exists /\ Mine(p).seq <= files[f].got[r]
  BY <1>2, <1>4 DEF Fits, Holds, Mine
<1>7. files[f].got[r] \in 0..MaxSeq
  BY <1>5 DEF CliInv, FileSet
<1>8. Received(f, r, Mine(p).seq, b)
  BY DEF pullChanges
<1>9. Go(p, [proc[p] EXCEPT !.at = "save", !.seq = 0, !.cfg.bound[n].seq = b])
      /\ UNCHANGED <<config, server>>
  BY DEF pullChanges
<1>10. [proc[p] EXCEPT !.at = "save", !.seq = 0, !.cfg.bound[n].seq = b] = q
  BY <1>2, <1>5 DEF Active, Mine
<1>11. Go(p, q)
  BY <1>9, <1>10
<1> DEFINE m == [Mine(p) EXCEPT !.seq = b]
<1>12. m \in Binding /\ m.path = f /\ m.remote = r /\ m.seq = b
  BY <1>2, <1>4 DEF Binding
<1> HIDE DEF f, r, b, m
<1>13. /\ files' \in FileSet /\ Grows(files, files')
       /\ files'[f].exists /\ b <= files'[f].got[r]
       /\ \A g \in Path : g # f => files'[g] = files[g]
  <2>0. /\ \A g \in Path, t \in Remote : files[g].got[t] \in Nat
        /\ b \in Nat /\ files[f].got[r] \in Nat
    BY <1>2, <1>7, SeqAssumption DEF CliInv, FileSet
  <2>1. CASE files[f].got[r] < b
    <3> DEFINE o == [files[f] EXCEPT !.got[r] = b]
    <3>1. files' = [files EXCEPT ![f] = o]
      BY <1>2, <1>5, <1>6, <1>7, <1>8, <2>1, SeqAssumption DEF Received
    <3>2. o.exists = files[f].exists /\ o.got = [files[f].got EXCEPT ![r] = b]
      BY <1>5 DEF CliInv, FileSet
    <3>3. o \in [exists: BOOLEAN, got: [Remote -> 0..MaxSeq]]
      BY <1>2, <1>5 DEF CliInv, FileSet
    <3> HIDE DEF o
    <3>4. files' \in FileSet
      BY <3>1, <3>3 DEF CliInv, FileSet
    <3>5. files'[f] = o /\ \A g \in Path : g # f => files'[g] = files[g]
      BY <3>1, <1>5 DEF CliInv, FileSet
    <3>6. o.got[r] = b /\ \A t \in Remote : t # r => o.got[t] = files[f].got[t]
      BY <3>2, <1>5 DEF CliInv, FileSet
    <3>7. \A g \in Path, t \in Remote : files[g].got[t] <= files'[g].got[t]
      BY <2>0, <2>1, <3>5, <3>6
    <3>8. \A g \in Path : files[g].exists => files'[g].exists
      BY <3>2, <3>5
    <3>9. Grows(files, files')
      BY <3>7, <3>8 DEF Grows
    <3>10. b <= files'[f].got[r]
      BY <2>0, <3>5, <3>6
    <3> QED BY <1>6, <3>2, <3>4, <3>5, <3>9, <3>10
  <2>2. CASE ~(files[f].got[r] < b)
    <3>1. files' = files
      BY <2>2, <1>8 DEF Received
    <3>2. b <= files[f].got[r]
      BY <2>0, <2>2
    <3> QED BY <1>6, <2>0, <3>1, <3>2 DEF CliInv, Grows
  <2> QED BY <2>1, <2>2
<1>14. Good(proc[p], files') /\ Sound(proc[p], files')
  <2>1. Good(proc[p], files') BY <1>13, GoodStays DEF CliInv
  <2> QED BY <2>1, <1>1, Apart
<1>15. c \in Config /\ Fits(c, files')
  <2>1. Fits(proc[p].cfg, files')
    BY <1>14 DEF Sound
  <2>2. c = [proc[p].cfg EXCEPT !.bound[n] = m]
    BY DEF m, b
  <2>3. Holds(files', m)
    BY <1>12, <1>13 DEF Holds
  <2> QED BY <1>2, <1>12, <2>1, <2>2, <2>3, FitsAdd
<1> HIDE DEF c
<1>16. Good(q, files')
  <2> HIDE DEF n
  <2>0. 0 \in 0..MaxSeq
    BY SeqAssumption
  <2>1. q \in Active
    BY <1>2, <1>15, <2>0 DEF Active, Steps
  <2>2. q.at = "save" /\ q.cfg = c /\ q.from = proc[p].from /\ q.cmd = proc[p].cmd
    BY <1>2 DEF Active
  <2>3. Sound(q, files')
    BY <1>2, <1>15, <2>2 DEF Sound
  <2> QED BY <2>1, <2>3 DEF Good
<1> HIDE DEF q
<1>17. \A s \in Process : Good(proc'[s], files')
  <2> SUFFICES ASSUME NEW s \in Process PROVE Good(proc'[s], files')
    OBVIOUS
  <2>1. CASE s = p
    BY <1>11, <1>16, <2>1 DEF CliInv, Go
  <2>2. CASE s # p
    <3>1. proc'[s] = proc[s] /\ Good(proc[s], files)
      BY <1>11, <2>2 DEF CliInv, Go
    <3> QED BY <3>1, <1>13, GoodStays DEF CliInv
  <2> QED BY <2>1, <2>2
<1>18. proc' \in [Process -> Processes]
  <2>1. q \in Processes BY <1>16, Apart
  <2> QED BY <2>1, <1>11 DEF CliInv, Go
<1>20. Fits(config', files')
  BY <1>9, <1>13, FitsStays DEF CliInv
<1>21. FilesInv'
  <2>1. \A g \in Path : ~files'[g].exists => files'[g].got = Nothing
    BY <1>13 DEF CliInv, FilesInv, Exists
  <2> QED BY <2>1 DEF FilesInv, Exists, Nothing
<1> QED BY <1>9, <1>13, <1>17, <1>18, <1>20, <1>21 DEF CliInv

LEMMA EnrollGood ==
  ASSUME CliInv, NEW p \in Process, Enroll(p)
  PROVE CliInv'
<1>1. proc[p].at \in Steps
  BY DEF Enroll, Steps
<1> DEFINE c == [proc[p].cfg EXCEPT !.enrolled = TRUE]
<1>2. proc[p] \in Active /\ proc[p].cfg \in Config /\ Fits(proc[p].cfg, files)
  BY <1>1, ActiveAt
<1>3. c \in Config /\ c.bound = proc[p].cfg.bound
  BY <1>2 DEF Config
<1>4. [proc[p] EXCEPT !.at = "save", !.cfg.enrolled = TRUE]
        = [proc[p] EXCEPT !.at = "save", !.cfg = c]
  BY <1>2 DEF Active
<1>5. Go(p, [proc[p] EXCEPT !.at = "save", !.cfg = c]) /\ UNCHANGED <<config, server, files>>
  BY <1>4 DEF Enroll
<1> HIDE DEF c
<1>6. Fits(c, files)
  BY <1>2, <1>3 DEF Fits
<1> QED BY <1>1, <1>3, <1>5, <1>6, SavesGood

\* What is saved fits, whoever saved in between.
LEMMA SaveConfigGood ==
  ASSUME CliInv, NEW p \in Process, SaveConfig(p)
  PROVE CliInv'
<1>1. proc[p].at \in Steps
  BY DEF SaveConfig, Steps
<1>2. proc[p] \in Active /\ Sound(proc[p], files) /\ proc[p].cfg \in Config
      /\ Fits(proc[p].cfg, files)
  BY <1>1, ActiveAt
<1>3. config' \in Config /\ Fits(config', files) /\ UNCHANGED <<server, files>>
  BY <1>2 DEF SaveConfig, Save
<1> DEFINE q == [proc[p] EXCEPT !.at = "cycle"]
           e == Outcome(proc[p].from, proc[p].cmd, "ok", {})
<1>4. Go(p, q) \/ Go(p, e)
  BY DEF SaveConfig, Exit
<1>5. Good(e, files)
  BY <1>2, OutcomeGood DEF Active, Sound
<1>6. Good(q, files)
  <2>1. q \in Active
    BY <1>2 DEF Active, Steps
  <2>2. q.at = "cycle" /\ q.cfg = proc[p].cfg /\ q.from = proc[p].from /\ q.cmd = proc[p].cmd
    BY <1>2 DEF Active
  <2>3. Sound(q, files)
    BY <1>2, <2>2 DEF Sound
  <2> QED BY <2>1, <2>3 DEF Good
<1> HIDE DEF q, e
<1> QED BY <1>3, <1>4, <1>5, <1>6, MoveGood

LEMMA FailGood ==
  ASSUME CliInv, NEW p \in Process, Fail(p)
  PROVE CliInv'
<1>1. proc[p] \in Processes
  BY DEF CliInv
<1>2. proc[p].at \in Steps
  BY <1>1, Kinds DEF Fail, Running, Idle, Active, Ended
<1> QED BY <1>2, ExitGood DEF Fail

LEMMA ProceedGood ==
  ASSUME CliInv, NEW p \in Process, Proceed(p)
  PROVE CliInv'
  BY CreateDatabaseGood, LookupDatabaseGood, FetchSharedGood, ImportSharedGood, AddLocalGood,
     DropBindingGood, DeleteDatabaseGood, GetChangesGood, PullChangesGood, EnrollGood,
     SaveConfigGood, FailGood DEF Proceed

LEMMA OthersWriteGood ==
  ASSUME CliInv, NEW r \in Remote, OthersWrite(r)
  PROVE CliInv'
<1> DEFINE x == [server[r] EXCEPT !.seq = @ + 1]
<1>1. server[r] \in Database /\ server[r].seq < MaxSeq
  BY DEF OthersWrite, Visible
<1>2. server[r].seq \in 0..MaxSeq
  BY <1>1 DEF Database
<1>3. server[r].seq + 1 \in 0..MaxSeq
  BY <1>1, <1>2, SeqAssumption
<1>4. x \in Database
  BY <1>1, <1>3 DEF Database
<1>5. server' = [server EXCEPT ![r] = x] /\ UNCHANGED <<config, files, proc>>
  BY DEF OthersWrite
<1> HIDE DEF x
<1>6. server' \in [Remote -> Database \cup {NoDatabase, Gone}]
  BY <1>4, <1>5 DEF CliInv
<1> QED BY <1>5, <1>6, ServerChanges

-----------------------------------------------------------------------------
(* How commands begin *)

LEMMA ConfigBooleans ==
  ASSUME CliInv
  PROVE /\ config.enrolled \in BOOLEAN
        /\ \A f \in Path : Exists(f) \in BOOLEAN
        /\ \A n \in Name : IsBound(config, n) => config.bound[n] \in Binding
        /\ \A n \in Name : config.bound[n].remote \in Remote \cup {NoRemote}
  BY DEF CliInv, Config, Exists, FileSet, IsBound, Binding, Unbound

LEMMA InitGood ==
  ASSUME CliInv, UNCHANGED <<config, server, files>>, NEW p \in Process,
         NEW from \in {"shell", "wizard", "dashboard"}, NEW n \in Name, NEW f \in Path,
         NEW r \in Remote \cup {NoRemote}, runInit(p, from, n, f, r)
  PROVE CliInv'
<1> DEFINE ok == Exists(f) /\ config.enrolled /\ ~IsBound(config, n)
           at == IF r = NoRemote THEN "create" ELSE "lookup"
<1>1. Begin(p, from, "init", ok, at, n, r, f)
  BY DEF runInit
<1>2. ok \in BOOLEAN /\ (ok => Exists(f))
  OBVIOUS
<1>3. at \in {"create", "lookup"} /\ (at = "lookup" => r \in Remote)
  OBVIOUS
<1>4. at \in Steps /\ "init" \in GuiCommands
  BY DEF Steps, GuiCommands
<1> HIDE DEF ok, at
<1>5. ok => /\ at \in {"create", "lookup", "fetchAll", "import", "add"} => f \in Path
            /\ at \in {"create", "lookup"} => Exists(f)
            /\ at \in {"lookup", "fetchAll", "import", "delete"} => r \in Remote
            /\ at \in {"fetch", "merge"} => Syncable(config, n)
  BY <1>2, <1>3
<1> QED BY <1>1, <1>2, <1>4, <1>5, BeginGood

LEMMA InitSharedGood ==
  ASSUME CliInv, UNCHANGED <<config, server, files>>, NEW p \in Process,
         NEW from \in {"shell", "wizard", "dashboard"}, NEW t, NEW n \in Name, NEW f \in Path,
         runInitShared(p, from, t, n, f)
  PROVE CliInv'
<1>1. PICK r \in Remote \cup {NoRemote} :
        Begin(p, from, "init-shared",
          ~Exists(f) /\ config.enrolled /\ ~IsBound(config, n) /\ r # NoRemote,
          "fetchAll", n, r, f)
  BY DEF runInitShared
<1> DEFINE ok == ~Exists(f) /\ config.enrolled /\ ~IsBound(config, n) /\ r # NoRemote
<1>2. ok \in BOOLEAN /\ (ok => r \in Remote)
  OBVIOUS
<1>3. Begin(p, from, "init-shared", ok, "fetchAll", n, r, f)
  BY <1>1
<1> HIDE DEF ok
<1> QED BY <1>2, <1>3, BeginGood DEF Steps, GuiCommands

LEMMA ForgetGood ==
  ASSUME CliInv, UNCHANGED <<config, server, files>>, NEW p \in Process,
         NEW from \in {"shell", "wizard", "dashboard"}, NEW n \in Name, runForget(p, from, n)
  PROVE CliInv'
<1>1. Begin(p, from, "forget", IsBound(config, n), "drop", n, NoRemote, "none")
  BY DEF runForget
<1>2. IsBound(config, n) \in BOOLEAN
  BY DEF IsBound
<1> QED BY <1>1, <1>2, BeginGood DEF Steps, GuiCommands

LEMMA DeleteGood ==
  ASSUME CliInv, UNCHANGED <<config, server, files>>, NEW p \in Process,
         NEW from \in {"shell", "wizard", "dashboard"}, NEW t \in Name \cup Remote,
         runDeleteDatabase(p, from, t)
  PROVE CliInv'
<1> DEFINE r == resolveDeleteTarget(config, t)
           ok == config.enrolled /\ r # NoRemote
<1>1. r \in Remote \cup {NoRemote}
  BY ConfigBooleans DEF resolveDeleteTarget
<1>2. Begin(p, from, "delete-database", ok, "delete", SomeName, r, "none")
  BY DEF runDeleteDatabase
<1>3. ok \in BOOLEAN /\ (ok => r \in Remote)
  BY <1>1
<1> HIDE DEF ok, r
<1>4. "delete-database" \in GuiCommands /\ "delete" \in Steps
  BY DEF Steps, GuiCommands
<1>5. /\ "delete" \notin {"create", "lookup", "fetchAll", "import", "add"}
      /\ "delete" \notin {"create", "lookup"} /\ "delete" \notin {"fetch", "merge"}
  OBVIOUS
<1> QED BY <1>1, <1>2, <1>3, <1>4, <1>5, SomeNameIsOne, BeginGood

LEMMA SyncGood ==
  ASSUME CliInv, UNCHANGED <<config, server, files>>, NEW p \in Process,
         NEW from \in {"shell", "wizard", "dashboard"}, NEW n \in Name,
         loadDBAndCLI(p, from, n)
  PROVE CliInv'
<1> DEFINE ok == config.enrolled /\ Syncable(config, n)
<1>1. Begin(p, from, "sync", ok, "fetch", n, NoRemote, "none")
  BY DEF loadDBAndCLI
<1>2. ok \in BOOLEAN /\ (ok => Syncable(config, n))
  OBVIOUS
<1> HIDE DEF ok
<1> QED BY <1>1, <1>2, BeginGood DEF Steps, GuiCommands

\* The commands that need no arguments.
LEMMA PlainGood ==
  ASSUME CliInv, UNCHANGED <<config, server, files>>, NEW p \in Process,
         NEW from \in {"shell", "wizard", "dashboard"},
         NEW cmd \in GuiCommands \cup {"add-local", "daemon", "language"},
         from # "shell" => cmd \in GuiCommands,
         NEW ok \in BOOLEAN, NEW at \in {"save", "enroll", "ask", "list", "cycle"},
         Begin(p, from, cmd, ok, at, SomeName, NoRemote, "none")
  PROVE CliInv'
<1>1. at \in Steps
  BY DEF Steps
<1>2. at \notin {"create", "lookup", "fetchAll", "import", "add", "delete", "fetch", "merge"}
  OBVIOUS
<1> QED BY <1>1, <1>2, SomeNameIsOne, BeginGood

LEMMA TerminalGood ==
  ASSUME CliInv, NEW p \in Process, Terminal(p)
  PROVE CliInv'
<1>0. UNCHANGED <<config, server, files>> /\ "shell" \in {"shell", "wizard", "dashboard"}
  BY DEF Terminal
<1>1. ASSUME runEnroll(p, "shell") PROVE CliInv'
  BY <1>0, <1>1, PlainGood DEF runEnroll, GuiCommands
<1>2. CASE toggleLanguage(p)
  BY <1>0, <1>2, PlainGood DEF toggleLanguage
<1>3. CASE runDaemon(p)
  BY <1>0, <1>3, ConfigBooleans, PlainGood DEF runDaemon
<1>4. CASE showDatabasesMenu(p)
  BY <1>0, <1>4, SyncGood, ForgetGood, DeleteGood, InitGood
    DEF showDatabasesMenu, pickDatabaseFiltered
<1>5. CASE showBrowserMenu(p)
  <2>1. PICK n \in Name, f \in Path : runAddLocal(p, "shell", n, f)
    BY <1>5 DEF showBrowserMenu
  <2> DEFINE ok == Exists(f) /\ ~IsBound(config, n)
  <2>2. Begin(p, "shell", "add-local", ok, "add", n, NoRemote, f)
    BY <2>1 DEF runAddLocal
  <2>3. ok \in BOOLEAN
    OBVIOUS
  <2> HIDE DEF ok
  <2> QED BY <1>0, <2>2, <2>3, BeginGood DEF Steps
<1>6. CASE Typed(p)
  BY <1>0, <1>1, <1>6, InitGood, InitSharedGood, ForgetGood, DeleteGood DEF Typed
<1> QED BY <1>1, <1>2, <1>3, <1>4, <1>5, <1>6 DEF Terminal, showMain, showSettingsMenu

-----------------------------------------------------------------------------
(* The window *)

LEMMA AskedGood ==
  ASSUME CliInv, NEW p \in Process, AskStatus(p) \/ IssueToken(p)
  PROVE CliInv'
<1>1. proc[p].at \in Steps /\ UNCHANGED <<config, server, files>> /\ Exit(p, "ok")
  BY DEF AskStatus, IssueToken, UnchangedFiles, Steps
<1> QED BY <1>1, ExitGood

LEMMA ListGood ==
  ASSUME CliInv, NEW p \in Process, ListDatabases(p)
  PROVE CliInv'
<1>1. proc[p].at \in Steps
  BY DEF ListDatabases, Steps
<1>2. proc[p] \in Active /\ Sound(proc[p], files) /\ proc[p].cfg \in Config
  BY <1>1, ActiveAt
<1> DEFINE rows == Listing(proc[p].cfg)
<1>3. rows \in SUBSET Row
  <2> DEFINE c == proc[p].cfg
             A == {[name |-> server[r].name, id |-> r,
                    bound |-> \E n \in Name : c.bound[n].remote = r] :
                     r \in {q \in Remote : Visible(q) /\ c.enrolled}}
             B == {[name |-> n, id |-> NoRemote, bound |-> FALSE] :
                     n \in {m \in Name : IsBound(c, m) /\ LocalOnly(c.bound[m])}}
  <2>1. ASSUME NEW r \in Remote, Visible(r) PROVE server[r].name \in Name
    BY <2>1 DEF Visible, Database
  <2>2. ASSUME NEW x \in A PROVE x \in Row
    <3>1. PICK r \in Remote :
            /\ Visible(r)
            /\ x = [name |-> server[r].name, id |-> r,
                    bound |-> \E n \in Name : c.bound[n].remote = r]
      BY <2>2
    <3>2. (\E n \in Name : c.bound[n].remote = r) \in BOOLEAN
      OBVIOUS
    <3> HIDE DEF c
    <3> QED BY <2>1, <3>1, <3>2 DEF Row
  <2>3. ASSUME NEW x \in B PROVE x \in Row
    <3>1. PICK n \in Name : x = [name |-> n, id |-> NoRemote, bound |-> FALSE]
      BY <2>3
    <3> QED BY <3>1 DEF Row
  <2>4. rows = A \cup B
    BY DEF Listing
  <2> HIDE DEF A, B, rows
  <2> QED BY <2>2, <2>3, <2>4
<1>4. Go(p, Outcome(proc[p].from, proc[p].cmd, "ok", rows)) /\ UNCHANGED <<config, server, files>>
  BY DEF ListDatabases, UnchangedFiles
<1> HIDE DEF rows
<1>5. Good(Outcome(proc[p].from, proc[p].cmd, "ok", rows), files)
  BY <1>2, <1>3, OutcomeGood DEF Active, Sound
<1>6. config' \in Config /\ Fits(config', files)
  BY <1>4 DEF CliInv
<1> QED BY <1>4, <1>5, <1>6, MoveGood

LEMMA ForgetByNameGood ==
  ASSUME CliInv, NEW p \in Process, ForgetByName(p)
  PROVE CliInv'
<1>1. proc[p].at \in Steps /\ UNCHANGED <<config, server, files>>
  BY DEF ForgetByName, UnchangedFiles, Steps
<1>2. proc[p].name \in Name
  BY <1>1, ActiveAt
<1> QED BY <1>1, <1>2, ForgetGood DEF ForgetByName

LEMMA WorkGood ==
  ASSUME CliInv, NEW p \in Process, Work(p)
  PROVE CliInv'
  BY ProceedGood, AskedGood, ListGood, ForgetByNameGood DEF Work

\* The commands of the window that only ask the server.
LEMMA AskGood ==
  ASSUME CliInv, UNCHANGED <<config, server, files>>, NEW p \in Process,
         \/ status(p)
         \/ \E cmd \in {"databases", "sync all"} : databases(p, "dashboard", cmd)
         \/ runEnroll(p, "wizard")
         \/ Begin(p, "wizard", "user-enrollment", TRUE, "ask", SomeName, NoRemote, "none")
  PROVE CliInv'
<1>1. CASE status(p)
  BY <1>1, ConfigBooleans, PlainGood DEF status, GuiCommands
<1>2. ASSUME NEW cmd \in {"databases", "sync all"}, databases(p, "dashboard", cmd)
      PROVE CliInv'
  <2> DEFINE ok == \/ config.enrolled
                   \/ \E n \in Name : IsBound(config, n) /\ LocalOnly(config.bound[n])
  <2>1. Begin(p, "dashboard", cmd, ok, "list", SomeName, NoRemote, "none")
    BY <1>2 DEF databases
  <2>2. ok \in BOOLEAN
    BY ConfigBooleans
  <2> HIDE DEF ok
  <2> QED BY <2>1, <2>2, PlainGood DEF GuiCommands
<1>3. CASE runEnroll(p, "wizard")
  BY <1>3, PlainGood DEF runEnroll, GuiCommands
<1>4. CASE Begin(p, "wizard", "user-enrollment", TRUE, "ask", SomeName, NoRemote, "none")
  BY <1>4, PlainGood DEF GuiCommands
<1> QED BY <1>1, <1>2, <1>3, <1>4

\* A row that is drawn names a name.
LEMMA ButtonGood ==
  ASSUME CliInv, UNCHANGED <<config, server, files>>, NEW p \in Process,
         NEW row \in Row, RowButton(p, row)
  PROVE CliInv'
<1>1. row.name \in Name /\ row.id \in Remote \cup {NoRemote}
  BY DEF Row
<1>2. CASE runSync(p, row)
  BY <1>1, <1>2, SyncGood DEF runSync, Start
<1>3. CASE forgetDatabase(p, row)
  <2>1. Begin(p, "dashboard", "forget", TRUE, "retry", row.name, row.id, "none")
    BY <1>3 DEF forgetDatabase, Start
  <2>2. "retry" \in Steps /\ "forget" \in GuiCommands
    BY DEF Steps, GuiCommands
  <2> QED BY <1>1, <2>1, <2>2, BeginGood
<1>4. CASE deleteDatabaseServer(p, row)
  <2> DEFINE t == IF row.id # NoRemote THEN row.id ELSE row.name
  <2>1. t \in Name \cup Remote
    BY <1>1
  <2>2. runDeleteDatabase(p, "dashboard", t)
    BY <1>4 DEF deleteDatabaseServer, Start
  <2> HIDE DEF t
  <2> QED BY <2>1, <2>2, DeleteGood
<1>5. CASE bindDatabase(p, row)
  BY <1>1, <1>5, InitGood DEF bindDatabase, Start
<1>6. CASE setupSharedDB(p, row)
  BY <1>1, <1>6, InitSharedGood DEF setupSharedDB, Start
<1> QED BY <1>2, <1>3, <1>4, <1>5, <1>6 DEF RowButton

LEMMA WindowGood ==
  ASSUME IInv, NEW p \in Process, Window(p)
  PROVE CliInv'
<1>1. CliInv /\ UNCHANGED <<config, server, files>>
  BY DEF IInv, Window, UnchangedFiles
<1>2. CASE Guide(p)
  BY <1>1, <1>2, AskGood, InitGood
    DEF Guide, showEnrollStep, showAdvancedEnroll, showAddDBStep, LeaveGuide, showDashboard,
        refreshDatabases, Spin
<1>3. CASE Button(p)
  <2>1. \A row \in list.rows : row \in Row
    BY DEF IInv, GuiInv, Lists
  <2> QED BY <1>1, <1>3, <2>1, ButtonGood, AskGood, InitGood
    DEF Button, showAddDBDialog, syncAll, refreshDatabases, Start
<1> QED BY <1>2, <1>3 DEF Window

\* Each process that "sync all" starts reads the configuration of its own.
LEMMA SyncAllDoneGood ==
  ASSUME CliInv, UNCHANGED <<config, server, files>>, NEW p \in Process,
         proc[p].at \in {"ok", "failed"}, syncAllDone(p)
  PROVE CliInv'
<1> DEFINE names == {row.name : row \in {s \in proc[p].rows : s.bound}}
           synced(n) == IF config.enrolled /\ Syncable(config, n)
                        THEN [from |-> "dashboard", cmd |-> "sync", at |-> "fetch",
                              cfg |-> config, name |-> n, remote |-> NoRemote, path |-> "none",
                              seq |-> 0]
                        ELSE Outcome("dashboard", "sync", "failed", {})
<1>1. proc[p] \in Ended
  BY Apart DEF CliInv
<1>2. \A n \in names : n \in Name
  BY <1>1 DEF Ended, Row
<1>3. ASSUME NEW n \in Name PROVE Good(synced(n), files)
  <2> DEFINE q == [from |-> "dashboard", cmd |-> "sync", at |-> "fetch",
                   cfg |-> config, name |-> n, remote |-> NoRemote, path |-> "none", seq |-> 0]
  <2>1. q \in Active
    BY SeqAssumption DEF Active, Steps, GuiCommands, CliInv
  <2>2. Syncable(config, n) => Sound(q, files)
    BY DEF Sound, GuiCommands, CliInv
  <2>3. Good(Outcome("dashboard", "sync", "failed", {}), files)
    BY OutcomeGood DEF GuiCommands
  <2> HIDE DEF q
  <2>4. CASE config.enrolled /\ Syncable(config, n)
    BY <2>1, <2>2, <2>4 DEF Good, q
  <2>5. CASE ~(config.enrolled /\ Syncable(config, n))
    BY <2>3, <2>5
  <2> QED BY <2>4, <2>5
<1>4. PICK slot \in [names -> {p} \cup {q \in Process : proc[q] = Idle}] :
        proc' = [q \in Process |->
               IF \E n \in names : slot[n] = q
               THEN synced(CHOOSE n \in names : slot[n] = q)
               ELSE IF q = p THEN Idle ELSE proc[q]]
  BY DEF syncAllDone
<1> HIDE DEF synced, names
<1>5. \A q \in Process : Good(proc'[q], files)
  <2> SUFFICES ASSUME NEW q \in Process PROVE Good(proc'[q], files)
    OBVIOUS
  <2>1. CASE \E n \in names : slot[n] = q
    <3> DEFINE m == CHOOSE n \in names : slot[n] = q
    <3>1. m \in names
      BY <2>1
    <3>2. proc'[q] = synced(m)
      BY <1>4, <2>1
    <3> HIDE DEF m
    <3> QED BY <1>2, <1>3, <3>1, <3>2
  <2>2. CASE ~\E n \in names : slot[n] = q
    <3>1. proc'[q] = Idle \/ proc'[q] = proc[q]
      BY <1>4, <2>2
    <3> QED BY <3>1 DEF CliInv, Good
  <2> QED BY <2>1, <2>2
<1>6. proc' \in [Process -> Processes]
  <2>1. \A q \in Process : proc'[q] \in Processes
    BY <1>5, Apart
  <2> QED BY <1>4, <2>1
<1>7. config' = config /\ server' = server /\ files' = files
  OBVIOUS
<1> QED BY <1>5, <1>6, <1>7 DEF CliInv, FilesInv, Exists

LEMMA DoneGood ==
  ASSUME CliInv, NEW p \in Process, Done(p)
  PROVE CliInv'
<1>1. UNCHANGED <<config, server, files>> /\ proc[p].at \in {"ok", "failed"}
  BY DEF Done, UnchangedFiles
<1>2. CASE Go(p, Idle)
  <2>1. Good(Idle, files) /\ config' \in Config /\ Fits(config', files)
    BY <1>1 DEF Good, CliInv
  <2> QED BY <1>1, <1>2, <2>1, MoveGood
<1>3. CASE refreshDatabases(p) \/ runEnroll(p, "wizard")
  BY <1>1, <1>3, AskGood DEF refreshDatabases
<1>4. CASE syncAllDone(p)
  BY <1>1, <1>4, SyncAllDoneGood
<1> QED BY <1>2, <1>3, <1>4
  DEF Done, DatabasesDone, routeDone, showDashboard, IssueDone, EnrollDone, AddDBStepDone,
      afterDBOp

-----------------------------------------------------------------------------
(* The invariant holds *)

\* The rows drawn are those of a process.
LEMMA GuiInvStep ==
  ASSUME IInv, Next
  PROVE GuiInv'
<1>1. screen \in Screens /\ list \in Lists /\ clicks \in 0..MaxClicks /\ typed \in 0..MaxShell
  BY DEF IInv, GuiInv
<1>2. Working \in Lists /\ Failed \in Lists /\ \A rs \in SUBSET Row : Rows(rs) \in Lists
  BY DEF Working, Failed, Rows, Lists
<1>3. {"spinner", "guide", "add database", "finish", "dashboard"} \subseteq Screens
  BY DEF Screens
<1>4. CASE route
  BY <1>1, <1>3, <1>4 DEF route, GuiInv
<1>5. ASSUME NEW p \in Process, Window(p) PROVE GuiInv'
  <2>1. clicks' \in 0..MaxClicks /\ typed' = typed
    BY <1>1, <1>5, ClicksAssumption DEF Window, Click
  <2>2. CASE Guide(p)
    <3>1. screen' \in {"spinner", "dashboard"} /\ list' \in {list, Working}
      BY <2>2 DEF Guide, showEnrollStep, showAdvancedEnroll, showAddDBStep, LeaveGuide,
        showDashboard, refreshDatabases, Spin
    <3> QED BY <1>1, <1>2, <1>3, <2>1, <3>1 DEF GuiInv
  <2>3. CASE Button(p)
    <3>1. screen' = screen /\ list' \in {list, Working}
      BY <2>3 DEF Button, RowButton, showAddDBDialog, syncAll, Start, runSync, forgetDatabase,
        deleteDatabaseServer, bindDatabase, setupSharedDB, gui, refreshDatabases
    <3> QED BY <1>1, <1>2, <2>1, <3>1 DEF GuiInv
  <2> QED BY <1>5, <2>2, <2>3 DEF Window
<1>6. ASSUME NEW p \in Process, Shell(p) PROVE GuiInv'
  BY <1>1, <1>6, ClicksAssumption DEF Shell, gui, GuiInv
<1>7. ASSUME NEW p \in Process, Work(p) PROVE GuiInv'
  BY <1>1, <1>7 DEF Work, gui, GuiInv
<1>8. ASSUME NEW p \in Process, Done(p) PROVE GuiInv'
  <2>1. clicks' = clicks /\ typed' = typed /\ proc[p].at \in {"ok", "failed"}
    BY <1>8 DEF Done
  <2>2. proc[p].rows \in SUBSET Row
    BY <2>1, Apart DEF Ended, IInv, CliInv
  <2>3. screen' \in {screen, "spinner", "guide", "add database", "finish", "dashboard"}
    BY <1>8 DEF Done, DatabasesDone, routeDone, showDashboard, refreshDatabases, IssueDone,
      EnrollDone, AddDBStepDone, syncAllDone, afterDBOp, gui
  <2>4. list' \in {list, Working, Failed, Rows(proc[p].rows)}
    BY <1>8 DEF Done, DatabasesDone, routeDone, showDashboard, refreshDatabases, IssueDone,
      EnrollDone, AddDBStepDone, syncAllDone, afterDBOp, gui
  <2> QED BY <1>1, <1>2, <1>3, <2>1, <2>2, <2>3, <2>4 DEF GuiInv
<1>9. CASE Others
  BY <1>1, <1>9 DEF Others, gui, GuiInv
<1> QED BY <1>4, <1>5, <1>6, <1>7, <1>8, <1>9 DEF Next

LEMMA IInvInit == Init => IInv
<1> SUFFICES ASSUME Init PROVE IInv
  OBVIOUS
<1>1. PICK b \in Beginnings : config = b.config /\ server = b.server /\ files = b.files
  BY DEF Init
<1>2. config \in Config /\ server \in [Remote -> Database \cup {NoDatabase, Gone}]
      /\ files \in FileSet
  BY <1>1, BeginningsAssumption DEF FileSet
<1>3. FilesInv
  BY <1>1, BeginningsAssumption DEF FilesInv, Exists
<1>4. Fits(config, files)
  BY <1>1, BeginningsAssumption DEF Fits, Holds
<1>5. proc \in [Process -> Processes] /\ \A p \in Process : Good(proc[p], files)
  BY Kinds DEF Init, Good
<1>6. GuiInv
  BY ClicksAssumption DEF Init, GuiInv, Rows, Screens, Lists
<1> QED BY <1>2, <1>3, <1>4, <1>5, <1>6 DEF IInv, CliInv

LEMMA IInvStep == IInv /\ [Next]_vars => IInv'
<1> SUFFICES ASSUME IInv, [Next]_vars PROVE IInv'
  OBVIOUS
<1>1. CASE UNCHANGED vars
  BY <1>1 DEF IInv, CliInv, GuiInv, FilesInv, Exists, vars, cliVars, gui
<1>2. CASE Next
  <2>1. GuiInv'
    BY <1>2, GuiInvStep
  <2>2. CASE route
    BY <2>1, <2>2, AskGood DEF route, UnchangedFiles, IInv
  <2>3. ASSUME NEW p \in Process, Shell(p) PROVE CliInv'
    BY <2>3, TerminalGood DEF Shell, IInv
  <2>4. CASE Others
    BY <2>1, <2>4, OthersWriteGood DEF Others, IInv
  <2> QED BY <1>2, <2>1, <2>2, <2>3, <2>4, WindowGood, WorkGood, DoneGood DEF Next, IInv
<1> QED BY <1>1, <1>2

\* Types: the configuration, the server's list, the files, the processes, their outcomes
\* and what the window shows are well formed, and a row that is drawn names a database.
THEOREM TypeCorrect == Spec => []TypeOK
<1>1. IInv => TypeOK
  BY DEF IInv, CliInv, GuiInv, TypeOK, CliTypeOK, FileSet, Screens, Lists
<1> QED BY <1>1, IInvInit, IInvStep, PTL DEF Spec

\* A command that saves an old copy of config.toml over what another one saved, a process
\* that is killed, a file that is fetched while it is bound: whatever happens, no cursor
\* says that a file has versions it has not got.
THEOREM CursorsFit == Spec => []CursorFitsFile
<1>1. IInv => CursorFitsFile
  BY DEF IInv, CliInv, Fits, Holds, CursorFitsFile, LocalOnly
<1> QED BY <1>1, IInvInit, IInvStep, PTL DEF Spec

==============================================================================
