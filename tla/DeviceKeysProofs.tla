-------------------------- MODULE DeviceKeysProofs ---------------------------
(***************************************************************************)
(* Proofs about DeviceKeys, for any users, machines, devices, keys and       *)
(* number of commands at a time: types, that a configuration's private key    *)
(* is one that was published with its token, and that the database's key is   *)
(* only wrapped for keys the recipient has held.                              *)
(***************************************************************************)
EXTENDS DeviceKeys, TLAPS

-----------------------------------------------------------------------------
(* The inductive invariant *)

\* What a configuration says of keys, in a file or in memory: the private key was
\* published for the device next to it, the keys of others are keys they have held.
ConfigInv(c) ==
  /\ c.priv # NoKey => c.device # NoDevice /\ c.priv \in published[c.device]
  /\ \A u \in User : c.known[u] # NoKey => c.known[u] \in held[u]

\* What a command has got when it is at a step.  Only a key pair that was just
\* made is in memory and not yet in the file.
ProcessInv(r) ==
  /\ r \in Processes
  /\ r # Idle =>
       /\ ConfigInv(r.cfg)
       /\ r.at \notin {"keysave", "save"} => r.cfg.priv \in held[userOf[r.on]] \cup {NoKey}
       /\ r.at \notin {"enroll", "save"} => r.cfg.device # NoDevice
       /\ r.cmd = "sync" => r.cfg.device # NoDevice /\ r.cfg.bound # Unbound
       /\ r.at = "enroll" => r.cmd = "enroll"
       /\ r.at = "keysave" => r.cfg.priv # NoKey
       /\ r.at = "ready" /\ r.cmd = "fingerprint" => r.cfg.priv # NoKey
       /\ r.at \in {"compare", "share"} =>
            r.cmd = "share" /\ r.user \in User /\ r.key \in Key
       /\ r.at = "import" => r.cmd = "init-shared"
       /\ r.at \in {"share", "import", "sync"} => r.data # "none"
       /\ r.at = "save" /\ r.cmd = "sync" => r.data # "none"
       /\ r.at = "sync" => r.cmd = "sync"
       /\ r.at = "share" => r.key \in held[r.user]

FilesInv ==
  \A m \in Machine : /\ ConfigInv(config[m])
                     /\ config[m].priv \in held[userOf[m]] \cup {NoKey}
ProcessesInv == \A p \in Process : ProcessInv(proc[p])
ScreensInv == \A s \in screens : s[2] \in held[s[1]]

\* KeysWerePublished alone says nothing of the configurations in memory, which
\* will replace the files, and WrappedForHeldKeys nothing of the keys a share is
\* going to use.
IInv == TypeOK /\ FilesInv /\ ProcessesInv /\ ScreensInv /\ WrappedForHeldKeys

\* Keys are published and held for good: what was true of history stays true.
Grows ==
  /\ published' \in [Device -> SUBSET Key] /\ held' \in [User -> SUBSET Key]
  /\ \A d \in Device : published[d] \subseteq published'[d]
  /\ \A u \in User : held[u] \subseteq held'[u]

-----------------------------------------------------------------------------
(* Configurations and commands in memory *)

At == {"enroll", "upload", "keysave", "ready", "compare", "share", "import", "sync", "save"}
Command == {"enroll", "fingerprint", "share", "init-shared", "sync", "daemon", "forget"}
Running == [at: At, on: Machine, cmd: Command, cfg: Config, user: User \cup {NoUser},
            key: Key \cup {NoKey}, data: {"none", "right", "typo"}]

\* A process is idle or runs a command.
LEMMA ProcessesSplit ==
  /\ Processes = {Idle} \cup Running
  /\ \A r \in Running : r # Idle /\ r.at # "idle"
<1>1. Processes = {Idle} \cup Running
  BY DEF Processes, Running, At, Command
<1>2. \A r \in Running : r.at # "idle"
  BY DEF Running, At
<1>3. Idle.at = "idle"
  BY DEF Idle
<1> QED BY <1>1, <1>2, <1>3

\* The parts of a command.
LEMMA RunningParts ==
  ASSUME NEW r \in Running
  PROVE /\ r.at \in At /\ r.on \in Machine /\ r.cmd \in Command /\ r.cfg \in Config
        /\ r.user \in User \cup {NoUser} /\ r.key \in Key \cup {NoKey}
        /\ r.data \in {"none", "right", "typo"}
BY DEF Running

\* The parts of a configuration.
LEMMA ConfigParts ==
  ASSUME NEW c \in Config
  PROVE /\ c.device \in Device \cup {NoDevice} /\ c.priv \in Key \cup {NoKey}
        /\ c.known \in [User -> Key \cup {NoKey}] /\ c.bound \in Bindings
BY DEF Config

\* A command's step.
LEMMA StepRunning ==
  ASSUME NEW r \in Running, NEW a \in At
  PROVE LET q == [r EXCEPT !.at = a]
        IN /\ q \in Running
           /\ q.at = a /\ q.on = r.on /\ q.cmd = r.cmd /\ q.cfg = r.cfg
           /\ q.user = r.user /\ q.key = r.key /\ q.data = r.data
BY DEF Running

\* A configuration with another key.
LEMMA PrivConfig ==
  ASSUME NEW c \in Config, NEW k \in Key
  PROVE LET e == [c EXCEPT !.priv = k]
        IN /\ e \in Config
           /\ e.priv = k /\ e.device = c.device /\ e.known = c.known /\ e.bound = c.bound
BY DEF Config

\* A configuration of a new device.
LEMMA EnrolledConfig ==
  ASSUME NEW c \in Config, NEW d \in Device, NEW k \in Key
  PROVE LET e == [c EXCEPT !.device = d, !.priv = k]
        IN /\ e \in Config
           /\ e.priv = k /\ e.device = d /\ e.known = c.known /\ e.bound = c.bound
BY DEF Config

\* A configuration that remembers a key.
LEMMA KnownConfig ==
  ASSUME NEW c \in Config, NEW u \in User, NEW k \in Key
  PROVE LET e == [c EXCEPT !.known[u] = k]
        IN /\ e \in Config
           /\ e.priv = c.priv /\ e.device = c.device /\ e.bound = c.bound
           /\ \A w \in User : e.known[w] = IF w = u THEN k ELSE c.known[w]
BY DEF Config

\* A configuration with another binding.
LEMMA BoundConfig ==
  ASSUME NEW c \in Config, NEW b \in Bindings
  PROVE LET e == [c EXCEPT !.bound = b]
        IN /\ e \in Config
           /\ e.priv = c.priv /\ e.device = c.device /\ e.known = c.known /\ e.bound = b
BY DEF Config

WithKey(r, a, k) == [r EXCEPT !.at = a, !.cfg.priv = k]
WithDevice(r, a, d, k) == [r EXCEPT !.at = a, !.cfg.device = d, !.cfg.priv = k]

\* A command that has a new key.
LEMMA KeyRunning ==
  ASSUME NEW r \in Running, NEW a \in At, NEW k \in Key, NEW q, q = WithKey(r, a, k)
  PROVE /\ q \in Running
        /\ q.at = a /\ q.on = r.on /\ q.cmd = r.cmd
        /\ q.user = r.user /\ q.key = r.key /\ q.data = r.data
        /\ q.cfg \in Config /\ q.cfg.priv = k /\ q.cfg.device = r.cfg.device
        /\ q.cfg.known = r.cfg.known /\ q.cfg.bound = r.cfg.bound
<1> DEFINE e == [r.cfg EXCEPT !.priv = k]
<1>1. /\ e \in Config
      /\ e.priv = k /\ e.device = r.cfg.device /\ e.known = r.cfg.known
      /\ e.bound = r.cfg.bound
  BY RunningParts, PrivConfig
<1>2. q = [r EXCEPT !.at = a, !.cfg = e]
  BY DEF WithKey
<1> HIDE DEF e
<1> QED BY <1>1, <1>2 DEF Running

\* A command that has enrolled its machine.
LEMMA EnrolledRunning ==
  ASSUME NEW r \in Running, NEW a \in At, NEW d \in Device, NEW k \in Key,
         NEW q, q = WithDevice(r, a, d, k)
  PROVE /\ q \in Running
        /\ q.at = a /\ q.on = r.on /\ q.cmd = r.cmd
        /\ q.user = r.user /\ q.key = r.key /\ q.data = r.data
        /\ q.cfg \in Config /\ q.cfg.priv = k /\ q.cfg.device = d
        /\ q.cfg.known = r.cfg.known /\ q.cfg.bound = r.cfg.bound
<1> DEFINE e == [r.cfg EXCEPT !.device = d, !.priv = k]
<1>0. r.cfg \in Config
  BY RunningParts
<1>1. /\ e \in Config
      /\ e.priv = k /\ e.device = d /\ e.known = r.cfg.known
      /\ e.bound = r.cfg.bound
  BY <1>0 DEF Config
<1>2. q = [r EXCEPT !.at = a, !.cfg = e]
  BY DEF WithDevice
<1> HIDE DEF e
<1> QED BY <1>1, <1>2 DEF Running

-----------------------------------------------------------------------------
(* What stays true while history grows *)

\* A configuration's keys stay published and held.
LEMMA ConfigKept ==
  ASSUME TypeOK, Grows, NEW c \in Config, ConfigInv(c)
  PROVE ConfigInv(c)'
<1>1. c.device \in Device \cup {NoDevice} /\ c.known \in [User -> Key \cup {NoKey}]
  BY ConfigParts
<1> QED BY <1>1 DEF ConfigInv, Grows

\* What a command has got stays good.
LEMMA ProcessKept ==
  ASSUME TypeOK, Grows, NEW r, ProcessInv(r)
  PROVE ProcessInv(r)'
<1>1. CASE r = Idle
  BY <1>1 DEF ProcessInv
<1>2. CASE r # Idle
  <2>1. r \in Running
    BY <1>2, ProcessesSplit DEF ProcessInv
  <2>2. /\ r.on \in Machine /\ r.cfg \in Config /\ r.user \in User \cup {NoUser}
    BY <2>1, RunningParts
  <2>3. ConfigInv(r.cfg)'
    BY <1>2, <2>2, ConfigKept DEF ProcessInv
  <2>4. userOf[r.on] \in User
    BY <2>2, MachinesAssumption
  <2>5. r.at \notin {"keysave", "save"} => r.cfg.priv \in held'[userOf[r.on]] \cup {NoKey}
    BY <1>2, <2>4 DEF ProcessInv, Grows
  <2>6. r.at = "share" => r.key \in held'[r.user]
    BY <1>2 DEF ProcessInv, Grows
  <2> QED BY <1>2, <2>3, <2>5, <2>6 DEF ProcessInv
<1> QED BY <1>1, <1>2

\* One command goes on, the others stay where they are.
LEMMA ProcessesKept ==
  ASSUME TypeOK, ProcessesInv, Grows, NEW p \in Process, NEW q, ProcessInv(q)', Go(p, q)
  PROVE /\ ProcessesInv'
        /\ proc' \in [Process -> Processes]
<1>1. q \in Processes
  BY DEF ProcessInv
<1>2. proc' \in [Process -> Processes]
  BY <1>1 DEF Go, TypeOK
<1>3. ASSUME NEW o \in Process PROVE ProcessInv(proc[o])'
  <2>1. CASE o = p
    <3>1. proc'[o] = q
      BY <2>1 DEF Go, TypeOK
    <3> QED BY <3>1 DEF ProcessInv, ConfigInv
  <2>2. CASE o # p
    <3>1. PICK r : r = proc[o]
      OBVIOUS
    <3>2. ProcessInv(r)
      BY <3>1 DEF ProcessesInv
    <3>3. ProcessInv(r)'
      BY <3>2, ProcessKept
    <3>4. proc'[o] = r
      BY <2>2, <3>1 DEF Go, TypeOK
    <3> QED BY <3>3, <3>4 DEF ProcessInv, ConfigInv
  <2> QED BY <2>1, <2>2
<1> QED BY <1>2, <1>3 DEF ProcessesInv

\* The files stay good while they are left alone.
LEMMA FilesKept ==
  ASSUME TypeOK, FilesInv, Grows, config' = config
  PROVE FilesInv'
<1> SUFFICES ASSUME NEW m \in Machine
             PROVE ConfigInv(config[m])' /\ config'[m].priv \in held'[userOf[m]] \cup {NoKey}
  BY DEF FilesInv
<1>1. PICK c : c = config[m]
  OBVIOUS
<1>2. c \in Config /\ ConfigInv(c) /\ c.priv \in held[userOf[m]] \cup {NoKey}
  BY <1>1 DEF TypeOK, FilesInv
<1>3. ConfigInv(c)'
  BY <1>2, ConfigKept
<1>4. c.priv \in held'[userOf[m]] \cup {NoKey}
  BY <1>2, MachinesAssumption DEF Grows
<1> QED BY <1>1, <1>3, <1>4 DEF ConfigInv

\* So do the screens and the shares.
LEMMA SharesKept ==
  ASSUME TypeOK, ScreensInv, WrappedForHeldKeys, Grows, screens' = screens, wrapped' = wrapped
  PROVE ScreensInv' /\ WrappedForHeldKeys'
<1>1. ScreensInv'
  <2> SUFFICES ASSUME NEW s \in screens PROVE s[2] \in held'[s[1]]
    BY DEF ScreensInv
  <2>1. s[1] \in User
    BY DEF TypeOK
  <2> QED BY <2>1 DEF ScreensInv, Grows
<1>2. WrappedForHeldKeys'
  BY DEF WrappedForHeldKeys, Grows
<1> QED BY <1>1, <1>2

\* History that is left alone grows.
LEMMA StaysGrows == TypeOK /\ UNCHANGED <<published, held>> => Grows
BY DEF TypeOK, Grows

\* Most steps only change what one command has in memory.
LEMMA QuietStep ==
  ASSUME IInv, NEW p \in Process, NEW q, ProcessInv(q), Go(p, q),
         UNCHANGED <<config, server, generated, published, held, screens>>
  PROVE IInv'
<1>1. Grows
  BY StaysGrows DEF IInv
<1>2. ProcessInv(q)'
  BY DEF ProcessInv, ConfigInv
<1>3. ProcessesInv' /\ proc' \in [Process -> Processes]
  BY <1>1, <1>2, ProcessesKept DEF IInv
<1>4. FilesInv' /\ ScreensInv' /\ WrappedForHeldKeys'
  BY <1>1, FilesKept, SharesKept DEF IInv, server
<1>5. TypeOK'
  BY <1>3 DEF IInv, TypeOK, server
<1> QED BY <1>3, <1>4, <1>5 DEF IInv

-----------------------------------------------------------------------------
(* The steps of a command *)

\* What a running command has got.
LEMMA Runs ==
  ASSUME IInv, NEW p \in Process, proc[p] # Idle
  PROVE /\ proc[p] \in Running /\ ProcessInv(proc[p])
        /\ proc[p].on \in Machine /\ MyUser(p) \in User
<1>1. ProcessInv(proc[p]) /\ proc[p] \in Processes
  BY DEF IInv, ProcessesInv, TypeOK
<1>2. proc[p] \in Running
  BY <1>1, ProcessesSplit
<1>3. proc[p].on \in Machine
  BY <1>2 DEF Running
<1> QED BY <1>1, <1>2, <1>3, MachinesAssumption DEF MyUser

\* A step of a name that is not Idle's is a running command's.
LEMMA NotIdle ==
  ASSUME NEW p \in Process, proc[p].at # "idle"
  PROVE proc[p] # Idle
BY DEF Idle

\* A command that starts has a machine's file.
LEMMA LoadInv ==
  ASSUME IInv, NEW p \in Process, NEW m \in Machine, NEW cmd \in Command, NEW at \in At,
         Load(p, m, cmd, at),
         cmd = "sync" => IsBound(m),
         at = "enroll" \/ (at \in {"upload", "ready"} /\ IsEnrolled(m)),
         at = "enroll" => cmd = "enroll",
         at = "ready" => config[m].priv # NoKey
  PROVE IInv'
<1> DEFINE q == [at |-> at, on |-> m, cmd |-> cmd, cfg |-> config[m], user |-> NoUser,
                 key |-> NoKey, data |-> "none"]
<1>1. /\ config[m] \in Config /\ ConfigInv(config[m])
      /\ config[m].priv \in held[userOf[m]] \cup {NoKey}
  BY DEF IInv, TypeOK, FilesInv
<1>2. q \in Running /\ q.at = at /\ q.on = m /\ q.cmd = cmd /\ q.cfg = config[m]
  BY <1>1 DEF Running
<1>3. Go(p, q) /\ UNCHANGED <<config, server, generated, published, held, screens>>
  BY DEF Load, Go
<1> HIDE DEF q
<1>4. q \in Processes
  BY <1>2, ProcessesSplit
<1>5. ProcessInv(q)
  BY <1>1, <1>2, <1>4 DEF ProcessInv, IsEnrolled, IsBound
<1> QED BY <1>3, <1>5, QuietStep

\* Every start keeps the invariant.
LEMMA StartInv ==
  ASSUME IInv, NEW p \in Process, NEW m \in Machine,
         \/ runEnroll(p, m) \/ runFingerprint(p, m) \/ runShare(p, m)
         \/ runInitShared(p, m) \/ setupEnv(p, m)
  PROVE IInv'
<1> DEFINE at == Upgraded(m)
<1>0. /\ at \in {"upload", "ready"}
      /\ at = "ready" => config[m].priv # NoKey
  BY DEF Upgraded
<1> HIDE DEF at
<1>1. CASE runEnroll(p, m)
  <2>1. PICK cmd \in Command, a \in At : cmd = "enroll" /\ a = "enroll"
    BY DEF At, Command
  <2>2. Load(p, m, cmd, a)
    BY <1>1, <2>1 DEF runEnroll
  <2> QED BY <2>1, <2>2, LoadInv
<1>2. CASE runFingerprint(p, m)
  <2>1. Load(p, m, "fingerprint", at) /\ IsEnrolled(m)
    BY <1>2 DEF runFingerprint, at
  <2> QED BY <1>0, <2>1, LoadInv DEF At, Command
<1>3. CASE runShare(p, m)
  <2>1. Load(p, m, "share", at) /\ IsEnrolled(m)
    BY <1>3 DEF runShare, at
  <2> QED BY <1>0, <2>1, LoadInv DEF At, Command
<1>4. CASE runInitShared(p, m)
  <2>1. Load(p, m, "init-shared", at) /\ IsEnrolled(m)
    BY <1>4 DEF runInitShared, at
  <2> QED BY <1>0, <2>1, LoadInv DEF At, Command
<1>5. CASE setupEnv(p, m)
  <2>1. Load(p, m, "sync", at) /\ IsEnrolled(m) /\ IsBound(m)
    BY <1>5 DEF setupEnv, at
  <2> QED BY <1>0, <2>1, LoadInv DEF At, Command
<1> QED BY <1>1, <1>2, <1>3, <1>4, <1>5

\* An end is quiet.
LEMMA IdleInv == ProcessInv(Idle)
BY ProcessesSplit DEF ProcessInv

\* The key that a device without one gets is published before it is in memory, and
\* may be published for nothing.
LEMMA UploadInv == ASSUME IInv, NEW p \in Process, ensureDevicePublicKey(p) PROVE IInv'
<1>1. PICK k \in Key : GenerateBoxKeypair(k) /\ UpdateDevicePublicKey(p, k)
  BY DEF ensureDevicePublicKey
<1>2. PICK r : r = proc[p]
  OBVIOUS
<1>3. proc[p].at = "upload" /\ proc[p] # Idle
  BY NotIdle DEF ensureDevicePublicKey
<1>4. /\ r \in Running /\ ProcessInv(r) /\ r.at = "upload" /\ r # Idle /\ r \in Processes
      /\ r.on \in Machine /\ userOf[r.on] \in User
  BY <1>2, <1>3, Runs DEF MyUser, ProcessInv
<1>d. r.cfg \in Config /\ r.cfg.device \in Device /\ r.cfg.known \in [User -> Key \cup {NoKey}]
  <2>1. r.cfg \in Config
    BY <1>4, RunningParts
  <2> QED BY <1>4, <2>1, ConfigParts DEF ProcessInv
<1>5. /\ devices' \in [Device -> Rows] /\ Grows
      /\ \/ /\ k \in published'[r.cfg.device]
            /\ Go(p, [r EXCEPT !.at = "keysave", !.cfg.priv = k])
         \/ r.cmd \in {"share", "sync"} /\ Go(p, [r EXCEPT !.at = "ready"])
         \/ Go(p, Idle)
  <2>1. CASE UNCHANGED <<devices, published>>
    <3>1. devices' \in [Device -> Rows] /\ Grows
      BY <2>1, StaysGrows DEF IInv, TypeOK, ensureDevicePublicKey
    <3> QED
      BY <1>1, <1>2, <1>d, <2>1, <3>1
      DEF UpdateDevicePublicKey, Step, End, MeController_update, IInv, TypeOK
  <2>2. CASE MeController_update(r.cfg.device, k)
    <3>1. devices' \in [Device -> Rows]
      BY <1>d, <2>2 DEF MeController_update, IInv, TypeOK, Rows
    <3>2. Grows
      BY <1>d, <2>2 DEF MeController_update, IInv, TypeOK, Grows, ensureDevicePublicKey
    <3>3. k \in published'[r.cfg.device]
      BY <1>d, <2>2 DEF MeController_update, IInv, TypeOK
    <3> QED BY <1>1, <1>2, <3>1, <3>2, <3>3 DEF UpdateDevicePublicKey, Step, End
  <2> QED BY <1>1, <1>2, <2>1, <2>2 DEF UpdateDevicePublicKey
<1>6. ProcessesInv' /\ proc' \in [Process -> Processes]
  <2>1. ASSUME k \in published'[r.cfg.device],
               Go(p, [r EXCEPT !.at = "keysave", !.cfg.priv = k])
        PROVE ProcessesInv' /\ proc' \in [Process -> Processes]
    <3>1. PICK q : q = [r EXCEPT !.at = "keysave", !.cfg.priv = k]
      OBVIOUS
    <3>2. /\ q \in Running
          /\ q.at = "keysave" /\ q.on = r.on /\ q.cmd = r.cmd /\ q.data = r.data
          /\ q.cfg \in Config /\ q.cfg.priv = k /\ q.cfg.device = r.cfg.device
          /\ q.cfg.known = r.cfg.known /\ q.cfg.bound = r.cfg.bound
      <4>1. PICK a \in At : a = "keysave"
        BY DEF At
      <4>2. q = WithKey(r, a, k)
        BY <3>1, <4>1 DEF WithKey
      <4> QED BY <1>4, <4>1, <4>2, KeyRunning
    <3>3. ConfigInv(r.cfg)'
      BY <1>4, <1>5, <1>d, ConfigKept DEF IInv, ProcessInv
    <3>4. ConfigInv(q.cfg)'
      BY <1>d, <2>1, <3>2, <3>3, DevicesAssumption DEF ConfigInv
    <3>5. q \in Processes /\ r.cfg.device # NoDevice
      BY <1>d, <3>2, ProcessesSplit, DevicesAssumption
    <3>6. r.cmd = "sync" => r.cfg.bound # Unbound
      BY <1>4 DEF ProcessInv
    <3>7. k # NoKey
      BY KeysAssumption
    <3>8. ProcessInv(q)'
      BY <3>2, <3>4, <3>5, <3>6, <3>7 DEF ProcessInv
    <3> QED BY <1>5, <2>1, <3>1, <3>8, ProcessesKept DEF IInv
  <2>2. ASSUME r.cmd \in {"share", "sync"}, Go(p, [r EXCEPT !.at = "ready"])
        PROVE ProcessesInv' /\ proc' \in [Process -> Processes]
    <3>1. PICK q : q = [r EXCEPT !.at = "ready"]
      OBVIOUS
    <3>2. /\ q \in Running
          /\ q.at = "ready" /\ q.on = r.on /\ q.cmd = r.cmd /\ q.cfg = r.cfg
      BY <1>4, <3>1, StepRunning DEF At
    <3>3. q \in Processes
      BY <3>2, ProcessesSplit
    <3>4. ProcessInv(q)
      BY <1>4, <2>2, <3>2, <3>3 DEF ProcessInv
    <3>5. ProcessInv(q)'
      BY <1>5, <3>4, ProcessKept DEF IInv
    <3> QED BY <1>5, <2>2, <3>1, <3>5, ProcessesKept DEF IInv
  <2>3. ASSUME Go(p, Idle) PROVE ProcessesInv' /\ proc' \in [Process -> Processes]
    <3>1. ProcessInv(Idle)'
      BY IdleInv DEF ProcessInv
    <3> QED BY <1>5, <2>3, <3>1, ProcessesKept DEF IInv
  <2> QED BY <1>5, <2>1, <2>2, <2>3
<1>7. FilesInv' /\ ScreensInv' /\ WrappedForHeldKeys'
  BY <1>5, FilesKept, SharesKept DEF IInv, ensureDevicePublicKey
<1>8. TypeOK'
  BY <1>1, <1>5, <1>6
  DEF IInv, TypeOK, Grows, ensureDevicePublicKey, GenerateBoxKeypair
<1> QED BY <1>6, <1>7, <1>8 DEF IInv

\* The file gets what the command has in memory, with a key that is held from now on.
LEMMA SaveFiles ==
  ASSUME IInv, NEW p \in Process, proc[p] # Idle, Save(p), UNCHANGED published
  PROVE /\ Grows /\ FilesInv'
        /\ config' \in [Machine -> Config]
        /\ proc[p].cfg.priv \in held'[userOf[proc[p].on]] \cup {NoKey}
<1>1. PICK r : r = proc[p]
  OBVIOUS
<1>2. /\ r \in Running /\ ProcessInv(r) /\ r # Idle /\ r.cfg \in Config
      /\ r.on \in Machine /\ userOf[r.on] \in User /\ r.cfg.priv \in Key \cup {NoKey}
  <2>1. r \in Running /\ ProcessInv(r)
    BY <1>1, Runs
  <2>2. r.cfg \in Config /\ r.on \in Machine
    BY <2>1, RunningParts
  <2> QED BY <1>1, <2>1, <2>2, ConfigParts, MachinesAssumption
<1>3. /\ config' = [config EXCEPT ![r.on] = r.cfg]
      /\ held' = [held EXCEPT ![userOf[r.on]] = @ \cup ({r.cfg.priv} \ {NoKey})]
  BY <1>1 DEF Save, MyUser
<1>4. Grows
  BY <1>2, <1>3 DEF Grows, IInv, TypeOK
<1>5. config' \in [Machine -> Config]
  BY <1>2, <1>3 DEF IInv, TypeOK
<1>6. r.cfg.priv \in held'[userOf[r.on]] \cup {NoKey}
  BY <1>2, <1>3 DEF IInv, TypeOK
<1>7. ASSUME NEW m \in Machine
      PROVE ConfigInv(config[m])' /\ config'[m].priv \in held'[userOf[m]] \cup {NoKey}
  <2>1. CASE m = r.on
    <3>1. config'[m] = r.cfg
      BY <1>3, <2>1 DEF IInv, TypeOK
    <3>2. ConfigInv(r.cfg)'
      BY <1>2, <1>4, ConfigKept DEF IInv, ProcessInv
    <3> QED BY <1>6, <2>1, <3>1, <3>2 DEF ConfigInv
  <2>2. CASE m # r.on
    <3>1. PICK c : c = config[m]
      OBVIOUS
    <3>2. config'[m] = c
      BY <1>3, <2>2, <3>1 DEF IInv, TypeOK
    <3>3. c \in Config /\ ConfigInv(c) /\ c.priv \in held[userOf[m]] \cup {NoKey}
      BY <3>1 DEF IInv, TypeOK, FilesInv
    <3>4. ConfigInv(c)'
      BY <1>4, <3>3, ConfigKept DEF IInv
    <3>5. c.priv \in held'[userOf[m]] \cup {NoKey}
      BY <1>4, <3>3, MachinesAssumption DEF Grows
    <3> QED BY <3>2, <3>4, <3>5 DEF ConfigInv
  <2> QED BY <2>1, <2>2
<1> QED BY <1>1, <1>4, <1>5, <1>6, <1>7 DEF FilesInv

\* A device's new key is saved.
LEMMA SaveKeyInv == ASSUME IInv, NEW p \in Process, SaveDeviceKey(p) PROVE IInv'
<1>1. PICK r : r = proc[p]
  OBVIOUS
<1>2. /\ proc[p] # Idle /\ r # Idle /\ r.at = "keysave" /\ r \in Running /\ ProcessInv(r)
  BY <1>1, NotIdle, Runs DEF SaveDeviceKey
<1>3. /\ Grows /\ FilesInv' /\ config' \in [Machine -> Config]
      /\ r.cfg.priv \in held'[userOf[r.on]] \cup {NoKey}
  BY <1>1, <1>2, SaveFiles DEF SaveDeviceKey
<1>4. PICK q : q = [r EXCEPT !.at = "ready"]
  OBVIOUS
<1>5. q \in Running /\ q.at = "ready" /\ q.on = r.on /\ q.cmd = r.cmd /\ q.cfg = r.cfg
  <2>1. "ready" \in At
    BY DEF At
  <2> QED BY <1>2, <1>4, <2>1, StepRunning
<1>6. ProcessInv(r)'
  BY <1>2, <1>3, ProcessKept DEF IInv
<1>7. q \in Processes
  BY <1>5, ProcessesSplit
<1>8. ProcessInv(q)'
  BY <1>2, <1>3, <1>5, <1>6, <1>7 DEF ProcessInv
<1>9. Go(p, q)
  BY <1>1, <1>4 DEF SaveDeviceKey, Step
<1>10. ProcessesInv' /\ proc' \in [Process -> Processes]
  BY <1>3, <1>8, <1>9, ProcessesKept DEF IInv
<1>11. ScreensInv' /\ WrappedForHeldKeys'
  BY <1>3, SharesKept DEF IInv, SaveDeviceKey, server
<1>12. TypeOK'
  BY <1>3, <1>10 DEF IInv, TypeOK, Grows, SaveDeviceKey, server
<1> QED BY <1>3, <1>10, <1>11, <1>12 DEF IInv

\* The configuration is saved at the end; the daemon goes on.
LEMMA SaveConfigInv == ASSUME IInv, NEW p \in Process, SaveConfig(p) PROVE IInv'
<1>1. PICK r : r = proc[p]
  OBVIOUS
<1>2. /\ proc[p] # Idle /\ r # Idle /\ r.at = "save" /\ r \in Running /\ ProcessInv(r)
  BY <1>1, NotIdle, Runs DEF SaveConfig
<1>3. /\ Grows /\ FilesInv' /\ config' \in [Machine -> Config]
      /\ r.cfg.priv \in held'[userOf[r.on]] \cup {NoKey}
  BY <1>1, <1>2, SaveFiles DEF SaveConfig
<1>4. ProcessInv(r)'
  BY <1>2, <1>3, ProcessKept DEF IInv
<1>5. \E q : Go(p, q) /\ ProcessInv(q)'
  <2>1. CASE Go(p, Idle)
    <3>1. ProcessInv(Idle)'
      BY IdleInv DEF ProcessInv
    <3> QED BY <2>1, <3>1
  <2>2. CASE r.cmd = "sync" /\ Go(p, [r EXCEPT !.at = "sync"])
    <3>1. PICK q : q = [r EXCEPT !.at = "sync"]
      OBVIOUS
    <3>2. "sync" \in At
      BY DEF At
    <3>3. /\ q \in Running /\ q.at = "sync" /\ q.on = r.on /\ q.cmd = r.cmd
          /\ q.cfg = r.cfg /\ q.data = r.data
      BY <1>2, <3>1, <3>2, StepRunning
    <3>4. q \in Processes
      BY <3>3, ProcessesSplit
    <3>5. ProcessInv(q)'
      BY <1>2, <1>3, <1>4, <2>2, <3>3, <3>4 DEF ProcessInv
    <3> QED BY <2>2, <3>1, <3>5
  <2> QED BY <1>1, <2>1, <2>2 DEF SaveConfig, End, Step
<1>6. ProcessesInv' /\ proc' \in [Process -> Processes]
  BY <1>3, <1>5, ProcessesKept DEF IInv
<1>7. ScreensInv' /\ WrappedForHeldKeys'
  BY <1>3, SharesKept DEF IInv, SaveConfig, server
<1>8. TypeOK'
  BY <1>3, <1>6 DEF IInv, TypeOK, Grows, SaveConfig, server
<1> QED BY <1>3, <1>6, <1>7, <1>8 DEF IInv

\* An enrolled device's key is published with the device; its machine may not hear.
LEMMA EnrollInv == ASSUME IInv, NEW p \in Process, Enroll(p) PROVE IInv'
<1>1. PICK r : r = proc[p]
  OBVIOUS
<1>2. /\ proc[p] # Idle /\ r # Idle /\ r.at = "enroll" /\ r \in Running /\ ProcessInv(r)
      /\ userOf[r.on] \in User
  BY <1>1, NotIdle, Runs DEF Enroll, MyUser
<1>3. PICK k \in Key, d \in Device :
        /\ GenerateBoxKeypair(k)
        /\ EnrollmentController_create(d, userOf[r.on], k)
        /\ \/ Go(p, [r EXCEPT !.at = "save", !.cfg.device = d, !.cfg.priv = k])
           \/ Go(p, Idle)
  BY <1>1 DEF Enroll, MyUser, End
<1>4. /\ Grows /\ k \in published'[d]
      /\ devices' \in [Device -> Rows] /\ enrolled' \in Seq(Device)
  <2>1. devices' \in [Device -> Rows]
    BY <1>2, <1>3 DEF EnrollmentController_create, IInv, TypeOK, Rows
  <2>2. enrolled' \in Seq(Device)
    BY <1>3 DEF EnrollmentController_create, IInv, TypeOK
  <2>3. Grows /\ k \in published'[d]
    BY <1>3 DEF EnrollmentController_create, IInv, TypeOK, Grows, Enroll
  <2> QED BY <2>1, <2>2, <2>3
<1>5. \E q : Go(p, q) /\ ProcessInv(q)'
  <2>1. CASE Go(p, Idle)
    <3>1. ProcessInv(Idle)'
      BY IdleInv DEF ProcessInv
    <3> QED BY <2>1, <3>1
  <2>2. CASE Go(p, [r EXCEPT !.at = "save", !.cfg.device = d, !.cfg.priv = k])
    <3>1. PICK q : q = [r EXCEPT !.at = "save", !.cfg.device = d, !.cfg.priv = k]
      OBVIOUS
    <3>2. PICK a \in At : a = "save"
      BY DEF At
    <3>a. q = WithDevice(r, a, d, k)
      BY <3>1, <3>2 DEF WithDevice
    <3>3. /\ q \in Running /\ q.at = "save" /\ q.on = r.on /\ q.cmd = r.cmd
          /\ q.cfg.priv = k /\ q.cfg.device = d
          /\ q.cfg.known = r.cfg.known /\ q.cfg.bound = r.cfg.bound
      BY <1>2, <3>2, <3>a, EnrolledRunning
    <3>4. q \in Processes /\ d # NoDevice
      BY <3>3, ProcessesSplit, DevicesAssumption
    <3>5. ProcessInv(r)'
      BY <1>2, <1>4, ProcessKept DEF IInv
    <3>6. ConfigInv(q.cfg)'
      BY <1>2, <1>4, <3>3, <3>4, <3>5 DEF ProcessInv, ConfigInv
    <3>7. r.cmd # "sync"
      BY <1>2 DEF ProcessInv
    <3>8. ProcessInv(q)'
      BY <1>2, <3>3, <3>4, <3>6, <3>7 DEF ProcessInv
    <3> QED BY <2>2, <3>1, <3>8
  <2> QED BY <1>3, <2>1, <2>2
<1>6. ProcessesInv' /\ proc' \in [Process -> Processes]
  BY <1>4, <1>5, ProcessesKept DEF IInv
<1>7. FilesInv' /\ ScreensInv' /\ WrappedForHeldKeys'
  BY <1>4, FilesKept, SharesKept DEF IInv, Enroll
<1>8. TypeOK'
  BY <1>3, <1>4, <1>6 DEF IInv, TypeOK, Grows, Enroll, GenerateBoxKeypair
<1> QED BY <1>6, <1>7, <1>8 DEF IInv

\* A screen shows a key that is in the file.
LEMMA ShowInv == ASSUME IInv, NEW p \in Process, showFingerprint(p) PROVE IInv'
<1>1. PICK r : r = proc[p]
  OBVIOUS
<1>2. /\ proc[p] # Idle /\ r # Idle /\ r.at = "ready" /\ r.cmd = "fingerprint"
      /\ r \in Running /\ ProcessInv(r) /\ r.on \in Machine /\ userOf[r.on] \in User
  BY <1>1, NotIdle, Runs DEF showFingerprint, MyUser
<1>3. /\ screens' = screens \cup {<<userOf[r.on], r.cfg.priv>>}
      /\ Go(p, Idle)
  BY <1>1 DEF showFingerprint, MyUser, End
<1>4. r.cfg.priv \in held[userOf[r.on]] /\ r.cfg.priv \in Key
  <2>1. r.cfg.priv \in held[userOf[r.on]]
    BY <1>2 DEF ProcessInv
  <2> QED BY <1>2, <2>1 DEF IInv, TypeOK
<1>5. Grows
  BY StaysGrows DEF IInv, showFingerprint
<1>6. ProcessInv(Idle)'
  BY IdleInv DEF ProcessInv
<1>7. ProcessesInv' /\ proc' \in [Process -> Processes]
  BY <1>3, <1>5, <1>6, ProcessesKept DEF IInv
<1>8. FilesInv'
  BY <1>5, FilesKept DEF IInv, showFingerprint
<1>9. ScreensInv'
  BY <1>3, <1>4 DEF ScreensInv, IInv, showFingerprint
<1>10. WrappedForHeldKeys'
  BY DEF WrappedForHeldKeys, IInv, showFingerprint, server
<1>11. TypeOK'
  BY <1>2, <1>3, <1>4, <1>7 DEF IInv, TypeOK, showFingerprint, server
<1> QED BY <1>7, <1>8, <1>9, <1>10, <1>11 DEF IInv

\* The recipient's key is one.
LEMMA LookupInv == ASSUME IInv, NEW p \in Process, LookupUser(p) PROVE IInv'
<1>1. PICK r : r = proc[p]
  OBVIOUS
<1>2. /\ proc[p] # Idle /\ r # Idle /\ r.at = "ready" /\ r.cmd = "share"
      /\ r \in Running /\ ProcessInv(r)
  BY <1>1, NotIdle, Runs DEF LookupUser
<1>3. PICK u \in User, k \in Key : Go(p, [r EXCEPT !.at = "compare", !.user = u, !.key = k])
  BY <1>1 DEF LookupUser
<1>4. PICK q : q = [r EXCEPT !.at = "compare", !.user = u, !.key = k]
  OBVIOUS
<1>5. /\ q \in Running /\ q.at = "compare" /\ q.on = r.on /\ q.cmd = r.cmd
      /\ q.cfg = r.cfg /\ q.user = u /\ q.key = k
  BY <1>2, <1>4 DEF Running, At
<1>6. q \in Processes
  BY <1>5, ProcessesSplit
<1>7. ProcessInv(q)
  BY <1>2, <1>5, <1>6 DEF ProcessInv
<1> QED BY <1>3, <1>4, <1>7, QuietStep DEF LookupUser

\* A key that is wrapped for is known or was shown: it has been held either way.
LEMMA ConfirmInv == ASSUME IInv, NEW p \in Process, confirmKey(p) PROVE IInv'
<1>1. PICK r : r = proc[p]
  OBVIOUS
<1>2. /\ proc[p] # Idle /\ r # Idle /\ r.at = "compare"
      /\ r \in Running /\ ProcessInv(r) /\ r.user \in User /\ r.key \in Key
  BY <1>1, NotIdle, Runs DEF confirmKey, ProcessInv
<1>3. PICK x \in Typed : Go(p, [r EXCEPT !.at = "share", !.data = x])
  BY <1>1 DEF confirmKey
<1>4. PICK q : q = [r EXCEPT !.at = "share", !.data = x]
  OBVIOUS
<1>5. x \in {"right", "typo"}
  BY TypedAssumption
<1>6. /\ q \in Running /\ q.at = "share" /\ q.on = r.on /\ q.cmd = r.cmd
      /\ q.cfg = r.cfg /\ q.user = r.user /\ q.key = r.key /\ q.data = x
  BY <1>2, <1>4, <1>5 DEF Running, At
<1>7. q \in Processes
  BY <1>6, ProcessesSplit
<1>8. r.key \in held[r.user]
  <2>1. CASE KnownKey(r.cfg, r.user) = r.key
    <3>1. r.cfg.known[r.user] # NoKey => r.cfg.known[r.user] \in held[r.user]
      BY <1>2 DEF ProcessInv, ConfigInv
    <3> QED BY <1>2, <2>1, <3>1, KeysAssumption DEF KnownKey
  <2>2. CASE <<r.user, r.key>> \in screens
    BY <2>2 DEF IInv, ScreensInv
  <2> QED BY <1>1, <2>1, <2>2 DEF confirmKey
<1>9. ProcessInv(q)
  BY <1>2, <1>5, <1>6, <1>7, <1>8 DEF ProcessInv
<1> QED BY <1>3, <1>4, <1>9, QuietStep DEF confirmKey

\* The share is for the key of the recipient; it is remembered if the answer comes.
LEMMA ShareInv == ASSUME IInv, NEW p \in Process, ShareDatabase(p) PROVE IInv'
<1>1. PICK r : r = proc[p]
  OBVIOUS
<1>2. /\ proc[p] # Idle /\ r # Idle /\ r.at = "share"
      /\ r \in Running /\ ProcessInv(r) /\ r.user \in User /\ r.key \in Key
      /\ r.data \in {"right", "typo"} /\ r.key \in held[r.user]
  <2>1. r \in Running /\ ProcessInv(r) /\ proc[p] # Idle /\ r # Idle /\ r.at = "share"
    BY <1>1, NotIdle, Runs DEF ShareDatabase
  <2>2. r.data \in {"none", "right", "typo"}
    BY <2>1, RunningParts
  <2> QED BY <2>1, <2>2 DEF ProcessInv
<1>3. Grows
  BY StaysGrows DEF IInv, ShareDatabase
<1>4. wrapped' = [wrapped EXCEPT ![r.user] = [for |-> r.key, data |-> r.data]]
  BY <1>1 DEF ShareDatabase
<1>5. \E q : Go(p, q) /\ ProcessInv(q)'
  <2>1. CASE Go(p, Idle)
    <3>1. ProcessInv(Idle)'
      BY IdleInv DEF ProcessInv
    <3> QED BY <2>1, <3>1
  <2>2. ASSUME Go(p, [r EXCEPT !.at = "save",
                               !.cfg = RememberKey(@, r.user, r.key),
                               !.user = NoUser, !.key = NoKey, !.data = "none"])
        PROVE \E q : Go(p, q) /\ ProcessInv(q)'
    <3>1. r.cfg \in Config
      BY <1>2, RunningParts
    <3>2. PICK e : e = RememberKey(r.cfg, r.user, r.key)
      OBVIOUS
    <3>3. /\ e \in Config
          /\ e.priv = r.cfg.priv /\ e.device = r.cfg.device /\ e.bound = r.cfg.bound
          /\ \A w \in User : e.known[w] = IF w = r.user THEN r.key ELSE r.cfg.known[w]
      BY <1>2, <3>1, <3>2, KnownConfig DEF RememberKey
    <3>4. PICK q : q = [r EXCEPT !.at = "save", !.cfg = e,
                                 !.user = NoUser, !.key = NoKey, !.data = "none"]
      OBVIOUS
    <3>5. /\ q \in Running /\ q.at = "save" /\ q.on = r.on /\ q.cmd = r.cmd /\ q.cfg = e
      BY <1>2, <3>3, <3>4 DEF Running, At
    <3>6. Go(p, q)
      BY <2>2, <3>2, <3>4
    <3>7. q \in Processes
      BY <3>5, ProcessesSplit
    <3>8. ConfigInv(e)
      BY <1>2, <3>3 DEF ProcessInv, ConfigInv
    <3>9. r.cmd # "sync"
      BY <1>2 DEF ProcessInv
    <3>10. ProcessInv(q)
      BY <1>2, <3>5, <3>7, <3>8, <3>9 DEF ProcessInv
    <3>11. ProcessInv(q)'
      BY <1>3, <3>10, ProcessKept DEF IInv
    <3> QED BY <3>6, <3>11
  <2> QED BY <1>1, <2>1, <2>2 DEF ShareDatabase, End
<1>6. ProcessesInv' /\ proc' \in [Process -> Processes]
  BY <1>3, <1>5, ProcessesKept DEF IInv
<1>7. FilesInv'
  BY <1>3, FilesKept DEF IInv, ShareDatabase
<1>8. ScreensInv'
  BY DEF ScreensInv, IInv, ShareDatabase
<1>9. wrapped' \in [User -> Shares]
  BY <1>2, <1>4 DEF IInv, TypeOK, Shares
<1>10. WrappedForHeldKeys'
  BY <1>2, <1>4 DEF WrappedForHeldKeys, IInv, TypeOK, ShareDatabase
<1>11. TypeOK'
  BY <1>6, <1>9 DEF IInv, TypeOK, ShareDatabase
<1> QED BY <1>6, <1>7, <1>8, <1>10, <1>11 DEF IInv

\* Someone with a role has a share.
LEMMA MemberShares ==
  ASSUME IInv, NEW u \in User, RoleOf(u) = "member"
  PROVE wrapped[u] # NoShare /\ wrapped[u].data \in {"right", "typo"}
BY DEF RoleOf, IInv, TypeOK, Shares

\* What a share holds is a key.
LEMMA OpenInv == ASSUME IInv, NEW p \in Process, OpenShare(p) PROVE IInv'
<1>1. PICK r : r = proc[p]
  OBVIOUS
<1>2. /\ proc[p] # Idle /\ r # Idle /\ r.at = "ready" /\ r.cmd = "init-shared"
      /\ r \in Running /\ ProcessInv(r) /\ userOf[r.on] \in User
  BY <1>1, NotIdle, Runs DEF OpenShare, MyUser
<1>3. PICK x \in {"right", "typo"} : Go(p, [r EXCEPT !.at = "import", !.data = x])
  BY <1>1, <1>2, MemberShares DEF OpenShare, findSharedDatabaseByName, MyUser
<1>4. PICK q : q = [r EXCEPT !.at = "import", !.data = x]
  OBVIOUS
<1>5. /\ q \in Running /\ q.at = "import" /\ q.on = r.on /\ q.cmd = r.cmd
      /\ q.cfg = r.cfg /\ q.data = x
  BY <1>2, <1>4 DEF Running, At
<1>6. q \in Processes
  BY <1>5, ProcessesSplit
<1>7. ProcessInv(q)
  BY <1>2, <1>5, <1>6 DEF ProcessInv
<1> QED BY <1>3, <1>4, <1>7, QuietStep DEF OpenShare

\* The binding of a member.
LEMMA ImportInv == ASSUME IInv, NEW p \in Process, ImportShared(p) PROVE IInv'
<1>1. PICK r : r = proc[p]
  OBVIOUS
<1>2. /\ proc[p] # Idle /\ r # Idle /\ r.at = "import" /\ r \in Running /\ ProcessInv(r)
      /\ r.cfg \in Config /\ r.data \in {"right", "typo"}
  <2>1. proc[p] # Idle /\ r # Idle /\ r.at = "import" /\ r \in Running /\ ProcessInv(r)
    BY <1>1, NotIdle, Runs DEF ImportShared
  <2>2. r.cfg \in Config /\ r.data \in {"none", "right", "typo"}
    BY <2>1, RunningParts
  <2> QED BY <2>1, <2>2 DEF ProcessInv
<1>3. PICK b : b = [role |-> "member", check |-> r.data, seq |-> Len(blobs)]
  OBVIOUS
<1>4. Len(blobs) \in 0..MaxBlobs
  BY BlobsAssumption DEF IInv, TypeOK
<1>5. b \in Bindings /\ b # Unbound
  <2>1. b \in Bindings /\ b.role = "member"
    BY <1>2, <1>3, <1>4 DEF Bindings
  <2>2. Unbound.role = "none"
    BY DEF Unbound
  <2> QED BY <2>1, <2>2
<1>6. PICK e : e = [r.cfg EXCEPT !.bound = b]
  OBVIOUS
<1>7. /\ e \in Config
      /\ e.priv = r.cfg.priv /\ e.device = r.cfg.device /\ e.known = r.cfg.known
      /\ e.bound = b
  BY <1>2, <1>5, <1>6 DEF Config
<1>8. PICK q : q = [r EXCEPT !.at = "save", !.cfg = e, !.data = "none"]
  OBVIOUS
<1>9. q \in Running /\ q.at = "save" /\ q.on = r.on /\ q.cmd = r.cmd /\ q.cfg = e
  BY <1>2, <1>7, <1>8 DEF Running, At
<1>10. Go(p, q)
  BY <1>1, <1>3, <1>6, <1>8 DEF ImportShared
<1>11. q \in Processes
  BY <1>9, ProcessesSplit
<1>12. ConfigInv(e)
  BY <1>2, <1>7 DEF ProcessInv, ConfigInv
<1>13. ProcessInv(q)
  BY <1>2, <1>5, <1>7, <1>9, <1>11, <1>12 DEF ProcessInv
<1> QED BY <1>10, <1>13, QuietStep DEF ImportShared

\* A sync goes on with a key.
LEMMA ResolveInv == ASSUME IInv, NEW p \in Process, resolveMasterEntryKeys(p) PROVE IInv'
<1>1. PICK r : r = proc[p]
  OBVIOUS
<1>2. /\ proc[p] # Idle /\ r # Idle /\ r.at = "ready" /\ r.cmd = "sync"
      /\ r \in Running /\ ProcessInv(r) /\ userOf[r.on] \in User
  BY <1>1, NotIdle, Runs DEF resolveMasterEntryKeys, MyUser
<1>3. PICK x : /\ x = keysForRole(r.cfg.bound.role, userOf[r.on], r.cfg.priv)
               /\ x # "none" /\ RoleOf(userOf[r.on]) = r.cfg.bound.role
               /\ Go(p, [r EXCEPT !.at = "sync", !.data = x])
  BY <1>1 DEF resolveMasterEntryKeys, MyUser
<1>4. x \in {"right", "typo"}
  <2>1. CASE r.cfg.bound.role = "owner"
    BY <1>3, <2>1 DEF keysForRole
  <2>2. CASE r.cfg.bound.role = "member"
    <3>1. wrapped[userOf[r.on]].data \in {"right", "typo"}
      BY <1>2, <1>3, <2>2, MemberShares
    <3> QED BY <1>3, <2>2, <3>1 DEF keysForRole
  <2> QED BY <1>3, <2>1, <2>2 DEF keysForRole
<1>5. PICK q : q = [r EXCEPT !.at = "sync", !.data = x]
  OBVIOUS
<1>6. /\ q \in Running /\ q.at = "sync" /\ q.on = r.on /\ q.cmd = r.cmd
      /\ q.cfg = r.cfg /\ q.data = x
  BY <1>2, <1>4, <1>5 DEF Running, At
<1>7. q \in Processes
  BY <1>6, ProcessesSplit
<1>8. ProcessInv(q)
  BY <1>2, <1>4, <1>6, <1>7 DEF ProcessInv
<1> QED BY <1>3, <1>5, <1>8, QuietStep DEF resolveMasterEntryKeys

\* Binding of a sync that has written or only read.
LEMMA SyncedBinding ==
  ASSUME NEW b \in Bindings, b # Unbound, NEW n \in 0..MaxBlobs,
         NEW x \in {"none", "right", "typo"}
  PROVE LET c == [b EXCEPT !.seq = n, !.check = x] IN c \in Bindings /\ c # Unbound
<1> DEFINE c == [b EXCEPT !.seq = n, !.check = x]
<1>1. c \in Bindings /\ c.role # "none"
  BY DEF Bindings
<1>2. Unbound.role = "none"
  BY DEF Unbound
<1> QED BY <1>1, <1>2

\* What is written is under the key of the sync.
LEMMA SyncInv == ASSUME IInv, NEW p \in Process, runSync(p) PROVE IInv'
<1>1. PICK r : r = proc[p]
  OBVIOUS
<1>2. /\ proc[p] # Idle /\ r # Idle /\ r.at = "sync" /\ r \in Running /\ ProcessInv(r)
      /\ r.cfg \in Config /\ r.data \in {"right", "typo"}
      /\ r.cmd = "sync" /\ r.cfg.bound # Unbound /\ r.cfg.bound \in Bindings
  <2>1. proc[p] # Idle /\ r # Idle /\ r.at = "sync" /\ r \in Running /\ ProcessInv(r)
    BY <1>1, NotIdle, Runs DEF runSync
  <2>2. r.cfg \in Config /\ r.data \in {"none", "right", "typo"}
    BY <2>1, RunningParts
  <2>3. r.cfg.bound \in Bindings
    BY <2>2, ConfigParts
  <2> QED BY <2>1, <2>2, <2>3 DEF ProcessInv
<1>3. /\ blobs' \in Seq({"right", "typo"}) /\ Len(blobs') \in 0..MaxBlobs
  <2>1. blobs' \in {blobs, Append(blobs, r.data)}
    BY <1>1 DEF runSync
  <2>2. blobs' \in Seq({"right", "typo"})
    <3>1. blobs \in Seq({"right", "typo"}) /\ r.data \in {"right", "typo"}
      BY <1>2 DEF IInv, TypeOK
    <3> QED BY <2>1, <3>1
  <2>3. Len(blobs') \in Nat
    BY <2>2
  <2>4. Len(blobs') <= MaxBlobs
    BY <1>1 DEF runSync
  <2> QED BY <2>2, <2>3, <2>4, BlobsAssumption
<1>4. PICK c : c = IF r.cfg.bound.seq < Len(blobs) /\ r.cfg.bound.check = "none"
                   THEN r.data ELSE r.cfg.bound.check
  OBVIOUS
<1>5. c \in {"none", "right", "typo"}
  BY <1>2, <1>4 DEF Bindings, Unbound
<1>6. PICK n : n = Len(blobs')
  OBVIOUS
<1>7. PICK b : b = [r.cfg.bound EXCEPT !.seq = n, !.check = c]
  OBVIOUS
<1>8. b \in Bindings /\ b # Unbound
  <2>1. PICK bb : bb = r.cfg.bound
    OBVIOUS
  <2> QED BY <1>2, <1>3, <1>5, <1>6, <1>7, <2>1, SyncedBinding
<1>9. PICK e : e = [r.cfg EXCEPT !.bound = b]
  OBVIOUS
<1>10. /\ e \in Config
       /\ e.priv = r.cfg.priv /\ e.device = r.cfg.device /\ e.known = r.cfg.known
       /\ e.bound = b
  BY <1>2, <1>8, <1>9 DEF Config
<1>11. PICK q : q = [r EXCEPT !.at = "save", !.cfg = e]
  OBVIOUS
<1>12. /\ q \in Running /\ q.at = "save" /\ q.on = r.on /\ q.cmd = r.cmd /\ q.cfg = e
       /\ q.data = r.data
  BY <1>2, <1>10, <1>11 DEF Running, At
<1>13. Go(p, q)
  <2>1. Go(p, [r EXCEPT !.at = "save", !.cfg.bound = b])
    BY <1>1, <1>4, <1>6, <1>7 DEF runSync
  <2>2. [r EXCEPT !.at = "save", !.cfg.bound = b] = q
    BY <1>9, <1>11
  <2> QED BY <2>1, <2>2
<1>14. Grows
  BY StaysGrows DEF IInv, runSync
<1>15. q \in Processes
  BY <1>12, ProcessesSplit
<1>16. ConfigInv(e)
  BY <1>2, <1>10 DEF ProcessInv, ConfigInv
<1>17. ProcessInv(q)
  BY <1>2, <1>8, <1>10, <1>12, <1>15, <1>16 DEF ProcessInv
<1>18. ProcessInv(q)'
  BY <1>14, <1>17, ProcessKept DEF IInv
<1>19. ProcessesInv' /\ proc' \in [Process -> Processes]
  BY <1>13, <1>14, <1>18, ProcessesKept DEF IInv
<1>20. FilesInv' /\ ScreensInv' /\ WrappedForHeldKeys'
  BY <1>14, FilesKept, SharesKept DEF IInv, runSync
<1>21. TypeOK'
  BY <1>3, <1>19 DEF IInv, TypeOK, runSync
<1> QED BY <1>19, <1>20, <1>21 DEF IInv

\* A binding is forgotten in memory first.
LEMMA ForgetInv ==
  ASSUME IInv, NEW p \in Process, NEW m \in Machine, runForget(p, m)
  PROVE IInv'
<1>1. PICK e : e = [config[m] EXCEPT !.bound = Unbound]
  OBVIOUS
<1>2. config[m] \in Config /\ ConfigInv(config[m])
  BY DEF IInv, TypeOK, FilesInv
<1>3. /\ e \in Config
      /\ e.priv = config[m].priv /\ e.device = config[m].device
      /\ e.known = config[m].known
  <2>1. Unbound \in Bindings
    BY DEF Bindings
  <2> QED BY <1>1, <1>2, <2>1 DEF Config
<1>4. ConfigInv(e)
  BY <1>2, <1>3 DEF ConfigInv
<1>5. PICK q : q = [at |-> "save", on |-> m, cmd |-> "forget", cfg |-> e,
                    user |-> NoUser, key |-> NoKey, data |-> "none"]
  OBVIOUS
<1>6. q \in Running /\ q.at = "save" /\ q.cmd = "forget" /\ q.cfg = e
  BY <1>3, <1>5 DEF Running, At, Command
<1>7. q \in Processes
  BY <1>6, ProcessesSplit
<1>8. ProcessInv(q)
  BY <1>4, <1>6, <1>7 DEF ProcessInv
<1>9. Go(p, q)
  BY <1>1, <1>5 DEF runForget
<1> QED BY <1>8, <1>9, QuietStep DEF runForget

\* A command may end anywhere.
LEMMA StopInv == ASSUME IInv, NEW p \in Process, Stop(p) PROVE IInv'
BY IdleInv, QuietStep DEF Stop, End

\* Requests that change rows of the server only.
LEMMA RowsInv ==
  ASSUME IInv,
         \E m \in Machine : \/ \E d \in Device : runDevicesRemove(m, d)
                            \/ \E u \in User : runUnshare(m, u)
  PROVE IInv'
<1>1. /\ UNCHANGED <<config, proc, enrolled, blobs, generated, published, held, screens>>
      /\ devices' \in [Device -> Rows] /\ wrapped' \in [User -> Shares]
      /\ \A u \in User : wrapped'[u] \in {wrapped[u], NoShare}
  <2>1. ASSUME NEW m \in Machine, NEW d \in Device, runDevicesRemove(m, d)
        PROVE <1>1!1 /\ <1>1!2 /\ <1>1!3
    BY <2>1 DEF runDevicesRemove, DeleteDevice, IInv, TypeOK, Rows, NoRow
  <2>2. ASSUME NEW m \in Machine, NEW u \in User, runUnshare(m, u)
        PROVE <1>1!1 /\ <1>1!2 /\ <1>1!3
    BY <2>2 DEF runUnshare, UnshareDatabase, IInv, TypeOK, Shares
  <2> QED BY <2>1, <2>2
<1>2. Grows
  BY <1>1, StaysGrows DEF IInv
<1>3. FilesInv'
  BY <1>1, <1>2, FilesKept DEF IInv
<1>4. ASSUME NEW o \in Process PROVE ProcessInv(proc[o])'
  <2>1. PICK r : r = proc[o]
    OBVIOUS
  <2>2. ProcessInv(r)'
    BY <1>2, <2>1, ProcessKept DEF IInv, ProcessesInv
  <2> QED BY <1>1, <2>1, <2>2 DEF ProcessInv, ConfigInv
<1>5. ScreensInv' /\ WrappedForHeldKeys'
  BY <1>1 DEF IInv, ScreensInv, WrappedForHeldKeys
<1>6. TypeOK'
  BY <1>1 DEF IInv, TypeOK
<1> QED BY <1>3, <1>4, <1>5, <1>6 DEF IInv, ProcessesInv

-----------------------------------------------------------------------------
(* The theorems *)

\* Initially a device that has a key has published it.
LEMMA InitInv == Init => IInv
<1> SUFFICES ASSUME Init PROVE IInv
  OBVIOUS
<1>1. ASSUME NEW m \in Machine
      PROVE /\ device0[m] \in Device \cup {NoDevice} /\ key0[m] \in Key \cup {NoKey}
            /\ key0[m] # NoKey => device0[m] \in Device /\ key0[m] \in published[device0[m]]
            /\ key0[m] # NoKey => key0[m] \in held[userOf[m]]
            /\ userOf[m] \in User
  BY MachinesAssumption, DevicesAssumption DEF Init
<1>2. config \in [Machine -> Config]
  <2>1. ASSUME NEW m \in Machine PROVE config[m] \in Config
    <3>1. PICK b : b = IF userOf[m] = Owner
                       THEN [role |-> "owner", check |-> "none", seq |-> 0] ELSE Unbound
      OBVIOUS
    <3>2. b \in Bindings
      BY <3>1, BlobsAssumption DEF Bindings
    <3>3. config[m] = [device |-> device0[m], priv |-> key0[m],
                       known |-> [u \in User |-> NoKey], bound |-> b]
      BY <3>1 DEF Init
    <3> QED BY <1>1, <3>2, <3>3 DEF Config
  <2> QED BY <2>1 DEF Init
<1>3. FilesInv
  <2> SUFFICES ASSUME NEW m \in Machine
               PROVE ConfigInv(config[m]) /\ config[m].priv \in held[userOf[m]] \cup {NoKey}
    BY DEF FilesInv
  <2>1. /\ config[m].priv = key0[m] /\ config[m].device = device0[m]
        /\ \A u \in User : config[m].known[u] = NoKey
    BY DEF Init
  <2> QED BY <1>1, <2>1, DevicesAssumption DEF ConfigInv
<1>4. devices \in [Device -> Rows]
  <2>1. ASSUME NEW d \in Device PROVE devices[d] \in Rows
    <3>1. CASE \E m \in Machine : device0[m] = d
      <4>1. MachineOf(d) \in Machine
        BY <3>1 DEF MachineOf
      <4>2. devices[d] = [user |-> userOf[MachineOf(d)], pub |-> key0[MachineOf(d)]]
        BY <3>1 DEF Init
      <4> QED BY <1>1, <4>1, <4>2 DEF Rows
    <3>2. CASE ~\E m \in Machine : device0[m] = d
      BY <3>2 DEF Init, Rows, NoRow
    <3> QED BY <3>1, <3>2
  <2> QED BY <2>1 DEF Init
<1>5. /\ generated \subseteq Key
      /\ published \in [Device -> SUBSET Key] /\ held \in [User -> SUBSET Key]
  BY DevicesAssumption DEF Init
<1>6. /\ proc \in [Process -> Processes] /\ ProcessesInv
  <2>1. \A p \in Process : proc[p] = Idle
    BY DEF Init
  <2> QED BY <2>1, IdleInv DEF Init, ProcessesInv, ProcessInv
<1>7. /\ enrolled \in Seq(Device) /\ blobs \in Seq({"right", "typo"}) /\ Len(blobs) = 0
      /\ wrapped \in [User -> Shares] /\ screens = {}
  BY DEF Init, Shares
<1>8. TypeOK
  BY <1>2, <1>4, <1>5, <1>6, <1>7, BlobsAssumption DEF TypeOK
<1>9. ScreensInv /\ WrappedForHeldKeys
  BY DEF Init, ScreensInv, WrappedForHeldKeys
<1> QED BY <1>3, <1>6, <1>8, <1>9 DEF IInv

\* No step breaks the invariant.
LEMMA NextInv == IInv /\ [Next]_vars => IInv'
<1> SUFFICES ASSUME IInv, [Next]_vars PROVE IInv'
  OBVIOUS
<1>1. ASSUME NEW p \in Process, Run(p) PROVE IInv'
  BY <1>1, StartInv, UploadInv, SaveKeyInv, EnrollInv, ShowInv, LookupInv, ConfirmInv,
     ShareInv, OpenInv, ImportInv, ResolveInv, SyncInv, ForgetInv, SaveConfigInv, StopInv
  DEF Run
<1>2. CASE \E m \in Machine : \/ \E d \in Device : runDevicesRemove(m, d)
                              \/ \E u \in User : runUnshare(m, u)
  BY <1>2, RowsInv
<1>3. CASE UNCHANGED vars
  BY <1>3 DEF vars, server, IInv, TypeOK, FilesInv, ProcessesInv, ProcessInv, ConfigInv,
              ScreensInv, WrappedForHeldKeys
<1> QED BY <1>1, <1>2, <1>3 DEF Next

\* The invariant holds in every state.
LEMMA Invariance == Spec => []IInv
BY InitInv, NextInv, PTL DEF Spec

\* The variables of the machines, the server and the commands have their types,
\* whatever commands run at the same time: what they check with the server before
\* they use an answer is enough for every record to be one of its type.
THEOREM TypeCorrect == Spec => []TypeOK
BY Invariance, PTL DEF IInv

\* A private key in config.toml was published for the device token next to it,
\* although a request's answer may be lost and any command that loaded the file
\* earlier may save it later (ensureDevicePublicKey, Enroll).
THEOREM KeysPublished == Spec => []KeysWerePublished
<1>1. IInv => KeysWerePublished
  BY DEF IInv, FilesInv, ConfigInv, KeysWerePublished
<1> QED BY <1>1, Invariance, PTL

\* The owner's machine wraps the database's key only for keys that the recipient has
\* had in a config.toml, because it knows them or compared them with the recipient's
\* screen, which shows what is in the file (confirmKey, showFingerprint).
THEOREM WrappedForHeld == Spec => []WrappedForHeldKeys
BY Invariance, PTL DEF IInv

==============================================================================
