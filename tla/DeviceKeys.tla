----------------------------- MODULE DeviceKeys ------------------------------
(***************************************************************************)
(* The keys of devices, from enrollment to a shared database.                *)
(*                                                                          *)
(* Every machine has a config.toml, which each command (a process) loads when *)
(* it starts and replaces as a whole when it saves: the last one to save      *)
(* wins.  The server knows the public key of each device.  The owner of the   *)
(* database wraps its key for the newest device of another user, after       *)
(* comparing that device's key with what the other user's screen shows.  A    *)
(* request may fail, or be carried out and its answer lost.                  *)
(*                                                                          *)
(* A key pair is one value.  The key that the owner's machine encrypts under  *)
(* is "right"; "typo" is what a mistyped master password gives.              *)
(***************************************************************************)
EXTENDS Naturals, Sequences

CONSTANTS
  User, Owner, NoUser,    \* Owner is the user whose database it is
  Machine, userOf,        \* config.toml files and the user of each
  Process,                \* bound: commands running at the same time
  Device, NoDevice,       \* rows of devices; a device token stands for its row
  Key, NoKey,             \* key pairs
  device0, key0,          \* what each machine starts with: no key before v2
  Typed,                  \* what a typed master password gives
  MaxBlobs                \* bound: versions written to the database

ASSUME UsersAssumption == Owner \in User /\ NoUser \notin User
ASSUME MachinesAssumption == userOf \in [Machine -> User]
ASSUME KeysAssumption == NoKey \notin Key
ASSUME DevicesAssumption ==
  /\ NoDevice \notin Device
  /\ device0 \in [Machine -> Device \cup {NoDevice}]
  /\ key0 \in [Machine -> Key \cup {NoKey}]
  /\ \A m \in Machine : device0[m] = NoDevice => key0[m] = NoKey
  /\ \A m, n \in Machine : device0[m] = device0[n] /\ device0[m] # NoDevice => m = n
ASSUME TypedAssumption == Typed \subseteq {"right", "typo"}
ASSUME BlobsAssumption == MaxBlobs \in Nat

VARIABLES
  config,     \* config.toml of each machine
  proc,       \* what each process is doing
  devices,    \* rows: the user and the public key of each device
  enrolled,   \* the devices in the order of enrolled_at
  wrapped,    \* wrapped_master_key of each member: for which key, and of what
  blobs,      \* the key each version was encrypted under, in order of seq
  generated,  \* key pairs made so far
  published,  \* history: keys uploaded for a device
  held,       \* history: private keys that were saved in a config.toml of a user
  screens     \* history: what users' screens have shown, as <<user, key>>

server == <<devices, enrolled, wrapped, blobs>>
vars == <<config, proc, server, generated, published, held, screens>>

NoRow == [user |-> NoUser, pub |-> NoKey]
NoShare == [for |-> NoKey, data |-> "none"]
Unbound == [role |-> "none", check |-> "none", seq |-> 0]
Idle == [at |-> "idle"]

Rows == [user: User \cup {NoUser}, pub: Key \cup {NoKey}]
Shares == {NoShare} \cup [for: Key, data: {"right", "typo"}]
Bindings == {Unbound} \cup [role: {"owner", "member"}, check: {"none", "right", "typo"},
                           seq: 0..MaxBlobs]
Config == [device: Device \cup {NoDevice}, priv: Key \cup {NoKey},
           known: [User -> Key \cup {NoKey}], bound: Bindings]
Processes ==
  {Idle} \cup [at: {"enroll", "upload", "keysave", "ready", "compare", "share", "import",
                    "sync", "save"},
               on: Machine, cmd: {"enroll", "fingerprint", "share", "init-shared", "sync", "daemon",
                     "forget"},
               cfg: Config, user: User \cup {NoUser}, key: Key \cup {NoKey},
               data: {"none", "right", "typo"}]

MyUser(p) == userOf[proc[p].on]

MachineOf(d) == CHOOSE m \in Machine : device0[m] = d

Init ==
  /\ config = [m \in Machine |->
       [device |-> device0[m], priv |-> key0[m], known |-> [u \in User |-> NoKey],
        bound |-> IF userOf[m] = Owner THEN [role |-> "owner", check |-> "none", seq |-> 0]
                  ELSE Unbound]]
  /\ proc = [p \in Process |-> Idle]
  /\ devices = [d \in Device |->
       IF \E m \in Machine : device0[m] = d
       THEN [user |-> userOf[MachineOf(d)], pub |-> key0[MachineOf(d)]] ELSE NoRow]
  /\ enrolled = <<>>
  /\ wrapped = [u \in User |-> NoShare]
  /\ blobs = <<>>
  /\ generated = {key0[m] : m \in Machine} \ {NoKey}
  /\ published = [d \in Device |-> {key0[m] : m \in {n \in Machine : device0[n] = d}} \ {NoKey}]
  /\ held = [u \in User |-> {key0[m] : m \in {n \in Machine : userOf[n] = u}} \ {NoKey}]
  /\ screens = {}

-----------------------------------------------------------------------------
(* config.toml *)

\* Read when a command starts; a guard on what was read is part of the start.
Load(p, m, cmd, at) ==
  /\ proc[p] = Idle
  /\ proc' = [proc EXCEPT ![p] =
       [at |-> at, on |-> m, cmd |-> cmd, cfg |-> config[m], user |-> NoUser, key |-> NoKey,
        data |-> "none"]]
  /\ UNCHANGED <<config, server, generated, published, held, screens>>

\* The whole file is replaced by what the process has in memory.
Save(p) ==
  /\ config' = [config EXCEPT ![proc[p].on] = proc[p].cfg]
  /\ held' = [held EXCEPT ![MyUser(p)] =
       @ \cup ({proc[p].cfg.priv} \ {NoKey})]

KnownKey(c, u) == c.known[u]
RememberKey(c, u, k) == [c EXCEPT !.known[u] = k]

Go(p, q) == proc' = [proc EXCEPT ![p] = q]
Step(p, at) == Go(p, [proc[p] EXCEPT !.at = at])
End(p) == Go(p, Idle)

GenerateBoxKeypair(k) == k \notin generated /\ generated' = generated \cup {k}

-----------------------------------------------------------------------------
(* The server *)

\* The request's token: 401 without a row.
Authenticated(p) == devices[proc[p].cfg.device].user # NoUser

\* POST /devices/enroll with an enrollment token of u.
EnrollmentController_create(d, u, k) ==
  /\ devices[d] = NoRow /\ published[d] = {} /\ \A i \in DOMAIN enrolled : enrolled[i] # d
  /\ \A m \in Machine : device0[m] # d
  /\ devices' = [devices EXCEPT ![d] = [user |-> u, pub |-> k]]
  /\ enrolled' = Append(enrolled, d)
  /\ published' = [published EXCEPT ![d] = {k}]

\* PATCH /me
MeController_update(d, k) ==
  /\ devices' = [devices EXCEPT ![d].pub = k]
  /\ published' = [published EXCEPT ![d] = @ \cup {k}]

Age(d) == IF \E i \in DOMAIN enrolled : enrolled[i] = d
          THEN CHOOSE i \in DOMAIN enrolled : enrolled[i] = d ELSE 0

\* GET /users/lookup: the newest of the user's devices that has a public key.
\* Two devices of one user that were enrolled before v2 are not told apart.
ShareController_lookupUser(u, k) ==
  \E d \in Device :
    /\ devices[d].user = u /\ devices[d].pub = k /\ k # NoKey
    /\ \A e \in Device : devices[e].user = u /\ devices[e].pub # NoKey => Age(e) <= Age(d)

\* What GET /databases says of the caller's role.
RoleOf(u) == IF u = Owner THEN "owner" ELSE IF wrapped[u] # NoShare THEN "member" ELSE "none"

-----------------------------------------------------------------------------
(* The client's requests, and the commands *)

\* Mutant of UpdateDevicePublicKey: an answer that does not come counts as success.
UpdateAssumed(p, k) ==
  \/ /\ Authenticated(p)
     /\ MeController_update(proc[p].cfg.device, k)
     /\ Go(p, [proc[p] EXCEPT !.at = "keysave", !.cfg.priv = k])
  \/ /\ UNCHANGED <<devices, published>>
     /\ Go(p, [proc[p] EXCEPT !.at = "keysave", !.cfg.priv = k])

\* The key is taken into the configuration only after an answer.  Without one,
\* sync and share go on, the others stop.
UpdateDevicePublicKey(p, k) ==
  \/ /\ Authenticated(p)
     /\ MeController_update(proc[p].cfg.device, k)
     /\ Go(p, [proc[p] EXCEPT !.at = "keysave", !.cfg.priv = k])
  \/ /\ \/ Authenticated(p) /\ MeController_update(proc[p].cfg.device, k)
        \/ UNCHANGED <<devices, published>>
     /\ IF proc[p].cmd \in {"share", "sync"} THEN Step(p, "ready") ELSE End(p)

\* A device that has a token and no key.
ensureDevicePublicKey(p) ==
  /\ proc[p].at = "upload"
  /\ \E k \in Key : GenerateBoxKeypair(k) /\ UpdateDevicePublicKey(p, k)
  /\ UNCHANGED <<config, enrolled, wrapped, blobs, held, screens>>

\* Its key is saved before the command goes on.
SaveDeviceKey(p) ==
  /\ proc[p].at = "keysave"
  /\ Save(p)
  /\ Step(p, "ready")
  /\ UNCHANGED <<server, generated, published, screens>>

\* Where a command of an enrolled machine starts.
Upgraded(m) == IF config[m].priv = NoKey THEN "upload" ELSE "ready"
IsEnrolled(m) == config[m].device # NoDevice
IsBound(m) == config[m].bound # Unbound

runEnroll(p, m) == Load(p, m, "enroll", "enroll")

\* Only the screens of those it may be shared with matter.
runFingerprint(p, m) ==
  userOf[m] # Owner /\ IsEnrolled(m) /\ Load(p, m, "fingerprint", Upgraded(m))
runShare(p, m) == IsEnrolled(m) /\ IsBound(m) /\ Load(p, m, "share", Upgraded(m))
runInitShared(p, m) ==
  IsEnrolled(m) /\ ~IsBound(m) /\ Load(p, m, "init-shared", Upgraded(m))
setupEnv(p, m) == IsEnrolled(m) /\ IsBound(m) /\ Load(p, m, "sync", Upgraded(m))

\* A new token and a new key pair, saved together if the answer comes.
Enroll(p) ==
  /\ proc[p].at = "enroll"
  /\ \E k \in Key, d \in Device :
       /\ GenerateBoxKeypair(k)
       /\ EnrollmentController_create(d, MyUser(p), k)
       /\ \/ Go(p, [proc[p] EXCEPT !.at = "save", !.cfg.device = d, !.cfg.priv = k])
          \/ End(p)
  /\ UNCHANGED <<config, wrapped, blobs, held, screens>>

DeleteDevice(d) == devices' = [devices EXCEPT ![d] = NoRow]

\* devices remove: any device of the user.
runDevicesRemove(m, d) ==
  /\ config[m].device # NoDevice
  /\ devices[config[m].device].user = userOf[m] /\ devices[d].user = userOf[m]
  /\ DeleteDevice(d)
  /\ UNCHANGED <<config, proc, enrolled, wrapped, blobs, generated, published, held,
                 screens>>

\* The user's screen shows the fingerprint of the key in the configuration.
showFingerprint(p) ==
  /\ proc[p].at = "ready" /\ proc[p].cmd = "fingerprint"
  /\ screens' = screens \cup {<<MyUser(p), proc[p].cfg.priv>>}
  /\ End(p)
  /\ UNCHANGED <<config, server, generated, published, held>>

\* The role, then the key of the recipient's newest device.
LookupUser(p) ==
  /\ proc[p].at = "ready" /\ proc[p].cmd = "share"
  /\ Authenticated(p) /\ RoleOf(MyUser(p)) = "owner"
  /\ \E u \in User \ {Owner}, k \in Key :
       /\ ShareController_lookupUser(u, k)
       /\ Go(p, [proc[p] EXCEPT !.at = "compare", !.user = u, !.key = k])
  /\ UNCHANGED <<config, server, generated, published, held, screens>>

\* Mutant of confirmKey: a recipient nothing is known of is trusted.
confirmFirst(p) ==
  /\ proc[p].at = "compare"
  /\ \/ KnownKey(proc[p].cfg, proc[p].user) \in {NoKey, proc[p].key}
     \/ <<proc[p].user, proc[p].key>> \in screens
  /\ \E typed \in Typed :
       Go(p, [proc[p] EXCEPT !.at = "share", !.data = typed])
  /\ UNCHANGED <<config, server, generated, published, held, screens>>

\* Mutant of confirmKey: the key is wrapped before the password was read.
confirmWithoutPassword(p) ==
  /\ proc[p].at = "compare"
  /\ \/ KnownKey(proc[p].cfg, proc[p].user) = proc[p].key
     \/ <<proc[p].user, proc[p].key>> \in screens
  /\ Step(p, "share")
  /\ UNCHANGED <<config, server, generated, published, held, screens>>

\* The key is the known one, or the owner has compared it with the recipient's
\* screen, now or when `share --check` printed it.  Then the master password is
\* read, from the keyring or as it is typed, and the key derived from it wrapped.
confirmKey(p) ==
  /\ proc[p].at = "compare"
  /\ \/ KnownKey(proc[p].cfg, proc[p].user) = proc[p].key
     \/ <<proc[p].user, proc[p].key>> \in screens
  /\ \E typed \in Typed :
       Go(p, [proc[p] EXCEPT !.at = "share", !.data = typed])
  /\ UNCHANGED <<config, server, generated, published, held, screens>>

\* The key is remembered when the answer says that it was used.
ShareDatabase(p) ==
  /\ proc[p].at = "share"
  /\ Authenticated(p)
  /\ wrapped' = [wrapped EXCEPT ![proc[p].user] =
                   [for |-> proc[p].key, data |-> proc[p].data]]
  /\ \/ Go(p, [proc[p] EXCEPT !.at = "save",
                              !.cfg = RememberKey(@, proc[p].user, proc[p].key),
                              !.user = NoUser, !.key = NoKey, !.data = "none"])
     \/ End(p)
  /\ UNCHANGED <<config, devices, enrolled, blobs, generated, published, held, screens>>

UnshareDatabase(u) == wrapped' = [wrapped EXCEPT ![u] = NoShare]

\* unshare of the owner, or of the member that leaves; saves nothing.
runUnshare(m, u) ==
  /\ config[m].device # NoDevice /\ config[m].bound # Unbound
  /\ devices[config[m].device].user = userOf[m]
  /\ userOf[m] = Owner \/ userOf[m] = u
  /\ wrapped[u] # NoShare
  /\ UnshareDatabase(u)
  /\ UNCHANGED <<config, proc, devices, enrolled, blobs, generated, published, held,
                 screens>>

\* Every version from seq to the newest decrypts.
Decrypts(seq, data) == \A i \in seq + 1 .. Len(blobs) : blobs[i] = data

\* A sealed box opens for the key it was made for.
UnwrapKey(share, k) == share.for = k

\* GET /databases: the caller must be a member.
findSharedDatabaseByName(p) == Authenticated(p) /\ RoleOf(MyUser(p)) = "member"

OpenShare(p) ==
  /\ proc[p].at = "ready" /\ proc[p].cmd = "init-shared"
  /\ findSharedDatabaseByName(p)
  /\ UnwrapKey(wrapped[MyUser(p)], proc[p].cfg.priv)
  /\ Go(p, [proc[p] EXCEPT !.at = "import", !.data = wrapped[MyUser(p)].data])
  /\ UNCHANGED <<config, server, generated, published, held, screens>>

\* All versions are fetched and must decrypt; there may be none.
ImportShared(p) ==
  /\ proc[p].at = "import"
  /\ Authenticated(p) /\ RoleOf(MyUser(p)) = "member"
  /\ Decrypts(0, proc[p].data)
  /\ Go(p, [proc[p] EXCEPT !.at = "save",
       !.cfg.bound = [role |-> "member", check |-> proc[p].data, seq |-> Len(blobs)],
       !.data = "none"])
  /\ UNCHANGED <<config, server, generated, published, held, screens>>

\* From the password of an owner, from the wrapped key of a member.
keysForRole(role, u, k) ==
  CASE role = "owner" -> "right"
    [] role = "member" /\ UnwrapKey(wrapped[u], k) -> wrapped[u].data
    [] OTHER -> "none"

\* The role the server says and the key for it must be those this machine knows.
\* A mistyped password ends a sync of the owner: it does not open the local file.
resolveMasterEntryKeys(p) ==
  /\ proc[p].at = "ready" /\ proc[p].cmd = "sync"
  /\ Authenticated(p)
  /\ LET b == proc[p].cfg.bound
         data == keysForRole(b.role, MyUser(p), proc[p].cfg.priv)
     IN /\ RoleOf(MyUser(p)) = b.role
        /\ data # "none"
        /\ b.check \in {"none", data}
        /\ Go(p, [proc[p] EXCEPT !.at = "sync", !.data = data])
  /\ UNCHANGED <<config, server, generated, published, held, screens>>

\* What is new must decrypt; if there is something, the key has proved right.
\* Then what changed on this machine, or nothing, is encrypted and written.
runSync(p) ==
  /\ proc[p].at = "sync"
  /\ Authenticated(p) /\ RoleOf(MyUser(p)) # "none"
  /\ LET b == proc[p].cfg.bound
     IN /\ Decrypts(b.seq, proc[p].data)
        /\ blobs' \in {blobs, Append(blobs, proc[p].data)} /\ Len(blobs') <= MaxBlobs
        /\ Go(p, [proc[p] EXCEPT !.at = "save", !.cfg.bound = [b EXCEPT
             !.seq = Len(blobs'),
             !.check = IF b.seq < Len(blobs) /\ @ = "none" THEN proc[p].data ELSE @]])
  /\ UNCHANGED <<config, devices, enrolled, wrapped, generated, published, held, screens>>

\* The binding goes; the file and the database stay.
runForget(p, m) ==
  /\ proc[p] = Idle /\ IsBound(m) /\ userOf[m] # Owner
  /\ Go(p, [at |-> "save", on |-> m, cmd |-> "forget",
            cfg |-> [config[m] EXCEPT !.bound = Unbound],
            user |-> NoUser, key |-> NoKey, data |-> "none"])
  /\ UNCHANGED <<config, server, generated, published, held, screens>>

\* The last step of a command.  The daemon goes on with what it has in memory,
\* which it loaded when it started.
SaveConfig(p) ==
  /\ proc[p].at = "save"
  /\ Save(p)
  /\ \/ End(p)
     \/ proc[p].cmd = "sync" /\ Step(p, "sync")
  /\ UNCHANGED <<server, generated, published, screens>>

\* An error, an answer of no, `share --check`, Ctrl+C.
Stop(p) ==
  /\ proc[p] # Idle
  /\ End(p)
  /\ UNCHANGED <<config, server, generated, published, held, screens>>

-----------------------------------------------------------------------------
Run(p) ==
  \/ \E m \in Machine : \/ runEnroll(p, m) \/ runFingerprint(p, m)
                        \/ runShare(p, m) \/ runInitShared(p, m)
                        \/ setupEnv(p, m) \/ runForget(p, m)
  \/ ensureDevicePublicKey(p) \/ SaveDeviceKey(p)
  \/ Enroll(p) \/ showFingerprint(p)
  \/ LookupUser(p) \/ confirmKey(p) \/ ShareDatabase(p)
  \/ OpenShare(p) \/ ImportShared(p)
  \/ resolveMasterEntryKeys(p) \/ runSync(p)
  \/ SaveConfig(p) \/ Stop(p)

Next ==
  \/ \E p \in Process : Run(p)
  \/ \E m \in Machine : \/ \E d \in Device : runDevicesRemove(m, d)
                        \/ \E u \in User : runUnshare(m, u)

Spec == Init /\ [][Next]_vars

-----------------------------------------------------------------------------
(* Properties *)

\* The variables have their types.
TypeOK ==
  /\ config \in [Machine -> Config]
  /\ proc \in [Process -> Processes]
  /\ devices \in [Device -> Rows]
  /\ enrolled \in Seq(Device)
  /\ wrapped \in [User -> Shares]
  /\ blobs \in Seq({"right", "typo"}) /\ Len(blobs) <= MaxBlobs
  /\ generated \subseteq Key
  /\ published \in [Device -> SUBSET Key]
  /\ held \in [User -> SUBSET Key]
  /\ screens \subseteq User \X Key

\* Whatever answers are lost and whichever command saved last: the private key
\* in config.toml is one whose public half was uploaded with the token that
\* stands next to it.
KeysWerePublished ==
  \A m \in Machine : config[m].priv # NoKey =>
    config[m].priv \in published[config[m].device]

\* The database's key is only wrapped for keys that the recipient has had in a
\* config.toml: never for the device of an enrollment whose answer was lost,
\* though that is the newest one the server knows.
WrappedForHeldKeys ==
  \A u \in User : wrapped[u] # NoShare => wrapped[u].for \in held[u]

==============================================================================
