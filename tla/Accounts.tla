------------------------------ MODULE Accounts -------------------------------
(***************************************************************************)
(* Who may do what on the server: users, enrollment tokens, devices,         *)
(* databases and their members, the audit rows about revoked devices.        *)
(*                                                                          *)
(* A request is handled by a PHP worker.  It authenticates with one           *)
(* statement and acts with later ones, most of them outside a transaction,    *)
(* so other requests and bin/admin come in between; req[r] is what worker r   *)
(* knows by then.  A statement or a transaction is one step, with the foreign *)
(* keys and cascades of the schema.  Ids are UUIDs and never reused.          *)
(***************************************************************************)
EXTENDS Naturals

CONSTANTS
  User, NoUser,      \* rows of users; a NULL in members.added_by
  Device, NoToken,   \* rows of devices; a device that was never enrolled
  Token,             \* rows of enrollment_tokens
  Database,          \* rows of databases
  Worker             \* bound: requests handled at the same time

ASSUME NoUserAssumption == NoUser \notin User
ASSUME NoTokenAssumption == NoToken \notin Token

VARIABLES
  users,      \* state of each user's row
  tokens,     \* state of each token's row
  tokenUser,  \* the user a token was issued for
  expired,    \* tokens past expires_at
  devices,    \* devices[d] is the user of d's row, NoUser without a row
  databases,  \* the rows
  members,    \* rows of database_members
  audit,      \* device.revoked rows, as [revoked, by, user]
  req,        \* what each worker is doing
  enrolledBy, \* history: the token a device was enrolled with
  created     \* history: databases that were created

rows == <<users, tokens, tokenUser, expired, devices, databases, members, audit>>
history == <<enrolledBy, created>>
vars == <<users, tokens, tokenUser, expired, devices, databases, members, audit,
          req, enrolledBy, created>>

Idle == [op |-> "idle"]

Members == [db: Database, user: User, role: {"owner", "member"},
            by: User \cup {NoUser}]
Revocations == [revoked: Device, by: Device, user: User]
Requests ==
  {Idle}
  \cup [op: {"enroll"}, user: User, token: Token]
  \cup [op: {"device"}, user: User, device: Device]
  \cup {q \in [op: {"share"}, user: User, db: Database, target: User] :
          q.user # q.target}
  \cup [op: {"unshare"}, user: User, db: Database, target: User]
  \cup [op: {"log"}, revocation: Revocations]
  \cup [op: {"found", "issue", "newdb"}, user: User]

\* The row of the user exists: what a foreign key to users(id) asks for.
Exists(u) == users[u] \in {"active", "disabled"}
isOwner(d, u) == \E m \in members : m.db = d /\ m.user = u /\ m.role = "owner"
IsMember(d, u) == \E m \in members : m.db = d /\ m.user = u

\* Worker r goes on with q, or is done with Idle.
Continue(r, q) == req' = [req EXCEPT ![r] = q]

Init ==
  /\ users = [u \in User |-> "absent"]
  /\ tokens = [t \in Token |-> "absent"]
  /\ tokenUser = [t \in Token |-> NoUser]
  /\ expired = {}
  /\ devices = [d \in Device |-> NoUser]
  /\ databases = {} /\ members = {} /\ audit = {}
  /\ req = [r \in Worker |-> Idle]
  /\ enrolledBy = [d \in Device |-> NoToken]
  /\ created = {}

-----------------------------------------------------------------------------
(* Users and enrollment tokens, administered *)

\* A row for a token nobody has seen before.
insertEnrollmentToken(t, u) ==
  /\ tokens[t] = "absent" /\ tokenUser[t] = NoUser
  /\ tokens' = [tokens EXCEPT ![t] = "open"]
  /\ tokenUser' = [tokenUser EXCEPT ![t] = u]

\* The user and the first token, in one transaction.
createUserWithEnrollment(u, t) ==
  /\ users[u] = "absent"
  /\ users' = [users EXCEPT ![u] = "active"]
  /\ insertEnrollmentToken(t, u)
  /\ UNCHANGED <<expired, devices, databases, members, audit, req, history>>

\* SELECT ... WHERE disabled = false, before a token is inserted for the user.
createEnrollmentToken(r, u) ==
  /\ Continue(r, IF users[u] = "active" THEN [op |-> "issue", user |-> u] ELSE Idle)
  /\ UNCHANGED <<rows, history>>

\* Mutant of issueToken: the token's user is not a foreign key.
issueTokenAnyway(r, t) ==
  /\ req[r].op = "issue"
  /\ insertEnrollmentToken(t, req[r].user)
  /\ Continue(r, Idle)
  /\ UNCHANGED <<users, expired, devices, databases, members, audit, history>>

\* The INSERT that follows: it fails for a user deleted since the SELECT.
issueToken(r, t) ==
  /\ req[r].op = "issue"
  /\ Exists(req[r].user)
  /\ insertEnrollmentToken(t, req[r].user)
  /\ Continue(r, Idle)
  /\ UNCHANGED <<users, expired, devices, databases, members, audit, history>>

\* Disabling leaves every row of the user where it is.
setDisabled(u, disabled) ==
  /\ Exists(u)
  /\ users' = [users EXCEPT ![u] = IF disabled THEN "disabled" ELSE "active"]
  /\ UNCHANGED <<tokens, tokenUser, expired, devices, databases, members, audit,
                 req, history>>

\* ON DELETE CASCADE takes tokens, devices, memberships and audit rows along,
\* ON DELETE SET NULL clears added_by.  databases has no user since migration 007.
deleteUser(u) ==
  /\ Exists(u)
  /\ users' = [users EXCEPT ![u] = "deleted"]
  /\ tokens' = [t \in Token |-> IF tokenUser[t] = u THEN "absent" ELSE tokens[t]]
  /\ devices' = [d \in Device |-> IF devices[d] = u THEN NoUser ELSE devices[d]]
  /\ members' = {[m EXCEPT !.by = IF @ = u THEN NoUser ELSE @] :
                   m \in {n \in members : n.user # u}}
  /\ audit' = {a \in audit : a.user # u}
  /\ UNCHANGED <<tokenUser, expired, databases, req, history>>

\* POST /admin/users
UserController_create(u, t) == createUserWithEnrollment(u, t)

\* user:create of bin/admin
AdminCli_createUser(u, t) == createUserWithEnrollment(u, t)

\* POST /admin/users/{id}/enrollment
UserController_enrollment(r, u) == req[r] = Idle /\ createEnrollmentToken(r, u)

\* user:enrollment of bin/admin finds an active user by name first.
AdminCli_findUser(r, u) ==
  /\ req[r] = Idle
  /\ users[u] = "active"
  /\ Continue(r, [op |-> "found", user |-> u])
  /\ UNCHANGED <<rows, history>>

AdminCli_createEnrollmentToken(r) ==
  /\ req[r].op = "found"
  /\ createEnrollmentToken(r, req[r].user)

\* PATCH /admin/users/{id}
UserController_update(u, disabled) == setDisabled(u, disabled)

\* user:disable and user:enable of bin/admin, of any user there is.
AdminCli_setUserDisabled(u, disabled) == setDisabled(u, disabled)

\* DELETE /admin/users/{id}
UserController_destroy(u) == deleteUser(u)

\* user:delete of bin/admin
AdminCli_deleteUser(u) == deleteUser(u)

Expire(t) ==
  /\ tokens[t] = "open" /\ t \notin expired
  /\ expired' = expired \cup {t}
  /\ UNCHANGED <<users, tokens, tokenUser, devices, databases, members, audit, req,
                 history>>

\* Every request starts with the clean-up when it is due.
Cleanup ==
  /\ \E t \in Token : tokens[t] = "used" \/ t \in expired
  /\ tokens' = [t \in Token |-> IF tokens[t] = "used" \/ t \in expired
                                THEN "absent" ELSE tokens[t]]
  /\ UNCHANGED <<users, tokenUser, expired, devices, databases, members, audit, req,
                 history>>

-----------------------------------------------------------------------------
(* Authentication, and requests of devices *)

\* A token of an active user that is neither used nor expired.
lookupEnrollment(r, t) ==
  /\ req[r] = Idle
  /\ tokens[t] = "open" /\ t \notin expired
  /\ users[tokenUser[t]] = "active"
  /\ Continue(r, [op |-> "enroll", user |-> tokenUser[t], token |-> t])
  /\ UNCHANGED <<rows, history>>

\* Mutant of enroll: the token was checked when the request was authenticated.
enrollUnchecked(r, d) ==
  /\ req[r].op = "enroll"
  /\ enrolledBy[d] = NoToken
  /\ Exists(req[r].user)
  /\ tokens' = [tokens EXCEPT ![req[r].token] = "used"]
  /\ devices' = [devices EXCEPT ![d] = req[r].user]
  /\ enrolledBy' = [enrolledBy EXCEPT ![d] = req[r].token]
  /\ Continue(r, Idle)
  /\ UNCHANGED <<users, tokenUser, expired, databases, members, audit, created>>

\* One transaction: UPDATE ... WHERE used = false AND expires_at > now(), and
\* the new device if that found the row.
enroll(r, d) ==
  /\ req[r].op = "enroll"
  /\ tokens[req[r].token] = "open" /\ req[r].token \notin expired
  /\ enrolledBy[d] = NoToken
  /\ tokens' = [tokens EXCEPT ![req[r].token] = "used"]
  /\ devices' = [devices EXCEPT ![d] = req[r].user]
  /\ enrolledBy' = [enrolledBy EXCEPT ![d] = req[r].token]
  /\ Continue(r, Idle)
  /\ UNCHANGED <<users, tokenUser, expired, databases, members, audit, created>>

\* A device of an active user.
lookupDevice(r, d) ==
  /\ req[r] = Idle
  /\ devices[d] # NoUser
  /\ users[devices[d]] = "active"
  /\ Continue(r, [op |-> "device", user |-> devices[d], device |-> d])
  /\ UNCHANGED <<rows, history>>

\* DELETE /devices/{id}: any device of the same user, the caller's own too.
DeviceController_destroy(r, d) ==
  /\ req[r].op = "device"
  /\ devices[d] = req[r].user
  /\ LET v == [revoked |-> d, by |-> req[r].device, user |-> req[r].user]
     IN Continue(r, [op |-> "log", revocation |-> v])
  /\ devices' = [devices EXCEPT ![d] = NoUser]
  /\ UNCHANGED <<users, tokens, tokenUser, expired, databases, members, audit,
                 enrolledBy, created>>

\* The audit row has the calling device and user as foreign keys.  A row the
\* database refuses is dropped and the request goes on.
write(r) ==
  /\ req[r].op = "log"
  /\ LET v == req[r].revocation
     IN audit' = audit \cup (IF devices[v.by] # NoUser /\ Exists(v.user)
                            THEN {v} ELSE {})
  /\ Continue(r, Idle)
  /\ UNCHANGED <<users, tokens, tokenUser, expired, devices, databases, members,
                 history>>

-----------------------------------------------------------------------------
(* Databases and their members *)

\* Mutant of insertDatabase: the owner is not a foreign key.
insertDatabaseAnyway(d, u) ==
  /\ d \notin created
  /\ created' = created \cup {d}
  /\ databases' = databases \cup {d}
  /\ members' = members \cup {[db |-> d, user |-> u, role |-> "owner", by |-> u]}

\* The row and its owner in one transaction, which fails for a deleted user.
insertDatabase(d, u) ==
  /\ d \notin created
  /\ Exists(u)
  /\ created' = created \cup {d}
  /\ databases' = databases \cup {d}
  /\ members' = members \cup {[db |-> d, user |-> u, role |-> "owner", by |-> u]}

\* POST /databases
DatabaseController_create(r, d) ==
  /\ req[r].op = "device"
  /\ insertDatabase(d, req[r].user)
  /\ Continue(r, Idle)
  /\ UNCHANGED <<users, tokens, tokenUser, expired, devices, audit, enrolledBy>>

\* database:create of bin/admin looks the user up before the transaction.
AdminCli_createDatabase(r, u) ==
  /\ req[r] = Idle
  /\ users[u] = "active"
  /\ Continue(r, [op |-> "newdb", user |-> u])
  /\ UNCHANGED <<rows, history>>

DatabaseAdmin_create(r, d) ==
  /\ req[r].op = "newdb"
  /\ insertDatabase(d, req[r].user)
  /\ Continue(r, Idle)
  /\ UNCHANGED <<users, tokens, tokenUser, expired, devices, audit, enrolledBy>>

\* DELETE /databases/{id}: ownership is part of the statement.
DatabaseController_destroy(r, d) ==
  /\ req[r].op = "device"
  /\ isOwner(d, req[r].user)
  /\ databases' = databases \ {d}
  /\ members' = {m \in members : m.db # d}
  /\ Continue(r, Idle)
  /\ UNCHANGED <<users, tokens, tokenUser, expired, devices, audit, history>>

\* Mutant of requireOwner: an owner may share with itself.
requireOwnerOnly(r, d, target) ==
  /\ req[r].op = "device"
  /\ isOwner(d, req[r].user)
  /\ Continue(r, [op |-> "share", user |-> req[r].user, db |-> d, target |-> target])
  /\ UNCHANGED <<rows, history>>

\* POST /databases/{id}/shares checks ownership and the target first.
requireOwner(r, d, target) ==
  /\ req[r].op = "device"
  /\ isOwner(d, req[r].user)
  /\ target # req[r].user
  /\ Continue(r, [op |-> "share", user |-> req[r].user, db |-> d, target |-> target])
  /\ UNCHANGED <<rows, history>>

\* The upsert: database_id, user_id and added_by are foreign keys, and an
\* owner's row is left as it is.
ShareController_create(r) ==
  /\ req[r].op = "share"
  /\ LET q == req[r]
     IN /\ q.db \in databases /\ Exists(q.target) /\ Exists(q.user)
        /\ ~isOwner(q.db, q.target)
        /\ members' = {m \in members : m.db # q.db \/ m.user # q.target}
                      \cup {[db |-> q.db, user |-> q.target, role |-> "member",
                             by |-> q.user]}
  /\ Continue(r, Idle)
  /\ UNCHANGED <<users, tokens, tokenUser, expired, devices, databases, audit, history>>

\* DELETE /databases/{id}/shares/{user_id}: the owner removes, a member leaves.
unshare(r, d, target) ==
  /\ req[r].op = "device"
  /\ isOwner(d, req[r].user) \/ target = req[r].user
  /\ Continue(r, [op |-> "unshare", user |-> req[r].user, db |-> d, target |-> target])
  /\ UNCHANGED <<rows, history>>

\* The DELETE takes members only: an owner stays.
ShareController_destroy(r) ==
  /\ req[r].op = "unshare"
  /\ members' = {m \in members : \/ m.db # req[r].db
                                 \/ m.user # req[r].target
                                 \/ m.role = "owner"}
  /\ Continue(r, Idle)
  /\ UNCHANGED <<users, tokens, tokenUser, expired, devices, databases, audit, history>>

\* A request that only reads, or that a statement refuses: 401, 404, 409, 500.
Answer(r) ==
  /\ req[r].op \notin {"idle", "log"}
  /\ Continue(r, Idle)
  /\ UNCHANGED <<rows, history>>

-----------------------------------------------------------------------------
Administer ==
  \/ \E u \in User : \/ \E t \in Token : \/ UserController_create(u, t)
                                         \/ AdminCli_createUser(u, t)
                    \/ \E disabled \in BOOLEAN : \/ UserController_update(u, disabled)
                                                \/ AdminCli_setUserDisabled(u, disabled)
                    \/ UserController_destroy(u)
                    \/ AdminCli_deleteUser(u)
  \/ \E t \in Token : Expire(t)
  \/ Cleanup

Handle(r) ==
  \/ \E u \in User : \/ UserController_enrollment(r, u)
                    \/ AdminCli_findUser(r, u)
                    \/ AdminCli_createDatabase(r, u)
  \/ AdminCli_createEnrollmentToken(r)
  \/ \E t \in Token : issueToken(r, t) \/ lookupEnrollment(r, t)
  \/ \E d \in Device : \/ enroll(r, d)
                      \/ lookupDevice(r, d)
                      \/ DeviceController_destroy(r, d)
  \/ \E d \in Database : \/ DatabaseController_create(r, d)
                        \/ DatabaseAdmin_create(r, d)
                        \/ DatabaseController_destroy(r, d)
                        \/ \E u \in User : requireOwner(r, d, u) \/ unshare(r, d, u)
  \/ ShareController_create(r)
  \/ ShareController_destroy(r)
  \/ write(r)
  \/ Answer(r)

Next == Administer \/ \E r \in Worker : Handle(r)

Spec == Init /\ [][Next]_vars

-----------------------------------------------------------------------------
(* Properties *)

\* The variables have their types.
TypeOK ==
  /\ users \in [User -> {"absent", "active", "disabled", "deleted"}]
  /\ tokens \in [Token -> {"absent", "open", "used"}]
  /\ tokenUser \in [Token -> User \cup {NoUser}]
  /\ expired \subseteq Token
  /\ devices \in [Device -> User \cup {NoUser}]
  /\ databases \subseteq Database
  /\ members \subseteq Members
  /\ audit \subseteq Revocations
  /\ req \in [Worker -> Requests]
  /\ enrolledBy \in [Device -> Token \cup {NoToken}]
  /\ created \subseteq Database

\* An enrollment token enrolls one device, also when several requests present
\* it at the same time and all of them pass authentication.
OneDevicePerToken ==
  \A d, e \in Device : enrolledBy[d] = enrolledBy[e] /\ enrolledBy[d] # NoToken => d = e

\* Whatever a worker inserts from what it read earlier, no row is left that
\* refers to a user or a database that is gone, no database has two owners, and a
\* device that the log calls revoked is not there.
RowsReferToRows ==
  /\ \A d \in Device : devices[d] # NoUser => Exists(devices[d])
  /\ \A t \in Token : tokens[t] # "absent" => Exists(tokenUser[t])
  /\ \A m \in members : m.db \in databases /\ Exists(m.user)
  /\ \A m \in members : m.by # NoUser => Exists(m.by)
  /\ \A m, n \in members : m.db = n.db /\ (m.user = n.user \/ m.role = n.role)
                            /\ m.role = "owner" => m = n
  /\ \A v \in audit : Exists(v.user) /\ devices[v.revoked] = NoUser

==============================================================================
