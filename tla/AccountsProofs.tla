--------------------------- MODULE AccountsProofs ----------------------------
(***************************************************************************)
(* Proofs about Accounts, for any users, devices, tokens, databases and      *)
(* workers: types, one device per enrollment token, and that no interleaving  *)
(* of statements leaves a row that refers to a row that is gone.              *)
(***************************************************************************)
EXTENDS Accounts, TLAPS

-----------------------------------------------------------------------------
(* The inductive invariant *)

\* What keeps a token from enrolling twice: its user is written once, with the
\* row, and a token that has enrolled a device is not open again.
TokenInv ==
  /\ \A t \in Token : tokens[t] # "absent" => tokenUser[t] # NoUser
  /\ \A d \in Device : enrolledBy[d] # NoToken =>
       tokens[enrolledBy[d]] # "open" /\ tokenUser[enrolledBy[d]] # NoUser
  /\ \A r \in Worker : req[r].op = "enroll" => tokenUser[req[r].token] = req[r].user

\* Ids are not used again: what was there once is known to history.
HistoryInv ==
  /\ databases \subseteq created
  /\ \A d \in Device : devices[d] # NoUser => enrolledBy[d] # NoToken
  /\ \A v \in audit : enrolledBy[v.revoked] # NoToken

\* A revocation that is about to be logged has happened.
LogInv ==
  \A r \in Worker : req[r].op = "log" =>
    /\ devices[req[r].revocation.revoked] = NoUser
    /\ enrolledBy[req[r].revocation.revoked] # NoToken

\* RowsReferToRows by tables.
DevicesRefer == \A d \in Device : devices[d] # NoUser => Exists(devices[d])
TokensRefer == \A t \in Token : tokens[t] # "absent" => Exists(tokenUser[t])
MembersRefer ==
  /\ \A m \in members : m.db \in databases /\ Exists(m.user)
  /\ \A m \in members : m.by # NoUser => Exists(m.by)
OneOwner ==
  \A m, n \in members : m.db = n.db /\ (m.user = n.user \/ m.role = n.role)
                         /\ m.role = "owner" => m = n
AuditRefers == \A v \in audit : Exists(v.user) /\ devices[v.revoked] = NoUser

\* Types alone do not tell that a device enrolled now is not one that the log
\* calls revoked, nor that the user of an open token is there.
IInv ==
  /\ TypeOK /\ TokenInv /\ HistoryInv /\ LogInv
  /\ DevicesRefer /\ TokensRefer /\ MembersRefer /\ OneOwner /\ AuditRefers

-----------------------------------------------------------------------------
(* Requests *)

\* What a request of each kind carries.
LEMMA RequestTypes ==
  ASSUME NEW q \in Requests
  PROVE /\ q.op = "enroll" => q.user \in User /\ q.token \in Token
        /\ q.op = "device" => q.user \in User /\ q.device \in Device
        /\ q.op \in {"share", "unshare"} =>
             q.user \in User /\ q.db \in Database /\ q.target \in User
        /\ q.op = "log" => q.revocation \in Revocations
        /\ q.op \in {"found", "issue", "newdb"} => q.user \in User
BY DEF Requests, Idle

\* What a worker may go on with is a request.
LEMMA RequestsMade ==
  ASSUME NEW u \in User
  PROVE /\ Idle \in Requests
        /\ \A t \in Token : [op |-> "enroll", user |-> u, token |-> t] \in Requests
        /\ \A d \in Device : [op |-> "device", user |-> u, device |-> d] \in Requests
        /\ \A d \in Database, w \in User :
             /\ [op |-> "unshare", user |-> u, db |-> d, target |-> w] \in Requests
             /\ w # u =>
                  [op |-> "share", user |-> u, db |-> d, target |-> w] \in Requests
        /\ \A v \in Revocations : [op |-> "log", revocation |-> v] \in Requests
        /\ [op |-> "found", user |-> u] \in Requests
        /\ [op |-> "issue", user |-> u] \in Requests
        /\ [op |-> "newdb", user |-> u] \in Requests
BY DEF Requests

\* Idle needs no user to exist.
LEMMA IdleIsRequest == Idle \in Requests
BY DEF Requests

-----------------------------------------------------------------------------
(* Types *)

\* Initially the variables have their types.
LEMMA TypeInit == Init => TypeOK
BY IdleIsRequest DEF Init, TypeOK, rows, history

\* A transaction that inserts a token leaves types alone.
LEMMA InsertTypes ==
  ASSUME TypeOK, NEW t \in Token, NEW u \in User, insertEnrollmentToken(t, u)
  PROVE /\ tokens' \in [Token -> {"absent", "open", "used"}]
        /\ tokenUser' \in [Token -> User \cup {NoUser}]
BY DEF TypeOK, insertEnrollmentToken

\* The administrator's steps keep types.
LEMMA AdministerTypes == TypeOK /\ Administer => TypeOK'
<1> SUFFICES ASSUME TypeOK, Administer PROVE TypeOK'
  OBVIOUS
<1>1. ASSUME NEW u \in User, NEW t \in Token, createUserWithEnrollment(u, t)
      PROVE TypeOK'
  <2>1. insertEnrollmentToken(t, u)
    BY <1>1 DEF createUserWithEnrollment
  <2>2. /\ tokens' \in [Token -> {"absent", "open", "used"}]
        /\ tokenUser' \in [Token -> User \cup {NoUser}]
    BY <2>1, InsertTypes
  <2> QED BY <1>1, <2>2 DEF createUserWithEnrollment, TypeOK, history
<1>2. ASSUME NEW u \in User, NEW disabled \in BOOLEAN, setDisabled(u, disabled)
      PROVE TypeOK'
  BY <1>2 DEF setDisabled, TypeOK, history
<1>3. ASSUME NEW u \in User, deleteUser(u) PROVE TypeOK'
  <2>1. members' \subseteq Members
    BY <1>3 DEF deleteUser, TypeOK, Members
  <2>2. /\ users' \in [User -> {"absent", "active", "disabled", "deleted"}]
        /\ tokens' \in [Token -> {"absent", "open", "used"}]
        /\ devices' \in [Device -> User \cup {NoUser}]
        /\ audit' \subseteq Revocations
    BY <1>3 DEF deleteUser, TypeOK
  <2> QED BY <1>3, <2>1, <2>2 DEF deleteUser, TypeOK, history
<1>4. ASSUME NEW t \in Token, Expire(t) PROVE TypeOK'
  BY <1>4 DEF Expire, TypeOK, history
<1>5. CASE Cleanup
  BY <1>5 DEF Cleanup, TypeOK, history
<1> QED
  BY <1>1, <1>2, <1>3, <1>4, <1>5
  DEF Administer, UserController_create, AdminCli_createUser, UserController_update,
      AdminCli_setUserDisabled, UserController_destroy, AdminCli_deleteUser

\* A worker goes on with a request.
LEMMA ContinueTypes ==
  ASSUME TypeOK, NEW r \in Worker, NEW q \in Requests, Continue(r, q)
  PROVE req' \in [Worker -> Requests]
BY DEF TypeOK, Continue

\* The steps of requests keep types.
LEMMA HandleTypes ==
  ASSUME TypeOK, TokenInv, NEW r \in Worker, Handle(r)
  PROVE TypeOK'
<1>q. req[r] \in Requests
  BY DEF TypeOK
<1>i. Idle \in Requests
  BY IdleIsRequest
<1>1. ASSUME NEW u \in User, createEnrollmentToken(r, u) PROVE TypeOK'
  <2>1. req' \in [Worker -> Requests]
    BY <1>1, <1>i, ContinueTypes, RequestsMade DEF createEnrollmentToken
  <2> QED BY <1>1, <2>1 DEF createEnrollmentToken, TypeOK, rows, history
<1>2. ASSUME NEW u \in User, AdminCli_findUser(r, u) PROVE TypeOK'
  <2>1. req' \in [Worker -> Requests]
    BY <1>2, ContinueTypes, RequestsMade DEF AdminCli_findUser
  <2> QED BY <1>2, <2>1 DEF AdminCli_findUser, TypeOK, rows, history
<1>3. ASSUME NEW u \in User, AdminCli_createDatabase(r, u) PROVE TypeOK'
  <2>1. req' \in [Worker -> Requests]
    BY <1>3, ContinueTypes, RequestsMade DEF AdminCli_createDatabase
  <2> QED BY <1>3, <2>1 DEF AdminCli_createDatabase, TypeOK, rows, history
<1>4. CASE AdminCli_createEnrollmentToken(r)
  BY <1>1, <1>4, <1>q, RequestTypes DEF AdminCli_createEnrollmentToken
<1>5. ASSUME NEW t \in Token, issueToken(r, t) PROVE TypeOK'
  <2>1. req' \in [Worker -> Requests]
    BY <1>5, <1>i, ContinueTypes DEF issueToken
  <2>2. /\ req[r].user \in User
        /\ insertEnrollmentToken(t, req[r].user)
    BY <1>5, <1>q, RequestTypes DEF issueToken
  <2>3. /\ tokens' \in [Token -> {"absent", "open", "used"}]
        /\ tokenUser' \in [Token -> User \cup {NoUser}]
    BY <2>2, InsertTypes
  <2> QED BY <1>5, <2>1, <2>3 DEF issueToken, TypeOK, history
<1>6. ASSUME NEW t \in Token, lookupEnrollment(r, t) PROVE TypeOK'
  <2>1. tokenUser[t] \in User
    BY <1>6 DEF lookupEnrollment, TypeOK, TokenInv
  <2>2. req' \in [Worker -> Requests]
    BY <1>6, <2>1, ContinueTypes, RequestsMade DEF lookupEnrollment
  <2> QED BY <1>6, <2>2 DEF lookupEnrollment, TypeOK, rows, history
<1>7. ASSUME NEW d \in Device, enroll(r, d) PROVE TypeOK'
  <2>1. req' \in [Worker -> Requests]
    BY <1>7, <1>i, ContinueTypes DEF enroll
  <2>2. req[r].user \in User /\ req[r].token \in Token
    BY <1>7, <1>q, RequestTypes DEF enroll
  <2> QED BY <1>7, <2>1, <2>2 DEF enroll, TypeOK
<1>8. ASSUME NEW d \in Device, lookupDevice(r, d) PROVE TypeOK'
  <2>1. devices[d] \in User
    BY <1>8 DEF lookupDevice, TypeOK
  <2>2. req' \in [Worker -> Requests]
    BY <1>8, <2>1, ContinueTypes, RequestsMade DEF lookupDevice
  <2> QED BY <1>8, <2>2 DEF lookupDevice, TypeOK, rows, history
<1>9. ASSUME NEW d \in Device, DeviceController_destroy(r, d) PROVE TypeOK'
  <2> DEFINE v == [revoked |-> d, by |-> req[r].device, user |-> req[r].user]
  <2>1. req[r].user \in User /\ req[r].device \in Device
    BY <1>9, <1>q, RequestTypes DEF DeviceController_destroy
  <2>2. v \in Revocations
    BY <2>1 DEF Revocations
  <2>3. [op |-> "log", revocation |-> v] \in Requests
    BY <2>1, <2>2, RequestsMade
  <2>4. Continue(r, [op |-> "log", revocation |-> v])
    BY <1>9 DEF DeviceController_destroy
  <2>5. req' \in [Worker -> Requests]
    BY <2>3, <2>4, ContinueTypes
  <2> HIDE DEF v
  <2> QED BY <1>9, <2>5 DEF DeviceController_destroy, TypeOK
<1>10. CASE write(r)
  <2>1. req' \in [Worker -> Requests]
    BY <1>10, <1>i, ContinueTypes DEF write
  <2>2. req[r].revocation \in Revocations
    BY <1>10, <1>q, RequestTypes DEF write
  <2>3. audit' \subseteq Revocations
    BY <1>10, <2>2 DEF write, TypeOK
  <2> QED BY <1>10, <2>1, <2>3 DEF write, TypeOK, history
<1>11. ASSUME NEW d \in Database, req[r].user \in User, insertDatabase(d, req[r].user),
              Continue(r, Idle),
              UNCHANGED <<users, tokens, tokenUser, expired, devices, audit, enrolledBy>>
       PROVE TypeOK'
  <2>1. req' \in [Worker -> Requests]
    BY <1>11, <1>i, ContinueTypes
  <2>2. members' \subseteq Members
    BY <1>11 DEF insertDatabase, TypeOK, Members
  <2> QED BY <1>11, <2>1, <2>2 DEF insertDatabase, TypeOK
<1>12. ASSUME NEW d \in Database, DatabaseController_create(r, d) PROVE TypeOK'
  BY <1>11, <1>12, <1>q, RequestTypes DEF DatabaseController_create
<1>13. ASSUME NEW d \in Database, DatabaseAdmin_create(r, d) PROVE TypeOK'
  BY <1>11, <1>13, <1>q, RequestTypes DEF DatabaseAdmin_create
<1>14. ASSUME NEW d \in Database, DatabaseController_destroy(r, d) PROVE TypeOK'
  <2>1. req' \in [Worker -> Requests]
    BY <1>14, <1>i, ContinueTypes DEF DatabaseController_destroy
  <2> QED BY <1>14, <2>1 DEF DatabaseController_destroy, TypeOK, history
<1>15. ASSUME NEW d \in Database, NEW u \in User, requireOwner(r, d, u) PROVE TypeOK'
  <2>1. req[r].user \in User
    BY <1>15, <1>q, RequestTypes DEF requireOwner
  <2>2. req' \in [Worker -> Requests]
    BY <1>15, <2>1, ContinueTypes, RequestsMade DEF requireOwner
  <2> QED BY <1>15, <2>2 DEF requireOwner, TypeOK, rows, history
<1>16. ASSUME NEW d \in Database, NEW u \in User, unshare(r, d, u) PROVE TypeOK'
  <2>1. req[r].user \in User
    BY <1>16, <1>q, RequestTypes DEF unshare
  <2>2. req' \in [Worker -> Requests]
    BY <1>16, <2>1, ContinueTypes, RequestsMade DEF unshare
  <2> QED BY <1>16, <2>2 DEF unshare, TypeOK, rows, history
<1>17. CASE ShareController_create(r)
  <2>1. req' \in [Worker -> Requests]
    BY <1>17, <1>i, ContinueTypes DEF ShareController_create
  <2>2. req[r].user \in User /\ req[r].db \in Database /\ req[r].target \in User
    BY <1>17, <1>q, RequestTypes DEF ShareController_create
  <2>3. members' \subseteq Members
    BY <1>17, <2>2 DEF ShareController_create, TypeOK, Members
  <2> QED BY <1>17, <2>1, <2>3 DEF ShareController_create, TypeOK, history
<1>18. CASE ShareController_destroy(r)
  <2>1. req' \in [Worker -> Requests]
    BY <1>18, <1>i, ContinueTypes DEF ShareController_destroy
  <2> QED BY <1>18, <2>1 DEF ShareController_destroy, TypeOK, history
<1>19. CASE Answer(r)
  <2>1. req' \in [Worker -> Requests]
    BY <1>19, <1>i, ContinueTypes DEF Answer
  <2> QED BY <1>19, <2>1 DEF Answer, TypeOK, rows, history
<1> QED
  BY <1>1, <1>2, <1>3, <1>4, <1>5, <1>6, <1>7, <1>8, <1>9, <1>10, <1>12, <1>13, <1>14,
     <1>15, <1>16, <1>17, <1>18, <1>19
  DEF Handle, UserController_enrollment

-----------------------------------------------------------------------------
(* Tokens *)

\* What both inserts of a token do to TokenInv's tables.
LEMMA InsertTokens ==
  ASSUME TypeOK, TokenInv, NEW t \in Token, NEW u \in User, insertEnrollmentToken(t, u)
  PROVE /\ \A s \in Token : tokens'[s] # "absent" => tokenUser'[s] # NoUser
        /\ \A s \in Token : tokenUser[s] # NoUser =>
             tokenUser'[s] = tokenUser[s] /\ tokens'[s] = tokens[s]
BY NoUserAssumption DEF TypeOK, TokenInv, insertEnrollmentToken

\* The administrator's steps keep TokenInv.
LEMMA AdministerTokens == TypeOK /\ TokenInv /\ Administer => TokenInv'
<1> SUFFICES ASSUME TypeOK, TokenInv, Administer PROVE TokenInv'
  OBVIOUS
<1>1. ASSUME NEW u \in User, NEW t \in Token, createUserWithEnrollment(u, t)
      PROVE TokenInv'
  <2>1. insertEnrollmentToken(t, u) /\ UNCHANGED <<req, enrolledBy>>
    BY <1>1 DEF createUserWithEnrollment, history
  <2>2. /\ \A s \in Token : tokens'[s] # "absent" => tokenUser'[s] # NoUser
        /\ \A s \in Token : tokenUser[s] # NoUser =>
             tokenUser'[s] = tokenUser[s] /\ tokens'[s] = tokens[s]
    BY <2>1, InsertTokens
  <2>3. \A r \in Worker : req[r].op = "enroll" =>
          req[r].token \in Token /\ req[r].user \in User
    BY RequestTypes DEF TypeOK
  <2> QED BY <2>1, <2>2, <2>3, NoUserAssumption DEF TokenInv, TypeOK
<1>2. ASSUME NEW u \in User, NEW disabled \in BOOLEAN, setDisabled(u, disabled)
      PROVE TokenInv'
  BY <1>2 DEF setDisabled, TokenInv, history
<1>3. ASSUME NEW u \in User, deleteUser(u) PROVE TokenInv'
  BY <1>3, NoTokenAssumption DEF deleteUser, TokenInv, TypeOK, history
<1>4. ASSUME NEW t \in Token, Expire(t) PROVE TokenInv'
  BY <1>4 DEF Expire, TokenInv, history
<1>5. CASE Cleanup
  BY <1>5 DEF Cleanup, TokenInv, TypeOK, history
<1> QED
  BY <1>1, <1>2, <1>3, <1>4, <1>5
  DEF Administer, UserController_create, AdminCli_createUser, UserController_update,
      AdminCli_setUserDisabled, UserController_destroy, AdminCli_deleteUser

\* A step of a worker that leaves the tables of TokenInv alone, and does not
\* begin to enroll, keeps it.
LEMMA QuietTokens ==
  ASSUME TypeOK, TokenInv, NEW r \in Worker, NEW q, q.op # "enroll", Continue(r, q),
         UNCHANGED <<tokens, tokenUser, enrolledBy>>
  PROVE TokenInv'
BY DEF TypeOK, TokenInv, Continue

\* The steps of requests keep TokenInv.
LEMMA HandleTokens ==
  ASSUME TypeOK, TokenInv, NEW r \in Worker, Handle(r)
  PROVE TokenInv'
<1>q. req[r] \in Requests
  BY DEF TypeOK
<1>1. ASSUME NEW t \in Token, issueToken(r, t) PROVE TokenInv'
  <2>1. /\ req[r].user \in User
        /\ insertEnrollmentToken(t, req[r].user)
        /\ Continue(r, Idle) /\ UNCHANGED enrolledBy
    BY <1>1, <1>q, RequestTypes DEF issueToken, history
  <2>2. /\ \A s \in Token : tokens'[s] # "absent" => tokenUser'[s] # NoUser
        /\ \A s \in Token : tokenUser[s] # NoUser =>
             tokenUser'[s] = tokenUser[s] /\ tokens'[s] = tokens[s]
    BY <2>1, InsertTokens
  <2>3. \A w \in Worker : req'[w].op = "enroll" =>
          /\ req'[w] = req[w]
          /\ req[w].token \in Token /\ req[w].user \in User
    BY <2>1, RequestTypes DEF TypeOK, Continue, Idle
  <2> QED BY <2>1, <2>2, <2>3, NoUserAssumption DEF TokenInv, TypeOK
<1>2. ASSUME NEW t \in Token, lookupEnrollment(r, t) PROVE TokenInv'
  BY <1>2 DEF lookupEnrollment, TokenInv, TypeOK, Continue, rows, history
<1>3. ASSUME NEW d \in Device, enroll(r, d) PROVE TokenInv'
  <2>1. req[r].token \in Token /\ tokens[req[r].token] = "open"
    BY <1>3, <1>q, RequestTypes DEF enroll
  <2>2. \A w \in Worker : req'[w].op = "enroll" => req'[w] = req[w]
    BY <1>3 DEF enroll, Continue, Idle, TypeOK
  <2>3. tokenUser[req[r].token] # NoUser
    BY <2>1 DEF TokenInv
  <2>4. /\ tokens' = [tokens EXCEPT ![req[r].token] = "used"]
        /\ enrolledBy' = [enrolledBy EXCEPT ![d] = req[r].token]
        /\ UNCHANGED tokenUser
    BY <1>3 DEF enroll
  <2> QED BY <2>1, <2>2, <2>3, <2>4, NoTokenAssumption DEF TokenInv, TypeOK
<1>4. ASSUME NEW q, q.op # "enroll", Continue(r, q),
             UNCHANGED <<tokens, tokenUser, enrolledBy>>
      PROVE TokenInv'
  BY <1>4, QuietTokens
<1>5. Idle.op # "enroll"
  BY DEF Idle
<1>6. ASSUME NEW u \in User, createEnrollmentToken(r, u) PROVE TokenInv'
  <2> DEFINE q == IF users[u] = "active" THEN [op |-> "issue", user |-> u] ELSE Idle
  <2>1. q.op # "enroll" /\ Continue(r, q)
    BY <1>5, <1>6 DEF createEnrollmentToken
  <2> QED BY <1>4, <1>6, <2>1 DEF createEnrollmentToken, rows, history
<1>7. CASE AdminCli_createEnrollmentToken(r)
  BY <1>6, <1>7, <1>q, RequestTypes DEF AdminCli_createEnrollmentToken
<1>8. ASSUME NEW u \in User, AdminCli_findUser(r, u) \/ AdminCli_createDatabase(r, u)
      PROVE TokenInv'
  BY <1>4, <1>8 DEF AdminCli_findUser, AdminCli_createDatabase, rows, history
<1>9. ASSUME NEW d \in Device, lookupDevice(r, d) \/ DeviceController_destroy(r, d)
      PROVE TokenInv'
  BY <1>4, <1>9 DEF lookupDevice, DeviceController_destroy, rows, history
<1>10. ASSUME NEW d \in Database,
              \/ DatabaseController_create(r, d) \/ DatabaseAdmin_create(r, d)
              \/ DatabaseController_destroy(r, d)
       PROVE TokenInv'
  BY <1>4, <1>5, <1>10
  DEF DatabaseController_create, DatabaseAdmin_create, DatabaseController_destroy,
      insertDatabase, history
<1>11. ASSUME NEW d \in Database, NEW u \in User, requireOwner(r, d, u) \/ unshare(r, d, u)
       PROVE TokenInv'
  BY <1>4, <1>11 DEF requireOwner, unshare, rows, history
<1>12. CASE ShareController_create(r) \/ ShareController_destroy(r) \/ write(r) \/ Answer(r)
  BY <1>4, <1>5, <1>12
  DEF ShareController_create, ShareController_destroy, write, Answer, rows, history
<1> QED
  BY <1>1, <1>2, <1>3, <1>6, <1>7, <1>8, <1>9, <1>10, <1>11, <1>12
  DEF Handle, UserController_enrollment

-----------------------------------------------------------------------------
(* Rows *)

\* The part of IInv that speaks of the rows and what refers to them.
RowInv ==
  /\ HistoryInv /\ LogInv
  /\ DevicesRefer /\ TokensRefer /\ MembersRefer /\ OneOwner /\ AuditRefers

\* A user's row: created and changed in place, gone with deleteUser only.
LEMMA UsersStay ==
  ASSUME TypeOK, NEW u \in User, NEW s \in {"active", "disabled"},
         users' = [users EXCEPT ![u] = s]
  PROVE \A w \in User : (w = u \/ Exists(w)) => Exists(w)'
BY DEF TypeOK, Exists

\* A token inserted for a user who is there refers to a row, and the others still do.
LEMMA InsertRows ==
  ASSUME TypeOK, TokenInv, TokensRefer, NEW t \in Token, NEW u \in User,
         insertEnrollmentToken(t, u), \A w \in User : (w = u \/ Exists(w)) => Exists(w)'
  PROVE TokensRefer'
<1>1. ASSUME NEW s \in Token, tokens'[s] # "absent" PROVE Exists(tokenUser[s])'
  <2>1. CASE s = t
    <3>1. tokenUser'[s] = u
      BY <2>1 DEF insertEnrollmentToken, TypeOK
    <3>2. Exists(u)'
      OBVIOUS
    <3> QED BY <3>1, <3>2 DEF Exists
  <2>2. CASE s # t
    <3>1. tokenUser'[s] = tokenUser[s] /\ tokens[s] # "absent"
      BY <1>1, <2>2 DEF insertEnrollmentToken, TypeOK
    <3>2. tokenUser[s] \in User /\ Exists(tokenUser[s])
      BY <3>1 DEF TokenInv, TypeOK, TokensRefer
    <3>3. Exists(tokenUser[s])'
      BY <3>1, <3>2 DEF Exists
    <3> QED BY <3>3
  <2> QED BY <2>1, <2>2
<1> QED BY <1>1 DEF TokensRefer

\* No worker has a revocation to log that it did not have before.
LogsKept == \A w \in Worker : req'[w].op = "log" => req'[w] = req[w]

\* A worker that goes on with anything but a revocation.
LEMMA NoLogBegun ==
  ASSUME TypeOK, NEW r \in Worker, NEW q, q.op # "log", Continue(r, q)
  PROVE LogsKept
BY DEF LogsKept, TypeOK, Continue

\* Steps that touch users and tokens only.
LEMMA QuietRows ==
  ASSUME TypeOK, RowInv, LogsKept, TokensRefer',
         \A w \in User : Exists(w) => Exists(w)',
         UNCHANGED <<devices, databases, members, audit, enrolledBy, created>>
  PROVE RowInv'
<1>1. HistoryInv'
  BY DEF RowInv, HistoryInv
<1>2. LogInv'
  BY DEF RowInv, LogInv, LogsKept
<1>3. DevicesRefer'
  BY DEF RowInv, DevicesRefer, TypeOK, Exists
<1>4. MembersRefer' /\ OneOwner'
  <2>1. \A m \in members : m.user \in User /\ m.by \in User \cup {NoUser}
    BY DEF TypeOK, Members
  <2> QED BY <2>1 DEF RowInv, MembersRefer, OneOwner, Exists
<1>5. AuditRefers'
  <2>1. \A v \in audit : v.user \in User
    BY DEF TypeOK, Revocations
  <2> QED BY <2>1 DEF RowInv, AuditRefers, Exists
<1> QED BY <1>1, <1>2, <1>3, <1>4, <1>5 DEF RowInv

\* Steps that touch databases and members only.
LEMMA MemberRows ==
  ASSUME TypeOK, RowInv, LogsKept, MembersRefer', OneOwner',
         databases' \subseteq created',
         UNCHANGED <<users, tokens, tokenUser, devices, audit, enrolledBy>>
  PROVE RowInv'
BY DEF RowInv, HistoryInv, LogInv, LogsKept, DevicesRefer, TokensRefer, AuditRefers, Exists

\* Deleting a user takes along or clears whatever refers to it.
LEMMA DeleteUserRows ==
  ASSUME TypeOK, TokenInv, RowInv, NEW u \in User, deleteUser(u)
  PROVE RowInv'
<1>1. \A w \in User : Exists(w) /\ w # u => Exists(w)'
  BY DEF deleteUser, TypeOK, Exists
<1>2. HistoryInv'
  BY DEF RowInv, HistoryInv, deleteUser, TypeOK, history
<1>3. LogInv'
  <2>1. \A d \in Device : devices[d] = NoUser => devices'[d] = NoUser
    BY DEF deleteUser, TypeOK
  <2>2. \A r \in Worker : req[r].op = "log" => req[r].revocation.revoked \in Device
    BY RequestTypes DEF TypeOK, Revocations
  <2> QED BY <2>1, <2>2 DEF RowInv, LogInv, deleteUser, history
<1>4. DevicesRefer'
  <2>1. \A d \in Device : devices'[d] # NoUser =>
          devices'[d] = devices[d] /\ devices[d] \in User /\ devices[d] # u
    BY DEF deleteUser, TypeOK
  <2> QED BY <1>1, <2>1 DEF RowInv, DevicesRefer, Exists
<1>5. TokensRefer'
  <2>1. \A t \in Token : tokens'[t] # "absent" =>
          /\ tokens[t] # "absent" /\ tokenUser'[t] = tokenUser[t]
          /\ tokenUser[t] \in User /\ tokenUser[t] # u
    BY DEF deleteUser, TypeOK, TokenInv
  <2> QED BY <1>1, <2>1 DEF RowInv, TokensRefer, Exists
<1>6. \A m \in members' : \E n \in members :
        /\ n.user # u /\ m.db = n.db /\ m.user = n.user /\ m.role = n.role
        /\ m.by = IF n.by = u THEN NoUser ELSE n.by
        /\ m = [n EXCEPT !.by = IF n.by = u THEN NoUser ELSE n.by]
  <2>1. SUFFICES ASSUME NEW m \in members'
        PROVE \E n \in members :
                /\ n.user # u /\ m.db = n.db /\ m.user = n.user /\ m.role = n.role
                /\ m.by = IF n.by = u THEN NoUser ELSE n.by
                /\ m = [n EXCEPT !.by = IF n.by = u THEN NoUser ELSE n.by]
    OBVIOUS
  <2>2. PICK n \in members :
          /\ n.user # u
          /\ m = [n EXCEPT !.by = IF n.by = u THEN NoUser ELSE n.by]
    BY DEF deleteUser
  <2>3. n \in Members
    BY DEF TypeOK
  <2>4. /\ m.db = n.db /\ m.user = n.user /\ m.role = n.role
        /\ m.by = IF n.by = u THEN NoUser ELSE n.by
    BY <2>2, <2>3 DEF Members
  <2> QED BY <2>2, <2>4
<1>7. MembersRefer'
  <2>1. SUFFICES ASSUME NEW m \in members'
        PROVE /\ m.db \in databases' /\ Exists(m.user)'
              /\ m.by # NoUser => Exists(m.by)'
    BY DEF MembersRefer, Exists
  <2>2. PICK n \in members :
          /\ n.user # u /\ m.db = n.db /\ m.user = n.user
          /\ m.by = IF n.by = u THEN NoUser ELSE n.by
    BY <1>6
  <2>3. /\ n.user \in User /\ n.by \in User \cup {NoUser}
        /\ n.db \in databases /\ Exists(n.user) /\ (n.by # NoUser => Exists(n.by))
    BY DEF TypeOK, Members, RowInv, MembersRefer
  <2>4. databases' = databases
    BY DEF deleteUser
  <2> QED BY <1>1, <2>2, <2>3, <2>4 DEF Exists
<1>8. OneOwner'
  <2>1. SUFFICES ASSUME NEW m \in members', NEW n \in members', m.db = n.db,
                        m.user = n.user \/ m.role = n.role, m.role = "owner"
        PROVE m = n
    BY DEF OneOwner
  <2>2. PICK x \in members :
          /\ m.db = x.db /\ m.user = x.user /\ m.role = x.role
          /\ m = [x EXCEPT !.by = IF x.by = u THEN NoUser ELSE x.by]
    BY <1>6
  <2>3. m.db = x.db /\ m.user = x.user /\ m.role = x.role
    BY <2>2
  <2>4. PICK y \in members :
          /\ n.db = y.db /\ n.user = y.user /\ n.role = y.role
          /\ n = [y EXCEPT !.by = IF y.by = u THEN NoUser ELSE y.by]
    BY <1>6
  <2>5. n.db = y.db /\ n.user = y.user /\ n.role = y.role
    BY <2>4
  <2>6. OneOwner
    BY DEF RowInv
  <2>7. x.db = y.db /\ (x.user = y.user \/ x.role = y.role) /\ x.role = "owner"
    BY <2>1, <2>3, <2>5
  <2>8. x = y
    BY <2>6, <2>7 DEF OneOwner
  <2> QED BY <2>2, <2>4, <2>8
<1>9. AuditRefers'
  <2>1. \A v \in audit' : v \in audit /\ v.user # u /\ v.user \in User
                           /\ v.revoked \in Device
    BY DEF deleteUser, TypeOK, Revocations
  <2>2. \A d \in Device : devices[d] = NoUser => devices'[d] = NoUser
    BY DEF deleteUser, TypeOK
  <2> QED BY <1>1, <2>1, <2>2 DEF RowInv, AuditRefers, Exists
<1> QED BY <1>2, <1>3, <1>4, <1>5, <1>7, <1>8, <1>9 DEF RowInv

\* The administrator's steps keep RowInv.
LEMMA AdministerRows == TypeOK /\ TokenInv /\ RowInv /\ Administer => RowInv'
<1> SUFFICES ASSUME TypeOK, TokenInv, RowInv, Administer PROVE RowInv'
  OBVIOUS
<1>t. TokensRefer
  BY DEF RowInv
<1>1. ASSUME NEW u \in User, NEW t \in Token, createUserWithEnrollment(u, t) PROVE RowInv'
  <2>1. \A w \in User : (w = u \/ Exists(w)) => Exists(w)'
    <3>1. users' = [users EXCEPT ![u] = "active"]
      BY <1>1 DEF createUserWithEnrollment
    <3> QED BY <3>1, UsersStay
  <2>2. TokensRefer'
    BY <1>1, <1>t, <2>1, InsertRows DEF createUserWithEnrollment
  <2>3. LogsKept
    BY <1>1 DEF LogsKept, createUserWithEnrollment
  <2> QED BY <1>1, <2>1, <2>2, <2>3, QuietRows DEF createUserWithEnrollment, history
<1>2. ASSUME NEW u \in User, NEW disabled \in BOOLEAN, setDisabled(u, disabled)
      PROVE RowInv'
  <2>1. \A w \in User : Exists(w) => Exists(w)'
    BY <1>2 DEF setDisabled, TypeOK, Exists
  <2>2. TokensRefer'
    BY <1>2, <1>t, <2>1 DEF setDisabled, TokensRefer, TokenInv, TypeOK, Exists
  <2>3. LogsKept
    BY <1>2 DEF LogsKept, setDisabled
  <2> QED BY <1>2, <2>1, <2>2, <2>3, QuietRows DEF setDisabled, history
<1>3. ASSUME NEW u \in User, deleteUser(u) PROVE RowInv'
  BY <1>3, DeleteUserRows
<1>4. ASSUME UNCHANGED <<users, tokenUser, devices, databases, members, audit, req,
                        enrolledBy, created>>,
             \A t \in Token : tokens'[t] # "absent" => tokens[t] # "absent"
      PROVE RowInv'
  <2>1. TokensRefer' /\ LogsKept /\ \A w \in User : Exists(w) => Exists(w)'
    BY <1>4, <1>t DEF TokensRefer, LogsKept, Exists
  <2> QED BY <1>4, <2>1, QuietRows
<1>5. ASSUME NEW t \in Token, Expire(t) PROVE RowInv'
  BY <1>4, <1>5 DEF Expire, history
<1>6. CASE Cleanup
  BY <1>4, <1>6 DEF Cleanup, TypeOK, history
<1> QED
  BY <1>1, <1>2, <1>3, <1>5, <1>6
  DEF Administer, UserController_create, AdminCli_createUser, UserController_update,
      AdminCli_setUserDisabled, UserController_destroy, AdminCli_deleteUser

\* What enroll inserts is a device of a user who is there, and not one of old.
LEMMA EnrollRows ==
  ASSUME TypeOK, TokenInv, RowInv, NEW r \in Worker, NEW d \in Device, enroll(r, d)
  PROVE RowInv'
<1>q. req[r] \in Requests
  BY DEF TypeOK
<1> DEFINE t == req[r].token
           u == req[r].user
<1>1. /\ t \in Token /\ u \in User /\ tokens[t] = "open" /\ tokenUser[t] = u
      /\ enrolledBy[d] = NoToken
  BY <1>q, RequestTypes DEF enroll, TokenInv
<1>2. Exists(u)
  BY <1>1 DEF RowInv, TokensRefer
<1>3. /\ tokens' = [tokens EXCEPT ![t] = "used"]
      /\ devices' = [devices EXCEPT ![d] = u]
      /\ enrolledBy' = [enrolledBy EXCEPT ![d] = t]
      /\ UNCHANGED <<users, tokenUser, databases, members, audit, created>>
      /\ Continue(r, Idle)
  BY DEF enroll
<1>4. LogsKept
  BY <1>3, NoLogBegun DEF Idle
<1> HIDE DEF t, u
<1>5. \A e \in Device : enrolledBy[e] # NoToken =>
        enrolledBy'[e] # NoToken /\ devices'[e] = devices[e]
  BY <1>1, <1>3 DEF TypeOK
<1>6. HistoryInv'
  <2>1. \A v \in audit : v.revoked \in Device
    BY DEF TypeOK, Revocations
  <2> QED BY <1>1, <1>3, <1>5, <2>1, NoTokenAssumption DEF RowInv, HistoryInv, TypeOK
<1>7. LogInv'
  <2>1. \A w \in Worker : req[w].op = "log" => req[w].revocation.revoked \in Device
    BY RequestTypes DEF TypeOK, Revocations
  <2> QED BY <1>4, <1>5, <2>1 DEF RowInv, LogInv, LogsKept
<1>8. DevicesRefer'
  BY <1>1, <1>2, <1>3 DEF RowInv, DevicesRefer, TypeOK, Exists
<1>9. TokensRefer'
  BY <1>1, <1>3 DEF RowInv, TokensRefer, TypeOK, Exists
<1>10. MembersRefer' /\ OneOwner'
  BY <1>3 DEF RowInv, MembersRefer, OneOwner, Exists
<1>11. AuditRefers'
  <2>1. \A v \in audit : v.revoked \in Device
    BY DEF TypeOK, Revocations
  <2> QED BY <1>3, <1>5, <2>1 DEF RowInv, AuditRefers, HistoryInv, Exists
<1> QED BY <1>6, <1>7, <1>8, <1>9, <1>10, <1>11 DEF RowInv

\* A revocation takes the device away before it is logged.
LEMMA RevokeRows ==
  ASSUME TypeOK, RowInv, NEW r \in Worker, NEW d \in Device,
         DeviceController_destroy(r, d)
  PROVE RowInv'
<1>q. req[r] \in Requests
  BY DEF TypeOK
<1> DEFINE v == [revoked |-> d, by |-> req[r].device, user |-> req[r].user]
<1>1. req[r].user \in User /\ devices[d] = req[r].user
  BY <1>q, RequestTypes DEF DeviceController_destroy
<1>2. /\ devices' = [devices EXCEPT ![d] = NoUser]
      /\ req' = [req EXCEPT ![r] = [op |-> "log", revocation |-> v]]
      /\ UNCHANGED <<users, tokens, tokenUser, databases, members, audit, enrolledBy, created>>
  BY DEF DeviceController_destroy, Continue
<1>3. v.revoked = d
  OBVIOUS
<1> HIDE DEF v
<1>4. devices'[d] = NoUser /\ \A e \in Device : devices[e] = NoUser => devices'[e] = NoUser
  BY <1>2 DEF TypeOK
<1>5. \A e \in Device : devices'[e] # NoUser => devices'[e] = devices[e]
  BY <1>2 DEF TypeOK
<1>6. enrolledBy[d] # NoToken
  BY <1>1, NoUserAssumption DEF RowInv, HistoryInv
<1>7. HistoryInv'
  BY <1>2, <1>5 DEF RowInv, HistoryInv
<1>8. LogInv'
  <2>1. \A w \in Worker : req'[w].op = "log" =>
          \/ req'[w].revocation.revoked = d
          \/ req'[w] = req[w] /\ req[w].revocation.revoked \in Device
    BY <1>2, <1>3, RequestTypes DEF TypeOK, Revocations
  <2> QED BY <1>2, <1>4, <1>6, <2>1 DEF RowInv, LogInv
<1>9. DevicesRefer'
  BY <1>2, <1>5 DEF RowInv, DevicesRefer, Exists
<1>10. TokensRefer' /\ MembersRefer' /\ OneOwner'
  BY <1>2 DEF RowInv, TokensRefer, MembersRefer, OneOwner, Exists
<1>11. AuditRefers'
  <2>1. \A x \in audit : x.revoked \in Device
    BY DEF TypeOK, Revocations
  <2> QED BY <1>2, <1>4, <2>1 DEF RowInv, AuditRefers, Exists
<1> QED BY <1>7, <1>8, <1>9, <1>10, <1>11 DEF RowInv

\* A row of the log is written for a user who is there and a device that is gone.
LEMMA WriteRows ==
  ASSUME TypeOK, RowInv, NEW r \in Worker, write(r)
  PROVE RowInv'
<1>1. /\ req[r].op = "log" /\ Continue(r, Idle)
      /\ UNCHANGED <<users, tokens, tokenUser, devices, databases, members, enrolledBy,
                      created>>
  BY DEF write, history
<1>2. LogsKept
  BY <1>1, NoLogBegun DEF Idle
<1>3. \A v \in audit' : \/ v \in audit
                        \/ v = req[r].revocation /\ Exists(v.user)
  BY DEF write
<1>4. HistoryInv' /\ AuditRefers'
  BY <1>1, <1>3 DEF RowInv, HistoryInv, AuditRefers, LogInv, Exists
<1>5. LogInv'
  BY <1>1, <1>2 DEF RowInv, LogInv, LogsKept
<1>6. DevicesRefer' /\ TokensRefer' /\ MembersRefer' /\ OneOwner'
  BY <1>1 DEF RowInv, DevicesRefer, TokensRefer, MembersRefer, OneOwner, Exists
<1> QED BY <1>4, <1>5, <1>6 DEF RowInv

\* A new database has no members but its owner.
LEMMA InsertDatabaseRows ==
  ASSUME TypeOK, RowInv, LogsKept, NEW d \in Database, NEW u \in User,
         insertDatabase(d, u),
         UNCHANGED <<users, tokens, tokenUser, devices, audit, enrolledBy>>
  PROVE RowInv'
<1> DEFINE o == [db |-> d, user |-> u, role |-> "owner", by |-> u]
<1>1. o.db = d /\ o.user = u /\ o.by = u
  OBVIOUS
<1>2. /\ d \notin created /\ Exists(u) /\ created' = created \cup {d}
      /\ databases' = databases \cup {d} /\ members' = members \cup {o}
  BY DEF insertDatabase
<1> HIDE DEF o
<1>3. \A m \in members : m.db \in databases /\ m.db # d
  BY <1>2 DEF RowInv, HistoryInv, MembersRefer
<1>4. MembersRefer'
  BY <1>1, <1>2 DEF RowInv, MembersRefer, Exists
<1>5. OneOwner'
  BY <1>1, <1>2, <1>3 DEF RowInv, OneOwner
<1>6. databases' \subseteq created'
  BY <1>2 DEF RowInv, HistoryInv
<1> QED BY <1>4, <1>5, <1>6, MemberRows

\* The upsert of a share leaves an owner's row alone and makes no other owner.
LEMMA ShareRows ==
  ASSUME TypeOK, RowInv, NEW r \in Worker, ShareController_create(r)
  PROVE RowInv'
<1> DEFINE q == req[r]
           n == [db |-> q.db, user |-> q.target, role |-> "member", by |-> q.user]
<1>1. n.db = q.db /\ n.user = q.target /\ n.role = "member" /\ n.by = q.user
  OBVIOUS
<1>2. /\ q.db \in databases /\ Exists(q.target) /\ Exists(q.user) /\ ~isOwner(q.db, q.target)
      /\ members' = {m \in members : m.db # q.db \/ m.user # q.target} \cup {n}
      /\ Continue(r, Idle)
      /\ UNCHANGED <<users, tokens, tokenUser, devices, databases, audit, enrolledBy, created>>
  BY DEF ShareController_create, history
<1>3. LogsKept
  BY <1>2, NoLogBegun DEF Idle
<1> HIDE DEF q, n
<1>4. MembersRefer'
  BY <1>1, <1>2 DEF RowInv, MembersRefer, Exists
<1>5. OneOwner'
  <2>1. SUFFICES ASSUME NEW x \in members', NEW y \in members', x.db = y.db,
                        x.user = y.user \/ x.role = y.role, x.role = "owner"
        PROVE x = y
    BY DEF OneOwner
  <2>2. x \in members /\ (x.db # q.db \/ x.user # q.target)
    BY <1>1, <1>2, <2>1
  <2>3. CASE y = n
    BY <1>1, <2>1, <2>2, <2>3
  <2>4. CASE y # n
    BY <1>2, <2>1, <2>2, <2>4 DEF RowInv, OneOwner
  <2> QED BY <2>3, <2>4
<1>6. databases' \subseteq created'
  BY <1>2 DEF RowInv, HistoryInv
<1> QED BY <1>2, <1>3, <1>4, <1>5, <1>6, MemberRows

\* The steps of requests keep RowInv.
LEMMA HandleRows ==
  ASSUME TypeOK, TokenInv, RowInv, NEW r \in Worker, Handle(r)
  PROVE RowInv'
<1>q. req[r] \in Requests
  BY DEF TypeOK
<1>t. TokensRefer
  BY DEF RowInv
<1>i. Idle.op # "log"
  BY DEF Idle
<1>1. ASSUME NEW q, q.op # "log", Continue(r, q), UNCHANGED <<rows, history>>
      PROVE RowInv'
  <2>1. LogsKept
    BY <1>1, NoLogBegun
  <2>2. TokensRefer' /\ \A w \in User : Exists(w) => Exists(w)'
    BY <1>1, <1>t DEF TokensRefer, Exists, rows
  <2> QED BY <1>1, <2>1, <2>2, QuietRows DEF rows, history
<1>2. ASSUME NEW u \in User, createEnrollmentToken(r, u) PROVE RowInv'
  <2> DEFINE q == IF users[u] = "active" THEN [op |-> "issue", user |-> u] ELSE Idle
  <2>1. q.op # "log" /\ Continue(r, q)
    BY <1>i, <1>2 DEF createEnrollmentToken
  <2> QED BY <1>1, <1>2, <2>1 DEF createEnrollmentToken
<1>3. CASE AdminCli_createEnrollmentToken(r)
  BY <1>2, <1>3, <1>q, RequestTypes DEF AdminCli_createEnrollmentToken
<1>4. ASSUME NEW u \in User, AdminCli_findUser(r, u) \/ AdminCli_createDatabase(r, u)
      PROVE RowInv'
  BY <1>1, <1>4 DEF AdminCli_findUser, AdminCli_createDatabase
<1>5. ASSUME NEW t \in Token, issueToken(r, t) PROVE RowInv'
  <2>1. /\ req[r].user \in User /\ Exists(req[r].user)
        /\ insertEnrollmentToken(t, req[r].user) /\ Continue(r, Idle)
        /\ UNCHANGED <<users, devices, databases, members, audit, enrolledBy, created>>
    BY <1>5, <1>q, RequestTypes DEF issueToken, history
  <2>2. \A w \in User : (w = req[r].user \/ Exists(w)) => Exists(w)'
    BY <2>1 DEF Exists
  <2>3. TokensRefer'
    BY <1>t, <2>1, <2>2, InsertRows
  <2>4. LogsKept
    BY <1>i, <2>1, NoLogBegun
  <2> QED BY <2>1, <2>2, <2>3, <2>4, QuietRows
<1>6. ASSUME NEW t \in Token, lookupEnrollment(r, t) PROVE RowInv'
  BY <1>1, <1>6 DEF lookupEnrollment
<1>7. ASSUME NEW d \in Device, enroll(r, d) PROVE RowInv'
  BY <1>7, EnrollRows
<1>8. ASSUME NEW d \in Device, lookupDevice(r, d) PROVE RowInv'
  BY <1>1, <1>8 DEF lookupDevice
<1>9. ASSUME NEW d \in Device, DeviceController_destroy(r, d) PROVE RowInv'
  BY <1>9, RevokeRows
<1>10. ASSUME NEW d \in Database,
              DatabaseController_create(r, d) \/ DatabaseAdmin_create(r, d)
       PROVE RowInv'
  <2>1. /\ req[r].user \in User
        /\ insertDatabase(d, req[r].user) /\ Continue(r, Idle)
        /\ UNCHANGED <<users, tokens, tokenUser, devices, audit, enrolledBy>>
    BY <1>10, <1>q, RequestTypes DEF DatabaseController_create, DatabaseAdmin_create
  <2>2. LogsKept
    BY <1>i, <2>1, NoLogBegun
  <2> QED BY <2>1, <2>2, InsertDatabaseRows
<1>11. ASSUME NEW d \in Database, DatabaseController_destroy(r, d) PROVE RowInv'
  <2>1. /\ databases' = databases \ {d} /\ members' = {m \in members : m.db # d}
        /\ Continue(r, Idle)
        /\ UNCHANGED <<users, tokens, tokenUser, devices, audit, enrolledBy, created>>
    BY <1>11 DEF DatabaseController_destroy, history
  <2>2. LogsKept
    BY <1>i, <2>1, NoLogBegun
  <2>3. MembersRefer' /\ OneOwner' /\ databases' \subseteq created'
    BY <2>1 DEF RowInv, MembersRefer, OneOwner, HistoryInv, Exists
  <2> QED BY <2>1, <2>2, <2>3, MemberRows
<1>12. ASSUME NEW d \in Database, NEW u \in User, requireOwner(r, d, u) \/ unshare(r, d, u)
       PROVE RowInv'
  BY <1>1, <1>12 DEF requireOwner, unshare
<1>13. CASE ShareController_create(r)
  BY <1>13, ShareRows
<1>14. CASE ShareController_destroy(r)
  <2>1. /\ members' \subseteq members /\ Continue(r, Idle)
        /\ UNCHANGED <<users, tokens, tokenUser, devices, databases, audit, enrolledBy,
                        created>>
    BY <1>14 DEF ShareController_destroy, history
  <2>2. LogsKept
    BY <1>i, <2>1, NoLogBegun
  <2>3. MembersRefer' /\ OneOwner' /\ databases' \subseteq created'
    BY <2>1 DEF RowInv, MembersRefer, OneOwner, HistoryInv, Exists
  <2> QED BY <2>1, <2>2, <2>3, MemberRows
<1>15. CASE write(r)
  BY <1>15, WriteRows
<1>16. CASE Answer(r)
  BY <1>1, <1>i, <1>16 DEF Answer
<1> QED
  BY <1>2, <1>3, <1>4, <1>5, <1>6, <1>7, <1>8, <1>9, <1>10, <1>11, <1>12, <1>13, <1>14,
     <1>15, <1>16
  DEF Handle, UserController_enrollment

-----------------------------------------------------------------------------
(* Theorems *)

\* The inductive invariant holds initially.
LEMMA IInvInit == Init => IInv
<1> SUFFICES ASSUME Init PROVE IInv
  OBVIOUS
<1>1. TypeOK
  BY TypeInit
<1>2. TokenInv /\ LogInv
  BY DEF Init, TokenInv, LogInv, Idle
<1>3. HistoryInv /\ DevicesRefer /\ TokensRefer /\ MembersRefer /\ OneOwner /\ AuditRefers
  BY DEF Init, HistoryInv, DevicesRefer, TokensRefer, MembersRefer, OneOwner, AuditRefers
<1> QED BY <1>1, <1>2, <1>3 DEF IInv

\* Every step keeps the inductive invariant.
LEMMA IInvStep == IInv /\ [Next]_vars => IInv'
<1> SUFFICES ASSUME IInv, [Next]_vars PROVE IInv'
  OBVIOUS
<1>1. TypeOK /\ TokenInv /\ RowInv
  BY DEF IInv, RowInv
<1>2. CASE Administer
  <2>1. TypeOK' /\ TokenInv' /\ RowInv'
    BY <1>1, <1>2, AdministerTypes, AdministerTokens, AdministerRows
  <2> QED BY <2>1 DEF IInv, RowInv
<1>3. ASSUME NEW r \in Worker, Handle(r) PROVE IInv'
  <2>1. TypeOK' /\ TokenInv' /\ RowInv'
    BY <1>1, <1>3, HandleTypes, HandleTokens, HandleRows
  <2> QED BY <2>1 DEF IInv, RowInv
<1>4. CASE UNCHANGED vars
  <2>1. TypeOK' /\ TokenInv' /\ HistoryInv' /\ LogInv'
    BY <1>1, <1>4 DEF TypeOK, TokenInv, RowInv, HistoryInv, LogInv, vars
  <2>2. DevicesRefer' /\ TokensRefer' /\ MembersRefer' /\ OneOwner' /\ AuditRefers'
    BY <1>1, <1>4 DEF RowInv, DevicesRefer, TokensRefer, MembersRefer, OneOwner,
                      AuditRefers, Exists, vars
  <2> QED BY <2>1, <2>2 DEF IInv
<1> QED BY <1>2, <1>3, <1>4 DEF Next

\* The inductive invariant holds in every behaviour.
LEMMA IInvHolds == Spec => []IInv
BY IInvInit, IInvStep, PTL DEF Spec

\* The tables of the server, and what each worker knows, keep their types.
THEOREM TypeCorrect == Spec => []TypeOK
<1>1. IInv => TypeOK
  BY DEF IInv
<1> QED BY <1>1, IInvHolds, PTL

\* An enrollment token enrolls one device: EnrollmentController::enroll marks it used
\* in the statement that finds it open, and no statement opens it again.
THEOREM TokensEnrollOnce == Spec => []OneDevicePerToken
<1>1. Init => OneDevicePerToken
  BY DEF Init, OneDevicePerToken
<1>2. OneDevicePerToken /\ IInv /\ [Next]_vars => OneDevicePerToken'
  <2> SUFFICES ASSUME OneDevicePerToken, IInv, [Next]_vars PROVE OneDevicePerToken'
    OBVIOUS
  <2>1. ASSUME NEW r \in Worker, NEW d \in Device, enroll(r, d)
        PROVE OneDevicePerToken'
    <3>1. req[r].token \in Token /\ tokens[req[r].token] = "open"
      BY <2>1, RequestTypes DEF IInv, TypeOK, enroll
    <3>2. \A e \in Device : enrolledBy[e] # req[r].token
      BY <3>1, NoTokenAssumption DEF IInv, TokenInv
    <3>3. enrolledBy' = [enrolledBy EXCEPT ![d] = req[r].token]
      BY <2>1 DEF enroll
    <3> QED BY <3>2, <3>3 DEF OneDevicePerToken, IInv, TypeOK
  <2>2. CASE UNCHANGED enrolledBy
    BY <2>2 DEF OneDevicePerToken
  <2>3. Administer => UNCHANGED enrolledBy
    BY DEF Administer, UserController_create, AdminCli_createUser, UserController_update,
           AdminCli_setUserDisabled, UserController_destroy, AdminCli_deleteUser,
           createUserWithEnrollment, setDisabled, deleteUser, Expire, Cleanup, history
  <2>4. ASSUME NEW r \in Worker, Handle(r)
        PROVE UNCHANGED enrolledBy \/ \E d \in Device : enroll(r, d)
    BY <2>4
    DEF Handle, UserController_enrollment, createEnrollmentToken, AdminCli_findUser,
        AdminCli_createDatabase, AdminCli_createEnrollmentToken, issueToken,
        lookupEnrollment, lookupDevice, DeviceController_destroy,
        DatabaseController_create, DatabaseAdmin_create, DatabaseController_destroy,
        requireOwner, unshare, ShareController_create, ShareController_destroy,
        write, Answer, history
  <2> QED BY <2>1, <2>2, <2>3, <2>4 DEF Next, vars
<1> QED BY <1>1, <1>2, IInvHolds, PTL DEF Spec

\* Between a request's look at a row and its insertion anything may be deleted, and
\* still no row refers to one that is gone, no database has two owners and no device
\* the log calls revoked is there.
THEOREM ReferencesHold == Spec => []RowsReferToRows
<1>1. IInv => RowsReferToRows
  BY DEF IInv, RowsReferToRows, DevicesRefer, TokensRefer, MembersRefer, OneOwner,
         AuditRefers
<1> QED BY <1>1, IInvHolds, PTL

==============================================================================
