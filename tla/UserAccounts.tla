---------------------------- MODULE UserAccounts ----------------------------
(***************************************************************************)
(* User accounts and login sessions of the admin API:                      *)
(* internal/admin/user_service.go, auth_service.go, their Postgres stores, *)
(* and the routes and middleware of http.go that lead to them.             *)
(*                                                                         *)
(* Every HTTP request runs in a goroutine of its own, and no lock is held  *)
(* over the several statements one request sends to the database.  A       *)
(* request is therefore a sequence of steps, one per statement, and `call` *)
(* keeps what the goroutine holds between two of them.  The tables `users` *)
(* and `sessions` outlive the process; calls do not.                       *)
(*                                                                         *)
(* The display name and the two timestamps of an account are left out: no  *)
(* branch of the code reads them.                                          *)
(***************************************************************************)
EXTENDS Integers, FiniteSets

CONSTANTS
  Users,       \* account ids; a username determines its id
  Passwords,
  Tokens,      \* bearer tokens, one for each login the instance allows
  Requests,    \* goroutines that serve HTTP requests
  NoUser,      \* no row with that id
  NoSession,   \* no row with that token
  Nothing      \* an unused field of a call

ASSUME UserAccountsAssumption ==
  /\ IsFiniteSet(Tokens)
  /\ NoUser \notin [role : {"admin", "member"}, status : {"active", "disabled"},
                    password : Passwords]
  /\ NoSession \notin [user : Users, state : {"untold", "valid", "ended"}]

VARIABLES
  users,       \* the table admin_users
  sessions,    \* the table auth_sessions
  call         \* what each request goroutine is doing

accountVars == <<users, sessions, call>>

-----------------------------------------------------------------------------
(* Data *)

Roles == {"admin", "member"}
Statuses == {"active", "disabled"}
Accounts == [role : Roles, status : Statuses, password : Passwords]

\* A session row: not yet (or never) told to the client, in use, or revoked or
\* expired, which FindSession treats alike.
SessionRows == [user : Users, state : {"untold", "valid", "ended"}]

\* What PATCH /users/{id} may set: one field, the others stay nil.
Changes == [field : {"role"}, value : Roles] \cup [field : {"status"}, value : Statuses]

\* Fault: either field is written to the status column.
SetAsStatus(account, change) == [account EXCEPT !.status = change.value]

SetField(account, change) == [account EXCEPT ![change.field] = change.value]

\* New accounts are active members, as they are when the client says nothing
\* else; an update promotes them.
NewAccounts == [role : {"member"}, status : {"active"}, password : Passwords]

\* `dirty` is history: what this call read was overtaken.  Someone else wrote
\* the row it read; or, in a setup, there is an administrator the check did not
\* see or another setup has succeeded since.
Idle == [op |-> "none", stage |-> "idle", token |-> Nothing, target |-> Nothing,
         arg |-> Nothing, snap |-> Nothing, dirty |-> FALSE]

WriteStages == {"touch_write", "update_write", "reset_write", "create_write"}

Move(r, stage) == call' = [call EXCEPT ![r].stage = stage]
\* From here on only what was read and what was asked matters.
HoldRow(r, stage, row) == call' = [call EXCEPT ![r] =
  [@ EXCEPT !.stage = stage, !.snap = row, !.token = Nothing]]
Answer(r) == call' = [call EXCEPT ![r] = Idle]

AdminExists == \E u \in Users : users[u] # NoUser /\ users[u].role = "admin"

\* Between its read of row u and its write of it.
Holds(q, u) == call[q].stage \in WriteStages /\ call[q].target = u

\* Request r wrote row u and goes on as `next`; a request that has read the row
\* and not yet written it is marked dirty.
Wrote(r, u, next) ==
  [q \in Requests |-> IF q = r THEN next
                      ELSE IF Holds(q, u) THEN [call[q] EXCEPT !.dirty = TRUE]
                      ELSE call[q]]

\* The upsert writes every column.
UpsertUser(r, u, account) ==
  /\ users' = [users EXCEPT ![u] = account]
  /\ call' = Wrote(r, u, Idle)

-----------------------------------------------------------------------------
(* Setup and login *)

\* Fault: the transaction takes no lock.
NoAdvisoryLock == TRUE

\* The advisory lock is held from the check to the end of the transaction.
SetupLockFree == \A q \in Requests : call[q].stage # "setup_insert"

\* POST /api/setup/initialize with a valid input, up to the check.
CheckNoAdmin(r, u, p) ==
  /\ call[r].stage = "idle"
  /\ SetupLockFree
  /\ ~AdminExists
  /\ call' = [call EXCEPT ![r] = [Idle EXCEPT !.op = "setup", !.stage = "setup_insert",
                                              !.target = u, !.arg = p,
                                              !.dirty = AdminExists]]
  /\ UNCHANGED <<users, sessions>>

\* The setup of r created u: any other that is past its check comes too late.
SetUp(r, u, next) ==
  [q \in Requests |-> IF q = r THEN next
                      ELSE IF Holds(q, u) \/ call[q].stage = "setup_insert" THEN [call[q] EXCEPT !.dirty = TRUE]
                      ELSE call[q]]

\* A plain insert: an account of that name, of any role, makes it fail.
InsertInitialAdmin(r) ==
  LET u == call[r].target IN
  /\ call[r].stage = "setup_insert"
  /\ IF users[u] # NoUser
     THEN Answer(r) /\ UNCHANGED users
     ELSE /\ users' = [users EXCEPT ![u] = [role |-> "admin", status |-> "active",
                                            password |-> call[r].arg]]
          /\ call' = SetUp(r, u, [call[r] EXCEPT !.stage = "authenticate"])
  /\ UNCHANGED sessions

MayLogIn(u, password) ==
  users[u] # NoUser /\ users[u].status = "active" /\ users[u].password = password

LoggingIn(u) ==
  [Idle EXCEPT !.op = "login", !.stage = "create_session", !.target = u, !.snap = users[u]]

\* POST /api/auth/login, up to the account it reads.
Authenticate(r, u, p) ==
  /\ call[r].stage = "idle"
  /\ MayLogIn(u, p)
  /\ call' = [call EXCEPT ![r] = LoggingIn(u)]
  /\ UNCHANGED <<users, sessions>>

\* Setup ends with a login of the new administrator.
AuthenticateInitialAdmin(r) ==
  LET u == call[r].target IN
  /\ call[r].stage = "authenticate"
  /\ IF MayLogIn(u, call[r].arg)
     THEN call' = [call EXCEPT ![r] = LoggingIn(u)]
     ELSE Answer(r)
  /\ UNCHANGED <<users, sessions>>

CreateSession(r, t) ==
  /\ call[r].stage = "create_session"
  /\ sessions[t] = NoSession
  /\ sessions' = [sessions EXCEPT ![t] = [user |-> call[r].target, state |-> "untold"]]
  /\ call' = [call EXCEPT ![r].stage = "touch_read", ![r].token = t]
  /\ UNCHANGED users

\* Fault: the row Authenticate returned is written back, not read again.
ReadNothing(r) ==
  /\ call[r].stage = "touch_read"
  /\ Move(r, "touch_write")
  /\ UNCHANGED <<users, sessions>>

\* TouchLastLogin reads the account again ...
ReadLastLogin(r) ==
  /\ call[r].stage = "touch_read"
  /\ call' = [call EXCEPT ![r].stage = "touch_write", ![r].snap = users[call[r].target]]
  /\ UNCHANGED <<users, sessions>>

\* ... and writes all of it back; the answer with the token may be lost.
TouchLastLogin(r) ==
  /\ call[r].stage = "touch_write"
  /\ UpsertUser(r, call[r].target, call[r].snap)
  /\ \E state \in {"untold", "valid"} :
       sessions' = [sessions EXCEPT ![call[r].token].state = state]

-----------------------------------------------------------------------------
(* Requests with a bearer token *)

\* Any route behind requireAuthenticated, up to the session row it reads.  A
\* revoked or expired session is refused.
FindSession(r, op, t, target, arg) ==
  /\ call[r].stage = "idle"
  /\ sessions[t] # NoSession /\ sessions[t].state = "valid"
  /\ call' = [call EXCEPT ![r] = [Idle EXCEPT !.op = op, !.stage = "find_user", !.token = t,
                                              !.target = target, !.arg = arg]]
  /\ UNCHANGED <<users, sessions>>

AdminOps == {"list_users", "create_user", "update_user", "reset_password",
             "admin_list_meetings", "admin_put_meeting"}

\* requireAuthenticated's second statement, then requireAdminRole.
Admitted(c, account) ==
  account # NoUser /\ account.status = "active"
    /\ (c.op \in AdminOps => account.role = "admin")

\* Fault: the row FindSession read is written back with its new last_seen_at.
TouchWholeRow(t) == [sessions EXCEPT ![t].state = "valid"]

\* Only last_seen_at changes, which nothing reads.
TouchSession(t) == sessions

FindUser(r) ==
  LET t == call[r].token
      account == users[sessions[t].user] IN
  /\ call[r].stage = "find_user"
  /\ IF account # NoUser /\ account.status = "active"
     THEN sessions' = TouchSession(t) ELSE UNCHANGED sessions
  /\ IF Admitted(call[r], account) THEN Move(r, "handle") ELSE Answer(r)
  /\ UNCHANGED users

Handling(r, op) == call[r].stage = "handle" /\ call[r].op = op

\* GET /api/auth/me answers from the account the middleware read.
Me(r) == Handling(r, "me") /\ Answer(r) /\ UNCHANGED <<users, sessions>>

\* POST /api/auth/logout.
Logout(r) ==
  /\ Handling(r, "logout")
  /\ sessions' = [sessions EXCEPT ![call[r].token].state = "ended"]
  /\ Answer(r)
  /\ UNCHANGED users

\* GET /api/admin/users reads the users, then the meetings, and changes nothing.
ListUsers(r) ==
  /\ Handling(r, "list_users")
  /\ Answer(r)
  /\ UNCHANGED <<users, sessions>>

\* POST /api/admin/users: the name is looked up ...
FindUserByUsername(r) ==
  /\ Handling(r, "create_user")
  /\ IF users[call[r].target] # NoUser THEN Answer(r) ELSE HoldRow(r, "create_write", Nothing)
  /\ UNCHANGED <<users, sessions>>

\* ... the password is hashed, and the row is upserted.  What the body of the
\* request says is chosen where it is used, here and below.
CreateUser(r) ==
  /\ call[r].stage = "create_write"
  /\ \E account \in NewAccounts : UpsertUser(r, call[r].target, account)
  /\ UNCHANGED sessions

\* PATCH /api/admin/users/{id} and reset-password read the account first ...
ReadUser(r, op, stage) ==
  /\ Handling(r, op)
  /\ IF users[call[r].target] = NoUser
     THEN Answer(r)
     ELSE HoldRow(r, stage, users[call[r].target])
  /\ UNCHANGED <<users, sessions>>

\* ... and write all of it back with the fields the request names.
UpdateUser(r) ==
  /\ call[r].stage = "update_write"
  /\ \E change \in Changes : UpsertUser(r, call[r].target, SetField(call[r].snap, change))
  /\ UNCHANGED sessions

ResetPassword(r) ==
  /\ call[r].stage = "reset_write"
  /\ \E p \in Passwords : UpsertUser(r, call[r].target, [call[r].snap EXCEPT !.password = p])
  /\ UNCHANGED sessions

-----------------------------------------------------------------------------
(* Faults and time *)

\* Thirty days pass.
Expire(t) ==
  /\ sessions[t] # NoSession /\ sessions[t].state = "valid"
  /\ sessions' = [sessions EXCEPT ![t].state = "ended"]
  /\ UNCHANGED <<users, call>>

\* A statement fails, or the client hangs up and its context is cancelled.
\* The request ends with an error; what it already wrote stays.
FailRequest(r) ==
  /\ call[r].stage # "idle"
  /\ Answer(r)
  /\ UNCHANGED <<users, sessions>>

-----------------------------------------------------------------------------
(* Steps of one request, and what clients may ask *)

AccountStep(r) ==
  \/ InsertInitialAdmin(r) \/ AuthenticateInitialAdmin(r)
  \/ \E t \in Tokens : CreateSession(r, t)
  \/ ReadLastLogin(r) \/ TouchLastLogin(r)
  \/ FindUser(r)
  \/ Me(r) \/ Logout(r) \/ ListUsers(r)
  \/ FindUserByUsername(r) \/ CreateUser(r)
  \/ ReadUser(r, "update_user", "update_write") \/ UpdateUser(r)
  \/ ReadUser(r, "reset_password", "reset_write") \/ ResetPassword(r)

\* Bound: there is a token for every login in progress.
TokenLeft ==
  Cardinality({q \in Requests : call[q].stage \in {"setup_insert", "authenticate", "create_session"}})
    < Cardinality({t \in Tokens : sessions[t] = NoSession})

\* What a client may send.  A request refused by its first statement changes
\* nothing and is not a step.
AccountRequest(r) ==
  \/ TokenLeft /\ \E u \in Users, p \in Passwords : CheckNoAdmin(r, u, p) \/ Authenticate(r, u, p)
  \/ \E t \in Tokens :
       \/ \E op \in {"me", "logout", "list_users"} : FindSession(r, op, t, Nothing, Nothing)
       \/ \E op \in {"create_user", "update_user", "reset_password"}, u \in Users :
            FindSession(r, op, t, u, Nothing)

AccountNext ==
  \/ \E r \in Requests : AccountRequest(r) \/ AccountStep(r) \/ FailRequest(r)
  \/ \E t \in Tokens : Expire(t)

\* A database nobody has set up yet.
EmptyDatabase ==
  /\ users = [u \in Users |-> NoUser]
  /\ sessions = [t \in Tokens |-> NoSession]
  /\ call = [r \in Requests |-> Idle]

AccountSpec == EmptyDatabase /\ [][AccountNext]_accountVars

-----------------------------------------------------------------------------
(* Properties *)

AccountTypeOK ==
  /\ users \in [Users -> Accounts \cup {NoUser}]
  /\ sessions \in [Tokens -> SessionRows \cup {NoSession}]
  /\ DOMAIN call = Requests

\* A session that was revoked or has expired never becomes usable again, even
\* when requests that read it before are still under way (TouchSession writes
\* the same row that Logout does).
EndedSessionsStayEnded ==
  [][\A t \in Tokens :
       sessions[t] # NoSession /\ sessions[t].state = "ended" => sessions'[t] = sessions[t]]_accountVars

\* A setup succeeds only if the system had no administrator when it looked and
\* no other setup has succeeded since: two that race cannot both create one
\* (CreateInitialAdmin's advisory lock).  An update takes no such lock, and may
\* still promote somebody between the check and the insert.
SetupOnlyOnce ==
  [][\A r \in Requests :
       call[r].stage = "setup_insert" /\ call'[r].stage = "authenticate" => ~call[r].dirty]_accountVars

\* What a write may leave of an account when nobody else wrote it in between.
Meant(c, account) ==
  CASE c.stage = "touch_write"  -> {account}
    [] c.stage = "update_write" -> {SetField(account, change) : change \in Changes}
    [] c.stage = "reset_write"  -> {[account EXCEPT !.password = p] : p \in Passwords}
    [] c.stage = "create_write" -> IF account = NoUser THEN NewAccounts ELSE {}

\* A login, an update or a reset changes only the fields it is about, and a
\* creation overwrites no account, unless another write to the same account
\* came between its own read and its own write: whole rows are written back,
\* so that window must not be any wider than the one statement.
OthersFieldsKept ==
  [][\A r \in Requests :
       LET c == call[r] IN
       c.stage \in WriteStages /\ ~c.dirty /\ call'[r].stage # c.stage /\ users' # users
         => /\ users'[c.target] \in Meant(c, users[c.target])
            /\ \A u \in Users \ {c.target} : users'[u] = users[u]]_accountVars
=============================================================================
