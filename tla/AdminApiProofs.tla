--------------------------- MODULE AdminApiProofs ---------------------------
(***************************************************************************)
(* Proofs about AdminApi: for every set of users, tokens, meetings and     *)
(* concurrent requests, whatever order their statements reach the database *)
(* in.                                                                     *)
(***************************************************************************)
EXTENDS AdminApi, TLAPS

-----------------------------------------------------------------------------
(* The inductive invariants.                                                *)

SetupStages == {"setup_insert", "authenticate"}
Touching == {"touch_read", "touch_write"}
LoginStages == {"create_session"} \cup Touching
Serving == {"find_user", "handle", "found", "items_write", "put_write", "detail_summary"}
Stages == {"idle"} \cup SetupStages \cup LoginStages \cup Serving \cup WriteStages

AccountOps == {"create_user", "update_user", "reset_password"}
ListOps == {"me", "logout", "list_users", "list_meetings", "admin_list_meetings"}
Ops == {"none", "setup", "login", "put_meeting", "admin_put_meeting"}
         \cup AccountOps \cup ListOps \cup DetailOps

Calls == [op : Ops, stage : Stages, token : Tokens \cup {Nothing},
          target : Users \cup Meetings \cup {Nothing},
          arg : Passwords \cup Users \cup Reports \cup {Nothing},
          snap : Accounts \cup {NoUser} \cup Summaries \cup {Nothing}, dirty : BOOLEAN]

\* What a request is about, at each of its stages.
AboutAccount(c) ==
  /\ c.stage \in SetupStages \cup LoginStages \cup WriteStages => c.target \in Users
  /\ c.stage \in SetupStages => c.arg \in Passwords
  /\ c.stage \in WriteStages \ {"create_write"} => c.snap \in Accounts
  /\ c.stage \in {"find_user", "handle"} /\ c.op \in AccountOps => c.target \in Users

AboutMeeting(c) ==
  /\ \/ c.stage \in {"find_user", "handle"} /\ c.op \in {"put_meeting", "admin_put_meeting"} \cup DetailOps
     \/ c.stage \in {"found", "items_write", "put_write"}
     => c.target \in Meetings
  /\ \/ c.stage \in {"find_user", "handle"} /\ c.op = "admin_put_meeting"
     \/ c.stage = "put_write"
     => c.arg \in Users
  /\ \/ c.stage \in {"find_user", "handle", "found"} /\ c.op \in {"put_summary", "put_items"}
     \/ c.stage = "items_write"
     => c.arg \in Reports
  /\ c.stage = "items_write" => c.snap \in Summaries \cup {Nothing}

Shape == \A q \in Requests : AboutAccount(call[q]) /\ AboutMeeting(call[q])

\* A request works with the token of a session: its own new one, which no other
\* request knows and no client has been told, or one that was once valid.
TokenInv ==
  /\ \A q \in Requests :
       call[q].stage \in Touching \cup Serving
         => call[q].token \in Tokens /\ sessions[call[q].token] # NoSession
  /\ \A q \in Requests :
       call[q].stage \in Touching => sessions[call[q].token].state = "untold"
  /\ \A q \in Requests :
       call[q].stage \in Serving => sessions[call[q].token].state # "untold"
  /\ \A q, r \in Requests :
       call[q].stage \in Touching /\ call[r].stage \in Touching /\ call[q].token = call[r].token
         => q = r

\* Whoever logs in has an account, and accounts are never removed.
LoginInv == \A q \in Requests : call[q].stage \in LoginStages => users[call[q].target] # NoUser

\* The advisory lock: at most one setup is past its check, and nobody overtakes it.
SetupInv ==
  /\ \A q \in Requests : call[q].stage = "setup_insert" => ~ call[q].dirty
  /\ \A q, r \in Requests :
       call[q].stage = "setup_insert" /\ call[r].stage = "setup_insert" => q = r

\* What a request read of a row is the row, unless it is marked dirty.
SnapInv ==
  /\ \A q \in Requests : call[q].stage \in WriteStages /\ ~ call[q].dirty =>
       users[call[q].target] = IF call[q].stage = "create_write" THEN NoUser ELSE call[q].snap
  /\ \A q \in Requests : call[q].stage = "items_write" /\ ~ call[q].dirty =>
       summaries[call[q].target] = call[q].snap

\* Whoever owns a meeting or has found it as its own is in its history.
OwnerInv ==
  /\ \A m \in Meetings : meetings[m] # NoUser => meetings[m] \in owners[m]
  /\ \A q \in Requests : call[q].stage \in {"found", "items_write"} => Caller(q) \in owners[call[q].target]

ApiInv ==
  /\ ApiTypeOK
  /\ call \in [Requests -> Calls]
  /\ Shape /\ TokenInv /\ LoginInv /\ SetupInv /\ SnapInv
  /\ OwnerInv /\ DetailsOnlyByOwners

-----------------------------------------------------------------------------
(* Calls.                                                                   *)

LEMMA IdleTyped == Idle \in Calls /\ Idle.stage = "idle" /\ Idle.token = Nothing
                     /\ Idle.target = Nothing /\ Idle.arg = Nothing /\ Idle.snap = Nothing
BY DEF Idle, Calls, Ops, Stages

SameRequest(b, c) == c.op = b.op /\ c.token = b.token /\ c.target = b.target /\ c.arg = b.arg

\* Keeping everything but the stage, and what was read.
LEMMA WithStage ==
  ASSUME NEW c \in Calls, NEW stage \in Stages
  PROVE  /\ [c EXCEPT !.stage = stage] \in Calls
         /\ [c EXCEPT !.stage = stage].stage = stage
         /\ [c EXCEPT !.stage = stage].snap = c.snap
         /\ SameRequest(c, [c EXCEPT !.stage = stage])
BY DEF Calls, SameRequest

Snaps == Accounts \cup {NoUser} \cup Summaries \cup {Nothing}
CallsWithSnaps == [op : Ops, stage : Stages, token : Tokens \cup {Nothing},
                   target : Users \cup Meetings \cup {Nothing},
                   arg : Passwords \cup Users \cup Reports \cup {Nothing},
                   snap : Snaps, dirty : BOOLEAN]

LEMMA SameCalls == Calls = CallsWithSnaps
BY DEF Calls, CallsWithSnaps, Snaps

Holding(c, stage, row) == [c EXCEPT !.stage = stage, !.snap = row]

LEMMA HoldingTyped ==
  ASSUME NEW c \in Calls, NEW stage \in Stages, NEW row \in Snaps
  PROVE  /\ Holding(c, stage, row) \in Calls
         /\ Holding(c, stage, row).stage = stage
         /\ Holding(c, stage, row).snap = row
         /\ SameRequest(c, Holding(c, stage, row))
<1>1. c \in CallsWithSnaps
  BY SameCalls
<1>2. Holding(c, stage, row) \in CallsWithSnaps
  BY <1>1 DEF CallsWithSnaps, Holding
<1>3. Holding(c, stage, row).stage = stage /\ Holding(c, stage, row).snap = row
  BY <1>1 DEF CallsWithSnaps, Holding
<1>4. SameRequest(c, Holding(c, stage, row))
  BY <1>1 DEF CallsWithSnaps, Holding, SameRequest
<1> QED  BY <1>2, <1>3, <1>4, SameCalls

\* Only what was read and what was asked is kept.
HoldingOnly(c, stage, row) == [c EXCEPT !.stage = stage, !.snap = row, !.token = Nothing]

LEMMA HoldingOnlyTyped ==
  ASSUME NEW c \in Calls, NEW stage \in Stages, NEW row \in Snaps
  PROVE  /\ HoldingOnly(c, stage, row) \in Calls
         /\ HoldingOnly(c, stage, row).stage = stage
         /\ HoldingOnly(c, stage, row).target = c.target
         /\ HoldingOnly(c, stage, row).snap = row
<1>1. c \in CallsWithSnaps
  BY SameCalls
<1>2. HoldingOnly(c, stage, row) \in CallsWithSnaps
  BY <1>1 DEF CallsWithSnaps, HoldingOnly
<1>3. /\ HoldingOnly(c, stage, row).stage = stage /\ HoldingOnly(c, stage, row).target = c.target
      /\ HoldingOnly(c, stage, row).snap = row
  BY <1>1 DEF CallsWithSnaps, HoldingOnly
<1> QED  BY <1>2, <1>3, SameCalls

\* Everybody but r goes on as before; a request that holds a row may be marked.
Others(r) == \A q \in Requests \ {r} : call'[q] \in {call[q], [call[q] EXCEPT !.dirty = TRUE]}

LEMMA OthersKeep ==
  ASSUME call \in [Requests -> Calls], NEW r \in Requests, Others(r),
         NEW q \in Requests \ {r}
  PROVE  /\ call'[q] \in Calls
         /\ call'[q].stage = call[q].stage /\ call'[q].op = call[q].op
         /\ call'[q].token = call[q].token /\ call'[q].target = call[q].target
         /\ call'[q].arg = call[q].arg /\ call'[q].snap = call[q].snap
         /\ ~ call'[q].dirty => ~ call[q].dirty
<1> DEFINE c == call[q]
           d == [c EXCEPT !.dirty = TRUE]
<1>1. c \in Calls
  OBVIOUS
<1>2. /\ d \in Calls /\ d.stage = c.stage /\ d.op = c.op /\ d.token = c.token
      /\ d.target = c.target /\ d.arg = c.arg /\ d.snap = c.snap /\ d.dirty
  BY <1>1 DEF Calls
<1>3. call'[q] = c \/ call'[q] = d
  BY DEF Others
<1> HIDE DEF d
<1> QED  BY <1>1, <1>2, <1>3

LEMMA OneMoves ==
  ASSUME call \in [Requests -> Calls], NEW r \in Requests, NEW c, call' = [call EXCEPT ![r] = c]
  PROVE  Others(r) /\ call'[r] = c /\ DOMAIN call' = Requests
         /\ \A q \in Requests \ {r} : call'[q] = call[q]
BY DEF Others

\* The shape of a call is about its fields only, and not about dirty.
LEMMA ShapeOf ==
  ASSUME NEW c, NEW d, c.stage = d.stage, c.op = d.op, c.target = d.target, c.arg = d.arg,
         c.snap = d.snap, AboutAccount(d), AboutMeeting(d)
  PROVE  AboutAccount(c) /\ AboutMeeting(c)
BY DEF AboutAccount, AboutMeeting

LEMMA ShapeKept ==
  ASSUME call \in [Requests -> Calls], Shape, NEW r \in Requests, Others(r), DOMAIN call' = Requests,
         call' = [q \in Requests |-> call'[q]],
         call'[r] \in Calls, AboutAccount(call'[r]), AboutMeeting(call'[r])
  PROVE  call' \in [Requests -> Calls] /\ Shape'
<1>1. \A q \in Requests : call'[q] \in Calls
  BY OthersKeep
<1>2. \A q \in Requests : AboutAccount(call'[q]) /\ AboutMeeting(call'[q])
  <2> TAKE q \in Requests
  <2>1. CASE q # r
    BY <2>1, OthersKeep, ShapeOf DEF Shape
  <2> QED  BY <2>1
<1> QED  BY <1>1, <1>2 DEF Shape

-----------------------------------------------------------------------------
(* What one step of a request can be.                                       *)

Reading == UNCHANGED <<users, sessions, meetings, details, summaries, owners>>

\* How a call goes on after a statement that writes nothing.
Follows(b, c) ==
  \/ c.stage = "setup_insert" /\ c.target \in Users /\ c.arg \in Passwords
       /\ SetupLockFree /\ ~ c.dirty
  \/ c.stage = "create_session" /\ c.target \in Users /\ users[c.target] # NoUser
  \/ c.stage = "touch_write" /\ b.stage = "touch_read"
       /\ c.token = b.token /\ c.target = b.target /\ c.snap = users[c.target]
  \/ c.stage = "find_user" /\ AboutAccount(c) /\ AboutMeeting(c)
       /\ c.token \in Tokens /\ sessions[c.token] # NoSession /\ sessions[c.token].state = "valid"
  \/ c.stage = "handle" /\ b.stage = "find_user" /\ SameRequest(b, c)
  \/ c.stage = "create_write" /\ b.stage = "handle" /\ b.op \in AccountOps
       /\ c.target = b.target /\ users[c.target] = NoUser
  \/ c.stage \in {"update_write", "reset_write"} /\ b.stage = "handle" /\ b.op \in AccountOps
       /\ c.target = b.target /\ users[c.target] # NoUser /\ c.snap = users[c.target]
  \/ c.stage = "put_write" /\ b.stage = "handle" /\ b.op = "admin_put_meeting" /\ SameRequest(b, c)
  \/ c.stage = "found" /\ b.stage = "handle" /\ b.op \in DetailOps /\ SameRequest(b, c)
       /\ meetings[b.target] = sessions[b.token].user
  \/ c.stage = "items_write" /\ b.stage = "found" /\ b.op = "put_items"
       /\ c.token = b.token /\ c.target = b.target /\ c.arg = b.arg /\ c.snap = summaries[c.target]
  \/ c.stage = "detail_summary" /\ b.stage = "found" /\ c.token = b.token

Goes(r) == \E c \in Calls : call' = [call EXCEPT ![r] = c] /\ Reading /\ Follows(call[r], c)

\* It ends, and may have changed a meeting or one row of its details.
Quits(r) ==
  /\ call' = [call EXCEPT ![r] = Idle]
  /\ UNCHANGED <<users, sessions, summaries>>
  /\ \/ UNCHANGED <<meetings, details, owners>>
     \/ \E m \in Meetings, u \in Users :
          /\ meetings' = [meetings EXCEPT ![m] = u]
          /\ owners' = [owners EXCEPT ![m] = @ \cup {u}]
          /\ UNCHANGED details
     \/ /\ call[r].stage = "found"
        /\ details' = [details EXCEPT ![call[r].target] = Caller(r)]
        /\ UNCHANGED <<meetings, owners>>

Opens(r) == UNCHANGED meetingVars /\ \E t \in Tokens : CreateSession(r, t)
LogsOut(r) == UNCHANGED meetingVars /\ Logout(r)
Inserts(r) == UNCHANGED meetingVars /\ users[call[r].target] = NoUser /\ InsertInitialAdmin(r)

\* What a write may make of what its request read.
Written(c) == Meant(c, IF c.stage = "create_write" THEN NoUser ELSE c.snap)

Upserts(r) ==
  /\ UNCHANGED meetingVars
  /\ call[r].stage \in WriteStages
  /\ \E account \in Accounts \cap Written(call[r]) : UpsertUser(r, call[r].target, account)
  /\ \/ UNCHANGED sessions
     \/ call[r].stage = "touch_write" /\ \E state \in {"untold", "valid"} :
          sessions' = [sessions EXCEPT ![call[r].token].state = state]

Summarises(r) ==
  /\ UNCHANGED <<users, sessions, meetings, owners>>
  /\ call[r].stage \in {"found", "items_write"}
  /\ \E summary \in Summaries :
       /\ UpsertSummary(r, call[r].target, summary)
       /\ call[r].stage = "items_write" =>
            summary = IF call[r].snap = Nothing THEN OnlyItems(call[r].arg)
                                                ELSE WithItems(call[r].snap, call[r].arg)

StepKind(r) ==
  Goes(r) \/ Quits(r) \/ Opens(r) \/ LogsOut(r) \/ Inserts(r) \/ Upserts(r) \/ Summarises(r)

LEMMA QuietQuit ==
  ASSUME NEW r, Answer(r), UNCHANGED <<users, sessions, meetings, details, summaries, owners>>
  PROVE  Quits(r)
BY DEF Answer, Quits

LEMMA SetFieldTyped ==
  ASSUME NEW account \in Accounts, NEW change \in Changes
  PROVE  SetField(account, change) \in Accounts
<1>1. CASE change \in [field : {"role"}, value : Roles]
  BY <1>1 DEF SetField, Accounts
<1>2. CASE change \in [field : {"status"}, value : Statuses]
  BY <1>2 DEF SetField, Accounts
<1> QED  BY <1>1, <1>2 DEF Changes

\* Setup, login and the middleware.
LEMMA LoginKinds ==
  ASSUME ApiInv, NEW r \in Requests, UNCHANGED meetingVars,
         \/ \E u \in Users, p \in Passwords : CheckNoAdmin(r, u, p) \/ Authenticate(r, u, p)
         \/ InsertInitialAdmin(r) \/ AuthenticateInitialAdmin(r)
         \/ \E t \in Tokens : CreateSession(r, t)
         \/ ReadLastLogin(r) \/ TouchLastLogin(r)
         \/ FindUser(r)
  PROVE  StepKind(r)
<1>0. /\ call \in [Requests -> Calls] /\ call[r] \in Calls /\ AboutAccount(call[r])
      /\ users \in [Users -> Accounts \cup {NoUser}]
      /\ UNCHANGED <<meetings, details, summaries, detailSchema, owners>>
  BY DEF ApiInv, Shape, ApiTypeOK, AccountTypeOK, meetingVars
<1>1. ASSUME NEW u \in Users, NEW p \in Passwords, CheckNoAdmin(r, u, p)
      PROVE  Goes(r)
  <2> DEFINE c == [Idle EXCEPT !.op = "setup", !.stage = "setup_insert", !.target = u, !.arg = p,
                            !.dirty = AdminExists]
  <2>1. c \in Calls /\ c.stage = "setup_insert" /\ c.target = u /\ c.arg = p /\ ~ c.dirty
    <3>1. AdminExists = FALSE
      BY <1>1 DEF CheckNoAdmin, AdminExists
    <3> QED  BY <3>1 DEF Idle, Calls, Ops, Stages, SetupStages
  <2>2. Follows(call[r], c)
    BY <1>1, <2>1 DEF CheckNoAdmin, Follows
  <2>3. call' = [call EXCEPT ![r] = c] /\ Reading
    BY <1>0, <1>1 DEF CheckNoAdmin, Reading
  <2> QED  BY <2>1, <2>2, <2>3 DEF Goes
<1>2. ASSUME NEW u \in Users, users[u] # NoUser, call' = [call EXCEPT ![r] = LoggingIn(u)],
             UNCHANGED <<users, sessions>>
      PROVE  Goes(r)
  <2> DEFINE c == LoggingIn(u)
  <2>1. c \in Calls /\ c.stage = "create_session" /\ c.target = u
    <3>1. users[u] \in Accounts \cup {NoUser} \cup Summaries \cup {Nothing}
      BY <1>0
    <3> QED  BY <3>1 DEF LoggingIn, Idle, Calls, Ops, Stages, LoginStages
  <2>2. Follows(call[r], c)
    BY <1>2, <2>1 DEF Follows
  <2>3. call' = [call EXCEPT ![r] = c] /\ Reading
    BY <1>0, <1>2 DEF Reading
  <2> QED  BY <2>1, <2>2, <2>3 DEF Goes
<1>3. ASSUME NEW u \in Users, NEW p \in Passwords, Authenticate(r, u, p)
      PROVE  Goes(r)
  BY <1>2, <1>3 DEF Authenticate, MayLogIn
<1>4. CASE InsertInitialAdmin(r)
  BY <1>0, <1>4, QuietQuit DEF InsertInitialAdmin, Inserts, StepKind
<1>5. CASE AuthenticateInitialAdmin(r)
  <2>1. call[r].target \in Users
    BY <1>0, <1>5 DEF AuthenticateInitialAdmin, AboutAccount, SetupStages
  <2> QED  BY <1>0, <1>2, <1>5, <2>1, QuietQuit DEF AuthenticateInitialAdmin, MayLogIn, StepKind
<1>6. CASE ReadLastLogin(r)
  <2> DEFINE row == users[call[r].target]
             c == [call[r] EXCEPT !.stage = "touch_write", !.snap = row]
  <2>1. row \in Snaps
    BY <1>0, <1>6 DEF ReadLastLogin, AboutAccount, LoginStages, Touching, Snaps
  <2>2. call' = [call EXCEPT ![r] = c]
    BY <1>6 DEF ReadLastLogin
  <2>3. "touch_write" \in Stages
    BY DEF Stages, LoginStages, Touching
  <2>4. /\ c \in Calls /\ c.stage = "touch_write" /\ c.token = call[r].token
        /\ c.target = call[r].target /\ c.snap = row
    <3>1. c = Holding(call[r], "touch_write", row)
      BY DEF Holding
    <3>2. /\ Holding(call[r], "touch_write", row) \in Calls
          /\ Holding(call[r], "touch_write", row).stage = "touch_write"
          /\ Holding(call[r], "touch_write", row).snap = row
          /\ SameRequest(call[r], Holding(call[r], "touch_write", row))
      BY <1>0, <2>1, <2>3, HoldingTyped
    <3> HIDE DEF row, c
    <3> QED  BY <3>1, <3>2 DEF SameRequest
  <2>5. Follows(call[r], c)
    BY <1>6, <2>4 DEF ReadLastLogin, Follows
  <2> QED  BY <1>0, <1>6, <2>2, <2>4, <2>5 DEF ReadLastLogin, Reading, Goes, StepKind
<1>7. CASE TouchLastLogin(r)
  <2>1. call[r].snap \in Accounts
    BY <1>0, <1>7 DEF TouchLastLogin, AboutAccount, WriteStages
  <2>2. call[r].snap \in Written(call[r])
    BY <1>7 DEF TouchLastLogin, Written, Meant
  <2> QED  BY <1>7, <2>1, <2>2 DEF TouchLastLogin, Upserts, WriteStages, StepKind
<1>8. CASE FindUser(r)
  <2> DEFINE c == [call[r] EXCEPT !.stage = "handle"]
  <2>1. UNCHANGED <<users, sessions>>
    BY <1>8 DEF FindUser, TouchSession
  <2>2. CASE Answer(r)
    BY <1>0, <2>1, <2>2, QuietQuit DEF StepKind
  <2>3. CASE Move(r, "handle")
    <3>1. c \in Calls /\ c.stage = "handle" /\ SameRequest(call[r], c)
      BY <1>0, WithStage DEF Stages, Serving
    <3>2. Follows(call[r], c)
      BY <1>8, <3>1 DEF FindUser, Follows
    <3>3. call' = [call EXCEPT ![r] = c]
      BY <2>3 DEF Move
    <3> QED  BY <1>0, <2>1, <3>1, <3>2, <3>3 DEF Reading, Goes, StepKind
  <2> QED  BY <1>8, <2>2, <2>3 DEF FindUser
<1> QED  BY <1>1, <1>3, <1>4, <1>5, <1>6, <1>7, <1>8 DEF Opens, StepKind

Asking(op, t, target, arg) ==
  [Idle EXCEPT !.op = op, !.stage = "find_user", !.token = t, !.target = target, !.arg = arg]

LEMMA AskingTyped ==
  ASSUME NEW op \in Ops, NEW t \in Tokens, NEW target \in Users \cup Meetings \cup {Nothing},
         NEW arg \in Passwords \cup Users \cup Reports \cup {Nothing}
  PROVE  /\ Asking(op, t, target, arg) \in Calls
         /\ Asking(op, t, target, arg).stage = "find_user"
         /\ Asking(op, t, target, arg).op = op
         /\ Asking(op, t, target, arg).token = t
         /\ Asking(op, t, target, arg).target = target
         /\ Asking(op, t, target, arg).arg = arg
BY DEF Asking, Idle, Calls, Stages, Serving

LEMMA AskingGoes ==
  ASSUME NEW r \in Requests, NEW op \in Ops, NEW t \in Tokens,
         NEW target \in Users \cup Meetings \cup {Nothing},
         NEW arg \in Passwords \cup Users \cup Reports \cup {Nothing},
         FindSession(r, op, t, target, arg), UNCHANGED meetingVars,
         op \in AccountOps => target \in Users,
         op \in {"put_meeting", "admin_put_meeting"} \cup DetailOps => target \in Meetings,
         op = "admin_put_meeting" => arg \in Users,
         op \in {"put_summary", "put_items"} => arg \in Reports
  PROVE  Goes(r)
<1> DEFINE c == Asking(op, t, target, arg)
<1>1. c \in Calls /\ c.stage = "find_user" /\ c.op = op /\ c.token = t /\ c.target = target /\ c.arg = arg
  BY AskingTyped
<1>2. call' = [call EXCEPT ![r] = c] /\ Reading
  BY DEF FindSession, Asking, Reading, meetingVars
<1>3. sessions[c.token] # NoSession /\ sessions[c.token].state = "valid" /\ c.token \in Tokens
  BY <1>1 DEF FindSession
<1> HIDE DEF c
<1>4. AboutAccount(c)
  BY <1>1 DEF AboutAccount, SetupStages, LoginStages, Touching, WriteStages
<1>5. AboutMeeting(c)
  BY <1>1 DEF AboutMeeting
<1>6. Follows(call[r], c)
  BY <1>1, <1>3, <1>4, <1>5 DEF Follows
<1> QED  BY <1>1, <1>2, <1>6 DEF Goes

LEMMA AskingKinds ==
  ASSUME NEW r \in Requests, UNCHANGED meetingVars,
         \/ \E t \in Tokens :
              \/ \E op \in {"me", "logout", "list_users"} : FindSession(r, op, t, Nothing, Nothing)
              \/ \E op \in {"create_user", "update_user", "reset_password"}, u \in Users :
                   FindSession(r, op, t, u, Nothing)
         \/ MeetingRequest(r)
  PROVE  Goes(r)
<1>1. ASSUME NEW t \in Tokens, NEW op \in ListOps, FindSession(r, op, t, Nothing, Nothing)
      PROVE  Goes(r)
  <2>1. op \in Ops /\ op \notin AccountOps \cup {"put_meeting", "admin_put_meeting"} \cup DetailOps
    BY DEF ListOps, Ops, AccountOps, DetailOps
  <2>2. op # "admin_put_meeting" /\ op \notin {"put_summary", "put_items"}
    BY DEF ListOps
  <2> QED  BY <1>1, <2>1, <2>2, AskingGoes
<1>2. ASSUME NEW t \in Tokens, NEW op \in AccountOps, NEW u \in Users, FindSession(r, op, t, u, Nothing)
      PROVE  Goes(r)
  <2>1. op \in Ops /\ op \notin {"put_meeting", "admin_put_meeting"} \cup DetailOps
    BY DEF Ops, AccountOps, DetailOps
  <2>2. op # "admin_put_meeting" /\ op \notin {"put_summary", "put_items"}
    BY DEF AccountOps
  <2> QED  BY <1>2, <2>1, <2>2, AskingGoes
<1>3. ASSUME NEW t \in Tokens, NEW m \in Meetings, FindSession(r, "put_meeting", t, m, Nothing)
      PROVE  Goes(r)
  <2>1. "put_meeting" \in Ops /\ "put_meeting" \notin AccountOps
    BY DEF Ops, AccountOps
  <2> QED  BY <1>3, <2>1, AskingGoes
<1>4. ASSUME NEW t \in Tokens, NEW m \in Meetings, NEW u \in Users,
             FindSession(r, "admin_put_meeting", t, m, u)
      PROVE  Goes(r)
  <2>1. "admin_put_meeting" \in Ops /\ "admin_put_meeting" \notin AccountOps
    BY DEF Ops, AccountOps
  <2> QED  BY <1>4, <2>1, AskingGoes
<1>5. ASSUME NEW t \in Tokens, NEW m \in Meetings, NEW op \in DetailOps \ {"put_summary", "put_items"},
             FindSession(r, op, t, m, Nothing)
      PROVE  Goes(r)
  <2>1. op \in Ops /\ op \notin AccountOps /\ op # "admin_put_meeting" /\ op \notin {"put_summary", "put_items"}
    BY DEF Ops, AccountOps, DetailOps
  <2> QED  BY <1>5, <2>1, AskingGoes
<1>6. ASSUME NEW t \in Tokens, NEW m \in Meetings, NEW op \in {"put_summary", "put_items"},
             NEW report \in Reports, FindSession(r, op, t, m, report)
      PROVE  Goes(r)
  <2>1. op \in Ops /\ op \notin AccountOps /\ op # "admin_put_meeting"
    BY DEF Ops, AccountOps, DetailOps
  <2> QED  BY <1>6, <2>1, AskingGoes
<1> QED  BY <1>1, <1>2, <1>3, <1>4, <1>5, <1>6 DEF MeetingRequest, ListOps, AccountOps

\* Reading a row to write it back, and writing it.
LEMMA HoldRowGoes ==
  ASSUME NEW r \in Requests, call[r] \in Calls, NEW stage \in WriteStages \ {"touch_write"},
         NEW row \in Snaps, HoldRow(r, stage, row), call[r].stage = "handle", call[r].op \in AccountOps,
         users[call[r].target] = IF stage = "create_write" THEN NoUser ELSE row,
         stage # "create_write" => row # NoUser,
         UNCHANGED <<users, sessions>>, UNCHANGED meetingVars
  PROVE  Goes(r)
<1> DEFINE c == HoldingOnly(call[r], stage, row)
<1>1. stage \in Stages /\ (stage = "create_write" \/ stage \in {"update_write", "reset_write"})
  BY DEF Stages, WriteStages
<1>2. c \in Calls /\ c.stage = stage /\ c.target = call[r].target /\ c.snap = row
  BY <1>1, HoldingOnlyTyped
<1>3. call' = [call EXCEPT ![r] = c]
  BY DEF HoldRow, HoldingOnly
<1> HIDE DEF c
<1>4. Follows(call[r], c)
  BY <1>1, <1>2 DEF Follows
<1> QED  BY <1>2, <1>3, <1>4 DEF Goes, Reading, meetingVars

LEMMA AccountKinds ==
  ASSUME ApiInv, NEW r \in Requests, UNCHANGED meetingVars,
         \/ Me(r) \/ Logout(r) \/ ListUsers(r) \/ FailRequest(r)
         \/ FindUserByUsername(r) \/ CreateUser(r)
         \/ ReadUser(r, "update_user", "update_write") \/ UpdateUser(r)
         \/ ReadUser(r, "reset_password", "reset_write") \/ ResetPassword(r)
  PROVE  StepKind(r)
<1>0. /\ call \in [Requests -> Calls] /\ call[r] \in Calls /\ AboutAccount(call[r])
      /\ users \in [Users -> Accounts \cup {NoUser}]
      /\ UNCHANGED <<meetings, details, summaries, detailSchema, owners>>
  BY DEF ApiInv, Shape, ApiTypeOK, AccountTypeOK, meetingVars
<1>1. CASE Me(r) \/ ListUsers(r) \/ FailRequest(r)
  BY <1>0, <1>1, QuietQuit DEF Me, ListUsers, FailRequest, StepKind
<1>2. CASE FindUserByUsername(r)
  <2>1. CASE Answer(r)
    BY <1>0, <1>2, <2>1, QuietQuit DEF FindUserByUsername, StepKind
  <2>2. CASE users[call[r].target] = NoUser /\ HoldRow(r, "create_write", Nothing)
    <3>1. /\ call[r].stage = "handle" /\ call[r].op \in AccountOps
          /\ Nothing \in Snaps /\ "create_write" \in WriteStages \ {"touch_write"}
      BY <1>2 DEF FindUserByUsername, Handling, AccountOps, Snaps, WriteStages
    <3> QED  BY <1>0, <1>2, <2>2, <3>1, HoldRowGoes DEF FindUserByUsername, StepKind
  <2> QED  BY <1>2, <2>1, <2>2 DEF FindUserByUsername
<1>3. ASSUME NEW op \in {"update_user", "reset_password"}, NEW stage \in {"update_write", "reset_write"},
             ReadUser(r, op, stage)
      PROVE  StepKind(r)
  <2>1. call[r].stage = "handle" /\ call[r].op \in AccountOps /\ call[r].target \in Users
    BY <1>0, <1>3 DEF ReadUser, Handling, AccountOps, AboutAccount
  <2>2. CASE Answer(r)
    BY <1>0, <1>3, <2>2, QuietQuit DEF ReadUser, StepKind
  <2>3. CASE users[call[r].target] # NoUser /\ HoldRow(r, stage, users[call[r].target])
    <3>1. /\ users[call[r].target] \in Snaps /\ stage \in WriteStages \ {"touch_write"}
          /\ stage # "create_write"
      BY <1>0, <2>1 DEF Snaps, WriteStages
    <3> QED  BY <1>0, <1>3, <2>1, <2>3, <3>1, HoldRowGoes DEF ReadUser, StepKind
  <2> QED  BY <1>3, <2>2, <2>3 DEF ReadUser
<1>4. CASE CreateUser(r)
  <2>1. PICK account \in NewAccounts : UpsertUser(r, call[r].target, account)
    BY <1>4 DEF CreateUser
  <2>2. account \in Accounts
    BY DEF NewAccounts, Accounts, Roles, Statuses
  <2>3. account \in Written(call[r])
    BY <1>4 DEF CreateUser, Written, Meant
  <2> QED  BY <1>4, <2>1, <2>2, <2>3 DEF CreateUser, WriteStages, Upserts, StepKind
<1>5. CASE UpdateUser(r)
  <2>1. PICK change \in Changes : UpsertUser(r, call[r].target, SetField(call[r].snap, change))
    BY <1>5 DEF UpdateUser
  <2>2. call[r].snap \in Accounts
    BY <1>0, <1>5 DEF UpdateUser, AboutAccount, WriteStages
  <2>3. SetField(call[r].snap, change) \in Accounts
    BY <2>2, SetFieldTyped
  <2>4. SetField(call[r].snap, change) \in Written(call[r])
    BY <1>5 DEF UpdateUser, Written, Meant
  <2> QED  BY <1>5, <2>1, <2>3, <2>4 DEF UpdateUser, WriteStages, Upserts, StepKind
<1>6. CASE ResetPassword(r)
  <2>1. PICK p \in Passwords : UpsertUser(r, call[r].target, [call[r].snap EXCEPT !.password = p])
    BY <1>6 DEF ResetPassword
  <2>2. call[r].snap \in Accounts
    BY <1>0, <1>6 DEF ResetPassword, AboutAccount, WriteStages
  <2>3. [call[r].snap EXCEPT !.password = p] \in Accounts
    BY <2>2 DEF Accounts
  <2>4. [call[r].snap EXCEPT !.password = p] \in Written(call[r])
    BY <1>6 DEF ResetPassword, Written, Meant
  <2> QED  BY <1>6, <2>1, <2>3, <2>4 DEF ResetPassword, WriteStages, Upserts, StepKind
<1> QED  BY <1>1, <1>2, <1>3, <1>4, <1>5, <1>6 DEF LogsOut, StepKind

\* A request that works with a session's token acts for the session's user.
LEMMA CallerTyped ==
  ASSUME ApiTypeOK, TokenInv, NEW q \in Requests, call[q].stage \in Touching \cup Serving
  PROVE  /\ call[q].token \in Tokens /\ sessions[call[q].token] \in SessionRows
         /\ Caller(q) \in Users /\ Caller(q) # NoUser
<1>1. call[q].token \in Tokens /\ sessions[call[q].token] \in SessionRows
  BY DEF TokenInv, ApiTypeOK, AccountTypeOK
<1> QED  BY <1>1, MeetingRecordsAssumption DEF SessionRows, Caller

LEMMA ReportTyped ==
  ASSUME NEW report \in Reports
  PROVE  /\ report.version \in Versions /\ report.version \in 0..MaxVersion
         /\ report.final \in BOOLEAN /\ Versions \subseteq 0..MaxVersion
<1>1. PICK v \in Versions : report = [version |-> v, final |-> v = MaxVersion]
  BY DEF Reports
<1>2. report.version = v
  BY <1>1
<1>3. report.final = (v = MaxVersion)
  BY <1>1
<1>4. report.final \in BOOLEAN
  BY <1>3, Zenon
<1>5. Versions \subseteq 0..MaxVersion
  BY MeetingRecordsAssumption DEF Versions
<1> QED  BY <1>2, <1>4, <1>5

LEMMA ItemsTyped ==
  ASSUME NEW report \in Reports
  PROVE  /\ OnlyItems(report) \in Summaries
         /\ \A summary \in Summaries : WithItems(summary, report) \in Summaries
<1>1. OnlyItems(report) \in Summaries
  BY ReportTyped, MeetingRecordsAssumption DEF OnlyItems, Summaries
<1>2. ASSUME NEW summary \in Summaries
      PROVE  WithItems(summary, report) \in Summaries
  <2>1. Larger(summary.version, report.version) \in Versions
    BY ReportTyped DEF Larger, Summaries
  <2>2. summary.final \/ report.final \in BOOLEAN
    BY ReportTyped DEF Summaries
  <2> QED  BY <2>1, <2>2, ReportTyped DEF WithItems, Summaries
<1> QED  BY <1>1, <1>2

LEMMA MoveGoes ==
  ASSUME NEW r \in Requests, call[r] \in Calls, NEW stage \in Stages, Move(r, stage), Reading,
         \A c \in Calls : c.stage = stage /\ c.snap = call[r].snap /\ SameRequest(call[r], c) => Follows(call[r], c)
  PROVE  Goes(r)
<1> DEFINE c == [call[r] EXCEPT !.stage = stage]
<1>1. c \in Calls /\ c.stage = stage /\ c.snap = call[r].snap /\ SameRequest(call[r], c)
  BY WithStage
<1>2. call' = [call EXCEPT ![r] = c]
  BY DEF Move
<1> QED  BY <1>1, <1>2 DEF Goes

\* Meetings, and the steps that read details.
LEMMA MeetingKinds ==
  ASSUME ApiInv, NEW r \in Requests, UNCHANGED <<users, sessions>>,
         \/ PutMeeting(r) \/ CheckOwner(r) \/ AdminPutMeeting(r)
         \/ ListByUser(r) \/ AdminListMeetings(r)
         \/ FindMeetingForUser(r)
         \/ ListSegments(r) \/ GetDetail(r) \/ GetCheckpoint(r) \/ GetAudioAssets(r)
  PROVE  StepKind(r)
<1>0. /\ call \in [Requests -> Calls] /\ call[r] \in Calls /\ AboutMeeting(call[r])
      /\ ApiTypeOK /\ TokenInv
  BY DEF ApiInv, Shape
<1>1. ASSUME NEW m \in Meetings, NEW u \in Users, UpsertMeeting(m, u), Answer(r)
      PROVE  StepKind(r)
  BY <1>1 DEF UpsertMeeting, Answer, Quits, StepKind
<1>2. CASE PutMeeting(r)
  <2>1. call[r].target \in Meetings
    BY <1>0, <1>2 DEF PutMeeting, Handling, AboutMeeting
  <2>2. Caller(r) \in Users
    BY <1>0, <1>2, CallerTyped DEF PutMeeting, Handling, Serving
  <2> QED  BY <1>1, <1>2, <2>1, <2>2 DEF PutMeeting
<1>3. CASE CheckOwner(r)
  <2>1. Reading
    BY <1>3 DEF CheckOwner, Reading, meetingVars
  <2>2. CASE Answer(r)
    BY <2>1, <2>2, QuietQuit DEF Reading, StepKind
  <2>3. CASE Move(r, "put_write")
    <3>1. call[r].stage = "handle" /\ call[r].op = "admin_put_meeting" /\ "put_write" \in Stages
      BY <1>3 DEF CheckOwner, Handling, Stages, Serving
    <3>2. \A c \in Calls : c.stage = "put_write" /\ SameRequest(call[r], c) => Follows(call[r], c)
      BY <3>1 DEF Follows
    <3> QED  BY <1>0, <2>1, <2>3, <3>1, <3>2, MoveGoes DEF StepKind
  <2> QED  BY <1>3, <2>2, <2>3 DEF CheckOwner
<1>4. CASE AdminPutMeeting(r)
  <2>1. call[r].target \in Meetings /\ call[r].arg \in Users
    BY <1>0, <1>4 DEF AdminPutMeeting, AboutMeeting
  <2> QED  BY <1>1, <1>4, <2>1 DEF AdminPutMeeting
<1>5. CASE ListByUser(r) \/ AdminListMeetings(r) \/ GetDetail(r) \/ GetCheckpoint(r) \/ GetAudioAssets(r)
  BY <1>5, QuietQuit DEF ListByUser, AdminListMeetings, GetDetail, GetCheckpoint, GetAudioAssets,
                         meetingVars, StepKind
<1>6. CASE FindMeetingForUser(r)
  <2>1. Reading
    BY <1>6 DEF FindMeetingForUser, Reading, meetingVars
  <2>2. CASE Answer(r)
    BY <2>1, <2>2, QuietQuit DEF Reading, StepKind
  <2>3. CASE FoundForUser(r, call[r].target) /\ Move(r, "found")
    <3>1. call[r].stage = "handle" /\ call[r].op \in DetailOps /\ "found" \in Stages
      BY <1>6 DEF FindMeetingForUser, Stages, Serving
    <3>2. meetings[call[r].target] = sessions[call[r].token].user
      BY <2>3 DEF FoundForUser, Caller
    <3>3. \A c \in Calls : c.stage = "found" /\ SameRequest(call[r], c) => Follows(call[r], c)
      BY <3>1, <3>2 DEF Follows
    <3> QED  BY <1>0, <2>1, <2>3, <3>1, <3>3, MoveGoes DEF StepKind
  <2> QED  BY <1>6, <2>2, <2>3 DEF FindMeetingForUser
<1>7. CASE ListSegments(r)
  <2>1. Reading
    BY <1>7 DEF ListSegments, Reading
  <2>2. CASE Answer(r)
    BY <2>1, <2>2, QuietQuit DEF Reading, StepKind
  <2>3. CASE Move(r, "detail_summary")
    <3>1. call[r].stage = "found" /\ "detail_summary" \in Stages
      BY <1>7 DEF ListSegments, Found, Stages, Serving
    <3>2. \A c \in Calls : c.stage = "detail_summary" /\ SameRequest(call[r], c) => Follows(call[r], c)
      BY <3>1 DEF Follows, SameRequest
    <3> QED  BY <1>0, <2>1, <2>3, <3>1, <3>2, MoveGoes DEF StepKind
  <2> QED  BY <1>7, <2>2, <2>3 DEF ListSegments
<1> QED  BY <1>2, <1>3, <1>4, <1>5, <1>6, <1>7

\* The steps that write details.
LEMMA DetailKinds ==
  ASSUME ApiInv, NEW r \in Requests, UNCHANGED <<users, sessions>>,
         \/ PutSegment(r) \/ PutCheckpoint(r) \/ PutAudioAssets(r)
         \/ PutSummary(r) \/ LatestSummary(r) \/ ApplyActionItems(r)
  PROVE  StepKind(r)
<1>0. /\ call \in [Requests -> Calls] /\ call[r] \in Calls /\ AboutMeeting(call[r])
      /\ ApiTypeOK /\ TokenInv
  BY DEF ApiInv, Shape
<1>1. CASE PutSegment(r) \/ PutCheckpoint(r) \/ PutAudioAssets(r)
  <2>1. call[r].stage = "found" /\ UpsertDetail(r)
    BY <1>1 DEF PutSegment, PutCheckpoint, PutAudioAssets, Found
  <2> QED  BY <2>1 DEF UpsertDetail, Answer, Quits, StepKind
<1>2. CASE PutSummary(r)
  <2>1. call[r].stage = "found" /\ call[r].arg \in Reports
    BY <1>0, <1>2 DEF PutSummary, Found, AboutMeeting
  <2>2. CASE Answer(r) /\ UNCHANGED <<summaries, details>>
    BY <1>2, <2>2, QuietQuit DEF PutSummary, StepKind
  <2>3. CASE detailSchema' = "ready"
    <3> DEFINE summary == [version |-> call[r].arg.version, text |-> call[r].arg.version,
                           items |-> call[r].arg.version, final |-> call[r].arg.final]
    <3>1. summary \in Summaries
      BY <2>1, ReportTyped DEF Summaries
    <3>2. UpsertSummary(r, call[r].target, summary)
      BY <1>2, <2>3 DEF PutSummary
    <3> HIDE DEF summary
    <3> QED  BY <1>2, <2>1, <3>1, <3>2 DEF PutSummary, Summarises, StepKind
  <2> QED  BY <1>2, <2>2, <2>3 DEF PutSummary
<1>3. CASE LatestSummary(r)
  <2>1. /\ call[r].stage = "found" /\ call[r].op = "put_items" /\ call[r].target \in Meetings
        /\ Reading
    BY <1>0, <1>3 DEF LatestSummary, Found, AboutMeeting, Reading
  <2>2. CASE Answer(r)
    BY <2>1, <2>2, QuietQuit DEF Reading, StepKind
  <2>3. CASE detailSchema' = "ready"
    <3> DEFINE row == summaries[call[r].target]
               c == Holding(call[r], "items_write", row)
    <3>1. row \in Snaps /\ "items_write" \in Stages
      BY <1>0, <2>1 DEF ApiTypeOK, MeetingTypeOK, Snaps, Stages, Serving
    <3>2. c \in Calls /\ c.stage = "items_write" /\ c.snap = row /\ SameRequest(call[r], c)
      BY <1>0, <3>1, HoldingTyped
    <3>3. call' = [call EXCEPT ![r] = c]
      BY <1>3, <2>3 DEF LatestSummary, Holding
    <3>4. Follows(call[r], c)
      <4> HIDE DEF c
      <4> QED  BY <2>1, <3>2 DEF Follows, SameRequest
    <3> QED  BY <2>1, <3>2, <3>3, <3>4 DEF Goes, StepKind
  <2> QED  BY <1>3, <2>2, <2>3 DEF LatestSummary
<1>4. CASE ApplyActionItems(r)
  <2> DEFINE summary == IF call[r].snap = Nothing THEN OnlyItems(call[r].arg)
                                                  ELSE WithItems(call[r].snap, call[r].arg)
  <2>1. call[r].stage = "items_write" /\ call[r].arg \in Reports /\ call[r].snap \in Summaries \cup {Nothing}
    BY <1>0, <1>4 DEF ApplyActionItems, AboutMeeting
  <2>2. summary \in Summaries
    BY <2>1, ItemsTyped
  <2>3. UpsertSummary(r, call[r].target, summary)
    BY <1>4 DEF ApplyActionItems
  <2> QED  BY <1>4, <2>1, <2>2, <2>3 DEF ApplyActionItems, Summarises, StepKind
<1> QED  BY <1>1, <1>2, <1>3, <1>4

LEMMA StepKinds ==
  ASSUME ApiInv, [ApiNext]_apiVars
  PROVE  \/ \E r \in Requests : StepKind(r)
         \/ \E t \in Tokens : Expire(t) /\ UNCHANGED meetingVars
         \/ Restart
         \/ UNCHANGED <<accountVars, meetingVars>>
<1>1. ASSUME NEW r \in Requests, AccountRequest(r), UNCHANGED meetingVars
      PROVE  StepKind(r)
  BY <1>1, LoginKinds, AskingKinds DEF AccountRequest, StepKind
<1>2. ASSUME NEW r \in Requests, MeetingRequest(r), UNCHANGED meetingVars
      PROVE  StepKind(r)
  BY <1>2, AskingKinds DEF StepKind
<1>3. ASSUME NEW r \in Requests, AccountStep(r), UNCHANGED meetingVars
      PROVE  StepKind(r)
  BY <1>3, LoginKinds, AccountKinds DEF AccountStep
<1>4. ASSUME NEW r \in Requests, MeetingStep(r), UNCHANGED <<users, sessions>>
      PROVE  StepKind(r)
  BY <1>4, MeetingKinds, DetailKinds DEF MeetingStep
<1>5. ASSUME NEW r \in Requests, FailRequest(r), UNCHANGED meetingVars
      PROVE  StepKind(r)
  BY <1>5, AccountKinds
<1>6. CASE UNCHANGED apiVars
  BY <1>6 DEF apiVars
<1> QED  BY <1>1, <1>2, <1>3, <1>4, <1>5, <1>6 DEF ApiNext, Serve

\* What the detail store's schemaOnce has done stays one of three.
LEMMA SchemaTyped ==
  ASSUME ApiTypeOK, [ApiNext]_apiVars
  PROVE  detailSchema' \in {"unset", "ready", "failed"} /\ area' \in {"accounts", "meetings"}
<1>0. detailSchema \in {"unset", "ready", "failed"} /\ area \in {"accounts", "meetings"}
  BY DEF ApiTypeOK, MeetingTypeOK
<1>1. EnsureSchema => detailSchema' \in {"unset", "ready", "failed"}
  BY <1>0 DEF EnsureSchema
<1>2. ASSUME NEW r \in Requests, MeetingStep(r)
      PROVE  UNCHANGED detailSchema \/ EnsureSchema
  <2>1. CASE PutMeeting(r) \/ CheckOwner(r) \/ AdminPutMeeting(r) \/ ListByUser(r) \/ AdminListMeetings(r)
             \/ FindMeetingForUser(r) \/ GetDetail(r)
    BY <2>1 DEF PutMeeting, CheckOwner, AdminPutMeeting, ListByUser, AdminListMeetings,
                FindMeetingForUser, GetDetail, UpsertMeeting, meetingVars
  <2>2. CASE PutSegment(r) \/ PutCheckpoint(r) \/ PutAudioAssets(r)
    BY <2>2 DEF PutSegment, PutCheckpoint, PutAudioAssets, UpsertDetail
  <2>3. CASE PutSummary(r) \/ LatestSummary(r) \/ ApplyActionItems(r)
    BY <2>3 DEF PutSummary, LatestSummary, ApplyActionItems
  <2>4. CASE ListSegments(r) \/ GetCheckpoint(r) \/ GetAudioAssets(r)
    BY <2>4 DEF ListSegments, GetCheckpoint, GetAudioAssets
  <2> QED  BY <1>2, <2>1, <2>2, <2>3, <2>4 DEF MeetingStep
<1>3. UNCHANGED detailSchema \/ EnsureSchema \/ Restart
  BY <1>2 DEF ApiNext, apiVars, meetingVars, Serve
<1>4. UNCHANGED area
  BY DEF ApiNext, apiVars
<1> QED  BY <1>0, <1>1, <1>3, <1>4 DEF Restart

-----------------------------------------------------------------------------
(* Calls keep their shape.                                                  *)

LEMMA WroteKeeps ==
  ASSUME NEW r \in Requests, NEW u, NEW next, call' = Wrote(r, u, next)
  PROVE  Others(r) /\ call'[r] = next /\ call' = [q \in Requests |-> call'[q]]
<1>1. \A q \in Requests : call'[q] = IF q = r THEN next
                                     ELSE IF Holds(q, u) THEN [call[q] EXCEPT !.dirty = TRUE] ELSE call[q]
  BY DEF Wrote
<1>2. call' = [q \in Requests |-> call'[q]]
  BY DEF Wrote
<1> QED  BY <1>1, <1>2 DEF Others

LEMMA SetUpKeeps ==
  ASSUME NEW r \in Requests, NEW u, NEW next, call' = SetUp(r, u, next)
  PROVE  Others(r) /\ call'[r] = next /\ call' = [q \in Requests |-> call'[q]]
<1>1. \A q \in Requests : call'[q] = IF q = r THEN next
                                     ELSE IF Holds(q, u) \/ call[q].stage = "setup_insert"
                                          THEN [call[q] EXCEPT !.dirty = TRUE] ELSE call[q]
  BY DEF SetUp
<1>2. call' = [q \in Requests |-> call'[q]]
  BY DEF SetUp
<1> QED  BY <1>1, <1>2 DEF Others

LEMMA SummaryKeeps ==
  ASSUME NEW r \in Requests, NEW m, NEW summary, UpsertSummary(r, m, summary)
  PROVE  Others(r) /\ call'[r] = Idle /\ call' = [q \in Requests |-> call'[q]]
<1>1. \A q \in Requests : call'[q] = IF q = r THEN Idle
                                     ELSE IF HoldsSummary(q, m) THEN [call[q] EXCEPT !.dirty = TRUE] ELSE call[q]
  BY DEF UpsertSummary
<1>2. call' = [q \in Requests |-> call'[q]]
  BY DEF UpsertSummary
<1> QED  BY <1>1, <1>2 DEF Others

Telling(c, t) == [c EXCEPT !.stage = "touch_read", !.token = t]

LEMMA TellingTyped ==
  ASSUME NEW c \in Calls, NEW t \in Tokens
  PROVE  /\ Telling(c, t) \in Calls /\ Telling(c, t).stage = "touch_read"
         /\ Telling(c, t).token = t /\ Telling(c, t).target = c.target
BY DEF Telling, Calls, Stages, LoginStages, Touching

\* What becomes of the call that takes the step.
LEMMA OwnCall ==
  ASSUME call \in [Requests -> Calls], NEW r \in Requests, StepKind(r)
  PROVE  /\ Others(r) /\ call' = [q \in Requests |-> call'[q]]
         /\ Goes(r) => call'[r] \in Calls /\ Follows(call[r], call'[r])
         /\ Quits(r) \/ LogsOut(r) \/ Upserts(r) \/ Summarises(r) => call'[r] = Idle
         /\ Opens(r) => /\ call[r].stage = "create_session"
                        /\ \E t \in Tokens :
                             /\ sessions[t] = NoSession
                             /\ sessions' = [sessions EXCEPT ![t] = [user |-> call[r].target, state |-> "untold"]]
                             /\ call'[r] \in Calls /\ call'[r].stage = "touch_read" /\ call'[r].token = t
                             /\ call'[r].target = call[r].target
         /\ Inserts(r) => /\ call[r].stage = "setup_insert" /\ call'[r] \in Calls
                          /\ call'[r].stage = "authenticate" /\ SameRequest(call[r], call'[r])
<1>0. call[r] \in Calls
  OBVIOUS
<1>1. ASSUME Goes(r)
      PROVE  /\ Others(r) /\ call' = [q \in Requests |-> call'[q]]
             /\ call'[r] \in Calls /\ Follows(call[r], call'[r])
  <2>1. PICK c \in Calls : call' = [call EXCEPT ![r] = c] /\ Follows(call[r], c)
    BY <1>1 DEF Goes
  <2> QED  BY <2>1, OneMoves
<1>2. ASSUME Quits(r) \/ LogsOut(r)
      PROVE  Others(r) /\ call' = [q \in Requests |-> call'[q]] /\ call'[r] = Idle
  <2>1. call' = [call EXCEPT ![r] = Idle]
    BY <1>2 DEF Quits, LogsOut, Logout, Answer
  <2> QED  BY <2>1, OneMoves
<1>3. ASSUME Upserts(r)
      PROVE  Others(r) /\ call' = [q \in Requests |-> call'[q]] /\ call'[r] = Idle
  BY <1>3, WroteKeeps DEF Upserts, UpsertUser
<1>4. ASSUME Summarises(r)
      PROVE  Others(r) /\ call' = [q \in Requests |-> call'[q]] /\ call'[r] = Idle
  BY <1>4, SummaryKeeps DEF Summarises
<1>5. ASSUME Opens(r)
      PROVE  /\ Others(r) /\ call' = [q \in Requests |-> call'[q]]
             /\ call[r].stage = "create_session"
             /\ \E t \in Tokens :
                  /\ sessions[t] = NoSession
                  /\ sessions' = [sessions EXCEPT ![t] = [user |-> call[r].target, state |-> "untold"]]
                  /\ call'[r] \in Calls /\ call'[r].stage = "touch_read" /\ call'[r].token = t
                  /\ call'[r].target = call[r].target
  <2>1. PICK t \in Tokens : CreateSession(r, t)
    BY <1>5 DEF Opens
  <2> DEFINE c == Telling(call[r], t)
  <2>2. call' = [call EXCEPT ![r] = c]
    BY <2>1 DEF CreateSession, Telling
  <2>3. c \in Calls /\ c.stage = "touch_read" /\ c.token = t /\ c.target = call[r].target
    BY <1>0, TellingTyped
  <2> HIDE DEF c
  <2>4. Others(r) /\ call'[r] = c /\ call' = [q \in Requests |-> call'[q]]
    BY <2>2, OneMoves
  <2> QED  BY <2>1, <2>3, <2>4 DEF CreateSession
<1>6. ASSUME Inserts(r)
      PROVE  /\ Others(r) /\ call' = [q \in Requests |-> call'[q]]
             /\ call[r].stage = "setup_insert" /\ call'[r] \in Calls
             /\ call'[r].stage = "authenticate" /\ SameRequest(call[r], call'[r])
  <2> DEFINE c == [call[r] EXCEPT !.stage = "authenticate"]
  <2>1. call' = SetUp(r, call[r].target, c) /\ call[r].stage = "setup_insert"
    BY <1>6 DEF Inserts, InsertInitialAdmin
  <2>2. c \in Calls /\ c.stage = "authenticate" /\ SameRequest(call[r], c)
    BY <1>0, WithStage DEF Stages, SetupStages
  <2> HIDE DEF c
  <2> QED  BY <2>1, <2>2, SetUpKeeps
<1> QED  BY <1>1, <1>2, <1>3, <1>4, <1>5, <1>6 DEF StepKind

LEMMA FollowsShape ==
  ASSUME ApiTypeOK, NEW b \in Calls, NEW c \in Calls, AboutAccount(b), AboutMeeting(b),
         b.stage \in LoginStages => users[b.target] # NoUser, Follows(b, c)
  PROVE  AboutAccount(c) /\ AboutMeeting(c)
<1>0. /\ users \in [Users -> Accounts \cup {NoUser}]
      /\ summaries \in [Meetings -> Summaries \cup {Nothing}]
  BY DEF ApiTypeOK, AccountTypeOK, MeetingTypeOK
<1> USE DEF SetupStages, LoginStages, Touching, WriteStages
<1>1. CASE c.stage = "setup_insert" /\ c.target \in Users /\ c.arg \in Passwords
  BY <1>1 DEF AboutAccount, AboutMeeting
<1>2. CASE c.stage = "create_session" /\ c.target \in Users
  BY <1>2 DEF AboutAccount, AboutMeeting
<1>3. CASE c.stage = "touch_write" /\ b.stage = "touch_read" /\ c.target = b.target /\ c.snap = users[c.target]
  BY <1>0, <1>3 DEF AboutAccount, AboutMeeting
<1>4. CASE c.stage = "handle" /\ b.stage = "find_user" /\ SameRequest(b, c)
  BY <1>4 DEF AboutAccount, AboutMeeting, SameRequest
<1>5. CASE c.stage = "create_write" /\ b.stage = "handle" /\ b.op \in AccountOps /\ c.target = b.target
  BY <1>5 DEF AboutAccount, AboutMeeting
<1>6. CASE /\ c.stage \in {"update_write", "reset_write"} /\ b.stage = "handle" /\ b.op \in AccountOps
           /\ c.target = b.target /\ users[c.target] # NoUser /\ c.snap = users[c.target]
  BY <1>0, <1>6 DEF AboutAccount, AboutMeeting
<1>7. CASE c.stage = "put_write" /\ b.stage = "handle" /\ b.op = "admin_put_meeting" /\ SameRequest(b, c)
  BY <1>7 DEF AboutAccount, AboutMeeting, SameRequest
<1>8. CASE c.stage = "found" /\ b.stage = "handle" /\ b.op \in DetailOps /\ SameRequest(b, c)
  BY <1>8 DEF AboutAccount, AboutMeeting, SameRequest
<1>9. CASE /\ c.stage = "items_write" /\ b.stage = "found" /\ b.op = "put_items"
           /\ c.target = b.target /\ c.arg = b.arg /\ c.snap = summaries[c.target]
  BY <1>0, <1>9 DEF AboutAccount, AboutMeeting
<1>10. CASE c.stage = "detail_summary"
  BY <1>10 DEF AboutAccount, AboutMeeting
<1> QED  BY <1>1, <1>2, <1>3, <1>4, <1>5, <1>6, <1>7, <1>8, <1>9, <1>10 DEF Follows

LEMMA IdleShape == AboutAccount(Idle) /\ AboutMeeting(Idle)
BY IdleTyped DEF AboutAccount, AboutMeeting, SetupStages, LoginStages, Touching, WriteStages

LEMMA CallsKept ==
  ASSUME ApiInv, NEW r \in Requests, StepKind(r)
  PROVE  call' \in [Requests -> Calls] /\ Shape'
<1>0. /\ call \in [Requests -> Calls] /\ call[r] \in Calls /\ Shape /\ ApiTypeOK
      /\ AboutAccount(call[r]) /\ AboutMeeting(call[r])
      /\ call[r].stage \in LoginStages => users[call[r].target] # NoUser
  BY DEF ApiInv, Shape, LoginInv
<1>1. Others(r) /\ call' = [q \in Requests |-> call'[q]] /\ DOMAIN call' = Requests
  BY <1>0, OwnCall
<1>2. call'[r] \in Calls /\ AboutAccount(call'[r]) /\ AboutMeeting(call'[r])
  <2>1. CASE Goes(r)
    BY <1>0, <2>1, OwnCall, FollowsShape
  <2>2. CASE Quits(r) \/ LogsOut(r) \/ Upserts(r) \/ Summarises(r)
    BY <1>0, <2>2, OwnCall, IdleTyped, IdleShape
  <2>3. CASE Opens(r)
    <3>1. call[r].stage = "create_session" /\ call'[r] \in Calls /\ call'[r].stage = "touch_read"
          /\ call'[r].target = call[r].target
      BY <1>0, <2>3, OwnCall
    <3> QED  BY <1>0, <3>1 DEF AboutAccount, AboutMeeting, SetupStages, LoginStages, Touching, WriteStages
  <2>4. CASE Inserts(r)
    <3>1. /\ call[r].stage = "setup_insert" /\ call'[r] \in Calls
          /\ call'[r].stage = "authenticate" /\ SameRequest(call[r], call'[r])
      BY <1>0, <2>4, OwnCall
    <3> QED  BY <1>0, <3>1 DEF AboutAccount, AboutMeeting, SetupStages, LoginStages, Touching, WriteStages, SameRequest
  <2> QED  BY <2>1, <2>2, <2>3, <2>4 DEF StepKind
<1> QED  BY <1>0, <1>1, <1>2, ShapeKept

-----------------------------------------------------------------------------
(* Sessions and the requests that work with their tokens.                   *)

\* What any step leaves of a session that exists: its user, and that it was
\* told to its client; only the login that created it tells it.
SessionStays(t, r) ==
  /\ sessions'[t] # NoSession /\ sessions'[t].user = sessions[t].user
  /\ sessions[t].state # "untold" => sessions'[t].state # "untold"
  /\ sessions[t].state = "ended" => sessions'[t] = sessions[t]
  /\ sessions[t].state = "untold" =>
       \/ sessions'[t].state = "untold"
       \/ call[r].stage = "touch_write" /\ t = call[r].token /\ call'[r] = Idle

LEMMA StateSet ==
  ASSUME NEW row \in SessionRows, NEW state \in {"untold", "valid", "ended"}
  PROVE  /\ [row EXCEPT !.state = state] \in SessionRows
         /\ [row EXCEPT !.state = state].state = state
         /\ [row EXCEPT !.state = state].user = row.user
         /\ row.state = state => [row EXCEPT !.state = state] = row
BY DEF SessionRows

LEMMA RowsAreSessions == \A row \in SessionRows : row # NoSession
BY UserAccountsAssumption DEF SessionRows

LEMMA SessionsMove ==
  ASSUME ApiInv, NEW r \in Requests, StepKind(r)
  PROVE  /\ sessions' \in [Tokens -> SessionRows \cup {NoSession}]
         /\ \A t \in Tokens : sessions[t] # NoSession => SessionStays(t, r)
<1>0. /\ call \in [Requests -> Calls] /\ sessions \in [Tokens -> SessionRows \cup {NoSession}]
      /\ ApiTypeOK /\ TokenInv
  BY DEF ApiInv, ApiTypeOK, AccountTypeOK
<1>i. ASSUME NEW t \in Tokens, sessions'[t] = sessions[t], sessions[t] # NoSession
      PROVE  SessionStays(t, r)
  BY <1>i DEF SessionStays
<1>1. CASE UNCHANGED sessions
  BY <1>0, <1>1, <1>i
<1>2. ASSUME NEW t0 \in Tokens, sessions[t0] # NoSession, NEW state \in {"untold", "valid", "ended"},
             sessions' = [sessions EXCEPT ![t0].state = state],
             sessions[t0].state = "untold" =>
               call[r].stage = "touch_write" /\ t0 = call[r].token /\ call'[r] = Idle,
             sessions[t0].state # "untold" => state = "ended"
      PROVE  /\ sessions' \in [Tokens -> SessionRows \cup {NoSession}]
             /\ \A t \in Tokens : sessions[t] # NoSession => SessionStays(t, r)
  <2> DEFINE row == [sessions[t0] EXCEPT !.state = state]
  <2>1. sessions[t0] \in SessionRows
    BY <1>0, <1>2
  <2>2. /\ row \in SessionRows /\ row.state = state /\ row.user = sessions[t0].user
        /\ sessions[t0].state = state => row = sessions[t0]
    BY <2>1, StateSet
  <2>3. sessions' = [sessions EXCEPT ![t0] = row]
    BY <1>2
  <2>4. row # NoSession
    BY <2>2, RowsAreSessions
  <2> HIDE DEF row
  <2>5. sessions' \in [Tokens -> SessionRows \cup {NoSession}]
    BY <1>0, <2>2, <2>3
  <2>6. SessionStays(t0, r)
    <3>1. sessions'[t0] = row
      BY <1>0, <2>3
    <3> QED  BY <1>2, <2>2, <2>4, <3>1 DEF SessionStays
  <2>7. \A t \in Tokens \ {t0} : sessions[t] # NoSession => SessionStays(t, r)
    <3>1. \A t \in Tokens \ {t0} : sessions'[t] = sessions[t]
      BY <1>0, <2>3
    <3> QED  BY <1>i, <3>1
  <2> QED  BY <2>5, <2>6, <2>7
<1>3. CASE Opens(r)
  <2>1. PICK t0 \in Tokens :
          /\ sessions[t0] = NoSession
          /\ sessions' = [sessions EXCEPT ![t0] = [user |-> call[r].target, state |-> "untold"]]
    BY <1>0, <1>3, OwnCall
  <2>2. call[r].target \in Users
    BY <1>0, <1>3, OwnCall DEF ApiInv, Shape, AboutAccount, LoginStages
  <2>3. [user |-> call[r].target, state |-> "untold"] \in SessionRows
    BY <2>2 DEF SessionRows
  <2>4. sessions' \in [Tokens -> SessionRows \cup {NoSession}] /\ \A t \in Tokens \ {t0} : sessions'[t] = sessions[t]
    BY <1>0, <2>1, <2>3
  <2> QED  BY <1>i, <2>1, <2>4
<1>4. CASE LogsOut(r)
  <2>1. call[r].stage \in Serving /\ sessions' = [sessions EXCEPT ![call[r].token].state = "ended"]
    BY <1>4 DEF LogsOut, Logout, Handling, Serving
  <2>2. /\ call[r].token \in Tokens /\ sessions[call[r].token] # NoSession
        /\ sessions[call[r].token].state # "untold"
    BY <1>0, <2>1 DEF TokenInv
  <2> QED  BY <1>2, <2>1, <2>2
<1>5. CASE Upserts(r)
  <2>1. CASE call[r].stage = "touch_write" /\ ~ UNCHANGED sessions
    <3>1. PICK state \in {"untold", "valid"} :
            sessions' = [sessions EXCEPT ![call[r].token].state = state]
      BY <1>5, <2>1 DEF Upserts
    <3>2. /\ call[r].token \in Tokens /\ sessions[call[r].token] # NoSession
          /\ sessions[call[r].token].state = "untold"
      BY <1>0, <2>1 DEF TokenInv, Touching
    <3>3. call'[r] = Idle
      BY <1>0, <1>5, OwnCall DEF StepKind
    <3> QED  BY <1>2, <2>1, <3>1, <3>2, <3>3
  <2> QED  BY <1>1, <1>5, <2>1 DEF Upserts
<1> QED  BY <1>1, <1>3, <1>4, <1>5 DEF StepKind, Goes, Reading, Quits, Inserts, InsertInitialAdmin, Summarises

LEMMA TokensKept ==
  ASSUME ApiInv, NEW r \in Requests, StepKind(r)
  PROVE  TokenInv'
<1>0. call \in [Requests -> Calls] /\ TokenInv /\ Others(r)
      /\ \A t \in Tokens : sessions[t] # NoSession => SessionStays(t, r)
  BY OwnCall, SessionsMove DEF ApiInv
<1>1. \A q \in Requests \ {r} : call'[q].stage = call[q].stage /\ call'[q].token = call[q].token
  BY <1>0, OthersKeep
<1>i. Idle.stage \notin Touching \cup Serving
  BY IdleTyped DEF Touching, Serving
<1>o. ASSUME NEW q \in Requests \ {r}
      PROVE  /\ call'[q].stage \in Touching \cup Serving
                  => call'[q].token \in Tokens /\ sessions'[call'[q].token] # NoSession
             /\ call'[q].stage \in Touching => sessions'[call'[q].token].state = "untold"
             /\ call'[q].stage \in Serving => sessions'[call'[q].token].state # "untold"
  <2>1. call'[q].stage = call[q].stage /\ call'[q].token = call[q].token
    BY <1>1
  <2>2. CASE call[q].stage \in Serving
    <3>1. call[q].stage \notin Touching
      BY <2>2 DEF Serving, Touching
    <3> QED  BY <1>0, <2>1, <2>2, <3>1 DEF TokenInv, SessionStays
  <2>3. CASE call[q].stage \in Touching
    <3>1. call[q].stage \notin Serving
      BY <2>3 DEF Serving, Touching
    <3>2. call[q].token \in Tokens /\ sessions[call[q].token] # NoSession /\ sessions[call[q].token].state = "untold"
      BY <1>0, <2>3 DEF TokenInv
    <3>3. ~ (call[r].stage = "touch_write" /\ call[q].token = call[r].token)
      BY <1>0, <2>3 DEF TokenInv, Touching
    <3> QED  BY <1>0, <2>1, <2>3, <3>1, <3>2, <3>3 DEF SessionStays
  <2> QED  BY <2>1, <2>2, <2>3
<1>2. CASE call'[r].stage \notin Touching \cup Serving
  BY <1>0, <1>1, <1>o, <1>2 DEF TokenInv
<1>3. CASE Goes(r) /\ call'[r].stage \in Touching \cup Serving
  <2>0. /\ Follows(call[r], call'[r]) /\ UNCHANGED sessions
    BY <1>0, <1>3, OwnCall DEF Goes, Reading
  <2>1. \/ call'[r].stage = "touch_write" /\ call[r].stage = "touch_read" /\ call'[r].token = call[r].token
        \/ /\ call'[r].stage = "find_user" /\ call'[r].token \in Tokens
           /\ sessions[call'[r].token] # NoSession /\ sessions[call'[r].token].state = "valid"
        \/ call'[r].stage \in Serving /\ call[r].stage \in Serving /\ call'[r].token = call[r].token
    BY <1>3, <2>0 DEF Follows, SameRequest, Serving, Touching
  <2>2. CASE call'[r].stage = "touch_write" /\ call[r].stage = "touch_read" /\ call'[r].token = call[r].token
    <3>1. /\ call'[r].stage \in Touching /\ call[r].stage \in Touching /\ call'[r].stage \notin Serving
      BY <2>2 DEF Touching, Serving
    <3>2. /\ call'[r].token \in Tokens /\ sessions'[call'[r].token] # NoSession
          /\ sessions'[call'[r].token].state = "untold"
      BY <1>0, <2>0, <2>2, <3>1 DEF TokenInv
    <3>3. \A q, p \in Requests :
            call'[q].stage \in Touching /\ call'[p].stage \in Touching /\ call'[q].token = call'[p].token => q = p
      <4>1. \A q \in Requests : (call'[q].stage \in Touching <=> call[q].stage \in Touching)
                                  /\ (call'[q].stage \in Touching => call'[q].token = call[q].token)
        BY <1>1, <2>2, <3>1
      <4> QED  BY <1>0, <4>1 DEF TokenInv
    <3> QED  BY <1>o, <3>1, <3>2, <3>3 DEF TokenInv
  <2>3. CASE /\ call'[r].stage \in Serving /\ call'[r].token \in Tokens
             /\ sessions[call'[r].token] # NoSession /\ sessions[call'[r].token].state # "untold"
    <3>1. call'[r].stage \notin Touching
      BY <2>3 DEF Serving, Touching
    <3> QED  BY <1>0, <1>1, <1>o, <2>0, <2>3, <3>1 DEF TokenInv
  <2> QED  BY <1>0, <2>1, <2>2, <2>3 DEF TokenInv, Serving
<1>4. CASE Opens(r)
  <2>1. PICK t0 \in Tokens :
          /\ sessions[t0] = NoSession
          /\ sessions' = [sessions EXCEPT ![t0] = [user |-> call[r].target, state |-> "untold"]]
          /\ call'[r].stage = "touch_read" /\ call'[r].token = t0
    BY <1>0, <1>4, OwnCall
  <2>2. sessions \in [Tokens -> SessionRows \cup {NoSession}]
    BY DEF ApiInv, ApiTypeOK, AccountTypeOK
  <2>3. sessions'[t0] = [user |-> call[r].target, state |-> "untold"]
    BY <2>1, <2>2
  <2>4. call[r].target \in Users
    BY <1>0, <1>4, OwnCall DEF ApiInv, Shape, AboutAccount, LoginStages
  <2>5. sessions'[t0] # NoSession /\ sessions'[t0].state = "untold"
    <3>1. [user |-> call[r].target, state |-> "untold"] \in SessionRows
      BY <2>4 DEF SessionRows
    <3> QED  BY <2>3, <3>1, RowsAreSessions
  <2>6. call'[r].stage \in Touching /\ call'[r].stage \notin Serving
    BY <2>1 DEF Touching, Serving
  <2>7. \A q \in Requests \ {r} : call'[q].stage \in Touching => call'[q].token # t0
    BY <1>0, <1>1, <2>1 DEF TokenInv
  <2>8. \A q, p \in Requests \ {r} :
          call'[q].stage \in Touching /\ call'[p].stage \in Touching /\ call'[q].token = call'[p].token => q = p
    BY <1>0, <1>1 DEF TokenInv
  <2> QED  BY <1>o, <2>1, <2>5, <2>6, <2>7, <2>8 DEF TokenInv
<1>5. CASE Quits(r) \/ LogsOut(r) \/ Upserts(r) \/ Summarises(r)
  BY <1>0, <1>2, <1>5, <1>i, OwnCall
<1>6. CASE Inserts(r)
  <2>1. call'[r].stage = "authenticate"
    BY <1>0, <1>6, OwnCall
  <2> QED  BY <1>2, <2>1 DEF Touching, Serving
<1> QED  BY <1>2, <1>3, <1>4, <1>5, <1>6 DEF StepKind

-----------------------------------------------------------------------------
(* Accounts.                                                                *)

LEMMA AccountsExist == \A account \in Accounts : account # NoUser
BY UserAccountsAssumption DEF Accounts, Roles, Statuses

\* A write marks everybody who has read the row and not yet written it.
Marks(r, u) == \A q \in Requests \ {r} : Holds(q, u) => call'[q].dirty

LEMMA WriteMarks ==
  ASSUME call \in [Requests -> Calls], NEW r \in Requests, NEW u, NEW next,
         call' = Wrote(r, u, next) \/ call' = SetUp(r, u, next)
  PROVE  Marks(r, u)
<1> SUFFICES ASSUME NEW q \in Requests \ {r}, Holds(q, u)
             PROVE  call'[q].dirty
  BY DEF Marks
<1>1. call'[q] = [call[q] EXCEPT !.dirty = TRUE]
  BY DEF Wrote, SetUp
<1>2. call[q] \in Calls
  OBVIOUS
<1> QED  BY <1>1, <1>2 DEF Calls

\* The step of a request leaves the accounts alone, or sets one of them.
LEMMA UsersMove ==
  ASSUME ApiInv, NEW r \in Requests, StepKind(r)
  PROVE  \/ UNCHANGED users
         \/ /\ Upserts(r) \/ Inserts(r)
            /\ \E u \in Users, account \in Accounts :
                 users' = [users EXCEPT ![u] = account] /\ Marks(r, u)
<1>0. call \in [Requests -> Calls] /\ AboutAccount(call[r])
  BY DEF ApiInv, Shape
<1>1. CASE Upserts(r)
  <2>1. PICK account \in Accounts : UpsertUser(r, call[r].target, account)
    BY <1>1 DEF Upserts
  <2>2. call[r].target \in Users
    BY <1>0, <1>1 DEF Upserts, AboutAccount
  <2> QED  BY <1>0, <1>1, <2>1, <2>2, WriteMarks DEF UpsertUser
<1>2. CASE Inserts(r)
  <2> DEFINE account == [role |-> "admin", status |-> "active", password |-> call[r].arg]
  <2>1. call[r].target \in Users /\ call[r].arg \in Passwords
    BY <1>0, <1>2 DEF Inserts, InsertInitialAdmin, AboutAccount, SetupStages
  <2>2. account \in Accounts
    BY <2>1 DEF Accounts, Roles, Statuses
  <2>3. users' = [users EXCEPT ![call[r].target] = account]
    BY <1>2 DEF Inserts, InsertInitialAdmin
  <2>4. Marks(r, call[r].target)
    BY <1>0, <1>2, WriteMarks DEF Inserts, InsertInitialAdmin
  <2> HIDE DEF account
  <2> QED  BY <1>2, <2>1, <2>2, <2>3, <2>4
<1>3. CASE ~ Upserts(r) /\ ~ Inserts(r)
  BY <1>3 DEF StepKind, Goes, Reading, Quits, Opens, CreateSession, LogsOut, Logout, Summarises
<1> QED  BY <1>1, <1>2, <1>3

LEMMA UsersTyped ==
  ASSUME ApiInv, NEW r \in Requests, StepKind(r)
  PROVE  /\ users' \in [Users -> Accounts \cup {NoUser}]
         /\ \A u \in Users : users[u] # NoUser => users'[u] # NoUser
<1>0. users \in [Users -> Accounts \cup {NoUser}]
  BY DEF ApiInv, ApiTypeOK, AccountTypeOK
<1> QED  BY <1>0, UsersMove, AccountsExist

LEMMA LoginKept ==
  ASSUME ApiInv, NEW r \in Requests, StepKind(r)
  PROVE  LoginInv'
<1>0. /\ call \in [Requests -> Calls] /\ Others(r) /\ LoginInv
      /\ \A u \in Users : users[u] # NoUser => users'[u] # NoUser
      /\ \A q \in Requests : AboutAccount(call[q])
  BY OwnCall, UsersTyped DEF ApiInv, Shape
<1>1. ASSUME NEW q \in Requests \ {r}, call'[q].stage \in LoginStages
      PROVE  users'[call'[q].target] # NoUser
  <2>1. call[q].stage \in LoginStages /\ call'[q].target = call[q].target
    BY <1>0, <1>1, OthersKeep
  <2> QED  BY <1>0, <2>1 DEF LoginInv, AboutAccount
<1>2. ASSUME call'[r].stage \in LoginStages
      PROVE  users'[call'[r].target] # NoUser
  <2>1. CASE Goes(r)
    <3>1. Follows(call[r], call'[r]) /\ UNCHANGED users
      BY <1>0, <2>1, OwnCall DEF Goes, Reading
    <3> QED  BY <1>0, <1>2, <3>1 DEF Follows, LoginStages, Touching, LoginInv
  <2>2. CASE Opens(r)
    <3>1. call[r].stage \in LoginStages /\ call'[r].target = call[r].target
      BY <1>0, <2>2, OwnCall DEF LoginStages
    <3> QED  BY <1>0, <3>1 DEF LoginInv, AboutAccount
  <2>3. CASE Quits(r) \/ LogsOut(r) \/ Upserts(r) \/ Summarises(r)
    BY <1>0, <1>2, <2>3, OwnCall, IdleTyped DEF LoginStages, Touching
  <2>4. CASE Inserts(r)
    BY <1>0, <1>2, <2>4, OwnCall DEF LoginStages, Touching
  <2> QED  BY <2>1, <2>2, <2>3, <2>4 DEF StepKind
<1> QED  BY <1>1, <1>2 DEF LoginInv

\* Only the success of another setup disturbs one that is past its check.
LEMMA SetupAlone ==
  ASSUME call \in [Requests -> Calls], NEW r \in Requests, StepKind(r), ~ Inserts(r),
         NEW q \in Requests \ {r}, call[q].stage = "setup_insert"
  PROVE  call'[q] = call[q]
<1>1. CASE Goes(r) \/ Quits(r) \/ Opens(r) \/ LogsOut(r)
  BY <1>1 DEF Goes, Quits, Opens, CreateSession, LogsOut, Logout, Answer
<1>2. CASE Upserts(r)
  <2>1. call' = Wrote(r, call[r].target, Idle)
    BY <1>2 DEF Upserts, UpsertUser
  <2>2. ~ Holds(q, call[r].target)
    BY DEF Holds, WriteStages
  <2> QED  BY <2>1, <2>2 DEF Wrote
<1>3. CASE Summarises(r)
  BY <1>3 DEF Summarises, UpsertSummary, HoldsSummary
<1> QED  BY <1>1, <1>2, <1>3 DEF StepKind

LEMMA SetupKept ==
  ASSUME ApiInv, NEW r \in Requests, StepKind(r)
  PROVE  SetupInv'
<1>0. call \in [Requests -> Calls] /\ Others(r) /\ SetupInv
  BY OwnCall DEF ApiInv
<1>1. \A q \in Requests \ {r} : call'[q].stage = call[q].stage
  BY <1>0, OthersKeep
<1>2. call'[r].stage = "setup_insert" => SetupLockFree /\ ~ call'[r].dirty
  <2>1. CASE Goes(r)
    BY <1>0, <2>1, OwnCall DEF Follows
  <2>2. CASE Quits(r) \/ LogsOut(r) \/ Upserts(r) \/ Summarises(r)
    BY <1>0, <2>2, OwnCall, IdleTyped
  <2>3. CASE Opens(r) \/ Inserts(r)
    BY <1>0, <2>3, OwnCall
  <2> QED  BY <2>1, <2>2, <2>3 DEF StepKind
<1>3. ASSUME NEW q \in Requests \ {r}, call'[q].stage = "setup_insert"
      PROVE  ~ call'[q].dirty
  <2>1. call[q].stage = "setup_insert" /\ ~ call[q].dirty
    BY <1>0, <1>1, <1>3 DEF SetupInv
  <2>2. ~ Inserts(r)
    BY <1>0, <2>1 DEF Inserts, InsertInitialAdmin, SetupInv
  <2> QED  BY <1>0, <2>1, <2>2, SetupAlone
<1>4. ASSUME NEW q \in Requests, NEW p \in Requests,
             call'[q].stage = "setup_insert", call'[p].stage = "setup_insert"
      PROVE  q = p
  <2>1. call'[r].stage = "setup_insert" => \A s \in Requests \ {r} : call'[s].stage # "setup_insert"
    BY <1>1, <1>2 DEF SetupLockFree
  <2> QED  BY <1>0, <1>1, <1>4, <2>1 DEF SetupInv
<1> QED  BY <1>2, <1>3, <1>4 DEF SetupInv

LEMMA SummaryMarks ==
  ASSUME call \in [Requests -> Calls], NEW r \in Requests, NEW q \in Requests \ {r}, NEW m, NEW summary,
         UpsertSummary(r, m, summary), HoldsSummary(q, m)
  PROVE  call'[q].dirty
<1>1. call'[q] = [call[q] EXCEPT !.dirty = TRUE]
  BY DEF UpsertSummary
<1>2. call[q] \in Calls
  OBVIOUS
<1> QED  BY <1>1, <1>2 DEF Calls

LEMMA SnapsKept ==
  ASSUME ApiInv, NEW r \in Requests, StepKind(r)
  PROVE  SnapInv'
<1>0. /\ call \in [Requests -> Calls] /\ Others(r) /\ SnapInv
      /\ users \in [Users -> Accounts \cup {NoUser}]
      /\ summaries \in [Meetings -> Summaries \cup {Nothing}]
      /\ \A q \in Requests : AboutAccount(call[q]) /\ AboutMeeting(call[q])
  BY OwnCall DEF ApiInv, ApiTypeOK, AccountTypeOK, MeetingTypeOK, Shape
<1>1. ASSUME NEW q \in Requests \ {r}, call'[q].stage \in WriteStages, ~ call'[q].dirty
      PROVE  users'[call'[q].target] = IF call'[q].stage = "create_write" THEN NoUser ELSE call'[q].snap
  <2>1. /\ call[q].stage = call'[q].stage /\ call[q].target = call'[q].target
        /\ call[q].snap = call'[q].snap /\ ~ call[q].dirty
    BY <1>0, <1>1, OthersKeep
  <2>2. users[call[q].target] = IF call[q].stage = "create_write" THEN NoUser ELSE call[q].snap
    BY <1>0, <1>1, <2>1 DEF SnapInv
  <2>3. call[q].target \in Users
    BY <1>0, <1>1, <2>1 DEF AboutAccount
  <2>4. users'[call[q].target] = users[call[q].target]
    <3>1. CASE UNCHANGED users
      BY <3>1
    <3>2. ASSUME NEW u \in Users, NEW account \in Accounts, users' = [users EXCEPT ![u] = account],
                 Marks(r, u)
          PROVE  users'[call[q].target] = users[call[q].target]
      <4>1. ~ Holds(q, u)
        BY <1>1, <3>2 DEF Marks
      <4>2. call[q].target # u
        BY <1>1, <2>1, <4>1 DEF Holds
      <4> QED  BY <1>0, <2>3, <3>2, <4>2
    <3> QED  BY <3>1, <3>2, UsersMove
  <2> QED  BY <2>1, <2>2, <2>4
<1>2. ASSUME NEW q \in Requests \ {r}, call'[q].stage = "items_write", ~ call'[q].dirty
      PROVE  summaries'[call'[q].target] = call'[q].snap
  <2>1. /\ call[q].stage = call'[q].stage /\ call[q].target = call'[q].target
        /\ call[q].snap = call'[q].snap /\ ~ call[q].dirty
    BY <1>0, <1>2, OthersKeep
  <2>2. summaries[call[q].target] = call[q].snap /\ call[q].target \in Meetings
    BY <1>0, <1>2, <2>1 DEF SnapInv, AboutMeeting
  <2>3. summaries'[call[q].target] = summaries[call[q].target]
    <3>1. CASE UNCHANGED summaries
      BY <3>1
    <3>2. CASE Summarises(r)
      <4>1. PICK summary \in Summaries : UpsertSummary(r, call[r].target, summary)
        BY <3>2 DEF Summarises
      <4>2. call[q].target # call[r].target
        BY <1>0, <1>2, <2>1, <4>1, SummaryMarks DEF HoldsSummary
      <4> QED  BY <1>0, <2>2, <4>1, <4>2 DEF UpsertSummary
    <3> QED  BY <3>1, <3>2 DEF StepKind, Goes, Reading, Quits, Opens, LogsOut, Inserts, Upserts, meetingVars
  <2> QED  BY <2>1, <2>2, <2>3
<1>3. /\ call'[r].stage \in WriteStages =>
           users'[call'[r].target] = IF call'[r].stage = "create_write" THEN NoUser ELSE call'[r].snap
      /\ call'[r].stage = "items_write" => summaries'[call'[r].target] = call'[r].snap
  <2>1. CASE Goes(r)
    <3>1. Follows(call[r], call'[r]) /\ UNCHANGED <<users, summaries>>
      BY <1>0, <2>1, OwnCall DEF Goes, Reading
    <3> QED  BY <3>1 DEF Follows, WriteStages
  <2>2. CASE ~ Goes(r)
    <3>1. call'[r].stage \in {"idle", "touch_read", "authenticate"}
      BY <1>0, <2>2, OwnCall, IdleTyped DEF StepKind
    <3> QED  BY <3>1 DEF WriteStages
  <2> QED  BY <2>1, <2>2
<1> QED  BY <1>1, <1>2, <1>3 DEF SnapInv

-----------------------------------------------------------------------------
(* Meetings and their owners.                                               *)

\* A step gives a meeting to somebody, or writes its details on behalf of one
\* of its owners, or does neither.
LEMMA MeetingsMove ==
  ASSUME ApiInv, NEW r \in Requests, StepKind(r)
  PROVE  \/ UNCHANGED <<meetings, details, owners>>
         \/ \E m \in Meetings, u \in Users :
              /\ meetings' = [meetings EXCEPT ![m] = u]
              /\ owners' = [owners EXCEPT ![m] = @ \cup {u}]
              /\ UNCHANGED details
         \/ \E m \in Meetings : \E u \in Users \cap owners[m] :
              /\ details' = [details EXCEPT ![m] = u]
              /\ UNCHANGED <<meetings, owners>>
<1>0. AboutMeeting(call[r]) /\ ApiTypeOK /\ TokenInv /\ OwnerInv
  BY DEF ApiInv, Shape
<1>1. ASSUME call[r].stage \in {"found", "items_write"},
             details' = [details EXCEPT ![call[r].target] = Caller(r)]
      PROVE  \E m \in Meetings : \E u \in Users \cap owners[m] : details' = [details EXCEPT ![m] = u]
  <2>1. call[r].target \in Meetings /\ Caller(r) \in owners[call[r].target]
    BY <1>0, <1>1 DEF AboutMeeting, OwnerInv
  <2>2. Caller(r) \in Users
    BY <1>0, <1>1, CallerTyped DEF Serving
  <2> QED  BY <1>1, <2>1, <2>2
<1>2. CASE Quits(r)
  BY <1>1, <1>2 DEF Quits
<1>3. CASE Summarises(r)
  BY <1>1, <1>3 DEF Summarises, UpsertSummary
<1>4. CASE ~ Quits(r) /\ ~ Summarises(r)
  BY <1>4 DEF StepKind, Goes, Reading, Opens, LogsOut, Inserts, Upserts, meetingVars
<1> QED  BY <1>2, <1>3, <1>4

LEMMA OwnersKept ==
  ASSUME ApiInv, NEW r \in Requests, StepKind(r)
  PROVE  /\ meetings' \in [Meetings -> Users \cup {NoUser}]
         /\ details' \in [Meetings -> Users \cup {NoUser}]
         /\ owners' \in [Meetings -> SUBSET Users]
         /\ \A m \in Meetings : owners[m] \subseteq owners'[m]
         /\ \A m \in Meetings : meetings'[m] # NoUser => meetings'[m] \in owners'[m]
         /\ DetailsOnlyByOwners'
<1>0. /\ meetings \in [Meetings -> Users \cup {NoUser}]
      /\ details \in [Meetings -> Users \cup {NoUser}]
      /\ owners \in [Meetings -> SUBSET Users]
      /\ \A m \in Meetings : meetings[m] # NoUser => meetings[m] \in owners[m]
      /\ \A m \in Meetings : details[m] # NoUser => details[m] \in owners[m]
  BY DEF ApiInv, ApiTypeOK, MeetingTypeOK, OwnerInv, DetailsOnlyByOwners
<1>1. CASE UNCHANGED <<meetings, details, owners>>
  BY <1>0, <1>1 DEF DetailsOnlyByOwners
<1>2. ASSUME NEW m \in Meetings, NEW u \in Users, meetings' = [meetings EXCEPT ![m] = u],
             owners' = [owners EXCEPT ![m] = @ \cup {u}], UNCHANGED details
      PROVE  /\ meetings' \in [Meetings -> Users \cup {NoUser}]
             /\ details' \in [Meetings -> Users \cup {NoUser}]
             /\ owners' \in [Meetings -> SUBSET Users]
             /\ \A n \in Meetings : owners[n] \subseteq owners'[n]
             /\ \A n \in Meetings : meetings'[n] # NoUser => meetings'[n] \in owners'[n]
             /\ DetailsOnlyByOwners'
  <2>1. owners' \in [Meetings -> SUBSET Users] /\ \A n \in Meetings : owners[n] \subseteq owners'[n]
    BY <1>0, <1>2
  <2>2. meetings' \in [Meetings -> Users \cup {NoUser}]
    BY <1>0, <1>2
  <2>3. \A n \in Meetings : meetings'[n] # NoUser => meetings'[n] \in owners'[n]
    BY <1>0, <1>2
  <2>4. DetailsOnlyByOwners'
    BY <1>0, <1>2, <2>1 DEF DetailsOnlyByOwners
  <2> QED  BY <1>0, <1>2, <2>1, <2>2, <2>3, <2>4
<1>3. ASSUME NEW m \in Meetings, NEW u \in Users \cap owners[m], details' = [details EXCEPT ![m] = u],
             UNCHANGED <<meetings, owners>>
      PROVE  /\ details' \in [Meetings -> Users \cup {NoUser}]
             /\ DetailsOnlyByOwners'
  BY <1>0, <1>3 DEF DetailsOnlyByOwners
<1> QED  BY <1>0, <1>1, <1>2, <1>3, MeetingsMove

LEMMA SummariesTyped ==
  ASSUME ApiInv, NEW r \in Requests, StepKind(r)
  PROVE  summaries' \in [Meetings -> Summaries \cup {Nothing}]
<1>0. summaries \in [Meetings -> Summaries \cup {Nothing}]
  BY DEF ApiInv, ApiTypeOK, MeetingTypeOK
<1>1. CASE Summarises(r)
  BY <1>0, <1>1 DEF Summarises, UpsertSummary
<1>2. CASE ~ Summarises(r)
  BY <1>0, <1>2 DEF StepKind, Goes, Reading, Quits, Opens, LogsOut, Inserts, Upserts, meetingVars
<1> QED  BY <1>1, <1>2

\* The user a request acts for stays an owner of the meeting it has found.
LEMMA CallersKept ==
  ASSUME ApiInv, NEW r \in Requests, StepKind(r), NEW q \in Requests,
         call'[q].stage \in {"found", "items_write"}
  PROVE  Caller(q)' \in owners'[call'[q].target]
<1>0. /\ call \in [Requests -> Calls] /\ Others(r) /\ ApiTypeOK /\ TokenInv /\ OwnerInv
      /\ \A p \in Requests : AboutMeeting(call[p])
      /\ \A t \in Tokens : sessions[t] # NoSession => SessionStays(t, r)
      /\ \A m \in Meetings : owners[m] \subseteq owners'[m]
  BY OwnCall, SessionsMove, OwnersKept DEF ApiInv, Shape
<1>1. Caller(q)' = sessions'[call'[q].token].user
  BY DEF Caller
<1>2. ASSUME NEW p \in Requests, call[p].stage \in Serving,
             call'[q].token = call[p].token, call'[q].target = call[p].target,
             call[p].target \in Meetings, Caller(p) \in owners[call[p].target]
      PROVE  Caller(q)' \in owners'[call'[q].target]
  <2>1. call[p].token \in Tokens /\ sessions[call[p].token] # NoSession
    BY <1>0, <1>2 DEF TokenInv
  <2>2. sessions'[call'[q].token].user = Caller(p)
    BY <1>0, <1>2, <2>1 DEF SessionStays, Caller
  <2> QED  BY <1>0, <1>1, <1>2, <2>2
<1>3. ASSUME NEW p \in Requests, call[p].stage \in {"found", "items_write"},
             call'[q].token = call[p].token, call'[q].target = call[p].target
      PROVE  Caller(q)' \in owners'[call'[q].target]
  BY <1>0, <1>2, <1>3 DEF AboutMeeting, OwnerInv, Serving
<1>4. CASE q # r
  <2>1. /\ call'[q].stage = call[q].stage /\ call'[q].token = call[q].token
        /\ call'[q].target = call[q].target
    BY <1>0, <1>4, OthersKeep
  <2> QED  BY <1>3, <2>1
<1>5. CASE q = r /\ Goes(r)
  <2>1. Follows(call[r], call'[r])
    BY <1>0, <1>5, OwnCall
  <2>2. \/ /\ call[r].stage = "handle" /\ call[r].op \in DetailOps /\ SameRequest(call[r], call'[r])
           /\ meetings[call[r].target] = Caller(r)
        \/ /\ call[r].stage = "found" /\ call'[r].token = call[r].token /\ call'[r].target = call[r].target
    BY <1>5, <2>1 DEF Follows, Caller
  <2>3. CASE /\ call[r].stage = "handle" /\ call[r].op \in DetailOps /\ SameRequest(call[r], call'[r])
             /\ meetings[call[r].target] = Caller(r)
    <3>1. call[r].target \in Meetings /\ call[r].stage \in Serving
      BY <1>0, <2>3 DEF AboutMeeting, Serving
    <3>2. Caller(r) # NoUser
      BY <1>0, <3>1, CallerTyped
    <3>3. Caller(r) \in owners[call[r].target]
      BY <1>0, <2>3, <3>1, <3>2 DEF OwnerInv
    <3> QED  BY <1>2, <1>5, <2>3, <3>1, <3>3 DEF SameRequest
  <2> QED  BY <1>3, <1>5, <2>2, <2>3
<1>6. CASE q = r /\ ~ Goes(r)
  <2>1. call'[r].stage \in {"idle", "touch_read", "authenticate"}
    BY <1>0, <1>6, OwnCall, IdleTyped DEF StepKind
  <2> QED  BY <1>6, <2>1
<1> QED  BY <1>4, <1>5, <1>6

-----------------------------------------------------------------------------
(* The invariant.                                                           *)

LEMMA ApiInvStep ==
  ASSUME ApiInv, [ApiNext]_apiVars
  PROVE  ApiInv'
<1>0. /\ detailSchema' \in {"unset", "ready", "failed"} /\ area' \in {"accounts", "meetings"}
      /\ ApiTypeOK /\ call \in [Requests -> Calls]
  BY SchemaTyped DEF ApiInv
<1>1. ASSUME NEW r \in Requests, StepKind(r)
      PROVE  ApiInv'
  <2>1. call' \in [Requests -> Calls] /\ Shape'
    BY <1>1, CallsKept
  <2>2. TokenInv' /\ LoginInv' /\ SetupInv' /\ SnapInv'
    BY <1>1, TokensKept, LoginKept, SetupKept, SnapsKept
  <2>3. OwnerInv' /\ DetailsOnlyByOwners'
    BY <1>1, OwnersKept, CallersKept DEF OwnerInv
  <2>4. AccountTypeOK'
    BY <1>1, <2>1, UsersTyped, SessionsMove DEF AccountTypeOK
  <2>5. MeetingTypeOK'
    BY <1>0, <1>1, OwnersKept, SummariesTyped DEF MeetingTypeOK
  <2> QED  BY <1>0, <2>1, <2>2, <2>3, <2>4, <2>5 DEF ApiInv, ApiTypeOK
<1>2. ASSUME NEW t \in Tokens, Expire(t), UNCHANGED meetingVars
      PROVE  ApiInv'
  <2> DEFINE row == [sessions[t] EXCEPT !.state = "ended"]
  <2>1. /\ sessions \in [Tokens -> SessionRows \cup {NoSession}] /\ sessions[t] \in SessionRows
        /\ sessions[t].state = "valid"
    BY <1>0, <1>2 DEF Expire, ApiTypeOK, AccountTypeOK
  <2>2. row \in SessionRows /\ row.state = "ended" /\ row.user = sessions[t].user /\ row # NoSession
    BY <2>1, StateSet, RowsAreSessions
  <2>3. /\ sessions' = [sessions EXCEPT ![t] = row]
        /\ UNCHANGED <<users, call, meetings, details, summaries, owners>>
    BY <1>2 DEF Expire, meetingVars
  <2> HIDE DEF row
  <2>4. sessions' \in [Tokens -> SessionRows \cup {NoSession}]
    BY <2>1, <2>2, <2>3
  <2>5. TokenInv'
    <3>1. TokenInv
      BY DEF ApiInv
    <3>2. \A x \in Tokens : /\ sessions[x] # NoSession => sessions'[x] # NoSession
                            /\ sessions[x] # NoSession => (sessions'[x].state = "untold" <=> sessions[x].state = "untold")
      BY <2>1, <2>2, <2>3
    <3> QED  BY <2>3, <3>1, <3>2 DEF TokenInv
  <2>6. OwnerInv'
    <3>1. OwnerInv /\ TokenInv
      BY DEF ApiInv
    <3>2. \A x \in Tokens : sessions'[x].user = sessions[x].user
      BY <2>1, <2>2, <2>3
    <3>3. \A q \in Requests : call[q].stage \in {"found", "items_write"} => Caller(q)' = Caller(q)
      BY <2>3, <3>1, <3>2 DEF TokenInv, Serving, Caller
    <3> QED  BY <2>3, <3>1, <3>3 DEF OwnerInv
  <2>7. Shape' /\ LoginInv' /\ SetupInv' /\ SnapInv' /\ DetailsOnlyByOwners'
    BY <2>3 DEF ApiInv, Shape, LoginInv, SetupInv, SnapInv, DetailsOnlyByOwners
  <2>8. ApiTypeOK'
    BY <1>0, <2>3, <2>4 DEF ApiTypeOK, AccountTypeOK, MeetingTypeOK
  <2> QED  BY <1>0, <2>3, <2>5, <2>6, <2>7, <2>8 DEF ApiInv
<1>3. CASE Restart
  <2>1. /\ \A q \in Requests : call'[q] = Idle
        /\ UNCHANGED <<users, sessions, meetings, details, summaries, owners>>
        /\ call' \in [Requests -> Calls]
    BY <1>3, IdleTyped DEF Restart
  <2>2. Shape'
    BY <2>1, IdleShape DEF Shape
  <2>3. TokenInv' /\ LoginInv' /\ SnapInv'
    BY <2>1, IdleTyped DEF TokenInv, LoginInv, SnapInv, Touching, Serving, LoginStages, WriteStages
  <2>4. SetupInv' /\ OwnerInv' /\ DetailsOnlyByOwners'
    BY <2>1, IdleTyped DEF ApiInv, SetupInv, OwnerInv, DetailsOnlyByOwners
  <2>5. ApiTypeOK'
    BY <1>0, <2>1 DEF ApiTypeOK, AccountTypeOK, MeetingTypeOK
  <2> QED  BY <2>1, <2>2, <2>3, <2>4, <2>5 DEF ApiInv
<1>4. CASE UNCHANGED <<accountVars, meetingVars>>
  <2>1. UNCHANGED <<users, sessions, call, meetings, details, summaries, owners>>
    BY <1>4 DEF accountVars, meetingVars
  <2>2. Shape' /\ TokenInv' /\ LoginInv' /\ SetupInv' /\ SnapInv'
    BY <2>1 DEF ApiInv, Shape, TokenInv, LoginInv, SetupInv, SnapInv
  <2>3. OwnerInv' /\ DetailsOnlyByOwners'
    BY <2>1 DEF ApiInv, OwnerInv, Caller, DetailsOnlyByOwners
  <2>4. ApiTypeOK'
    BY <1>0, <2>1 DEF ApiTypeOK, AccountTypeOK, MeetingTypeOK
  <2> QED  BY <1>0, <2>1, <2>2, <2>3, <2>4 DEF ApiInv
<1> QED  BY <1>1, <1>2, <1>3, <1>4, StepKinds

LEMMA ApiInvInit == ApiInit => ApiInv
<1> SUFFICES ASSUME ApiInit
             PROVE  ApiInv
  OBVIOUS
<1>1. /\ meetings = [m \in Meetings |-> NoUser] /\ details = [m \in Meetings |-> NoUser]
      /\ summaries = [m \in Meetings |-> Nothing] /\ owners = [m \in Meetings |-> {}]
      /\ detailSchema = "unset" /\ area \in {"accounts", "meetings"}
      /\ call = [r \in Requests |-> Idle]
  BY DEF ApiInit, NoMeetings, EmptyDatabase, TwoAccounts
<1>2. MeetingTypeOK /\ DetailsOnlyByOwners
  BY <1>1 DEF MeetingTypeOK, DetailsOnlyByOwners
<1>3. /\ users \in [Users -> Accounts \cup {NoUser}]
      /\ sessions \in [Tokens -> SessionRows \cup {NoSession}]
  <2>1. CASE EmptyDatabase
    BY <2>1 DEF EmptyDatabase
  <2>2. CASE TwoAccounts
    <3>1. PICK u1 \in Users, u2 \in Users, t1 \in Tokens, t2 \in Tokens, p \in Passwords :
            /\ u1 # u2 /\ t1 # t2
            /\ users = [u \in Users |-> IF u \in {u1, u2}
                        THEN [role |-> IF u = u1 THEN "admin" ELSE "member",
                              status |-> "active", password |-> p]
                        ELSE NoUser]
            /\ sessions = [t \in Tokens |-> IF t \in {t1, t2}
                           THEN [user |-> IF t = t1 THEN u1 ELSE u2, state |-> "valid"]
                           ELSE NoSession]
            /\ call = [r \in Requests |-> Idle]
      BY <2>2, Zenon DEF TwoAccounts
    <3> DEFINE Account(u) == [role |-> IF u = u1 THEN "admin" ELSE "member",
                              status |-> "active", password |-> p]
               Row(t) == [user |-> IF t = t1 THEN u1 ELSE u2, state |-> "valid"]
    <3>2. \A u \in Users : Account(u) \in Accounts
      BY DEF Accounts, Roles, Statuses
    <3>3. \A t \in Tokens : Row(t) \in SessionRows
      BY DEF SessionRows
    <3>4. /\ users = [u \in Users |-> IF u \in {u1, u2} THEN Account(u) ELSE NoUser]
          /\ sessions = [t \in Tokens |-> IF t \in {t1, t2} THEN Row(t) ELSE NoSession]
      BY <3>1
    <3> HIDE DEF Account, Row
    <3>5. users \in [Users -> Accounts \cup {NoUser}]
      BY <3>2, <3>4
    <3>6. sessions \in [Tokens -> SessionRows \cup {NoSession}]
      BY <3>3, <3>4
    <3> QED  BY <3>5, <3>6
  <2> QED  BY <2>1, <2>2 DEF ApiInit
<1>4. \A q \in Requests : call[q] = Idle
  BY <1>1
<1>5. call \in [Requests -> Calls] /\ Shape
  BY <1>1, IdleTyped, IdleShape DEF Shape
<1>6. TokenInv /\ LoginInv /\ SnapInv
  BY <1>4, IdleTyped DEF TokenInv, LoginInv, SnapInv, Touching, Serving, LoginStages, WriteStages
<1>7. SetupInv
  BY <1>4, IdleTyped DEF SetupInv
<1>8. OwnerInv
  BY <1>1, <1>4, IdleTyped DEF OwnerInv
<1>9. AccountTypeOK
  BY <1>1, <1>3 DEF AccountTypeOK
<1> QED  BY <1>1, <1>2, <1>5, <1>6, <1>7, <1>8, <1>9 DEF ApiInv, ApiTypeOK

LEMMA ApiInvHolds == ApiSpec => []ApiInv
BY ApiInvInit, ApiInvStep, PTL DEF ApiSpec

\* Accounts, sessions, meetings and details keep their types, whatever requests
\* race, fail or are cut off by a restart (the Postgres stores of internal/admin).
THEOREM ApiTyped == ApiSpec => []ApiTypeOK
<1>1. ApiInv => ApiTypeOK
  BY DEF ApiInv
<1> QED  BY <1>1, ApiInvHolds, PTL

\* Whoever wrote a detail of a meeting owned it at some time, for any number of
\* users, meetings and requests (findMeetingForUser).
THEOREM DetailsWrittenByOwners == ApiSpec => []DetailsOnlyByOwners
<1>1. ApiInv => DetailsOnlyByOwners
  BY DEF ApiInv
<1> QED  BY <1>1, ApiInvHolds, PTL

\* A session that was revoked or has expired is never usable again, although
\* requests that read it before are still under way (Logout, TouchSession).
THEOREM RevokedStaysRevoked == ApiSpec => EndedSessionsStayEnded
<1>1. ASSUME ApiInv, [ApiNext]_apiVars
      PROVE  [\A t \in Tokens :
                sessions[t] # NoSession /\ sessions[t].state = "ended" => sessions'[t] = sessions[t]]_accountVars
  <2> SUFFICES ASSUME NEW t \in Tokens, sessions[t] # NoSession, sessions[t].state = "ended"
               PROVE  sessions'[t] = sessions[t]
    OBVIOUS
  <2>1. ASSUME NEW r \in Requests, StepKind(r)
        PROVE  sessions'[t] = sessions[t]
    BY <1>1, <2>1, SessionsMove DEF SessionStays
  <2>2. ASSUME NEW x \in Tokens, Expire(x)
        PROVE  sessions'[t] = sessions[t]
    <3>1. x # t
      BY <2>2 DEF Expire
    <3> QED  BY <1>1, <2>2, <3>1 DEF Expire, ApiInv, ApiTypeOK, AccountTypeOK
  <2>3. CASE UNCHANGED sessions
    BY <2>3
  <2> QED  BY <1>1, <2>1, <2>2, <2>3, StepKinds DEF Restart, accountVars
<1> QED  BY <1>1, ApiInvHolds, PTL DEF ApiSpec, EndedSessionsStayEnded

\* A setup succeeds only if it found no administrator and no other setup has
\* succeeded since: of any number that race past the check, one creates an
\* administrator (CreateInitialAdmin's advisory lock).
THEOREM OneSetupSucceeds == ApiSpec => SetupOnlyOnce
<1>1. ASSUME ApiInv
      PROVE  [\A r \in Requests :
                call[r].stage = "setup_insert" /\ call'[r].stage = "authenticate" => ~ call[r].dirty]_accountVars
  BY <1>1 DEF ApiInv, SetupInv
<1> QED  BY <1>1, ApiInvHolds, PTL DEF ApiSpec, SetupOnlyOnce

\* Who moves a request: it itself, or a restart, which writes nothing.
LEMMA MovesItself ==
  ASSUME ApiInv, [ApiNext]_apiVars, NEW r \in Requests, call'[r].stage # call[r].stage,
         users' # users \/ summaries' # summaries
  PROVE  StepKind(r)
<1>1. ASSUME NEW q \in Requests, StepKind(q)
      PROVE  StepKind(r)
  BY <1>1, OwnCall, OthersKeep DEF ApiInv
<1> QED  BY <1>1, StepKinds DEF Expire, Restart, accountVars, meetingVars

\* A login, an update or a reset changes only the fields it is about, unless
\* another write came between its read and its own write (the upserts of
\* user_postgres_store.go write whole rows).
THEOREM OnlyOwnFieldsChange == ApiSpec => OthersFieldsKept
<1>1. ASSUME ApiInv, [ApiNext]_apiVars
      PROVE  [\A r \in Requests :
                LET c == call[r] IN
                c.stage \in WriteStages /\ ~c.dirty /\ call'[r].stage # c.stage /\ users' # users
                  => /\ users'[c.target] \in Meant(c, users[c.target])
                     /\ \A u \in Users \ {c.target} : users'[u] = users[u]]_accountVars
  <2> SUFFICES ASSUME NEW r \in Requests, call[r].stage \in WriteStages, ~ call[r].dirty,
                      call'[r].stage # call[r].stage, users' # users
               PROVE  /\ users'[call[r].target] \in Meant(call[r], users[call[r].target])
                      /\ \A u \in Users \ {call[r].target} : users'[u] = users[u]
    OBVIOUS
  <2>0. /\ users \in [Users -> Accounts \cup {NoUser}] /\ AboutAccount(call[r])
        /\ users[call[r].target] = IF call[r].stage = "create_write" THEN NoUser ELSE call[r].snap
    BY <1>1 DEF ApiInv, ApiTypeOK, AccountTypeOK, Shape, SnapInv
  <2>1. StepKind(r)
    BY <1>1, MovesItself
  <2>2. Upserts(r)
    BY <1>1, <2>1, UsersMove DEF Inserts, InsertInitialAdmin, WriteStages
  <2>3. PICK account \in Written(call[r]) : UpsertUser(r, call[r].target, account)
    BY <2>2 DEF Upserts
  <2>4. call[r].target \in Users
    BY <2>0 DEF AboutAccount
  <2>5. account \in Meant(call[r], users[call[r].target])
    BY <2>0 DEF Written
  <2> QED  BY <2>0, <2>3, <2>4, <2>5 DEF UpsertUser
<1> QED  BY <1>1, ApiInvHolds, PTL DEF ApiSpec, OthersFieldsKept

\* Action items that arrive late change neither text nor final flag of a summary
\* and never lower its version, unless another write of the summary came between
\* their read and their write (ApplyActionItems).
THEOREM LateItemsKeepTheSummary == ApiSpec => ItemsKeepTheSummary
<1>1. ASSUME ApiInv, [ApiNext]_apiVars
      PROVE  [\A r \in Requests :
                LET m == call[r].target IN
                call[r].stage = "items_write" /\ ~call[r].dirty
                  /\ call'[r].stage = "idle" /\ summaries' # summaries /\ summaries[m] # Nothing
                  => /\ summaries'[m].text = summaries[m].text
                     /\ summaries'[m].version >= summaries[m].version
                     /\ summaries[m].final => summaries'[m].final]_<<accountVars, meetingVars>>
  <2> SUFFICES ASSUME NEW r \in Requests, NEW m, m = call[r].target, call[r].stage = "items_write", ~ call[r].dirty,
                      call'[r].stage = "idle", summaries' # summaries, summaries[m] # Nothing
               PROVE  /\ summaries'[m].text = summaries[m].text
                      /\ summaries'[m].version >= summaries[m].version
                      /\ summaries[m].final => summaries'[m].final
    OBVIOUS
  <2>0. /\ summaries \in [Meetings -> Summaries \cup {Nothing}]
        /\ m \in Meetings /\ call[r].arg \in Reports /\ summaries[m] = call[r].snap
    BY <1>1 DEF ApiInv, ApiTypeOK, MeetingTypeOK, Shape, AboutMeeting, SnapInv
  <2>1. StepKind(r)
    BY <1>1, MovesItself
  <2>2. Summarises(r)
    BY <2>1 DEF StepKind, Goes, Reading, Quits, Opens, LogsOut, Inserts, Upserts, meetingVars
  <2>3. summaries'[m] = WithItems(summaries[m], call[r].arg) /\ summaries[m] \in Summaries
    BY <2>0, <2>2 DEF Summarises, UpsertSummary
  <2>4. summaries[m].version \in Int /\ call[r].arg.version \in Int
    BY <2>0, <2>3, ReportTyped, MeetingRecordsAssumption DEF Summaries, Versions
  <2>5. Larger(summaries[m].version, call[r].arg.version) >= summaries[m].version
    BY <2>4 DEF Larger
  <2>6. /\ WithItems(summaries[m], call[r].arg).text = summaries[m].text
        /\ WithItems(summaries[m], call[r].arg).version = Larger(summaries[m].version, call[r].arg.version)
        /\ WithItems(summaries[m], call[r].arg).final = (summaries[m].final \/ call[r].arg.final)
    BY <2>3 DEF WithItems, Summaries
  <2> QED  BY <2>3, <2>5, <2>6
<1> QED  BY <1>1, ApiInvHolds, PTL DEF ApiSpec, ItemsKeepTheSummary

=============================================================================
