------------------------------ MODULE AdminApi ------------------------------
(***************************************************************************)
(* The HTTP API of internal/admin/http.go over accounts, sessions and      *)
(* meetings.  NewHandler puts the same middleware before every group of    *)
(* routes, and every request is a goroutine of its own; this module lets   *)
(* the requests of UserAccounts and MeetingRecords interleave.             *)
(*                                                                         *)
(* `area` says which routes the clients of a behaviour use, so that the    *)
(* two groups share the middleware but do not multiply each other's        *)
(* states.                                                                 *)
(***************************************************************************)
EXTENDS MeetingRecords

VARIABLE area

apiVars == <<accountVars, meetingVars, area>>

\* A database in use: two accounts and a token for each.
TwoAccounts ==
  \E u1, u2 \in Users, t1, t2 \in Tokens, p \in Passwords :
    /\ u1 # u2 /\ t1 # t2
    /\ users = [u \in Users |-> IF u \in {u1, u2}
                THEN [role |-> IF u = u1 THEN "admin" ELSE "member",
                      status |-> "active", password |-> p]
                ELSE NoUser]
    /\ sessions = [t \in Tokens |-> IF t \in {t1, t2}
                   THEN [user |-> IF t = t1 THEN u1 ELSE u2, state |-> "valid"]
                   ELSE NoSession]
    /\ call = [r \in Requests |-> Idle]

ApiInit ==
  /\ NoMeetings
  /\ \/ area = "accounts" /\ EmptyDatabase
     \/ area = "meetings" /\ TwoAccounts

\* One step of the goroutine that serves r, on either group of routes.
Serve(r) ==
  \/ AccountStep(r) /\ UNCHANGED meetingVars
  \/ MeetingStep(r) /\ UNCHANGED <<users, sessions>>

\* The process is killed and started again: requests are gone, tables stay,
\* and the detail store's schemaOnce starts over.
Restart ==
  /\ call' = [r \in Requests |-> Idle]
  /\ detailSchema' = "unset"
  /\ UNCHANGED <<users, sessions, meetings, details, summaries, owners>>

ApiNext ==
  /\ \/ \E r \in Requests :
          \/ area = "accounts" /\ AccountRequest(r) /\ UNCHANGED meetingVars
          \/ area = "meetings" /\ MeetingRequest(r) /\ UNCHANGED meetingVars
          \/ Serve(r)
          \/ FailRequest(r) /\ UNCHANGED meetingVars
     \/ \E t \in Tokens : area = "accounts" /\ Expire(t) /\ UNCHANGED meetingVars
     \/ area = "meetings" /\ Restart
  /\ UNCHANGED area

ApiSpec == ApiInit /\ [][ApiNext]_apiVars

ApiTypeOK == AccountTypeOK /\ MeetingTypeOK /\ area \in {"accounts", "meetings"}
=============================================================================
