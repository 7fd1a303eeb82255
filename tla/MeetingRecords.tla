--------------------------- MODULE MeetingRecords ---------------------------
(***************************************************************************)
(* Meeting records and their details as the HTTP API keeps them:           *)
(* internal/admin/meeting_service.go, meeting_detail_service.go, their     *)
(* Postgres stores, and the /api/app and /api/admin meeting routes of      *)
(* http.go.  The requests are those of UserAccounts once the middleware    *)
(* has admitted them (stage "handle").                                     *)
(*                                                                         *)
(* Of a meeting only its owner matters here.  A transcript segment, a      *)
(* checkpoint and the audio paths are rows that one statement overwrites   *)
(* whole and no branch of the code reads: the model keeps who wrote such a *)
(* row last.  A summary is the version of the text, of the action items    *)
(* and of the row, and its final flag: it is the one row that two routes   *)
(* write parts of.                                                         *)
(***************************************************************************)
EXTENDS UserAccounts

CONSTANTS
  Meetings,
  MaxVersion   \* bound: versions a client numbers its summaries with

ASSUME MeetingRecordsAssumption == MaxVersion \in Nat /\ NoUser \notin Users

VARIABLES
  meetings,      \* the table admin_meetings: the owner of each meeting
  details,       \* who last wrote a detail row of the meeting
  summaries,     \* the table meeting_summary_snapshots
  detailSchema,  \* what the detail store's schemaOnce has done in this process
  owners         \* history: everyone who ever owned the meeting

meetingVars == <<meetings, details, summaries, detailSchema, owners>>

Versions == 1..MaxVersion
Summaries == [version : Versions, text : 0..MaxVersion, items : 0..MaxVersion, final : BOOLEAN]

\* What PUT summary and PUT action-items carry; a client's last one is final.
Reports == {[version |-> v, final |-> v = MaxVersion] : v \in Versions}

Caller(r) == sessions[call[r].token].user
Larger(a, b) == IF a > b THEN a ELSE b

-----------------------------------------------------------------------------
(* Meetings *)

\* MeetingService.Upsert: the row is overwritten, owner included.
UpsertMeeting(m, owner) ==
  /\ meetings' = [meetings EXCEPT ![m] = owner]
  /\ owners' = [owners EXCEPT ![m] = @ \cup {owner}]
  /\ UNCHANGED <<details, summaries, detailSchema>>

\* PUT /api/app/meetings/{id}: the caller becomes the owner.
PutMeeting(r) ==
  /\ Handling(r, "put_meeting")
  /\ UpsertMeeting(call[r].target, Caller(r))
  /\ Answer(r)

\* PUT /api/admin/meetings/{id} looks up the account it gives the meeting to ...
CheckOwner(r) ==
  /\ Handling(r, "admin_put_meeting")
  /\ IF users[call[r].arg] = NoUser THEN Answer(r) ELSE Move(r, "put_write")
  /\ UNCHANGED meetingVars

\* ... and upserts the row.
AdminPutMeeting(r) ==
  /\ call[r].stage = "put_write"
  /\ UpsertMeeting(call[r].target, call[r].arg)
  /\ Answer(r)

\* GET /api/app/meetings and /recoverable: one query by user.
ListByUser(r) ==
  /\ Handling(r, "list_meetings")
  /\ Answer(r)
  /\ UNCHANGED meetingVars

\* GET /api/admin/meetings and /users/{id}/meetings.
AdminListMeetings(r) ==
  /\ Handling(r, "admin_list_meetings")
  /\ Answer(r)
  /\ UNCHANGED meetingVars

-----------------------------------------------------------------------------
(* Details *)

\* "put_row" and "get_row" stand for the routes that differ only in the row:
\* which of them it is shows in the last step.
DetailOps == {"get_row", "put_row", "put_summary", "put_items"}

\* Fault: the meeting is looked for among everybody's.
FindAnyMeeting(r, m) == meetings[m] # NoUser

\* findMeetingForUser lists the caller's meetings and picks this one.
FoundForUser(r, m) == meetings[m] = Caller(r)

FindMeetingForUser(r) ==
  /\ call[r].stage = "handle" /\ call[r].op \in DetailOps
  /\ IF FoundForUser(r, call[r].target) THEN Move(r, "found") ELSE Answer(r)
  /\ UNCHANGED meetingVars

Found(r, op) == call[r].stage = "found" /\ call[r].op = op

\* The first detail request of a process creates the tables, under its own
\* context: the outcome, failure included, is kept until the process ends.
EnsureSchema ==
  IF detailSchema = "unset" THEN detailSchema' \in {"ready", "failed"}
                            ELSE UNCHANGED detailSchema

\* A write of one row in a single statement, once the schema is there.
UpsertDetail(r) ==
  /\ EnsureSchema
  /\ details' = IF detailSchema' = "ready"
                THEN [details EXCEPT ![call[r].target] = Caller(r)] ELSE details
  /\ Answer(r)
  /\ UNCHANGED <<meetings, summaries, owners>>

\* PUT .../transcript-segments/{id}, .../checkpoint and .../audio-assets.
PutSegment(r) == Found(r, "put_row") /\ UpsertDetail(r)
PutCheckpoint(r) == Found(r, "put_row") /\ UpsertDetail(r)
PutAudioAssets(r) == Found(r, "put_row") /\ UpsertDetail(r)

\* A request that has read the summary of m and not yet written it.
HoldsSummary(q, m) == call[q].stage = "items_write" /\ call[q].target = m

\* UpsertSummarySnapshot: all columns; who was about to write is marked dirty.
UpsertSummary(r, m, summary) ==
  /\ summaries' = [summaries EXCEPT ![m] = summary]
  /\ details' = [details EXCEPT ![m] = Caller(r)]
  /\ call' = [q \in Requests |->
                IF q = r THEN Idle
                ELSE IF HoldsSummary(q, m) THEN [call[q] EXCEPT !.dirty = TRUE]
                ELSE call[q]]

\* PUT .../summary replaces the row, whatever version it has.
PutSummary(r) ==
  LET report == call[r].arg IN
  /\ Found(r, "put_summary")
  /\ EnsureSchema
  /\ IF detailSchema' = "ready"
     THEN UpsertSummary(r, call[r].target,
            [version |-> report.version, text |-> report.version,
             items |-> report.version, final |-> report.final])
     ELSE Answer(r) /\ UNCHANGED <<summaries, details>>
  /\ UNCHANGED <<meetings, owners>>

\* PUT .../action-items reads the latest summary ...
LatestSummary(r) ==
  /\ Found(r, "put_items")
  /\ EnsureSchema
  /\ IF detailSchema' = "ready"
     THEN call' = [call EXCEPT ![r].stage = "items_write", ![r].snap = summaries[call[r].target]]
     ELSE Answer(r)
  /\ UNCHANGED <<meetings, details, summaries, owners>>

\* Fault: the final flag is taken from the request alone.
WithTheirFinal(summary, report) ==
  [summary EXCEPT !.version = Larger(@, report.version),
                  !.items = report.version, !.final = report.final]

\* The summary with the reported action items in it.
WithItems(summary, report) ==
  [summary EXCEPT !.version = Larger(@, report.version),
                  !.items = report.version, !.final = @ \/ report.final]

OnlyItems(report) ==
  [version |-> report.version, text |-> 0, items |-> report.version, final |-> report.final]

\* ... and writes all of it back.
ApplyActionItems(r) ==
  LET summary == call[r].snap IN
  /\ call[r].stage = "items_write"
  /\ UpsertSummary(r, call[r].target,
       IF summary = Nothing THEN OnlyItems(call[r].arg) ELSE WithItems(summary, call[r].arg))
  /\ UNCHANGED <<meetings, detailSchema, owners>>

\* GET /api/app/meetings/{id} reads the segments, then the summary.
ListSegments(r) ==
  /\ Found(r, "get_row")
  /\ EnsureSchema
  /\ IF detailSchema' = "ready" THEN Move(r, "detail_summary") ELSE Answer(r)
  /\ UNCHANGED <<meetings, details, summaries, owners>>

GetDetail(r) ==
  /\ call[r].stage = "detail_summary"
  /\ Answer(r)
  /\ UNCHANGED meetingVars

\* GET .../checkpoint and .../audio-assets.
GetCheckpoint(r) ==
  /\ Found(r, "get_row")
  /\ EnsureSchema
  /\ Answer(r)
  /\ UNCHANGED <<meetings, details, summaries, owners>>

GetAudioAssets(r) ==
  /\ Found(r, "get_row")
  /\ EnsureSchema
  /\ Answer(r)
  /\ UNCHANGED <<meetings, details, summaries, owners>>

-----------------------------------------------------------------------------
MeetingStep(r) ==
  \/ PutMeeting(r) \/ CheckOwner(r) \/ AdminPutMeeting(r)
  \/ ListByUser(r) \/ AdminListMeetings(r)
  \/ FindMeetingForUser(r)
  \/ PutSegment(r) \/ PutCheckpoint(r) \/ PutAudioAssets(r)
  \/ PutSummary(r) \/ LatestSummary(r) \/ ApplyActionItems(r)
  \/ ListSegments(r) \/ GetDetail(r) \/ GetCheckpoint(r) \/ GetAudioAssets(r)

MeetingRequest(r) ==
  \E t \in Tokens :
    \/ \E op \in {"list_meetings", "admin_list_meetings"} : FindSession(r, op, t, Nothing, Nothing)
    \/ \E m \in Meetings :
         \/ FindSession(r, "put_meeting", t, m, Nothing)
         \/ \E u \in Users : FindSession(r, "admin_put_meeting", t, m, u)
         \/ \E op \in DetailOps \ {"put_summary", "put_items"} : FindSession(r, op, t, m, Nothing)
         \/ \E op \in {"put_summary", "put_items"}, report \in Reports :
              FindSession(r, op, t, m, report)

NoMeetings ==
  /\ meetings = [m \in Meetings |-> NoUser]
  /\ details = [m \in Meetings |-> NoUser]
  /\ summaries = [m \in Meetings |-> Nothing]
  /\ detailSchema = "unset"
  /\ owners = [m \in Meetings |-> {}]

-----------------------------------------------------------------------------
(* Properties *)

MeetingTypeOK ==
  /\ meetings \in [Meetings -> Users \cup {NoUser}]
  /\ details \in [Meetings -> Users \cup {NoUser}]
  /\ summaries \in [Meetings -> Summaries \cup {Nothing}]
  /\ detailSchema \in {"unset", "ready", "failed"}
  /\ owners \in [Meetings -> SUBSET Users]

\* Details exist only for a meeting, and whoever wrote them owned it at some
\* time, however the ownership moved while the request was under way
\* (findMeetingForUser runs a statement before the write).
DetailsOnlyByOwners ==
  \A m \in Meetings : details[m] # NoUser => details[m] \in owners[m]

\* Action items that arrive late change neither the text of the summary nor its
\* final flag, and never lower its version, unless another write of the summary
\* came between their own read and their own write (ApplyActionItems).
ItemsKeepTheSummary ==
  [][\A r \in Requests :
       LET m == call[r].target IN
       call[r].stage = "items_write" /\ ~call[r].dirty
         /\ call'[r].stage = "idle" /\ summaries' # summaries /\ summaries[m] # Nothing
         => /\ summaries'[m].text = summaries[m].text
            /\ summaries'[m].version >= summaries[m].version
            /\ summaries[m].final => summaries'[m].final]_<<accountVars, meetingVars>>
=============================================================================
