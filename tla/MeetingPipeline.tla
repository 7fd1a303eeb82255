--------------------------- MODULE MeetingPipeline ---------------------------
(***************************************************************************)
(* The session manager (internal/session/manager.go) between the two       *)
(* goroutines that drive it and the services it drives:                    *)
(*                                                                         *)
(*   Mqtt  runs one control message at a time to completion, its replies   *)
(*         published (transport/mqtt: OrderMatters, Runtime.Run)           *)
(*   Udp   runs one audio packet at a time to completion, its delta        *)
(*         published (transport/udp: ListenAndServe)                       *)
(*                                                                         *)
(* The manager's lock covers only its own map.  Everything after it - the  *)
(* STT call, the transcript store, the analysis queue, the publication -   *)
(* is done with no lock held, step by step, and the other goroutine may    *)
(* move between any two of these steps.                                    *)
(***************************************************************************)
EXTENDS SttService

CONSTANTS
  Clients,      \* desktop clients
  Udp, Mqtt,    \* the two goroutines
  Faults,       \* which faults the environment may inject
  MaxControls,  \* bound: control messages handled
  NoMeeting     \* "no entry in the map"

ASSUME PipelineAssumption ==
  /\ Udp # Mqtt
  /\ Callers = {Udp, Mqtt}
  /\ Faults \subseteq {"store", "broker", "malformed"}
  /\ MaxControls \in Nat

VARIABLES
  meetings,  \* Manager.sessions: [Sessions -> [client, status] or NoMeeting]
  stage,     \* where each goroutine is in the manager's method it runs
  owner,     \* ClientID of the session object each goroutine holds
  replies,   \* replies of the control message in hand, still to publish
  store,     \* transcript store: the snapshot of each meeting
  jobs,      \* history: jobs handed to the analysis runtime
  late,      \* history: deltas published since the session left "recording"
  finished,  \* history: ids of the transcripts whose final was replied
  controls   \* bound: control messages handled so far

pipeVars == <<meetings, stage, owner, replies, store, jobs, late, finished, controls>>
vars == <<sttVars, pipeVars>>

Statuses == {"ready", "recording", "paused", "completed"}
ASSUME MeetingAssumption == NoMeeting \notin [client : Clients, status : Statuses]
Known(s) == meetings[s] # NoMeeting
Recording(s) == Known(s) /\ meetings[s].status = "recording"

Move(g, label) == stage' = [stage EXCEPT ![g] = label]

-----------------------------------------------------------------------------
(* Control messages (HandleControlMessage), one at a time.                  *)

\* A message that changes nothing but replies is not counted: the callback
\* loop goes on for ever, and a system at its bounds is still not deadlocked.
TakeIdempotent ==
  /\ stage[Mqtt] = "waiting"
  /\ UNCHANGED controls

TakeControl ==
  /\ stage[Mqtt] = "waiting"
  /\ controls < MaxControls
  /\ controls' = controls + 1

ReplyWith(types) ==
  /\ Move(Mqtt, "replying")
  /\ replies' = types

\* HandleHello: a fresh session object replaces whatever was there.
Hello(client, s) ==
  /\ TakeControl
  /\ meetings' = [meetings EXCEPT ![s] = [client |-> client, status |-> "ready"]]
  /\ ReplyWith(<<"session_hello">>)
  /\ UNCHANGED <<sttVars, owner, store, jobs, late, finished>>

\* Any other message for a session the manager does not know, an unsupported
\* type, or a hello without ids: an error reply and nothing else.
Refuse ==
  /\ TakeIdempotent
  /\ ReplyWith(<<"error">>)
  /\ UNCHANGED <<sttVars, meetings, owner, store, jobs, late, finished>>

\* ResumeSession and Heartbeat: only the time of the last heartbeat changes,
\* which nothing reads.
Acknowledge(s) ==
  /\ TakeIdempotent
  /\ Known(s)
  /\ \E type \in {"ack", "heartbeat"} : ReplyWith(<<type>>)
  /\ UNCHANGED <<sttVars, meetings, owner, store, jobs, late, finished>>

\* StartRecording and ResumeRecording: from whatever status the session has.
StartOrResume(s) ==
  /\ TakeControl
  /\ Known(s)
  /\ meetings' = [meetings EXCEPT ![s].status = "recording"]
  /\ late' = [late EXCEPT ![s] = 0]
  /\ \E type \in {"recording_started", "recording_resumed"} : ReplyWith(<<type>>)
  /\ UNCHANGED <<sttVars, owner, store, jobs, finished>>

PauseRecording(s) ==
  /\ TakeControl
  /\ Known(s)
  /\ meetings' = [meetings EXCEPT ![s].status = "paused"]
  /\ ReplyWith(<<"recording_paused">>)
  /\ UNCHANGED <<sttVars, owner, store, jobs, late, finished>>

\* StopRecording up to the call of Flush.
\* Fault: the session is still recording while its transcript is flushed.
StopStillRecording(s) ==
  /\ TakeControl
  /\ Known(s)
  /\ UNCHANGED meetings
  /\ owner' = [owner EXCEPT ![Mqtt] = meetings[s].client]
  /\ BeginFlush(Mqtt, s)
  /\ Move(Mqtt, "flushing")
  /\ UNCHANGED <<replies, store, jobs, late, finished>>

StopRecording(s) ==
  /\ TakeControl
  /\ Known(s)
  /\ meetings' = [meetings EXCEPT ![s].status = "completed"]
  /\ owner' = [owner EXCEPT ![Mqtt] = meetings[s].client]
  /\ BeginFlush(Mqtt, s)
  /\ Move(Mqtt, "flushing")
  /\ UNCHANGED <<replies, store, jobs, late, finished>>

\* ParseControlEnvelope fails: the callback reports the error and replies
\* nothing; Runtime.Run returns it and disconnects.
Malformed ==
  /\ "malformed" \in Faults
  /\ TakeControl
  /\ Move(Mqtt, "down")
  /\ UNCHANGED <<sttVars, meetings, owner, replies, store, jobs, late, finished>>

-----------------------------------------------------------------------------
(* StopRecording after Flush returned.                                      *)

StopReplies == IF call[Mqtt].result = NoPayload
               THEN <<"recording_stopped">>
               ELSE <<"stt_final", "recording_stopped">>

\* Nothing to finish: the session just stopped.
StopWithoutFinal ==
  /\ stage[Mqtt] = "flushing"
  /\ call[Mqtt].result = NoPayload
  /\ EndCall(Mqtt)
  /\ ReplyWith(StopReplies)
  /\ UNCHANGED <<meetings, owner, store, jobs, late, finished, controls>>

Upsert(payload) == store' = [store EXCEPT ![payload.session] = payload]

PersistFinal ==
  /\ stage[Mqtt] = "flushing"
  /\ pc[Mqtt] = "returned" /\ call[Mqtt].result # NoPayload
  /\ Upsert(call[Mqtt].result)
  /\ Move(Mqtt, "persisted")
  /\ UNCHANGED <<sttVars, meetings, owner, replies, jobs, late, finished, controls>>

\* Fault: the store's error is dropped, and with it the replies.
PersistFinalSilent ==
  /\ "store" \in Faults
  /\ stage[Mqtt] = "flushing"
  /\ call[Mqtt].result # NoPayload
  /\ EndCall(Mqtt)
  /\ Move(Mqtt, "waiting")
  /\ UNCHANGED <<meetings, owner, replies, store, jobs, late, finished, controls>>

\* The store refuses the final: only an error is replied.  The session stays
\* completed and its transcript is gone from the STT service.
PersistFinalFails ==
  /\ "store" \in Faults
  /\ stage[Mqtt] = "flushing"
  /\ call[Mqtt].result # NoPayload
  /\ EndCall(Mqtt)
  /\ ReplyWith(<<"error">>)
  /\ UNCHANGED <<meetings, owner, store, jobs, late, finished, controls>>

Schedule(g, final) ==
  jobs' = Append(jobs, [client |-> owner[g], session |-> call[g].session, final |-> final])

ScheduleFinal ==
  /\ stage[Mqtt] = "persisted"
  /\ Schedule(Mqtt, TRUE)
  /\ ReplyWith(StopReplies)
  /\ finished' = finished \cup {call[Mqtt].result.id}
  /\ EndCall(Mqtt)
  /\ UNCHANGED <<meetings, owner, store, late, controls>>

\* Fault: only the first reply of a message is published.
PublishFirstReply ==
  /\ stage[Mqtt] = "replying"
  /\ replies' = Tail(replies)
  /\ Move(Mqtt, "waiting")
  /\ UNCHANGED <<sttVars, meetings, owner, store, jobs, late, finished, controls>>

PublishReply ==
  /\ stage[Mqtt] = "replying"
  /\ replies' = Tail(replies)
  /\ Move(Mqtt, IF Len(replies) = 1 THEN "waiting" ELSE "replying")
  /\ UNCHANGED <<sttVars, meetings, owner, store, jobs, late, finished, controls>>

\* A publication fails: the replies after it are not sent, and the runtime ends.
PublishFails ==
  /\ "broker" \in Faults
  /\ stage[Mqtt] = "replying"
  /\ replies' = <<>>
  /\ Move(Mqtt, "down")
  /\ UNCHANGED <<sttVars, meetings, owner, store, jobs, late, finished, controls>>

-----------------------------------------------------------------------------
(* HandleMixedAudio, one packet at a time.                                  *)

\* Fault: a packet is admitted for any session the manager knows.
AdmissibleAlways(s) == Known(s)

\* sessionForIngest; a packet that is not admissible is dropped without a trace.
Admissible(s) == Recording(s)

AdmitPacket(s) ==
  /\ stage[Udp] = "reading"
  /\ Admissible(s)
  /\ owner' = [owner EXCEPT ![Udp] = meetings[s].client]
  /\ BeginConsume(Udp, s)
  /\ Move(Udp, "consuming")
  /\ UNCHANGED <<meetings, replies, store, jobs, late, finished, controls>>

NoDelta ==
  /\ stage[Udp] = "consuming"
  /\ call[Udp].result = NoPayload
  /\ EndCall(Udp)
  /\ Move(Udp, "reading")
  /\ UNCHANGED <<meetings, owner, replies, store, jobs, late, finished, controls>>

PersistDelta ==
  /\ stage[Udp] = "consuming"
  /\ pc[Udp] = "returned" /\ call[Udp].result # NoPayload
  /\ Upsert(call[Udp].result)
  /\ Move(Udp, "persisted")
  /\ UNCHANGED <<sttVars, meetings, owner, replies, jobs, late, finished, controls>>

\* The store refuses the delta: it is neither analysed nor published.
PersistDeltaFails ==
  /\ "store" \in Faults
  /\ stage[Udp] = "consuming"
  /\ call[Udp].result # NoPayload
  /\ EndCall(Udp)
  /\ Move(Udp, "reading")
  /\ UNCHANGED <<meetings, owner, replies, store, jobs, late, finished, controls>>

ScheduleDelta ==
  /\ stage[Udp] = "persisted"
  /\ Schedule(Udp, FALSE)
  /\ Move(Udp, "scheduled")
  /\ UNCHANGED <<sttVars, meetings, owner, replies, store, late, finished, controls>>

PublishDelta ==
  /\ stage[Udp] = "scheduled"
  /\ LET s == call[Udp].session
     IN late' = [late EXCEPT ![s] = IF Recording(s) THEN @ ELSE @ + 1]
  /\ EndCall(Udp)
  /\ Move(Udp, "reading")
  /\ UNCHANGED <<meetings, owner, replies, store, jobs, finished, controls>>

-----------------------------------------------------------------------------
(* A step of the STT call a goroutine is in, and of the administrator.      *)

InCall(g) ==
  /\ stage[g] \in {"consuming", "flushing"}
  /\ CallStep(g)
  /\ UNCHANGED pipeVars

ApplyConfig == \E p \in Providers : SetConfig(p) /\ UNCHANGED pipeVars

MqttStep ==
  \/ InCall(Mqtt) \/ StopWithoutFinal \/ PersistFinal \/ PersistFinalFails
  \/ ScheduleFinal \/ PublishReply \/ PublishFails

UdpStep ==
  \/ InCall(Udp) \/ NoDelta \/ PersistDelta \/ PersistDeltaFails
  \/ ScheduleDelta \/ PublishDelta

Control ==
  \/ Refuse \/ Malformed
  \/ \E s \in Sessions :
       \/ \E client \in Clients : Hello(client, s)
       \/ Acknowledge(s) \/ StartOrResume(s) \/ PauseRecording(s) \/ StopRecording(s)

Init ==
  /\ SttInit
  /\ meetings = [s \in Sessions |-> NoMeeting]
  /\ stage = [g \in Callers |-> IF g = Udp THEN "reading" ELSE "waiting"]
  /\ owner = [g \in Callers |-> NoMeeting]
  /\ replies = <<>>
  /\ store = [s \in Sessions |-> NoPayload]
  /\ jobs = <<>>
  /\ late = [s \in Sessions |-> 0]
  /\ finished = {}
  /\ controls = 0

Next ==
  /\ ~ crashed
  /\ \/ Control \/ MqttStep
     \/ UdpStep
     \/ \E s \in Sessions : AdmitPacket(s)
     \/ ApplyConfig

Spec == Init /\ [][Next]_vars

\* Every goroutine in the middle of its work goes on with it: locks are held for
\* single map operations, every model call has a client-side timeout, and a
\* statement of the store is taken to return.  A publication waits for the
\* broker as long as it takes, and is not asked to be done.
FairSpec ==
  /\ Spec
  /\ WF_vars(~ crashed /\ stage[Mqtt] # "replying" /\ MqttStep)
  /\ WF_vars(~ crashed /\ stage[Udp] # "scheduled" /\ UdpStep)

-----------------------------------------------------------------------------
ReplyTypes == {"session_hello", "error", "ack", "heartbeat", "recording_started",
               "recording_resumed", "recording_paused", "stt_final", "recording_stopped"}

(* Type invariant of the manager's state, with the stages of the two        *)
(* goroutines tied to the call each has in progress.                        *)
TypeOK ==
  /\ SttTypeOK
  /\ meetings \in [Sessions -> [client : Clients, status : Statuses] \cup {NoMeeting}]
  /\ stage \in [Callers -> {"reading", "consuming", "scheduled", "persisted",
                           "waiting", "flushing", "replying", "down"}]
  /\ stage[Udp] \in {"reading", "consuming", "persisted", "scheduled"}
  /\ stage[Mqtt] \in {"waiting", "flushing", "persisted", "replying", "down"}
  /\ owner \in [Callers -> Clients \cup {NoMeeting}]
  /\ replies \in Seq(ReplyTypes)
  /\ stage[Mqtt] = "replying" <=> replies # <<>>
  /\ store \in [Sessions -> PayloadType \cup {NoPayload}]
  /\ jobs \in Seq([client : Clients, session : Sessions, final : BOOLEAN])
  /\ late \in [Sessions -> Nat]
  /\ finished \subseteq Nat
  /\ controls \in Nat
  /\ pc[Udp] = "idle" <=> stage[Udp] = "reading"
  /\ pc[Mqtt] = "idle" <=> stage[Mqtt] \in {"waiting", "replying", "down"}

(* Once a session has left "recording", the client gets at most one more    *)
(* delta until it is started again: a packet admitted before (the check in  *)
(* sessionForIngest is not repeated after Consume returns) may still be in  *)
(* the UDP goroutine's hands, and that goroutine holds one at a time.       *)
LateDeltasBounded == \A s \in Sessions : late[s] <= 1

(* A final of the HTTP recognizer misses at most one packet of the          *)
(* transcript it ends: flushWithRecognizer deletes the entry it captured    *)
(* the audio from a whole recognition earlier, and what was buffered in     *)
(* between goes with it.  StopRecording completes the session first, which  *)
(* keeps that to the one packet already admitted.  When the recognizer      *)
(* answers with an error, nothing or the same words, the final repeats the  *)
(* text kept when the flush began, and all that was recorded since that     *)
(* text was recognized is missing from it.                                  *)
FinalMissesAtMostOne ==
  [][ pc[Mqtt] = "recognize" /\ pc'[Mqtt] = "returned" /\ call'[Mqtt].result # NoPayload
        => LET st    == sessions[call[Mqtt].session]
               final == call'[Mqtt].result
           IN \/ st = NoState
              \/ Cardinality(st.pcm \ final.text) <= 1
              \/ final.text = call[Mqtt].prev ]_vars

\* The transcripts of s a delta was issued of and no final replied.
Unfinished(s) ==
  {id \in 1..created : id \notin finished /\
     \E i \in 1..Len(issued) :
        issued[i].session = s /\ issued[i].id = id /\ ~ issued[i].final}

(* A stop that finds nothing to flush leaves nothing of the session         *)
(* unfinished: every transcript the client has seen a delta of has had its  *)
(* stt_final (README.md:122, StopRecording and Flush).                      *)
EveryRecordingIsFinished ==
  [][ call[Mqtt].op = "flush" /\ pc[Mqtt] # "returned" /\ pc'[Mqtt] = "returned"
        /\ call'[Mqtt].result = NoPayload
        => Unfinished(call[Mqtt].session) = {} ]_vars

(* The stub loses and repeats nothing: a packet it has consumed is in the   *)
(* session's live chunks or in the text of exactly one final, whatever the  *)
(* order of packets, stops and restarts (consumeStub, flushStub).           *)
AudioAccountedFor ==
  \A p \in 1..packets :
    \/ \E g \in Callers : call[g].packet = p /\ pc[g] \in {"provider", "stub"}
    \/ Cardinality({s \in Sessions : sessions[s] # NoState /\ p \in sessions[s].chunks})
         + Cardinality({i \in 1..Len(issued) : issued[i].final /\ p \in issued[i].text}) = 1

(* A session that is completed and at rest leaves at most one chunk in the  *)
(* stub, the straggler's: a next recording under the same id starts from    *)
(* almost nothing.                                                          *)
LeftoverBounded ==
  \A s \in Sessions :
    Known(s) /\ meetings[s].status = "completed" /\ pc[Udp] = "idle" /\ pc[Mqtt] = "idle"
      /\ sessions[s] # NoState
      => Cardinality(sessions[s].chunks) <= 1

(* While a session stays completed, its final snapshot is the one the store *)
(* keeps (UpsertSnapshot overwrites whatever is there).                     *)
FinalSnapshotStays ==
  [][ \A s \in Sessions :
        /\ Known(s) /\ meetings[s].status = "completed" /\ store[s].final
        /\ meetings'[s] = meetings[s]
        => store'[s].final ]_vars

(* Changing the provider never takes the process down.                      *)
SurvivesReconfiguration == ~ crashed

(* A stop always comes to its replies, whatever the provider answers and    *)
(* however the administrator reconfigures it meanwhile.                     *)
StopIsAnswered == stage[Mqtt] = "flushing" ~> stage[Mqtt] = "replying"
=============================================================================
