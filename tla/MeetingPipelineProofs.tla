------------------------ MODULE MeetingPipelineProofs ------------------------
(* What is proved of MeetingPipeline, for all its constants. *)
EXTENDS MeetingPipeline, SttServiceProofs

MeetingStates == [client : Clients, status : Statuses] \cup {NoMeeting}
Stages == {"reading", "consuming", "scheduled", "persisted",
           "waiting", "flushing", "replying", "down"}

PipeVarsOK ==
  /\ meetings \in [Sessions -> MeetingStates]
  /\ stage \in [Callers -> Stages]
  /\ late \in [Sessions -> Nat]

\* A recording session has had no late delta.
RecordingIsFresh == \A s \in Sessions : Recording(s) => late[s] = 0

\* Nor has the session of the packet the UDP goroutine has in hand.
HeldIsFresh ==
  stage[Udp] # "reading" => call[Udp].session \in Sessions /\ late[call[Udp].session] = 0

\* LateDeltasBounded is not inductive: a session with a late delta could have
\* another one in hand.
LateInv == SttTypeOK /\ PipeVarsOK /\ RecordingIsFresh /\ HeldIsFresh /\ LateDeltasBounded

-----------------------------------------------------------------------------
\* A step of the pipeline is a step of the service it extends, or none.
LEMMA PipelineSteps == Next => [SttNext]_sttVars
<1> SUFFICES ASSUME Next PROVE [SttNext]_sttVars
  OBVIOUS
<1> USE PipelineAssumption
<1>1. ASSUME Control PROVE [SttNext]_sttVars
  BY <1>1 DEF Next, Control, Refuse, Malformed, Hello, Acknowledge, StartOrResume, PauseRecording,
              StopRecording, SttNext
<1>2. ASSUME MqttStep PROVE [SttNext]_sttVars
  BY <1>2 DEF Next, MqttStep, InCall, StopWithoutFinal, PersistFinal, PersistFinalFails,
              ScheduleFinal, PublishReply, PublishFails, SttNext
<1>3. ASSUME UdpStep PROVE [SttNext]_sttVars
  BY <1>3 DEF Next, UdpStep, InCall, NoDelta, PersistDelta, PersistDeltaFails, ScheduleDelta,
              PublishDelta, SttNext
<1>4. ASSUME NEW s \in Sessions, AdmitPacket(s) PROVE [SttNext]_sttVars
  BY <1>4 DEF Next, AdmitPacket, SttNext
<1>5. ASSUME ApplyConfig PROVE [SttNext]_sttVars
  BY <1>5 DEF Next, ApplyConfig, SttNext
<1> QED BY <1>1, <1>2, <1>3, <1>4, <1>5 DEF Next

LEMMA PipeVarsInit == Init => PipeVarsOK
<1>1. ASSUME Init PROVE PipeVarsOK
  BY <1>1 DEF Init, PipeVarsOK, MeetingStates, Stages
<1> QED BY <1>1

LEMMA MoveOK == ASSUME PipeVarsOK, NEW g \in Callers, NEW l \in Stages, Move(g, l)
                PROVE /\ stage' \in [Callers -> Stages]
                      /\ stage'[g] = l
                      /\ \A d \in Callers \ {g} : stage'[d] = stage[d]
  BY DEF PipeVarsOK, Move

\* A step that counts no delta, starts no recording, and gives the UDP goroutine
\* no packet.
LEMMA LateKept ==
  ASSUME LateInv, SttTypeOK', UNCHANGED late,
         meetings' \in [Sessions -> MeetingStates], stage' \in [Callers -> Stages],
         \A s \in Sessions : Recording(s)' => Recording(s),
         stage'[Udp] # "reading"
           => stage[Udp] # "reading" /\ call'[Udp].session = call[Udp].session
  PROVE LateInv'
  BY DEF LateInv, PipeVarsOK, RecordingIsFresh, HeldIsFresh, LateDeltasBounded

-----------------------------------------------------------------------------
\* Mqtt's own stages and calls are none of Udp's.
LEMMA MqttOnly ==
  ASSUME LateInv, NEW l \in Stages, Move(Mqtt, l)
  PROVE /\ stage' \in [Callers -> Stages]
        /\ stage'[Udp] = stage[Udp]
  BY PipelineAssumption, MoveOK DEF LateInv

LEMMA LateReplying == ASSUME LateInv, SttTypeOK', Refuse \/ Malformed \/ \E s \in Sessions : Acknowledge(s)
                      PROVE LateInv'
<1>1. UNCHANGED <<sttVars, meetings, late>>
  BY DEF Refuse, Malformed, Acknowledge
<1>2. \E l \in Stages : Move(Mqtt, l)
  BY DEF Refuse, Malformed, Acknowledge, ReplyWith, Stages
<1>3. stage' \in [Callers -> Stages] /\ stage'[Udp] = stage[Udp]
  BY <1>2, MqttOnly
<1> QED BY <1>1, <1>3, LateKept DEF LateInv, PipeVarsOK, Recording, Known, sttVars

LEMMA LateHello == ASSUME LateInv, SttTypeOK', NEW s \in Sessions, NEW client \in Clients, Hello(client, s)
                   PROVE LateInv'
<1> DEFINE m == [client |-> client, status |-> "ready"]
<1>1. UNCHANGED <<sttVars, late>> /\ meetings' = [meetings EXCEPT ![s] = m]
  BY DEF Hello
<1>2. stage' \in [Callers -> Stages] /\ stage'[Udp] = stage[Udp]
  BY MqttOnly DEF Hello, ReplyWith, Stages
<1>3. m \in MeetingStates /\ m.status # "recording"
  BY DEF MeetingStates, Statuses
<1>4. meetings' \in [Sessions -> MeetingStates]
  BY <1>1, <1>3 DEF LateInv, PipeVarsOK
<1>5. \A r \in Sessions : Recording(r)' => Recording(r)
  BY <1>1, <1>3 DEF LateInv, PipeVarsOK, Recording, Known
<1> QED BY <1>1, <1>2, <1>4, <1>5, LateKept DEF sttVars

\* The status of s becomes x.
SetStatus(s, x) == Known(s) /\ meetings' = [meetings EXCEPT ![s].status = x]

LEMMA StatusOK ==
  ASSUME PipeVarsOK, NEW s \in Sessions, NEW x \in Statuses, SetStatus(s, x)
  PROVE /\ meetings' \in [Sessions -> MeetingStates]
        /\ \A r \in Sessions \ {s} : Recording(r)' <=> Recording(r)
        /\ x # "recording" => ~ Recording(s)'
<1>1. meetings[s] \in [client : Clients, status : Statuses]
  BY DEF PipeVarsOK, SetStatus, Known, MeetingStates
<1> DEFINE m == [meetings[s] EXCEPT !.status = x]
<1>2. m \in [client : Clients, status : Statuses] /\ m.status = x
  BY <1>1
<1>3. meetings' = [meetings EXCEPT ![s] = m]
  BY DEF SetStatus
<1> HIDE DEF m
<1>4. meetings' \in [Sessions -> MeetingStates]
  BY <1>2, <1>3 DEF PipeVarsOK, MeetingStates
<1>5. meetings'[s] = m /\ \A r \in Sessions \ {s} : meetings'[r] = meetings[r]
  BY <1>3 DEF PipeVarsOK
<1> QED BY <1>2, <1>4, <1>5 DEF Recording, Known

LEMMA LatePauseStop == ASSUME LateInv, SttTypeOK', NEW s \in Sessions, PauseRecording(s) \/ StopRecording(s)
                       PROVE LateInv'
<1>1. PICK x \in {"paused", "completed"} : SetStatus(s, x)
  BY DEF PauseRecording, StopRecording, SetStatus
<1>2. x \in Statuses /\ x # "recording"
  BY DEF Statuses
<1>3. /\ meetings' \in [Sessions -> MeetingStates]
      /\ \A r \in Sessions : Recording(r)' => Recording(r)
  BY <1>1, <1>2, StatusOK DEF LateInv
<1>4. UNCHANGED late /\ \E l \in Stages : Move(Mqtt, l)
  BY DEF PauseRecording, StopRecording, ReplyWith, Stages
<1>5. stage' \in [Callers -> Stages] /\ stage'[Udp] = stage[Udp]
  BY <1>4, MqttOnly
<1>6. call'[Udp] = call[Udp]
  BY PipelineAssumption DEF PauseRecording, StopRecording, BeginFlush, sttVars, LateInv, SttTypeOK, SttVarsOK
<1> QED BY <1>3, <1>4, <1>5, <1>6, LateKept

LEMMA LateStart == ASSUME LateInv, SttTypeOK', NEW s \in Sessions, StartOrResume(s) PROVE LateInv'
<1>1. SetStatus(s, "recording") /\ UNCHANGED sttVars
  BY DEF StartOrResume, SetStatus
<1>2. /\ meetings' \in [Sessions -> MeetingStates]
      /\ \A r \in Sessions \ {s} : Recording(r)' => Recording(r)
  BY <1>1, StatusOK DEF LateInv, Statuses
<1>3. stage' \in [Callers -> Stages] /\ stage'[Udp] = stage[Udp]
  BY MqttOnly DEF StartOrResume, ReplyWith, Stages
<1>4. late' \in [Sessions -> Nat] /\ late'[s] = 0 /\ \A r \in Sessions \ {s} : late'[r] = late[r]
  BY DEF StartOrResume, LateInv, PipeVarsOK
<1>5. RecordingIsFresh'
  BY <1>2, <1>4 DEF RecordingIsFresh, LateInv
<1>6. HeldIsFresh'
  BY <1>1, <1>3, <1>4 DEF HeldIsFresh, LateInv, sttVars
<1>7. LateDeltasBounded'
  BY <1>4 DEF LateDeltasBounded, LateInv
<1> QED BY <1>2, <1>3, <1>4, <1>5, <1>6, <1>7 DEF LateInv, PipeVarsOK

LEMMA LateMqtt == ASSUME LateInv, SttTypeOK', MqttStep PROVE LateInv'
<1>1. UNCHANGED <<meetings, late>>
  BY DEF MqttStep, InCall, StopWithoutFinal, PersistFinal, PersistFinalFails, ScheduleFinal,
         PublishReply, PublishFails, pipeVars
<1>2. UNCHANGED stage \/ \E l \in Stages : Move(Mqtt, l)
  BY DEF MqttStep, InCall, StopWithoutFinal, PersistFinal, PersistFinalFails, ScheduleFinal,
         PublishReply, PublishFails, ReplyWith, Stages, pipeVars
<1>3. stage' \in [Callers -> Stages] /\ stage'[Udp] = stage[Udp]
  BY <1>2, MqttOnly DEF LateInv, PipeVarsOK
<1>4. CallStep(Mqtt) \/ EndCall(Mqtt) \/ UNCHANGED call
  BY DEF MqttStep, InCall, StopWithoutFinal, PersistFinal, PersistFinalFails, ScheduleFinal,
         PublishReply, PublishFails, sttVars
<1>5. call'[Udp] = call[Udp]
  <2>1. CASE CallStep(Mqtt)
    BY <2>1, CallKeepsSession, PipelineAssumption DEF LateInv
  <2>2. CASE EndCall(Mqtt)
    BY <2>2, PipelineAssumption DEF EndCall, LateInv, SttTypeOK, SttVarsOK
  <2> QED BY <1>4, <2>1, <2>2
<1> QED BY <1>1, <1>3, <1>5, LateKept DEF LateInv, PipeVarsOK, Recording, Known

LEMMA LateConfig == ASSUME LateInv, SttTypeOK', ApplyConfig PROVE LateInv'
<1>1. UNCHANGED <<meetings, stage, late, call>>
  BY DEF ApplyConfig, SetConfig, pipeVars
<1> QED BY <1>1, LateKept DEF LateInv, PipeVarsOK, Recording, Known

LEMMA LateAdmit == ASSUME LateInv, SttTypeOK', NEW s \in Sessions, AdmitPacket(s) PROVE LateInv'
<1>1. UNCHANGED <<meetings, late>> /\ Recording(s)
  BY DEF AdmitPacket, Admissible
<1>2. stage' \in [Callers -> Stages]
  BY MoveOK, PipelineAssumption DEF AdmitPacket, LateInv, Stages
<1>3. call'[Udp].session = s
  BY PipelineAssumption, IdleCallType
     DEF AdmitPacket, BeginConsume, LateInv, SttTypeOK, SttVarsOK, CallType
<1>4. HeldIsFresh'
  BY <1>1, <1>3 DEF HeldIsFresh, LateInv, RecordingIsFresh
<1> QED BY <1>1, <1>2, <1>4
        DEF LateInv, PipeVarsOK, RecordingIsFresh, Recording, Known, LateDeltasBounded

LEMMA LateUdp == ASSUME LateInv, SttTypeOK', UdpStep PROVE LateInv'
<1> USE PipelineAssumption
<1>1. CASE InCall(Udp)
  <2>1. UNCHANGED <<meetings, stage, late>> /\ call'[Udp].session = call[Udp].session
    BY <1>1, CallKeepsSession DEF InCall, pipeVars, LateInv
  <2> QED BY <2>1, LateKept DEF LateInv, PipeVarsOK, Recording, Known
<1>2. CASE NoDelta \/ PersistDeltaFails
  <2>1. UNCHANGED <<meetings, late>> /\ Move(Udp, "reading")
    BY <1>2 DEF NoDelta, PersistDeltaFails
  <2>2. stage' \in [Callers -> Stages] /\ stage'[Udp] = "reading"
    BY <2>1, MoveOK DEF LateInv, Stages
  <2> QED BY <2>1, <2>2, LateKept DEF LateInv, PipeVarsOK, Recording, Known
<1>3. CASE PersistDelta \/ ScheduleDelta
  <2>1. /\ UNCHANGED <<meetings, late, call>>
        /\ stage[Udp] # "reading"
        /\ \E l \in Stages : Move(Udp, l)
    BY <1>3 DEF PersistDelta, ScheduleDelta, sttVars, Stages
  <2>2. stage' \in [Callers -> Stages]
    BY <2>1, MoveOK DEF LateInv
  <2> QED BY <2>1, <2>2, LateKept DEF LateInv, PipeVarsOK, Recording, Known
<1>4. CASE PublishDelta
  <2> DEFINE s == call[Udp].session
  <2>1. s \in Sessions /\ late[s] = 0
    BY <1>4 DEF PublishDelta, LateInv, HeldIsFresh
  <2>2. stage' \in [Callers -> Stages] /\ stage'[Udp] = "reading"
    BY <1>4, MoveOK DEF PublishDelta, LateInv, Stages
  <2>3. UNCHANGED meetings /\ late' = [late EXCEPT ![s] = IF Recording(s) THEN @ ELSE @ + 1]
    BY <1>4 DEF PublishDelta
  <2> HIDE DEF s
  <2>4. /\ late' \in [Sessions -> Nat]
        /\ \A r \in Sessions \ {s} : late'[r] = late[r]
        /\ late'[s] <= 1
        /\ Recording(s) => late'[s] = 0
    BY <2>1, <2>3 DEF LateInv, PipeVarsOK
  <2>5. RecordingIsFresh'
    BY <2>3, <2>4 DEF RecordingIsFresh, LateInv, Recording, Known
  <2>6. HeldIsFresh'
    BY <2>2 DEF HeldIsFresh
  <2>7. LateDeltasBounded'
    BY <2>4 DEF LateDeltasBounded, LateInv
  <2> QED BY <2>2, <2>3, <2>4, <2>5, <2>6, <2>7 DEF LateInv, PipeVarsOK
<1> QED BY <1>1, <1>2, <1>3, <1>4 DEF UdpStep

LEMMA LateInitial == Init => LateInv
<1> SUFFICES ASSUME Init PROVE LateInv
  OBVIOUS
<1>1. SttTypeOK /\ PipeVarsOK
  BY SttTypeInit, PipeVarsInit DEF Init
<1>2. RecordingIsFresh /\ HeldIsFresh /\ LateDeltasBounded
  BY PipelineAssumption DEF Init, RecordingIsFresh, HeldIsFresh, LateDeltasBounded
<1> QED BY <1>1, <1>2 DEF LateInv

LEMMA LateStep == LateInv /\ [Next]_vars => LateInv'
<1> SUFFICES ASSUME LateInv, [Next]_vars PROVE LateInv'
  OBVIOUS
<1>1. SttTypeOK'
  <2>1. [SttNext]_sttVars
    BY PipelineSteps DEF vars
  <2> QED BY <2>1, SttTypeNext DEF LateInv
<1>2. CASE UNCHANGED vars
  BY <1>1, <1>2, LateKept DEF vars, pipeVars, sttVars, LateInv, PipeVarsOK, Recording, Known
<1>3. ASSUME Control PROVE LateInv'
  BY <1>1, <1>3, LateReplying, LateHello, LateStart, LatePauseStop DEF Control
<1>4. ASSUME NEW s \in Sessions, AdmitPacket(s) PROVE LateInv'
  BY <1>1, <1>4, LateAdmit
<1> QED BY <1>1, <1>2, <1>3, <1>4, LateMqtt, LateUdp, LateConfig DEF Next

(* Once a session has left "recording", the client gets at most one more    *)
(* delta of it until it is started again (HandleMixedAudio against          *)
(* StopRecording and PauseRecording), for any provider, faults, bounds and  *)
(* number of meetings.                                                      *)
THEOREM LateDeltasAlwaysBounded == Spec => []LateDeltasBounded
<1>1. LateInv => LateDeltasBounded
  BY DEF LateInv
<1> QED BY <1>1, LateInitial, LateStep, PTL DEF Spec

-----------------------------------------------------------------------------
(* The type invariant: the manager's own variables, and each goroutine's    *)
(* stage against the call it has in progress.                               *)

UdpStages == {"reading", "consuming", "persisted", "scheduled"}
MqttStages == {"waiting", "flushing", "persisted", "replying", "down"}
MqttAtRest == {"waiting", "replying", "down"}
Jobs == [client : Clients, session : Sessions, final : BOOLEAN]

RecordsOK ==
  /\ owner \in [Callers -> Clients \cup {NoMeeting}]
  /\ store \in [Sessions -> PayloadType \cup {NoPayload}]
  /\ jobs \in Seq(Jobs)
  /\ finished \subseteq Nat
  /\ controls \in Nat

RepliesOK ==
  /\ replies \in Seq(ReplyTypes)
  /\ stage[Mqtt] = "replying" <=> replies # <<>>

StagesOK ==
  /\ stage[Udp] \in UdpStages
  /\ stage[Mqtt] \in MqttStages
  /\ pc[Udp] = "idle" <=> stage[Udp] = "reading"
  /\ pc[Mqtt] = "idle" <=> stage[Mqtt] \in MqttAtRest

\* A goroutine at work holds a session object, which has a client: what makes
\* a job one of a client.
OwnersKnown ==
  /\ stage[Udp] # "reading" => owner[Udp] \in Clients
  /\ stage[Mqtt] \notin MqttAtRest => owner[Mqtt] \in Clients

TypeInv == SttTypeOK /\ PipeVarsOK /\ RecordsOK /\ RepliesOK /\ StagesOK /\ OwnersKnown

LEMMA CallMoves ==
  ASSUME SttTypeOK, NEW c \in Callers, CallStep(c)
  PROVE  /\ pc[c] # "idle" /\ pc'[c] # "idle"
         /\ \A d \in Callers \ {c} : pc'[d] = pc[d]
<1>1. pc \in [Callers -> Labels]
  BY DEF SttTypeOK, SttVarsOK
<1>2. pc[c] # "idle"
  BY DEF CallStep, ReadProvider, ReadFactory, ConsumeStub, FlushStub, BufferAudio, CaptureAudio,
         ConsumeRecognized, FlushRecognized, FindStream, TakeStream, StreamAnswer, StreamStore, StreamLoad
<1>3. UNCHANGED pc \/ \E l \in Labels \ {"idle"} : Goto(c, l)
  <2>1. CASE ReadProvider(c) \/ ReadFactory(c) \/ ConsumeStub(c) \/ FlushStub(c)
    BY <2>1 DEF ReadProvider, ReadFactory, ConsumeStub, FlushStub, Issue, ReturnNothing, Return, Labels
  <2>2. CASE BufferAudio(c) \/ CaptureAudio(c)
    BY <2>2 DEF BufferAudio, CaptureAudio, ReturnNothing, Return, Labels
  <2>3. CASE \E answer \in AnswersOf(c) : ConsumeRecognized(c, answer) \/ FlushRecognized(c, answer)
    BY <2>3 DEF ConsumeRecognized, FlushRecognized, Issue, ReturnNothing, Return, Labels
  <2>4. CASE FindStream(c) \/ TakeStream(c)
    BY <2>4 DEF FindStream, TakeStream, CallNilFactory, ReturnNothing, Return, Labels
  <2>5. CASE \/ \E speaks \in BOOLEAN : StreamAnswer(c, speaks)
             \/ StreamStore(c) \/ StreamLoad(c)
    BY <2>5 DEF StreamAnswer, StreamStore, StreamLoad, ReturnNothing, Return, Labels
  <2> QED BY <2>1, <2>2, <2>3, <2>4, <2>5 DEF CallStep
<1> QED BY <1>1, <1>2, <1>3 DEF Goto

\* A goroutine in a call goes on with it: nothing of the manager's changes.
LEMMA TypeInCall ==
  ASSUME TypeInv, SttTypeOK', NEW g \in Callers, InCall(g)
  PROVE  TypeInv'
<1>1. /\ pc[g] # "idle" /\ pc'[g] # "idle"
      /\ \A d \in Callers \ {g} : pc'[d] = pc[d]
  BY CallMoves DEF InCall, TypeInv
<1>2. UNCHANGED pipeVars
  BY DEF InCall
<1>3. StagesOK'
  BY <1>1, <1>2, PipelineAssumption DEF pipeVars, StagesOK, TypeInv
<1> QED BY <1>2, <1>3 DEF pipeVars, TypeInv, PipeVarsOK, RecordsOK, RepliesOK, OwnersKnown

LEMMA TypeConfig == ASSUME TypeInv, SttTypeOK', ApplyConfig \/ UNCHANGED vars PROVE TypeInv'
<1>1. UNCHANGED <<pipeVars, pc>>
  BY DEF ApplyConfig, SetConfig, vars, sttVars
<1> QED BY <1>1 DEF pipeVars, TypeInv, PipeVarsOK, RecordsOK, RepliesOK, OwnersKnown, StagesOK

\* A message that is answered at once: one reply, and no call.
LEMMA TypeReplying ==
  ASSUME TypeInv, SttTypeOK', UNCHANGED <<sttVars, owner, store, jobs, finished>>,
         stage[Mqtt] = "waiting", controls' \in Nat, meetings' \in [Sessions -> MeetingStates],
         late' \in [Sessions -> Nat], NEW type \in ReplyTypes, ReplyWith(<<type>>)
  PROVE  TypeInv'
<1>1. /\ stage' \in [Callers -> Stages]
      /\ stage'[Mqtt] = "replying" /\ stage'[Udp] = stage[Udp]
  BY MoveOK, PipelineAssumption DEF ReplyWith, Stages, TypeInv
<1>2. RepliesOK'
  BY <1>1 DEF RepliesOK, ReplyWith
<1>3. StagesOK' /\ OwnersKnown'
  BY <1>1 DEF StagesOK, OwnersKnown, TypeInv, MqttAtRest, MqttStages, sttVars
<1> QED BY <1>1, <1>2, <1>3 DEF TypeInv, PipeVarsOK, RecordsOK

LEMMA TypeControl == ASSUME TypeInv, SttTypeOK', Control, ~ Malformed,
                            \A s \in Sessions : ~ StopRecording(s)
                     PROVE  TypeInv'
<1>1. controls \in Nat /\ meetings \in [Sessions -> MeetingStates] /\ late \in [Sessions -> Nat]
  BY DEF TypeInv, RecordsOK, PipeVarsOK
<1>2. CASE Refuse \/ \E s \in Sessions : Acknowledge(s)
  <2>1. \E type \in ReplyTypes : ReplyWith(<<type>>)
    BY <1>2 DEF Refuse, Acknowledge, ReplyTypes
  <2> QED BY <1>1, <1>2, <2>1, TypeReplying DEF Refuse, Acknowledge, TakeIdempotent
<1>3. ASSUME NEW s \in Sessions, NEW client \in Clients, Hello(client, s) PROVE TypeInv'
  <2> DEFINE m == [client |-> client, status |-> "ready"]
  <2>1. m \in MeetingStates
    BY DEF MeetingStates, Statuses
  <2>2. meetings' = [meetings EXCEPT ![s] = m]
    BY <1>3 DEF Hello
  <2> HIDE DEF m
  <2>3. meetings' \in [Sessions -> MeetingStates]
    BY <1>1, <2>1, <2>2
  <2>4. ReplyWith(<<"session_hello">>) /\ "session_hello" \in ReplyTypes
    BY <1>3 DEF Hello, ReplyTypes
  <2> QED BY <1>1, <1>3, <2>3, <2>4, TypeReplying DEF Hello, TakeControl
<1>4. ASSUME NEW s \in Sessions, StartOrResume(s) PROVE TypeInv'
  <2>1. meetings' \in [Sessions -> MeetingStates]
    BY <1>4, StatusOK DEF StartOrResume, SetStatus, Statuses, TypeInv
  <2>2. late' \in [Sessions -> Nat]
    BY <1>1, <1>4 DEF StartOrResume
  <2>3. \E type \in ReplyTypes : ReplyWith(<<type>>)
    BY <1>4 DEF StartOrResume, ReplyTypes
  <2> QED BY <1>1, <1>4, <2>1, <2>2, <2>3, TypeReplying DEF StartOrResume, TakeControl
<1>5. ASSUME NEW s \in Sessions, PauseRecording(s) PROVE TypeInv'
  <2>1. meetings' \in [Sessions -> MeetingStates]
    BY <1>5, StatusOK DEF PauseRecording, SetStatus, Statuses, TypeInv
  <2>2. ReplyWith(<<"recording_paused">>) /\ "recording_paused" \in ReplyTypes
    BY <1>5 DEF PauseRecording, ReplyTypes
  <2> QED BY <1>1, <1>5, <2>1, <2>2, TypeReplying DEF PauseRecording, TakeControl
<1> QED BY <1>2, <1>3, <1>4, <1>5 DEF Control

LEMMA TypeMalformed == ASSUME TypeInv, SttTypeOK', Malformed PROVE TypeInv'
<1>1. /\ stage' \in [Callers -> Stages]
      /\ stage'[Mqtt] = "down" /\ stage'[Udp] = stage[Udp]
  BY MoveOK, PipelineAssumption DEF Malformed, Stages, TypeInv
<1>2. /\ UNCHANGED <<sttVars, meetings, owner, replies, store, jobs, late, finished>>
      /\ stage[Mqtt] = "waiting" /\ controls' = controls + 1
  BY DEF Malformed, TakeControl
<1>3. RepliesOK' /\ StagesOK' /\ OwnersKnown'
  BY <1>1, <1>2 DEF RepliesOK, StagesOK, OwnersKnown, TypeInv, MqttAtRest, MqttStages, sttVars
<1> QED BY <1>1, <1>2, <1>3 DEF TypeInv, PipeVarsOK, RecordsOK

\* The call begins with the client of a session the manager knows.
LEMMA TypeBegins ==
  ASSUME TypeInv, NEW g \in Callers, NEW s \in Sessions, Known(s),
         owner' = [owner EXCEPT ![g] = meetings[s].client],
         BeginFlush(g, s) \/ BeginConsume(g, s)
  PROVE  /\ owner' \in [Callers -> Clients \cup {NoMeeting}]
         /\ owner'[g] \in Clients /\ \A d \in Callers \ {g} : owner'[d] = owner[d]
         /\ pc[g] = "idle" /\ pc'[g] = "provider" /\ \A d \in Callers \ {g} : pc'[d] = pc[d]
<1>1. owner \in [Callers -> Clients \cup {NoMeeting}] /\ pc \in [Callers -> Labels]
  BY DEF TypeInv, RecordsOK, SttTypeOK, SttVarsOK
<1>2. meetings[s].client \in Clients
  BY DEF TypeInv, PipeVarsOK, MeetingStates, Known
<1>3. pc[g] = "idle" /\ Goto(g, "provider")
  BY DEF BeginFlush, BeginConsume
<1> QED BY <1>1, <1>2, <1>3 DEF Goto

LEMMA TypeStop == ASSUME TypeInv, SttTypeOK', NEW s \in Sessions, StopRecording(s) PROVE TypeInv'
<1> USE PipelineAssumption
<1>1. /\ stage[Mqtt] = "waiting" /\ controls' = controls + 1 /\ Known(s)
      /\ owner' = [owner EXCEPT ![Mqtt] = meetings[s].client] /\ BeginFlush(Mqtt, s)
      /\ Move(Mqtt, "flushing") /\ UNCHANGED <<replies, store, jobs, late, finished>>
  BY DEF StopRecording, TakeControl
<1>2. meetings' \in [Sessions -> MeetingStates]
  BY StatusOK DEF StopRecording, SetStatus, Statuses, TypeInv
<1>3. /\ stage' \in [Callers -> Stages]
      /\ stage'[Mqtt] = "flushing" /\ stage'[Udp] = stage[Udp]
  BY <1>1, MoveOK DEF Stages, TypeInv
<1>4. /\ owner' \in [Callers -> Clients \cup {NoMeeting}]
      /\ owner'[Mqtt] \in Clients /\ owner'[Udp] = owner[Udp]
      /\ pc'[Mqtt] = "provider" /\ pc'[Udp] = pc[Udp]
  BY <1>1, TypeBegins
<1>5. RepliesOK' /\ StagesOK' /\ OwnersKnown'
  BY <1>1, <1>3, <1>4 DEF RepliesOK, StagesOK, OwnersKnown, TypeInv, MqttAtRest, MqttStages
<1> QED BY <1>1, <1>2, <1>3, <1>4, <1>5 DEF TypeInv, PipeVarsOK, RecordsOK

LEMMA TypeAdmit == ASSUME TypeInv, SttTypeOK', NEW s \in Sessions, AdmitPacket(s) PROVE TypeInv'
<1> USE PipelineAssumption
<1>1. /\ stage[Udp] = "reading" /\ Known(s)
      /\ owner' = [owner EXCEPT ![Udp] = meetings[s].client] /\ BeginConsume(Udp, s)
      /\ Move(Udp, "consuming")
      /\ UNCHANGED <<meetings, replies, store, jobs, late, finished, controls>>
  BY DEF AdmitPacket, Admissible, Recording
<1>2. /\ stage' \in [Callers -> Stages]
      /\ stage'[Udp] = "consuming" /\ stage'[Mqtt] = stage[Mqtt]
  BY <1>1, MoveOK DEF Stages, TypeInv
<1>3. /\ owner' \in [Callers -> Clients \cup {NoMeeting}]
      /\ owner'[Udp] \in Clients /\ owner'[Mqtt] = owner[Mqtt]
      /\ pc'[Udp] = "provider" /\ pc'[Mqtt] = pc[Mqtt]
  BY <1>1, TypeBegins
<1>4. RepliesOK' /\ StagesOK' /\ OwnersKnown'
  BY <1>1, <1>2, <1>3 DEF RepliesOK, StagesOK, OwnersKnown, TypeInv, UdpStages
<1> QED BY <1>1, <1>2, <1>3, <1>4 DEF TypeInv, PipeVarsOK, RecordsOK

LEMMA EndMoves ==
  ASSUME SttTypeOK, NEW c \in Callers, EndCall(c)
  PROVE  /\ pc[c] = "returned" /\ pc'[c] = "idle"
         /\ \A d \in Callers \ {c} : pc'[d] = pc[d]
  BY DEF EndCall, Goto, SttTypeOK, SttVarsOK

\* The result in hand, when there is one, is a payload of a session.
LEMMA ResultInHand ==
  ASSUME SttTypeOK, NEW c \in Callers, pc[c] # "idle"
  PROVE  /\ call[c].session \in Sessions
         /\ call[c].result \in Results
         /\ call[c].result.id \in Nat
         /\ call[c].result # NoPayload => call[c].result \in PayloadType
<1>1. call[c] \in CallType /\ call[c].session \in Sessions
  BY DEF SttTypeOK, SttVarsOK, CallOK
<1>2. call[c].result \in PayloadType \cup {NoPayload}
  BY <1>1 DEF CallType
<1>3. NoPayload.id \in Nat /\ \A p \in PayloadType : p.id \in Nat
  BY DEF NoPayload, PayloadType
<1> QED BY <1>1, <1>2, <1>3 DEF Results

LEMMA StoreOK ==
  ASSUME RecordsOK, NEW p \in PayloadType, Upsert(p)
  PROVE  store' \in [Sessions -> PayloadType \cup {NoPayload}]
  BY DEF Upsert, RecordsOK, PayloadType

LEMMA JobsOK ==
  ASSUME RecordsOK, NEW g \in Callers, NEW final \in BOOLEAN, Schedule(g, final),
         owner[g] \in Clients, call[g].session \in Sessions
  PROVE  jobs' \in Seq(Jobs)
<1> DEFINE j == [client |-> owner[g], session |-> call[g].session, final |-> final]
<1>1. j \in Jobs
  BY DEF Jobs
<1>2. jobs' = Append(jobs, j) /\ jobs \in Seq(Jobs)
  BY DEF Schedule, RecordsOK
<1> HIDE DEF j
<1> QED BY <1>1, <1>2

\* Mqtt's own steps move Mqtt's stage and end Mqtt's call.
LEMMA TypeMqtt == ASSUME TypeInv, SttTypeOK', MqttStep, ~ InCall(Mqtt) PROVE TypeInv'
<1> USE PipelineAssumption
<1>1. UNCHANGED <<meetings, owner, late, controls>>
  BY DEF MqttStep, StopWithoutFinal, PersistFinal, PersistFinalFails, ScheduleFinal, PublishReply, PublishFails
<1>2. ASSUME NEW l \in MqttStages, Move(Mqtt, l), RepliesOK', RecordsOK',
             pc'[Udp] = pc[Udp], pc'[Mqtt] = "idle" <=> l \in MqttAtRest,
             l \notin MqttAtRest => stage[Mqtt] \notin MqttAtRest
      PROVE  TypeInv'
  <2>1. /\ stage' \in [Callers -> Stages]
        /\ stage'[Mqtt] = l /\ stage'[Udp] = stage[Udp]
    BY <1>2, MoveOK DEF Stages, TypeInv, MqttStages
  <2>2. StagesOK' /\ OwnersKnown'
    BY <1>1, <1>2, <2>1 DEF StagesOK, OwnersKnown, TypeInv
  <2> QED BY <1>1, <1>2, <2>1, <2>2 DEF TypeInv, PipeVarsOK
<1>3. ASSUME NEW l \in {"replying", "waiting"}, Move(Mqtt, l),
             replies' \in Seq(ReplyTypes), l = "replying" <=> replies' # <<>>
      PROVE  RepliesOK'
  <2>1. stage'[Mqtt] = l
    BY <1>3, MoveOK DEF TypeInv, Stages
  <2> QED BY <1>3, <2>1 DEF RepliesOK
<1>4. StopReplies \in Seq(ReplyTypes) /\ StopReplies # <<>>
  <2>1. "stt_final" \in ReplyTypes /\ "recording_stopped" \in ReplyTypes
    BY DEF ReplyTypes
  <2>2. /\ <<"recording_stopped">> \in Seq(ReplyTypes) /\ <<"recording_stopped">> # <<>>
        /\ <<"stt_final", "recording_stopped">> \in Seq(ReplyTypes)
        /\ <<"stt_final", "recording_stopped">> # <<>>
    BY <2>1
  <2> QED BY <2>2 DEF StopReplies
<1>5. ASSUME StopWithoutFinal PROVE TypeInv'
  <2>1. /\ EndCall(Mqtt) /\ Move(Mqtt, "replying") /\ replies' = StopReplies
        /\ UNCHANGED <<store, jobs, finished>>
    BY <1>5 DEF StopWithoutFinal, ReplyWith
  <2>2. RepliesOK'
    BY <2>1, <1>3, <1>4 DEF ReplyWith
  <2>3. RecordsOK'
    BY <1>1, <2>1 DEF RecordsOK, TypeInv
  <2> QED BY <1>2, <2>1, <2>2, <2>3, EndMoves DEF MqttStages, MqttAtRest, TypeInv
<1>6. ASSUME PersistFinal PROVE TypeInv'
  <2>1. /\ stage[Mqtt] = "flushing" /\ pc[Mqtt] = "returned" /\ call[Mqtt].result # NoPayload
        /\ Upsert(call[Mqtt].result) /\ Move(Mqtt, "persisted")
        /\ UNCHANGED <<pc, replies, jobs, finished>>
    BY <1>6 DEF PersistFinal, sttVars
  <2>2. call[Mqtt].result \in PayloadType
    BY <2>1, ResultInHand DEF TypeInv
  <2>3. RecordsOK'
    BY <1>1, <2>1, <2>2, StoreOK DEF RecordsOK, TypeInv
  <2>4. stage'[Mqtt] = "persisted"
    BY <2>1, MoveOK DEF TypeInv, Stages
  <2>5. RepliesOK'
    BY <2>1, <2>4 DEF RepliesOK, TypeInv
  <2> QED BY <1>2, <2>1, <2>3, <2>5 DEF MqttStages, MqttAtRest
<1>7. ASSUME PersistFinalFails PROVE TypeInv'
  <2>1. /\ EndCall(Mqtt) /\ Move(Mqtt, "replying") /\ replies' = <<"error">>
        /\ UNCHANGED <<store, jobs, finished>>
    BY <1>7 DEF PersistFinalFails, ReplyWith
  <2>2. RepliesOK'
    BY <2>1, <1>3 DEF ReplyWith, ReplyTypes
  <2>3. RecordsOK'
    BY <1>1, <2>1 DEF RecordsOK, TypeInv
  <2> QED BY <1>2, <2>1, <2>2, <2>3, EndMoves DEF MqttStages, MqttAtRest, TypeInv
<1>8. ASSUME ScheduleFinal PROVE TypeInv'
  <2>1. /\ stage[Mqtt] = "persisted" /\ Schedule(Mqtt, TRUE)
        /\ Move(Mqtt, "replying") /\ replies' = StopReplies
        /\ finished' = finished \cup {call[Mqtt].result.id}
        /\ EndCall(Mqtt) /\ UNCHANGED store
    BY <1>8 DEF ScheduleFinal, ReplyWith
  <2>2. RepliesOK'
    BY <2>1, <1>3, <1>4 DEF ReplyWith
  <2>3. pc[Mqtt] # "idle" /\ owner[Mqtt] \in Clients
    BY <2>1, EndMoves DEF TypeInv, OwnersKnown, MqttAtRest
  <2>4. call[Mqtt].session \in Sessions /\ call[Mqtt].result.id \in Nat
    BY <2>3, ResultInHand DEF TypeInv
  <2>5. jobs' \in Seq(Jobs)
    BY <2>1, <2>3, <2>4, JobsOK DEF TypeInv
  <2>6. RecordsOK'
    BY <1>1, <2>1, <2>4, <2>5 DEF RecordsOK, TypeInv
  <2> QED BY <1>2, <2>1, <2>2, <2>6, EndMoves DEF MqttStages, MqttAtRest, TypeInv
<1>9. ASSUME PublishReply PROVE TypeInv'
  <2>1. /\ stage[Mqtt] = "replying" /\ replies' = Tail(replies)
        /\ Move(Mqtt, IF Len(replies) = 1 THEN "waiting" ELSE "replying")
        /\ UNCHANGED <<pc, store, jobs, finished>>
    BY <1>9 DEF PublishReply, sttVars
  <2>2. replies \in Seq(ReplyTypes) /\ replies # <<>>
    BY <2>1 DEF TypeInv, RepliesOK
  <2>3. /\ Tail(replies) \in Seq(ReplyTypes)
        /\ Tail(replies) = <<>> <=> Len(replies) = 1
    <3>1. /\ Len(replies) \in Nat \ {0} /\ Tail(replies) \in Seq(ReplyTypes)
          /\ Len(Tail(replies)) = Len(replies) - 1
      BY <2>2
    <3>2. \A q \in Seq(ReplyTypes) : q = <<>> <=> Len(q) = 0
      OBVIOUS
    <3> HIDE DEF ReplyTypes
    <3>3. Tail(replies) = <<>> <=> Len(Tail(replies)) = 0
      BY <3>1, <3>2, Zenon
    <3> QED BY <3>1, <3>3
  <2>4. PICK l \in {"waiting", "replying"} : Move(Mqtt, l) /\ (l = "replying" <=> Len(replies) # 1)
    BY <2>1
  <2>5. stage'[Mqtt] = l
    BY <2>4, MoveOK DEF TypeInv, Stages
  <2>6. RepliesOK'
    BY <2>1, <2>3, <2>4, <2>5 DEF RepliesOK
  <2>7. RecordsOK' /\ pc[Mqtt] = "idle"
    BY <1>1, <2>1 DEF RecordsOK, TypeInv, StagesOK, MqttAtRest
  <2> QED BY <1>2, <2>1, <2>4, <2>6, <2>7 DEF MqttStages, MqttAtRest
<1>10. ASSUME PublishFails PROVE TypeInv'
  <2>1. /\ stage[Mqtt] = "replying" /\ replies' = <<>> /\ Move(Mqtt, "down")
        /\ UNCHANGED <<pc, store, jobs, finished>>
    BY <1>10 DEF PublishFails, sttVars
  <2>2. stage'[Mqtt] = "down"
    BY <2>1, MoveOK DEF TypeInv, Stages
  <2>3. RepliesOK'
    BY <2>1, <2>2 DEF RepliesOK
  <2>4. RecordsOK' /\ pc[Mqtt] = "idle"
    BY <1>1, <2>1 DEF RecordsOK, TypeInv, StagesOK, MqttAtRest
  <2> QED BY <1>2, <2>1, <2>3, <2>4 DEF MqttStages, MqttAtRest
<1> QED BY <1>5, <1>6, <1>7, <1>8, <1>9, <1>10 DEF MqttStep

LEMMA TypeUdp == ASSUME TypeInv, SttTypeOK', UdpStep, ~ InCall(Udp) PROVE TypeInv'
<1> USE PipelineAssumption
<1>1. UNCHANGED <<meetings, owner, replies, controls, finished>>
  BY DEF UdpStep, NoDelta, PersistDelta, PersistDeltaFails, ScheduleDelta, PublishDelta
<1>2. ASSUME NEW l \in UdpStages, Move(Udp, l), store' \in [Sessions -> PayloadType \cup {NoPayload}],
             jobs' \in Seq(Jobs), late' \in [Sessions -> Nat],
             pc'[Mqtt] = pc[Mqtt], pc'[Udp] = "idle" <=> l = "reading", stage[Udp] # "reading"
      PROVE  TypeInv'
  <2>1. /\ stage' \in [Callers -> Stages]
        /\ stage'[Udp] = l /\ stage'[Mqtt] = stage[Mqtt]
    BY <1>2, MoveOK DEF Stages, TypeInv, UdpStages
  <2>2. StagesOK' /\ OwnersKnown' /\ RepliesOK'
    BY <1>1, <1>2, <2>1 DEF StagesOK, OwnersKnown, RepliesOK, TypeInv
  <2> QED BY <1>1, <1>2, <2>1, <2>2 DEF TypeInv, PipeVarsOK, RecordsOK
<1>3. /\ store \in [Sessions -> PayloadType \cup {NoPayload}] /\ jobs \in Seq(Jobs)
      /\ late \in [Sessions -> Nat]
  BY DEF TypeInv, RecordsOK, PipeVarsOK
<1>4. CASE NoDelta \/ PersistDeltaFails
  <2>1. stage[Udp] # "reading" /\ EndCall(Udp) /\ Move(Udp, "reading") /\ UNCHANGED <<store, jobs, late>>
    BY <1>4 DEF NoDelta, PersistDeltaFails
  <2> QED BY <1>2, <1>3, <2>1, EndMoves DEF UdpStages, TypeInv
<1>5. CASE PersistDelta
  <2>1. /\ stage[Udp] # "reading" /\ pc[Udp] = "returned" /\ call[Udp].result # NoPayload
        /\ Upsert(call[Udp].result) /\ Move(Udp, "persisted") /\ UNCHANGED <<pc, jobs, late>>
    BY <1>5 DEF PersistDelta, sttVars
  <2>2. call[Udp].result \in PayloadType
    BY <2>1, ResultInHand DEF TypeInv
  <2>3. store' \in [Sessions -> PayloadType \cup {NoPayload}]
    BY <2>1, <2>2, StoreOK DEF TypeInv
  <2> QED BY <1>2, <1>3, <2>1, <2>3 DEF UdpStages
<1>6. CASE ScheduleDelta
  <2>1. stage[Udp] = "persisted" /\ Schedule(Udp, FALSE) /\ Move(Udp, "scheduled") /\ UNCHANGED <<pc, store, late>>
    BY <1>6 DEF ScheduleDelta, sttVars
  <2>2. pc[Udp] # "idle" /\ owner[Udp] \in Clients
    BY <2>1 DEF TypeInv, StagesOK, OwnersKnown
  <2>3. jobs' \in Seq(Jobs)
    BY <2>1, <2>2, ResultInHand, JobsOK DEF TypeInv
  <2> QED BY <1>2, <1>3, <2>1, <2>2, <2>3 DEF UdpStages
<1>7. CASE PublishDelta
  <2> DEFINE s == call[Udp].session
  <2>1. /\ stage[Udp] = "scheduled" /\ EndCall(Udp) /\ Move(Udp, "reading") /\ UNCHANGED <<store, jobs>>
        /\ late' = [late EXCEPT ![s] = IF Recording(s) THEN @ ELSE @ + 1]
    BY <1>7 DEF PublishDelta
  <2>2. s \in Sessions
    BY <2>1, EndMoves, ResultInHand DEF TypeInv
  <2> HIDE DEF s
  <2>3. late' \in [Sessions -> Nat]
    BY <1>3, <2>1, <2>2
  <2> QED BY <1>2, <1>3, <2>1, <2>3, EndMoves DEF UdpStages, TypeInv
<1> QED BY <1>4, <1>5, <1>6, <1>7 DEF UdpStep

LEMMA TypeInitial == Init => TypeInv
<1> SUFFICES ASSUME Init PROVE TypeInv
  OBVIOUS
<1>1. SttTypeOK /\ PipeVarsOK
  BY SttTypeInit, PipeVarsInit DEF Init
<1>2. RecordsOK /\ RepliesOK
  BY PipelineAssumption DEF Init, RecordsOK, RepliesOK
<1>3. StagesOK /\ OwnersKnown
  BY PipelineAssumption DEF Init, SttInit, StagesOK, OwnersKnown, UdpStages, MqttStages, MqttAtRest
<1> QED BY <1>1, <1>2, <1>3 DEF TypeInv

LEMMA TypeStep == TypeInv /\ [Next]_vars => TypeInv'
<1> SUFFICES ASSUME TypeInv, [Next]_vars PROVE TypeInv'
  OBVIOUS
<1>1. SttTypeOK'
  <2>1. [SttNext]_sttVars
    BY PipelineSteps DEF vars
  <2> QED BY <2>1, SttTypeNext DEF TypeInv
<1>2. Udp \in Callers /\ Mqtt \in Callers
  BY PipelineAssumption
<1>3. ASSUME Control PROVE TypeInv'
  BY <1>1, <1>3, TypeControl, TypeMalformed, TypeStop
<1>4. ASSUME NEW s \in Sessions, AdmitPacket(s) PROVE TypeInv'
  BY <1>1, <1>4, TypeAdmit
<1>5. ASSUME InCall(Mqtt) \/ InCall(Udp) PROVE TypeInv'
  BY <1>1, <1>2, <1>5, TypeInCall
<1> QED BY <1>1, <1>3, <1>4, <1>5, TypeMqtt, TypeUdp, TypeConfig DEF Next

(* Every variable of the pipeline holds a value of its kind, and the stage  *)
(* of each goroutine fits the call it has in progress: the UDP goroutine    *)
(* reads only when its Consume is over, and Mqtt replies only when its      *)
(* Flush is (HandleMixedAudio, HandleControlMessage).                       *)
THEOREM PipelineTyped == Spec => []TypeOK
<1>1. TypeInv => TypeOK
  BY DEF TypeInv, TypeOK, PipeVarsOK, RecordsOK, RepliesOK, StagesOK, MeetingStates, Stages,
         UdpStages, MqttStages, MqttAtRest, Jobs
<1> QED BY <1>1, TypeInitial, TypeStep, PTL DEF Spec

-----------------------------------------------------------------------------
(* The pipeline's goroutines are callers of the service, and no more: seen  *)
(* through the service's variables, every behaviour of the pipeline is one  *)
(* of the service (HandleMixedAudio, StopRecording, ApplyAIConfig).         *)
THEOREM PipelineRunsTheService == Spec => SttSpec
<1>1. Init => SttInit
  BY DEF Init
<1>2. [Next]_vars => [SttNext]_sttVars
  BY PipelineSteps DEF vars
<1> QED BY <1>1, <1>2, PTL DEF Spec, SttSpec

(* So what the service promises, the pipeline's clients get: revisions rise *)
(* with nothing after a final, a stream is finished once, and the           *)
(* transcripts are the ledger's, with no proof of the handlers' own.        *)
THEOREM PipelineKeepsThePromises ==
  Spec => []RevisionsRise /\ []StreamFinishedOnce /\ ImplementsLedger
<1> QED BY PipelineRunsTheService, RevisionsAlwaysRise, StreamsFinishedOnce, SttImplementsLedger, PTL

=============================================================================
