------------------------- MODULE PipelineAudioProofs -------------------------
(* What is proved of the audio in MeetingPipeline: where a packet goes      *)
(* between the goroutine that brings it and the one that ends the session.  *)
EXTENDS MeetingPipelineProofs, FiniteSetTheorems

AtMostOne(S) == \A x, y \in S : x = y

LEMMA AtMostOneCounts == ASSUME NEW S, AtMostOne(S) PROVE Cardinality(S) <= 1
<1>1. CASE S = {}
  <2>1. Cardinality(S) = 0
    BY <1>1, FS_EmptySet
  <2> QED BY <2>1
<1>2. ASSUME NEW x, S = {x} PROVE Cardinality(S) <= 1
  <2>1. Cardinality(S) = 1
    BY <1>2, FS_Singleton
  <2> QED BY <2>1
<1>3. S = {} \/ \E x : S = {x}
  BY DEF AtMostOne
<1> QED BY <1>1, <1>2, <1>3

-----------------------------------------------------------------------------
(* The kinds of steps there are, as the audio sees them.                    *)

Completed(s) == Known(s) /\ meetings[s].status = "completed"

\* The UDP goroutine consumes, Mqtt flushes.
Roles ==
  /\ pc[Udp] # "idle" => call[Udp].op = "consume"
  /\ pc[Mqtt] # "idle" => call[Mqtt].op = "flush"

\* A control message completes no session while it is handled alone.
Controls ==
  /\ pc[Mqtt] = "idle" /\ UNCHANGED <<sttVars, finished>>
  /\ \A s \in Sessions : Completed(s)' => Completed(s)

\* A call ends; Mqtt's either brought no final, or its final is replied, or the
\* store refused it.
Ends(g) ==
  /\ EndCall(g) /\ UNCHANGED meetings
  /\ g = Udp => UNCHANGED finished
  /\ g = Mqtt => \/ call[Mqtt].result = NoPayload /\ UNCHANGED finished
                 \/ finished' = finished \cup {call[Mqtt].result.id}
                 \/ "store" \in Faults

\* A step is one of a call in progress, or one of the others.
Others ==
  \/ UNCHANGED <<sttVars, meetings, finished>>
  \/ Controls
  \/ \E s \in Sessions : StopRecording(s) \/ AdmitPacket(s)
  \/ \E g \in Callers : Ends(g)
  \/ ApplyConfig
Kinds == Others \/ \E g \in Callers : CallStep(g) /\ UNCHANGED pipeVars

LEMMA StepKinds == ASSUME TypeInv, [Next]_vars PROVE Kinds
<1> USE PipelineAssumption
<1>1. CASE UNCHANGED vars
  BY <1>1 DEF vars, pipeVars, Kinds, Others, Ends
<1>2. CASE MqttStep
  <2>1. CASE InCall(Mqtt)
    BY <2>1 DEF InCall, Kinds, Others, Ends
  <2>2. CASE StopWithoutFinal \/ PersistFinalFails \/ ScheduleFinal
    BY <2>2 DEF StopWithoutFinal, PersistFinalFails, ScheduleFinal, Kinds, Others, Ends
  <2>3. CASE PersistFinal \/ PublishReply \/ PublishFails
    BY <2>3 DEF PersistFinal, PublishReply, PublishFails, Kinds, Others, Ends
  <2> QED BY <1>2, <2>1, <2>2, <2>3 DEF MqttStep
<1>3. CASE UdpStep
  <2>1. CASE InCall(Udp)
    BY <2>1 DEF InCall, Kinds, Others, Ends
  <2>2. CASE NoDelta \/ PersistDeltaFails \/ PublishDelta
    BY <2>2 DEF NoDelta, PersistDeltaFails, PublishDelta, Kinds, Others, Ends
  <2>3. CASE PersistDelta \/ ScheduleDelta
    BY <2>3 DEF PersistDelta, ScheduleDelta, Kinds, Others, Ends
  <2> QED BY <1>3, <2>1, <2>2, <2>3 DEF UdpStep
<1>4. CASE Control
  <2>1. CASE Refuse \/ Malformed \/ \E s \in Sessions : Acknowledge(s)
    BY <2>1 DEF Refuse, Malformed, Acknowledge, Kinds, Others, Ends
  <2>2. ASSUME NEW s \in Sessions, NEW client \in Clients, Hello(client, s) PROVE Controls
    <3>1. pc[Mqtt] = "idle" /\ UNCHANGED <<sttVars, finished>>
      BY <2>2 DEF Hello, TakeControl, TypeInv, StagesOK, MqttAtRest
    <3> DEFINE m == [client |-> client, status |-> "ready"]
    <3>2. meetings' = [meetings EXCEPT ![s] = m] /\ m.status # "completed"
      BY <2>2 DEF Hello
    <3> HIDE DEF m
    <3>3. \A r \in Sessions : Completed(r)' => Completed(r)
      BY <3>2 DEF Completed, Known, TypeInv, PipeVarsOK
    <3> QED BY <3>1, <3>3 DEF Controls
  <2>3. ASSUME NEW s \in Sessions, StartOrResume(s) \/ PauseRecording(s) PROVE Controls
    <3>1. pc[Mqtt] = "idle" /\ UNCHANGED <<sttVars, finished>>
      BY <2>3 DEF StartOrResume, PauseRecording, TakeControl, TypeInv, StagesOK, MqttAtRest
    <3>2. PICK x \in {"recording", "paused"} : SetStatus(s, x)
      BY <2>3 DEF StartOrResume, PauseRecording, SetStatus
    <3> DEFINE m == [meetings[s] EXCEPT !.status = x]
    <3>3. meetings[s] \in [client : Clients, status : Statuses]
      BY <3>2 DEF TypeInv, PipeVarsOK, SetStatus, Known, MeetingStates
    <3>4. meetings' = [meetings EXCEPT ![s] = m] /\ m.status # "completed"
      BY <3>2, <3>3 DEF SetStatus
    <3> HIDE DEF m
    <3>5. \A r \in Sessions : Completed(r)' => Completed(r)
      BY <3>4 DEF Completed, Known, TypeInv, PipeVarsOK
    <3> QED BY <3>1, <3>5 DEF Controls
  <2> QED BY <1>4, <2>1, <2>2, <2>3 DEF Control, Kinds, Others, Ends
<1> QED BY <1>1, <1>2, <1>3, <1>4 DEF Next, Kinds, Others, Ends

\* How a call of Consume or Flush begins.
LEMMA ConsumeBegins ==
  ASSUME SttTypeOK, NEW c \in Callers, NEW s \in Sessions, BeginConsume(c, s)
  PROVE  /\ pc[c] = "idle" /\ pc'[c] = "provider"
         /\ \A d \in Callers \ {c} : pc'[d] = pc[d] /\ call'[d] = call[d]
         /\ call'[c].op = "consume" /\ call'[c].session = s
         /\ packets' = packets + 1 /\ call'[c].packet = packets + 1
         /\ UNCHANGED <<provider, sessions, created, issued>>
  BY DEF BeginConsume, Goto, SttTypeOK, SttVarsOK, IdleCall

LEMMA FlushBegins ==
  ASSUME SttTypeOK, NEW c \in Callers, NEW s \in Sessions, BeginFlush(c, s)
  PROVE  /\ pc[c] = "idle" /\ pc'[c] = "provider"
         /\ \A d \in Callers \ {c} : pc'[d] = pc[d] /\ call'[d] = call[d]
         /\ call'[c].op = "flush" /\ call'[c].session = s /\ call'[c].packet = 0
         /\ UNCHANGED <<provider, sessions, created, issued, packets>>
  BY DEF BeginFlush, Goto, SttTypeOK, SttVarsOK, IdleCall

LEMMA CallEnded ==
  ASSUME SttTypeOK, NEW c \in Callers, EndCall(c)
  PROVE  /\ pc[c] = "returned" /\ pc'[c] = "idle"
         /\ \A d \in Callers \ {c} : pc'[d] = pc[d] /\ call'[d] = call[d]
         /\ UNCHANGED <<provider, sessions, created, issued, packets>>
  BY DEF EndCall, Goto, SttTypeOK, SttVarsOK

LEMMA RolesStep == ASSUME TypeInv, Roles, Kinds PROVE Roles'
<1> USE PipelineAssumption
<1>1. CASE UNCHANGED <<sttVars, meetings, finished>> \/ Controls \/ ApplyConfig
  BY <1>1 DEF Controls, ApplyConfig, SetConfig, sttVars, Roles
<1>2. ASSUME NEW s \in Sessions, StopRecording(s) PROVE Roles'
  <2>1. BeginFlush(Mqtt, s)
    BY <1>2 DEF StopRecording
  <2> QED BY <2>1, FlushBegins DEF Roles, TypeInv
<1>3. ASSUME NEW s \in Sessions, AdmitPacket(s) PROVE Roles'
  <2>1. BeginConsume(Udp, s)
    BY <1>3 DEF AdmitPacket
  <2> QED BY <2>1, ConsumeBegins DEF Roles, TypeInv
<1>4. ASSUME NEW g \in Callers, CallStep(g) PROVE Roles'
  BY <1>4, CallMoves, CallKeepsSession DEF Roles, TypeInv
<1>5. ASSUME NEW g \in Callers, Ends(g) PROVE Roles'
  BY <1>5, CallEnded DEF Ends, Roles, TypeInv
<1> QED BY <1>1, <1>2, <1>3, <1>4, <1>5 DEF Kinds, Others

LEMMA RolesInitial == Init => TypeInv /\ Roles
  BY TypeInitial, PipelineAssumption DEF Init, SttInit, Roles

-----------------------------------------------------------------------------
(* The two tables of audio, empty where there is no entry, and what a step  *)
(* of a call does to them.                                                  *)

Chunks(s) == IF sessions[s] = NoState THEN {} ELSE sessions[s].chunks
Pcm(s) == IF sessions[s] = NoState THEN {} ELSE sessions[s].pcm

LEMMA Ensured ==
  ASSUME SttTypeOK, NEW s \in Sessions
  PROVE  /\ EnsureState(s) \in TranscriptState
         /\ EnsureState(s).chunks = Chunks(s) /\ EnsureState(s).pcm = Pcm(s)
  BY EnsureStateType DEF EnsureState, Chunks, Pcm, Fresh, SttTypeOK

\* The entry of s becomes st, or goes.
LEMMA EntrySet ==
  ASSUME SttTypeOK, NEW s \in Sessions, NEW st \in TranscriptState, Sets(s, st)
  PROVE  /\ sessions'[s] = st /\ st # NoState
         /\ Chunks(s)' = st.chunks /\ Pcm(s)' = st.pcm
         /\ \A r \in Sessions \ {s} : sessions'[r] = sessions[r]
  BY TranscriptAssumption DEF Sets, SttTypeOK, SttVarsOK, Chunks, Pcm

LEMMA EntryGone ==
  ASSUME SttTypeOK, NEW s \in Sessions, Forget(s)
  PROVE  /\ sessions'[s] = NoState /\ Chunks(s)' = {} /\ Pcm(s)' = {}
         /\ \A r \in Sessions \ {s} : sessions'[r] = sessions[r]
  BY DEF Forget, SttTypeOK, SttVarsOK, Chunks, Pcm

\* consumeStub
LEMMA StubConsumes ==
  ASSUME SttTypeOK, NEW c \in Callers, ConsumeStub(c), NEW s, s = call[c].session
  PROVE  LET p == issued'[Len(issued) + 1]
         IN /\ s \in Sessions /\ sessions'[s] # NoState
            /\ Chunks(s)' = Chunks(s) \cup {call[c].packet}
            /\ Pcm(s)' = Pcm(s)
            /\ \A r \in Sessions \ {s} : sessions'[r] = sessions[r]
            /\ pc'[c] = "returned" /\ issued' = Append(issued, p)
            /\ p.session = s /\ p.final = FALSE /\ p.id = sessions'[s].id
            /\ sessions[s] # NoState => sessions'[s].id = sessions[s].id
<1> DEFINE old == EnsureState(s)
           rvs == Revise(old)
           st == [rvs EXCEPT !.chunks = @ \cup {call[c].packet}]
           q == Payload(s, st.id, st.rev, st.chunks, FALSE)
<1>1. pc[c] = "stub" /\ s \in Sessions /\ call[c].op = "consume" /\ pc \in [Callers -> Labels]
  BY DEF ConsumeStub, SttTypeOK, SttVarsOK, CallOK
<1>2. old \in TranscriptState /\ old.chunks = Chunks(s) /\ old.pcm = Pcm(s)
  BY <1>1, Ensured
<1>3. rvs \in TranscriptState /\ rvs.chunks = Chunks(s) /\ rvs.pcm = Pcm(s) /\ rvs.id = old.id
  BY <1>2 DEF Revise, TranscriptState
<1>4. {call[c].packet} \in Texts
  BY <1>1 DEF SttTypeOK, SttVarsOK, CallOK, CallType, Texts, Packets
<1> HIDE DEF old, rvs
<1>5. /\ st \in TranscriptState /\ st.chunks = Chunks(s) \cup {call[c].packet}
      /\ st.pcm = Pcm(s) /\ st.id = old.id
  BY <1>3, <1>4 DEF TranscriptState, Texts
<1>6. Sets(s, st) /\ issued' = Append(issued, q) /\ Goto(c, "returned")
  BY DEF ConsumeStub, Issue, Return, Sets, old, rvs
<1>7. sessions[s] # NoState => old.id = sessions[s].id
  BY DEF old, EnsureState
<1>8. q.session = s /\ q.final = FALSE /\ q.id = st.id
  BY DEF Payload
<1>9. issued'[Len(issued) + 1] = q
  <2>1. issued \in Seq(PayloadType)
    BY DEF SttTypeOK, SttVarsOK
  <2> HIDE DEF q
  <2> QED BY <1>6, <2>1
<1>10. pc'[c] = "returned"
  BY <1>1, <1>6 DEF Goto
<1> HIDE DEF st, q
<1>11. /\ sessions'[s] = st /\ st # NoState /\ Chunks(s)' = st.chunks /\ Pcm(s)' = st.pcm
       /\ \A r \in Sessions \ {s} : sessions'[r] = sessions[r]
  BY <1>1, <1>5, <1>6, EntrySet
<1> QED BY <1>1, <1>5, <1>6, <1>7, <1>8, <1>9, <1>10, <1>11

\* flushStub: an empty transcript is left alone, any other is ended.
LEMMA StubFlushes ==
  ASSUME SttTypeOK, NEW c \in Callers, FlushStub(c), NEW s, s = call[c].session
  PROVE  LET p == issued'[Len(issued) + 1]
         IN /\ s \in Sessions /\ Chunks(s)' = {} /\ pc'[c] = "returned"
            /\ Pcm(s)' \in {Pcm(s), {}} /\ UNCHANGED <<created, packets>>
            /\ \A r \in Sessions \ {s} : sessions'[r] = sessions[r]
            /\ \/ /\ Chunks(s) = {} /\ UNCHANGED <<sessions, issued>>
                  /\ call'[c].result = NoPayload
               \/ /\ Chunks(s) # {} /\ sessions[s] # NoState /\ sessions'[s] = NoState
                  /\ issued' = Append(issued, p) /\ call'[c].result = p
                  /\ p.final = TRUE /\ p.text = Chunks(s) /\ p.id = sessions[s].id
<1> DEFINE st == Revise(sessions[s])
           q == Payload(s, st.id, st.rev, st.chunks, TRUE)
<1>1. /\ pc[c] = "stub" /\ s \in Sessions /\ pc \in [Callers -> Labels]
      /\ call \in [Callers -> CallType] /\ issued \in Seq(PayloadType)
      /\ UNCHANGED <<created, packets>>
  BY DEF FlushStub, SttTypeOK, SttVarsOK, CallOK
<1>2. CASE ~ HasChunks(s)
  <2>1. Return(c, NoPayload) /\ UNCHANGED <<sessions, issued>>
    BY <1>2 DEF FlushStub, ReturnNothing
  <2>2. pc'[c] = "returned" /\ call'[c].result = NoPayload
    BY <1>1, <2>1 DEF Return, Goto, CallType
  <2>3. Chunks(s) = {}
    BY <1>2 DEF HasChunks, Chunks
  <2> QED BY <1>1, <2>1, <2>2, <2>3 DEF Chunks, Pcm
<1>3. CASE HasChunks(s)
  <2>1. Return(c, q) /\ issued' = Append(issued, q) /\ Forget(s)
    BY <1>3 DEF FlushStub, Issue
  <2>2. sessions[s] \in TranscriptState /\ sessions[s] # NoState /\ Chunks(s) = sessions[s].chunks
        /\ Chunks(s) # {}
    BY <1>1, <1>3 DEF HasChunks, Chunks, SttTypeOK, SttVarsOK
  <2>3. q.final = TRUE /\ q.text = Chunks(s) /\ q.id = sessions[s].id
    BY <2>2, ReviseType DEF Payload
  <2>4. pc'[c] = "returned" /\ call'[c].result = q
    <3> HIDE DEF q
    <3> QED BY <1>1, <2>1 DEF Return, Goto, CallType
  <2>5. issued'[Len(issued) + 1] = q
    <3> HIDE DEF q
    <3> QED BY <1>1, <2>1
  <2> HIDE DEF q
  <2> QED BY <1>1, <2>1, <2>2, <2>3, <2>4, <2>5, EntryGone
<1> QED BY <1>2, <1>3

\* The recognizer's steps leave the chunks of an entry alone, and only
\* BufferAudio adds to its audio.
LEMMA RecognizerTables ==
  ASSUME SttTypeOK, NEW c \in Callers,
         \/ BufferAudio(c)
         \/ \E answer \in AnswersOf(c) : ConsumeRecognized(c, answer) \/ FlushRecognized(c, answer),
         NEW s, s = call[c].session
  PROVE  /\ s \in Sessions /\ Chunks(s)' \in {Chunks(s), {}}
         /\ \/ Pcm(s)' \in {Pcm(s), {}}
            \/ BufferAudio(c) /\ Pcm(s)' = Pcm(s) \cup {call[c].packet}
         /\ \A r \in Sessions \ {s} : sessions'[r] = sessions[r]
<1>1. s \in Sessions /\ EnsureState(s) \in TranscriptState
      /\ EnsureState(s).chunks = Chunks(s) /\ EnsureState(s).pcm = Pcm(s)
  <2>1. s \in Sessions
    BY DEF SttTypeOK, SttVarsOK, CallOK, BufferAudio, ConsumeRecognized, FlushRecognized
  <2> QED BY <2>1, Ensured
<1> DEFINE old == EnsureState(s)
<1> HIDE DEF old
<1>2. CASE BufferAudio(c)
  <2> DEFINE st == Buffered(old, call[c].packet)
  <2>1. call[c].packet \in Packets
    BY <1>2 DEF BufferAudio, SttTypeOK, SttVarsOK, CallOK, CallType, Packets
  <2>2. /\ st \in TranscriptState /\ st.chunks = Chunks(s) /\ st.pcm = Pcm(s) \cup {call[c].packet}
    <3>1. old \in TranscriptState /\ old.chunks = Chunks(s) /\ old.pcm = Pcm(s)
      BY <1>1 DEF old
    <3>2. st \in TranscriptState
      BY <2>1, <3>1, BufferedType
    <3>3. st.chunks = old.chunks /\ st.pcm = old.pcm \cup {call[c].packet}
      BY <3>1 DEF Buffered, TranscriptState
    <3> QED BY <3>1, <3>2, <3>3
  <2>3. Sets(s, st)
    BY <1>2 DEF BufferAudio, Sets, old
  <2> HIDE DEF st
  <2> QED BY <1>1, <1>2, <2>2, <2>3, EntrySet
<1>3. ASSUME NEW st \in TranscriptState, st.chunks = Chunks(s), st.pcm = Pcm(s), Sets(s, st)
      PROVE  Chunks(s)' = Chunks(s) /\ Pcm(s)' = Pcm(s) /\ \A r \in Sessions \ {s} : sessions'[r] = sessions[r]
  BY <1>1, <1>3, EntrySet
<1>4. ASSUME NEW t \in Texts, NEW e \in TranscriptState, e.chunks = Chunks(s), e.pcm = Pcm(s)
      PROVE  /\ Recognized(e, t) \in TranscriptState
             /\ Recognized(e, t).chunks = Chunks(s) /\ Recognized(e, t).pcm = Pcm(s)
  BY <1>4, RecognizedType DEF Recognized, TranscriptState
<1>5. /\ Revise(old) \in TranscriptState
      /\ Revise(old).chunks = Chunks(s) /\ Revise(old).pcm = Pcm(s)
  <2>1. old \in TranscriptState /\ old.chunks = Chunks(s) /\ old.pcm = Pcm(s)
    BY <1>1 DEF old
  <2> QED BY <2>1 DEF Revise, TranscriptState
<1>6. ASSUME NEW answer \in AnswersOf(c), ConsumeRecognized(c, answer)
      PROVE  \/ UNCHANGED sessions
             \/ Sets(s, Recognized(old, Spoken(c, answer)))
             \/ Sets(s, Recognized(Revise(old), Spoken(c, answer)))
  BY <1>6 DEF ConsumeRecognized, Sets, old
<1>7. ASSUME NEW answer \in AnswersOf(c), FlushRecognized(c, answer)
      PROVE  UNCHANGED sessions \/ Forget(s)
  BY <1>7 DEF FlushRecognized
<1>8. \A answer \in AnswersOf(c) : Spoken(c, answer) \in Texts
  BY SpokenType
<1>9. /\ old \in TranscriptState /\ old.chunks = Chunks(s) /\ old.pcm = Pcm(s)
  BY <1>1 DEF old
<1>10. CASE UNCHANGED sessions
  BY <1>1, <1>10 DEF Chunks, Pcm
<1>11. CASE Forget(s)
  BY <1>1, <1>11, EntryGone
<1>12. ASSUME NEW answer \in AnswersOf(c), ConsumeRecognized(c, answer), ~ UNCHANGED sessions
       PROVE  Chunks(s)' = Chunks(s) /\ Pcm(s)' = Pcm(s) /\ \A r \in Sessions \ {s} : sessions'[r] = sessions[r]
  <2> DEFINE a == Recognized(old, Spoken(c, answer))
             b == Recognized(Revise(old), Spoken(c, answer))
  <2>1. /\ a \in TranscriptState /\ a.chunks = Chunks(s) /\ a.pcm = Pcm(s)
        /\ b \in TranscriptState /\ b.chunks = Chunks(s) /\ b.pcm = Pcm(s)
    BY <1>4, <1>5, <1>8, <1>9
  <2>2. Sets(s, a) \/ Sets(s, b)
    BY <1>6, <1>12
  <2> HIDE DEF a, b
  <2> QED BY <1>3, <2>1, <2>2
<1> QED BY <1>1, <1>2, <1>7, <1>10, <1>11, <1>12

\* What a step of a call may do to the tables.
LEMMA TableEffect ==
  ASSUME SttTypeOK, NEW c \in Callers, CallStep(c), NEW s, s = call[c].session
  PROVE  /\ s \in Sessions
         /\ \/ Chunks(s)' \in {Chunks(s), {}}
            \/ ConsumeStub(c) /\ Chunks(s)' = Chunks(s) \cup {call[c].packet}
         /\ \/ Pcm(s)' \in {Pcm(s), {}}
            \/ BufferAudio(c) /\ Pcm(s)' = Pcm(s) \cup {call[c].packet}
         /\ \A r \in Sessions \ {s} : sessions'[r] = sessions[r]
<1>1. s \in Sessions
  BY CallMoves DEF SttTypeOK, CallOK
<1>2. CASE ConsumeStub(c)
  BY <1>2, StubConsumes
<1>3. CASE FlushStub(c)
  BY <1>3, StubFlushes
<1>4. CASE \/ BufferAudio(c)
           \/ \E answer \in AnswersOf(c) : ConsumeRecognized(c, answer) \/ FlushRecognized(c, answer)
  BY <1>4, RecognizerTables
<1>5. CASE UNCHANGED sessions
  BY <1>1, <1>5 DEF Chunks, Pcm
<1>6. \/ UNCHANGED sessions \/ ConsumeStub(c) \/ FlushStub(c) \/ BufferAudio(c)
      \/ \E answer \in AnswersOf(c) : ConsumeRecognized(c, answer) \/ FlushRecognized(c, answer)
  BY DEF CallStep, ReadProvider, ReadFactory, CaptureAudio, FindStream, TakeStream, StreamAnswer,
         StreamStore, StreamLoad
<1> QED BY <1>2, <1>3, <1>4, <1>5, <1>6

\* Where a call goes on to.
LEMMA LabelEffect ==
  ASSUME SttTypeOK, NEW c \in Callers, CallStep(c)
  PROVE  /\ UNCHANGED provider
         /\ pc'[c] # "provider"
         /\ pc'[c] = "stub" => pc[c] = "provider" /\ provider = "stub"
         /\ pc'[c] \in {"factory", "buffer"} => pc[c] \in {"provider", "factory"}
         /\ pc'[c] = "recognize" => pc[c] = "buffer" /\ (CaptureAudio(c) \/ BufferAudio(c))
         /\ pc[c] = "provider" /\ provider = "stub" => pc'[c] = "stub"
         /\ pc[c] = "stub" => (ConsumeStub(c) \/ FlushStub(c)) /\ pc'[c] = "returned"
<1>1. pc \in [Callers -> Labels]
  BY DEF SttTypeOK, SttVarsOK
<1>2. CASE ReadProvider(c)
  BY <1>1, <1>2 DEF ReadProvider, Goto
<1>3. CASE ReadFactory(c)
  BY <1>1, <1>3 DEF ReadFactory, Goto
<1>4. CASE ConsumeStub(c) \/ FlushStub(c)
  BY <1>1, <1>4 DEF ConsumeStub, FlushStub, Issue, ReturnNothing, Return, Goto
<1>5. CASE BufferAudio(c) \/ CaptureAudio(c)
  BY <1>1, <1>5 DEF BufferAudio, CaptureAudio, ReturnNothing, Return, Goto
<1>6. CASE \E answer \in AnswersOf(c) : ConsumeRecognized(c, answer) \/ FlushRecognized(c, answer)
  BY <1>1, <1>6 DEF ConsumeRecognized, FlushRecognized, Issue, ReturnNothing, Return, Goto
<1>7. CASE FindStream(c) \/ TakeStream(c)
  BY <1>1, <1>7 DEF FindStream, TakeStream, CallNilFactory, ReturnNothing, Return, Goto
<1>8. CASE (\E speaks \in BOOLEAN : StreamAnswer(c, speaks)) \/ StreamStore(c) \/ StreamLoad(c)
  BY <1>1, <1>8 DEF StreamAnswer, StreamStore, StreamLoad, ReturnNothing, Return, Goto
<1> QED BY <1>2, <1>3, <1>4, <1>5, <1>6, <1>7, <1>8 DEF CallStep

-----------------------------------------------------------------------------
(* What a stop leaves behind in the stub.                                   *)

\* Udp may still put a packet of s among the chunks; Mqtt may still take them.
Straggler(s) ==
  /\ call[Udp].session = s
  /\ pc[Udp] = "stub" \/ (pc[Udp] = "provider" /\ provider = "stub")
Pending(s) == call[Mqtt].session = s /\ pc[Mqtt] \in {"provider", "stub"}

Few(s) == AtMostOne(Chunks(s)) /\ (Straggler(s) => Chunks(s) = {})

\* LeftoverBounded is not inductive: a stop would still have to come to its
\* flush, with one packet at most behind it.  A provider without chunks has them
\* only from a packet that was on its way when it was configured.
FewLeft == \A s \in Sessions : provider # "stub" \/ (Completed(s) /\ ~ Pending(s)) => Few(s)
LeftInv == TypeInv /\ Roles /\ FewLeft

\* A step that leaves a session no more chunks, and no new packet on the way.
LEMMA FewKept ==
  ASSUME NEW s \in Sessions, Few(s), Chunks(s)' \in {Chunks(s), {}}, Straggler(s)' => Straggler(s)
  PROVE  Few(s)'
  BY DEF Few, AtMostOne

LEMMA FewLeftByCall ==
  ASSUME LeftInv, NEW g \in Callers, CallStep(g), UNCHANGED pipeVars
  PROVE  FewLeft'
<1> USE PipelineAssumption
<1> DEFINE x == call[g].session
<1>1. /\ SttTypeOK /\ Roles /\ UNCHANGED provider
      /\ pc[g] # "idle" /\ \A d \in Callers \ {g} : pc'[d] = pc[d]
      /\ \A d \in Callers : call'[d].session = call[d].session
  BY CallMoves, CallKeepsSession, LabelEffect DEF LeftInv, TypeInv
<1>2. \A s \in Sessions : Completed(s)' <=> Completed(s)
  BY DEF pipeVars, Completed, Known
<1>3. \A s \in Sessions : Straggler(s)' => Straggler(s)
  BY <1>1, LabelEffect DEF Straggler
<1>4. \A s \in Sessions : Pending(s) /\ ~ Pending(s)' =>
        \/ Chunks(s)' = {}
        \/ provider # "stub"
  <2> SUFFICES ASSUME NEW s \in Sessions, Pending(s), ~ Pending(s)', provider = "stub"
               PROVE  Chunks(s)' = {}
    OBVIOUS
  <2>1. g = Mqtt /\ s = call[g].session
    BY <1>1 DEF Pending
  <2>2. pc[g] = "stub"
    BY <1>1, <2>1, LabelEffect DEF Pending
  <2>3. FlushStub(g)
    BY <1>1, <2>1, <2>2, LabelEffect DEF Roles, ConsumeStub
  <2> QED BY <1>1, <2>1, <2>3, StubFlushes
<1> SUFFICES ASSUME NEW s \in Sessions, (provider # "stub" \/ (Completed(s) /\ ~ Pending(s)))'
             PROVE  Few(s)'
  BY DEF FewLeft
<1>5. CASE Chunks(s)' = {}
  BY <1>5 DEF Few, AtMostOne
<1>6. CASE Chunks(s)' # {}
  <2>1. Few(s)
    BY <1>1, <1>2, <1>4, <1>6 DEF LeftInv, FewLeft
  <2>2. CASE Chunks(s)' \in {Chunks(s), {}}
    BY <1>3, <2>1, <2>2, FewKept
  <2>3. CASE Chunks(s)' \notin {Chunks(s), {}}
    <3>1. s = x /\ ConsumeStub(g) /\ Chunks(s)' = Chunks(s) \cup {call[g].packet}
      <4>1. s = x
        BY <1>1, <2>3, TableEffect DEF Chunks
      <4> QED BY <1>1, <2>3, <4>1, TableEffect
    <3>2. g = Udp /\ pc[Udp] = "stub" /\ pc'[Udp] = "returned"
      BY <1>1, <3>1, LabelEffect DEF Roles, ConsumeStub
    <3>3. Chunks(s) = {}
      BY <2>1, <3>1, <3>2 DEF Few, Straggler
    <3>4. ~ Straggler(s)'
      BY <3>2 DEF Straggler
    <3> HIDE DEF x
    <3> QED BY <3>1, <3>3, <3>4 DEF Few, AtMostOne
  <2> QED BY <2>2, <2>3
<1> QED BY <1>5, <1>6

LEMMA FewLeftByOthers ==
  ASSUME LeftInv, Others
  PROVE  FewLeft'
<1> USE PipelineAssumption
<1>1. SttTypeOK /\ Roles
  BY DEF LeftInv, TypeInv
<1>2. ASSUME ApplyConfig PROVE FewLeft'
  <2>1. \A s \in Sessions : Chunks(s)' = {}
    BY <1>2 DEF ApplyConfig, SetConfig, Chunks
  <2> QED BY <2>1 DEF FewLeft, Few, AtMostOne
<1>3. ASSUME UNCHANGED <<provider, sessions>>,
             \A s \in Sessions : Straggler(s)' => Straggler(s),
             \A s \in Sessions : Completed(s)' /\ ~ Pending(s)' => Completed(s) /\ ~ Pending(s)
      PROVE  FewLeft'
  <2>1. \A s \in Sessions : Chunks(s)' = Chunks(s)
    BY <1>3 DEF Chunks
  <2> QED BY <1>3, <2>1, FewKept DEF LeftInv, FewLeft
<1>4. CASE UNCHANGED <<sttVars, meetings, finished>> \/ Controls
  <2>1. UNCHANGED sttVars /\ \A s \in Sessions : Completed(s)' => Completed(s)
    BY <1>4 DEF Controls, Completed, Known
  <2>2. \A s \in Sessions : (Straggler(s)' <=> Straggler(s)) /\ (Pending(s)' <=> Pending(s))
    BY <2>1 DEF sttVars, Straggler, Pending
  <2> QED BY <1>3, <2>1, <2>2 DEF sttVars
<1>5. ASSUME NEW g \in Callers, Ends(g) PROVE FewLeft'
  <2>1. /\ pc[g] = "returned" /\ pc'[g] = "idle" /\ UNCHANGED <<provider, sessions>>
        /\ \A d \in Callers \ {g} : pc'[d] = pc[d] /\ call'[d] = call[d]
    BY <1>1, <1>5, CallEnded DEF Ends
  <2>2. \A s \in Sessions : Straggler(s)' => Straggler(s)
    BY <2>1 DEF Straggler
  <2>3. \A s \in Sessions : (Pending(s)' <=> Pending(s)) /\ (Completed(s)' <=> Completed(s))
    BY <1>5, <2>1 DEF Ends, Pending, Completed, Known
  <2> QED BY <1>3, <2>1, <2>2, <2>3
<1>6. ASSUME NEW r \in Sessions, AdmitPacket(r) PROVE FewLeft'
  <2>1. /\ Recording(r) /\ UNCHANGED meetings
        /\ pc[Udp] = "idle" /\ pc'[Udp] = "provider" /\ UNCHANGED <<provider, sessions>>
        /\ pc'[Mqtt] = pc[Mqtt] /\ call'[Mqtt] = call[Mqtt] /\ call'[Udp].session = r
    BY <1>1, <1>6, ConsumeBegins DEF AdmitPacket, Admissible
  <2> SUFFICES ASSUME NEW s \in Sessions, (provider # "stub" \/ (Completed(s) /\ ~ Pending(s)))'
               PROVE  Few(s)'
    BY DEF FewLeft
  <2>2. Completed(s)' <=> Completed(s)
    BY <2>1 DEF Completed, Known
  <2>3. Pending(s)' <=> Pending(s)
    BY <2>1 DEF Pending
  <2>4. Few(s)
    BY <2>1, <2>2, <2>3 DEF LeftInv, FewLeft
  <2>5. ~ Straggler(s)'
    BY <2>1, <2>2 DEF Straggler, Completed, Recording
  <2>6. Chunks(s)' = Chunks(s)
    BY <2>1 DEF Chunks
  <2> QED BY <2>4, <2>5, <2>6, FewKept
<1>7. ASSUME NEW r \in Sessions, StopRecording(r) PROVE FewLeft'
  <2>1. /\ pc[Mqtt] = "idle" /\ pc'[Mqtt] = "provider" /\ UNCHANGED <<provider, sessions>>
        /\ pc'[Udp] = pc[Udp] /\ call'[Udp] = call[Udp] /\ call'[Mqtt].session = r
    BY <1>1, <1>7, FlushBegins DEF StopRecording
  <2>2. \A s \in Sessions : Straggler(s)' <=> Straggler(s)
    BY <2>1 DEF Straggler
  <2>3. \A s \in Sessions : ~ Pending(s)' => s # r
    BY <2>1 DEF Pending
  <2>4. \A s \in Sessions \ {r} : (Completed(s)' <=> Completed(s)) /\ ~ Pending(s)
    BY <1>7, <2>1 DEF StopRecording, Completed, Known, Pending, LeftInv, TypeInv, PipeVarsOK
  <2> QED BY <1>3, <2>1, <2>2, <2>3, <2>4
<1> QED BY <1>2, <1>4, <1>5, <1>6, <1>7 DEF Others

LEMMA LeftInitial == Init => LeftInv
<1>1. ASSUME Init PROVE FewLeft
  <2>1. \A s \in Sessions : Chunks(s) = {}
    BY <1>1 DEF Init, SttInit, Chunks
  <2> QED BY <2>1 DEF FewLeft, Few, AtMostOne
<1> QED BY <1>1, RolesInitial DEF LeftInv

LEMMA LeftStep == LeftInv /\ [Next]_vars => LeftInv'
<1> SUFFICES ASSUME LeftInv, [Next]_vars PROVE LeftInv'
  OBVIOUS
<1>1. TypeInv' /\ Kinds
  BY TypeStep, StepKinds DEF LeftInv
<1>2. Roles'
  BY <1>1, RolesStep DEF LeftInv
<1>3. FewLeft'
  BY <1>1, FewLeftByCall, FewLeftByOthers DEF Kinds
<1> QED BY <1>1, <1>2, <1>3 DEF LeftInv

(* A session that is completed and at rest leaves at most one chunk in the  *)
(* stub (flushStub against a packet sessionForIngest had admitted), for     *)
(* every provider and however often the administrator changes it.           *)
THEOREM StopsLeaveOneChunk == Spec => []LeftoverBounded
<1>1. ASSUME LeftInv PROVE LeftoverBounded
  <2> SUFFICES ASSUME NEW s \in Sessions, Completed(s), pc[Mqtt] = "idle", sessions[s] # NoState
               PROVE  Cardinality(sessions[s].chunks) <= 1
    BY DEF LeftoverBounded, Completed
  <2>1. Few(s)
    BY <1>1 DEF LeftInv, FewLeft, Pending
  <2> QED BY <2>1, AtMostOneCounts DEF Few, Chunks
<1> QED BY <1>1, LeftInitial, LeftStep, PTL DEF Spec

-----------------------------------------------------------------------------
(* What the final of the HTTP recognizer misses.                            *)

\* Udp may still buffer a packet of s.
Unbuffered(s) == call[Udp].session = s /\ pc[Udp] \in {"provider", "factory", "buffer"}

\* The audio of s buffered since Mqtt captured it.
Missed(s) == Pcm(s) \ call[Mqtt].audio

\* The session of a stop stays completed until the stop is replied, so that the
\* only audio to come is what Udp has in hand.
StopsComplete == \A s \in Sessions : pc[Mqtt] # "idle" /\ call[Mqtt].session = s => Completed(s)

FewMissed ==
  \A s \in Sessions : pc[Mqtt] = "recognize" /\ call[Mqtt].session = s =>
    AtMostOne(Missed(s)) /\ (Unbuffered(s) => Missed(s) = {})

MissInv == TypeInv /\ Roles /\ StopsComplete /\ FewMissed

LEMMA StopsCompleteStep == ASSUME MissInv, Kinds PROVE StopsComplete'
<1> USE PipelineAssumption
<1>1. SttTypeOK /\ StopsComplete
  BY DEF MissInv, TypeInv
<1>2. CASE Controls
  BY <1>2 DEF Controls, StopsComplete, sttVars
<1>3. CASE UNCHANGED <<sttVars, meetings, finished>> \/ ApplyConfig
  BY <1>1, <1>3 DEF ApplyConfig, SetConfig, sttVars, pipeVars, StopsComplete, Completed, Known
<1>4. ASSUME NEW r \in Sessions, StopRecording(r) PROVE StopsComplete'
  <2>1. call'[Mqtt].session = r
    BY <1>1, <1>4, FlushBegins DEF StopRecording
  <2> DEFINE m == [meetings[r] EXCEPT !.status = "completed"]
  <2>2. meetings[r] \in [client : Clients, status : Statuses]
    BY <1>4 DEF StopRecording, MissInv, TypeInv, PipeVarsOK, Known, MeetingStates
  <2>3. m \in MeetingStates /\ m.status = "completed"
    BY <2>2 DEF MeetingStates, Statuses
  <2>4. meetings'[r] = m
    BY <1>4 DEF StopRecording, MissInv, TypeInv, PipeVarsOK
  <2> HIDE DEF m
  <2>5. m \in [client : Clients, status : Statuses]
    BY <2>2 DEF m, Statuses
  <2>6. m # NoMeeting
    BY <2>5, MeetingAssumption
  <2> QED BY <2>1, <2>3, <2>4, <2>6 DEF StopsComplete, Completed, Known
<1>5. ASSUME NEW r \in Sessions, AdmitPacket(r) PROVE StopsComplete'
  <2>1. pc'[Mqtt] = pc[Mqtt] /\ call'[Mqtt] = call[Mqtt] /\ UNCHANGED meetings
    BY <1>1, <1>5, ConsumeBegins DEF AdmitPacket
  <2> QED BY <1>1, <2>1 DEF StopsComplete, Completed, Known
<1>6. ASSUME NEW g \in Callers, CallStep(g), UNCHANGED pipeVars PROVE StopsComplete'
  <2>1. /\ pc'[Mqtt] # "idle" => pc[Mqtt] # "idle"
        /\ call'[Mqtt].session = call[Mqtt].session /\ UNCHANGED meetings
    BY <1>1, <1>6, CallMoves, CallKeepsSession DEF pipeVars
  <2> QED BY <1>1, <2>1 DEF StopsComplete, Completed, Known
<1>7. ASSUME NEW g \in Callers, Ends(g) PROVE StopsComplete'
  <2>1. pc'[Mqtt] # "idle" => pc[Mqtt] # "idle" /\ call'[Mqtt] = call[Mqtt]
    BY <1>1, <1>7, CallEnded DEF Ends
  <2> QED BY <1>1, <1>7, <2>1 DEF Ends, StopsComplete, Completed, Known
<1> QED BY <1>2, <1>3, <1>4, <1>5, <1>6, <1>7 DEF Kinds, Others

LEMMA FewMissedByCall ==
  ASSUME MissInv, NEW g \in Callers, CallStep(g)
  PROVE  FewMissed'
<1> USE PipelineAssumption
<1>1. /\ SttTypeOK /\ Roles /\ pc[g] # "idle"
      /\ \A d \in Callers \ {g} : pc'[d] = pc[d] /\ call'[d] = call[d]
      /\ call'[g].session = call[g].session
  BY CallMoves, CallKeepsSession DEF MissInv, TypeInv
<1> SUFFICES ASSUME NEW s \in Sessions, pc'[Mqtt] = "recognize", call'[Mqtt].session = s
             PROVE  AtMostOne(Missed(s))' /\ (Unbuffered(s)' => Missed(s)' = {})
  BY DEF FewMissed
<1>2. CASE g = Mqtt
  <2>1. CaptureAudio(Mqtt)
    BY <1>1, <1>2, LabelEffect DEF Roles, BufferAudio
  <2>2. s = call[Mqtt].session
    BY <1>1, <1>2
  <2>3. call'[Mqtt].audio = Pcm(s) /\ UNCHANGED sessions
    <3>1. HasAudio(s) \/ Return(Mqtt, NoPayload)
      BY <2>1, <2>2 DEF CaptureAudio, ReturnNothing
    <3>2. ~ Return(Mqtt, NoPayload)
      BY <1>1 DEF Return, Goto, SttTypeOK, SttVarsOK
    <3>3. Capture(Mqtt, sessions[s]) /\ sessions[s] # NoState /\ UNCHANGED sessions
      BY <2>1, <2>2, <3>2 DEF CaptureAudio, ReturnNothing, HasAudio
    <3> QED BY <1>1, <3>3 DEF Capture, SttTypeOK, SttVarsOK, CallType, Pcm
  <2>4. Missed(s)' = {}
    BY <2>3 DEF Missed, Pcm
  <2> QED BY <2>4 DEF AtMostOne
<1>3. CASE g = Udp
  <2>1. /\ pc[Mqtt] = "recognize" /\ call[Mqtt].session = s /\ call'[Mqtt].audio = call[Mqtt].audio
    BY <1>1, <1>3
  <2>2. AtMostOne(Missed(s)) /\ (Unbuffered(s) => Missed(s) = {})
    BY <2>1 DEF MissInv, FewMissed
  <2>3. Unbuffered(s)' => Unbuffered(s) /\ pc[Udp] # "buffer"
    BY <1>1, <1>3, LabelEffect DEF Unbuffered
  <2>4. CASE Pcm(s)' \in {Pcm(s), {}}
    <3>1. Missed(s)' \in {Missed(s), {}}
      BY <2>1, <2>4 DEF Missed
    <3> QED BY <2>2, <2>3, <3>1 DEF AtMostOne
  <2>5. CASE Pcm(s)' \notin {Pcm(s), {}}
    <3>1. s = call[Udp].session
      BY <1>1, <1>3, <2>5, TableEffect DEF Pcm
    <3>2. BufferAudio(Udp) /\ Pcm(s)' = Pcm(s) \cup {call[Udp].packet}
      BY <1>1, <1>3, <2>5, <3>1, TableEffect
    <3>3. pc[Udp] = "buffer"
      BY <3>2 DEF BufferAudio
    <3>4. Missed(s) = {}
      BY <2>2, <3>1, <3>3 DEF Unbuffered
    <3>5. Missed(s)' \subseteq {call[Udp].packet}
      BY <2>1, <3>2, <3>4 DEF Missed
    <3> QED BY <2>3, <3>3, <3>5 DEF AtMostOne
  <2> QED BY <2>4, <2>5
<1> QED BY <1>2, <1>3

LEMMA FewMissedByOthers == ASSUME MissInv, Others PROVE FewMissed'
<1> USE PipelineAssumption
<1>1. SttTypeOK
  BY DEF MissInv, TypeInv
<1>2. CASE UNCHANGED <<sttVars, meetings, finished>> \/ Controls
  <2>1. UNCHANGED sttVars
    BY <1>2 DEF Controls
  <2> QED BY <2>1 DEF sttVars, MissInv, FewMissed, Missed, Unbuffered, Pcm, AtMostOne
<1>3. CASE ApplyConfig
  <2>1. \A s \in Sessions : Missed(s)' = {}
    BY <1>3 DEF ApplyConfig, SetConfig, Missed, Pcm
  <2> QED BY <2>1 DEF FewMissed, AtMostOne
<1>4. ASSUME UNCHANGED sessions, call'[Mqtt] = call[Mqtt], pc'[Mqtt] = pc[Mqtt],
             \A s \in Sessions : Unbuffered(s)' =>
               Unbuffered(s) \/ ~ (pc[Mqtt] = "recognize" /\ call[Mqtt].session = s)
      PROVE  FewMissed'
  <2>1. \A s \in Sessions : Missed(s)' = Missed(s)
    BY <1>4 DEF Missed, Pcm
  <2> QED BY <1>4, <2>1 DEF MissInv, FewMissed, AtMostOne
<1>5. ASSUME NEW r \in Sessions, StopRecording(r) PROVE FewMissed'
  BY <1>1, <1>5, FlushBegins DEF StopRecording, FewMissed
<1>6. ASSUME NEW r \in Sessions, AdmitPacket(r) PROVE FewMissed'
  <2>1. /\ UNCHANGED sessions /\ call'[Mqtt] = call[Mqtt] /\ pc'[Mqtt] = pc[Mqtt]
        /\ call'[Udp].session = r /\ ~ Completed(r)
    BY <1>1, <1>6, ConsumeBegins DEF AdmitPacket, Admissible, Recording, Completed
  <2>2. ~ (pc[Mqtt] = "recognize" /\ call[Mqtt].session = r)
    BY <2>1 DEF MissInv, StopsComplete
  <2> QED BY <1>4, <2>1, <2>2 DEF Unbuffered
<1>7. ASSUME NEW g \in Callers, Ends(g) PROVE FewMissed'
  <2>1. /\ pc'[g] = "idle" /\ UNCHANGED sessions
        /\ \A d \in Callers \ {g} : pc'[d] = pc[d] /\ call'[d] = call[d]
    BY <1>1, <1>7, CallEnded DEF Ends
  <2>2. CASE g = Mqtt
    BY <2>1, <2>2 DEF FewMissed
  <2>3. CASE g = Udp
    BY <1>4, <2>1, <2>3 DEF Unbuffered
  <2> QED BY <2>2, <2>3
<1> QED BY <1>2, <1>3, <1>5, <1>6, <1>7 DEF Others

LEMMA MissInitial == Init => MissInv
  BY RolesInitial, PipelineAssumption DEF MissInv, Init, SttInit, StopsComplete, FewMissed

LEMMA MissStep == MissInv /\ [Next]_vars => MissInv'
<1> SUFFICES ASSUME MissInv, [Next]_vars PROVE MissInv'
  OBVIOUS
<1>1. TypeInv' /\ Kinds
  BY TypeStep, StepKinds DEF MissInv
<1>2. Roles'
  BY <1>1, RolesStep DEF MissInv
<1>3. FewMissed'
  BY <1>1, FewMissedByCall, FewMissedByOthers DEF Kinds
<1> QED BY <1>1, <1>2, <1>3, StopsCompleteStep DEF MissInv

\* A recognition in a stop ends only in FlushRecognized.
LEMMA RecognizedByFlush ==
  ASSUME TypeInv, Roles, Kinds, pc[Mqtt] = "recognize", pc'[Mqtt] = "returned"
  PROVE  \E answer \in AnswersOf(Mqtt) : FlushRecognized(Mqtt, answer)
<1> USE PipelineAssumption
<1>1. SttTypeOK
  BY DEF TypeInv
<1>2. CASE Others
  <2>1. CASE UNCHANGED <<sttVars, meetings, finished>> \/ Controls \/ ApplyConfig
    BY <2>1 DEF Controls, ApplyConfig, SetConfig, sttVars
  <2>2. ASSUME NEW s \in Sessions, StopRecording(s) \/ AdmitPacket(s) PROVE FALSE
    BY <1>1, <2>2, FlushBegins, ConsumeBegins DEF StopRecording, AdmitPacket
  <2>3. ASSUME NEW g \in Callers, Ends(g) PROVE FALSE
    BY <1>1, <2>3, CallEnded DEF Ends
  <2> QED BY <1>2, <2>1, <2>2, <2>3 DEF Others
<1>3. ASSUME NEW g \in Callers, CallStep(g) PROVE g = Mqtt
  BY <1>1, <1>3, CallMoves
<1>4. CASE CallStep(Mqtt)
  <2>1. call[Mqtt].op = "flush"
    BY DEF Roles
  <2> QED BY <1>4, <2>1 DEF CallStep, ReadProvider, ReadFactory, ConsumeStub, FlushStub, BufferAudio,
           CaptureAudio, ConsumeRecognized, FindStream, TakeStream, StreamAnswer, StreamStore, StreamLoad
<1> QED BY <1>2, <1>3, <1>4 DEF Kinds

\* The final says what the captured audio says, or repeats the text kept before.
LEMMA FinalText ==
  ASSUME SttTypeOK, NEW answer, FlushRecognized(Mqtt, answer), call'[Mqtt].result # NoPayload
  PROVE  call'[Mqtt].result.text \in {call[Mqtt].audio, call[Mqtt].prev}
<1> USE PipelineAssumption
<1> DEFINE text == IF Spoken(Mqtt, answer) = {} THEN call[Mqtt].prev ELSE Spoken(Mqtt, answer)
<1>1. text \in {call[Mqtt].audio, call[Mqtt].prev}
  BY DEF Spoken
<1>2. ~ Return(Mqtt, NoPayload)
  BY DEF Return, SttTypeOK, SttVarsOK, CallType
<1>3. \E s, id, rev : Return(Mqtt, Payload(s, id, rev, text, TRUE))
  BY <1>2 DEF FlushRecognized, ReturnNothing, Issue
<1>4. PICK s, id, rev : Return(Mqtt, Payload(s, id, rev, text, TRUE))
  BY <1>3
<1> HIDE DEF text
<1> DEFINE final == Payload(s, id, rev, text, TRUE)
<1>5. final.text = text
  BY DEF Payload
<1> HIDE DEF final
<1>6. call'[Mqtt].result = final
  BY <1>4 DEF final, Return, SttTypeOK, SttVarsOK, CallType
<1> QED BY <1>1, <1>5, <1>6

(* A final of the HTTP recognizer misses at most the one packet that was    *)
(* admitted before the stop (flushWithRecognizer against                    *)
(* consumeWithRecognizer), or repeats the text kept when the flush began,   *)
(* whatever the provider answers and however it is changed meanwhile.       *)
THEOREM FinalsMissOnePacket == Spec => FinalMissesAtMostOne
<1> USE PipelineAssumption
<1> DEFINE Bound ==
      pc[Mqtt] = "recognize" /\ pc'[Mqtt] = "returned" /\ call'[Mqtt].result # NoPayload
        => LET st    == sessions[call[Mqtt].session]
               final == call'[Mqtt].result
           IN \/ st = NoState
              \/ Cardinality(st.pcm \ final.text) <= 1
              \/ final.text = call[Mqtt].prev
<1>1. MissInv /\ [Next]_vars => Bound
  <2> SUFFICES ASSUME MissInv, [Next]_vars, pc[Mqtt] = "recognize", pc'[Mqtt] = "returned",
                      call'[Mqtt].result # NoPayload,
                      NEW s, s = call[Mqtt].session, sessions[s] # NoState,
                      call'[Mqtt].result.text # call[Mqtt].prev
               PROVE  Cardinality(sessions[s].pcm \ call'[Mqtt].result.text) <= 1
    OBVIOUS
  <2>1. s \in Sessions
    BY DEF MissInv, TypeInv, SttTypeOK, CallOK
  <2>2. AtMostOne(Missed(s))
    BY <2>1 DEF MissInv, FewMissed
  <2>3. call'[Mqtt].result.text = call[Mqtt].audio
    BY StepKinds, RecognizedByFlush, FinalText DEF MissInv, TypeInv
  <2> QED BY <2>2, <2>3, AtMostOneCounts DEF Missed, Pcm
<1>2. MissInv /\ [Next]_vars => [Bound]_vars
  BY <1>1
<1> QED BY <1>2, MissInitial, MissStep, PTL DEF Spec, FinalMissesAtMostOne

-----------------------------------------------------------------------------
(* The stub and nothing else: where a packet is.                            *)

StubAlone == Providers = {"stub"} /\ MaxConfigs = 0

Held(c, p) == call[c].op = "consume" /\ call[c].packet = p /\ pc[c] \in {"provider", "stub"}
Live(s, p) == p \in Chunks(s)
Ended(i, p) == issued[i].final /\ p \in issued[i].text

\* Under the stub no call reaches another branch.
StubOnly ==
  /\ provider = "stub"
  /\ \A c \in Callers : pc[c] \in {"idle", "provider", "stub", "returned"}

\* A packet that was consumed is in a call, a transcript or a final ...
Somewhere ==
  \A p \in 1..packets :
    \/ \E c \in Callers : Held(c, p)
    \/ \E s \in Sessions : Live(s, p)
    \/ \E i \in 1..Len(issued) : Ended(i, p)

\* ... and in one of these only.
HeldApart ==
  /\ \A c, d \in Callers, p \in Nat : Held(c, p) /\ Held(d, p) => c = d
  /\ \A c \in Callers, p \in Nat : Held(c, p) =>
       /\ p \in 1..packets
       /\ \A s \in Sessions : ~ Live(s, p)
       /\ \A i \in 1..Len(issued) : ~ Ended(i, p)
LiveApart ==
  /\ \A s, r \in Sessions, p \in Nat : Live(s, p) /\ Live(r, p) => s = r
  /\ \A s \in Sessions, p \in Nat : Live(s, p) =>
       p \in 1..packets /\ \A i \in 1..Len(issued) : ~ Ended(i, p)
EndedApart ==
  /\ \A i, j \in 1..Len(issued), p \in Nat : Ended(i, p) /\ Ended(j, p) => i = j
  /\ \A i \in 1..Len(issued), p \in Nat : Ended(i, p) => p \in 1..packets

\* AudioAccountedFor is not inductive: that a packet is in one place now does not
\* say that the next one is in none.
AudioInv == SttTypeOK /\ StubOnly /\ Somewhere /\ HeldApart /\ LiveApart /\ EndedApart

LEMMA StubCalls ==
  ASSUME SttTypeOK, StubOnly, NEW c \in Callers, CallStep(c)
  PROVE  \/ pc[c] = "provider" /\ pc'[c] = "stub" /\ UNCHANGED <<sessions, call, created, issued, packets>>
         \/ ConsumeStub(c) \/ FlushStub(c)
<1>1. pc[c] \in {"provider", "stub"}
  <2>1. pc[c] # "returned" /\ pc[c] # "idle"
    BY DEF CallStep, ReadProvider, ReadFactory, ConsumeStub, FlushStub, BufferAudio, CaptureAudio,
           ConsumeRecognized, FlushRecognized, FindStream, TakeStream, StreamAnswer, StreamStore, StreamLoad
  <2> QED BY <2>1 DEF StubOnly
<1>2. CASE pc[c] = "stub"
  BY <1>2, LabelEffect
<1>3. CASE pc[c] = "provider"
  <2>1. pc'[c] = "stub"
    BY <1>3, LabelEffect DEF StubOnly
  <2>2. ReadProvider(c)
    BY <1>3 DEF CallStep, ReadFactory, ConsumeStub, FlushStub, BufferAudio, CaptureAudio,
                ConsumeRecognized, FlushRecognized, FindStream, TakeStream, StreamAnswer, StreamStore, StreamLoad
  <2> QED BY <1>3, <2>1, <2>2 DEF ReadProvider
<1> QED BY <1>1, <1>2, <1>3

LEMMA StubOnlyStep ==
  ASSUME StubAlone, SttTypeOK, StubOnly, [SttNext]_sttVars
  PROVE  StubOnly'
<1>1. ASSUME NEW c \in Callers, CallStep(c) PROVE StubOnly'
  <2>1. pc'[c] \in {"stub", "returned"}
    BY <1>1, StubCalls, LabelEffect DEF ConsumeStub, FlushStub
  <2> QED BY <1>1, <2>1, CallMoves, LabelEffect DEF StubOnly
<1>2. ASSUME NEW c \in Callers, EndCall(c) PROVE StubOnly'
  BY <1>2, CallEnded DEF StubOnly
<1>3. ASSUME NEW c \in Callers, NEW s \in Sessions, BeginConsume(c, s) \/ BeginFlush(c, s) PROVE StubOnly'
  BY <1>3, ConsumeBegins, FlushBegins DEF StubOnly
<1>4. ASSUME NEW p \in Providers, SetConfig(p) PROVE StubOnly'
  BY <1>4 DEF SetConfig, StubAlone, SttTypeOK, SttVarsOK
<1>5. CASE UNCHANGED sttVars
  BY <1>5 DEF sttVars, StubOnly
<1> QED BY <1>1, <1>2, <1>3, <1>4, <1>5 DEF SttNext

\* A step after which every packet is where it was.
LEMMA AudioStays ==
  ASSUME AudioInv, UNCHANGED <<sessions, issued, packets>>,
         \A c \in Callers, p \in Nat : Held(c, p)' <=> Held(c, p)
  PROVE  Somewhere' /\ HeldApart' /\ LiveApart' /\ EndedApart'
<1>1. /\ \A s \in Sessions, p \in Nat : Live(s, p)' <=> Live(s, p)
      /\ \A i \in 1..Len(issued), p \in Nat : Ended(i, p)' <=> Ended(i, p)
  BY DEF Live, Chunks, Ended
<1>2. packets \in Nat /\ \A p \in 1..packets : p \in Nat
  BY DEF AudioInv, SttTypeOK, SttVarsOK
<1>3. Somewhere'
  BY <1>1, <1>2 DEF AudioInv, Somewhere
<1>4. HeldApart'
  BY <1>1 DEF AudioInv, HeldApart
<1>5. LiveApart'
  BY <1>1 DEF AudioInv, LiveApart
<1>6. EndedApart'
  BY <1>1 DEF AudioInv, EndedApart
<1> QED BY <1>3, <1>4, <1>5, <1>6

\* A new packet, which was nowhere, is in the hands of c.
LEMMA AudioBegins ==
  ASSUME AudioInv, NEW c \in Callers, NEW s \in Sessions, BeginConsume(c, s)
  PROVE  Somewhere' /\ HeldApart' /\ LiveApart' /\ EndedApart'
<1> DEFINE new == packets + 1
<1>1. /\ pc[c] = "idle" /\ pc'[c] = "provider" /\ call'[c].op = "consume" /\ call'[c].packet = new
      /\ \A d \in Callers \ {c} : pc'[d] = pc[d] /\ call'[d] = call[d]
      /\ UNCHANGED <<sessions, issued>> /\ packets' = new
  BY ConsumeBegins DEF AudioInv
<1>2. packets \in Nat /\ (\A p \in 1..packets : p \in Nat) /\ 1..packets' = 1..packets \cup {new}
      /\ new \in Nat /\ new \notin 1..packets
  BY <1>1 DEF AudioInv, SttTypeOK, SttVarsOK
<1> HIDE DEF new
<1>3. /\ \A r \in Sessions, p \in Nat : Live(r, p)' <=> Live(r, p)
      /\ \A i \in 1..Len(issued), p \in Nat : Ended(i, p)' <=> Ended(i, p)
      /\ Len(issued') = Len(issued)
  BY <1>1 DEF Live, Chunks, Ended
<1>4. /\ \A p \in Nat : Held(c, p)' <=> p = new
      /\ \A p \in Nat : ~ Held(c, p)
      /\ \A d \in Callers \ {c}, p \in Nat : Held(d, p)' <=> Held(d, p)
  BY <1>1 DEF Held
<1>5. /\ \A d \in Callers : ~ Held(d, new)
      /\ \A r \in Sessions : ~ Live(r, new)
      /\ \A i \in 1..Len(issued) : ~ Ended(i, new)
  BY <1>2 DEF AudioInv, HeldApart, LiveApart, EndedApart
<1>6. Somewhere'
  <2> SUFFICES ASSUME NEW p \in 1..packets'
               PROVE  \/ \E d \in Callers : Held(d, p)'
                      \/ \E r \in Sessions : Live(r, p)'
                      \/ \E i \in 1..Len(issued') : Ended(i, p)'
    BY DEF Somewhere
  <2>1. CASE p = new
    BY <1>2, <1>4, <2>1
  <2>2. CASE p \in 1..packets
    <3>1. p \in Nat
      BY <1>2, <2>2
    <3>2. CASE \E d \in Callers : Held(d, p)
      BY <1>4, <3>1, <3>2
    <3>3. CASE (\E r \in Sessions : Live(r, p)) \/ \E i \in 1..Len(issued) : Ended(i, p)
      BY <1>3, <3>1, <3>3
    <3> QED BY <2>2, <3>2, <3>3 DEF AudioInv, Somewhere
  <2> QED BY <1>2, <2>1, <2>2
<1>7. HeldApart'
  <2>1. ASSUME NEW d \in Callers, NEW e \in Callers, NEW p \in Nat, Held(d, p)', Held(e, p)' PROVE d = e
    BY <1>4, <1>5, <2>1 DEF AudioInv, HeldApart
  <2>2. ASSUME NEW d \in Callers, NEW p \in Nat, Held(d, p)'
        PROVE  /\ p \in 1..packets'
               /\ \A r \in Sessions : ~ Live(r, p)'
               /\ \A i \in 1..Len(issued') : ~ Ended(i, p)'
    BY <1>2, <1>3, <1>4, <1>5, <2>2 DEF AudioInv, HeldApart
  <2> QED BY <2>1, <2>2 DEF HeldApart
<1>8. LiveApart'
  BY <1>2, <1>3 DEF AudioInv, LiveApart
<1>9. EndedApart'
  BY <1>2, <1>3 DEF AudioInv, EndedApart
<1> QED BY <1>6, <1>7, <1>8, <1>9

\* A payload is issued: the others are where they were.
LEMMA EndedAppend ==
  ASSUME SttTypeOK, NEW q, issued' = Append(issued, q)
  PROVE  /\ Len(issued') = Len(issued) + 1 /\ Len(issued) \in Nat
         /\ issued'[Len(issued) + 1] = q
         /\ \A i \in 1..Len(issued), p \in Nat : Ended(i, p)' <=> Ended(i, p)
         /\ \A i \in 1..Len(issued) : issued'[i] = issued[i]
<1>1. issued \in Seq(PayloadType)
  BY DEF SttTypeOK, SttVarsOK
<1>2. /\ Len(issued') = Len(issued) + 1 /\ Len(issued) \in Nat
      /\ issued'[Len(issued) + 1] = q
      /\ \A i \in 1..Len(issued) : issued'[i] = issued[i]
  BY <1>1
<1> QED BY <1>2 DEF Ended

\* The packet of c goes from its hands to the chunks of its session.
LEMMA AudioLives ==
  ASSUME AudioInv, NEW c \in Callers, ConsumeStub(c), CallStep(c)
  PROVE  Somewhere' /\ HeldApart' /\ LiveApart' /\ EndedApart'
<1>0. /\ \E s : s = call[c].session
      /\ \E p : p = call[c].packet
      /\ \E i : i = Len(issued) + 1
  OBVIOUS
<1> PICK s : s = call[c].session
  BY <1>0
<1> PICK new : new = call[c].packet
  BY <1>0
<1> PICK n : n = Len(issued) + 1
  BY <1>0
<1> DEFINE q == issued'[n]
<1>1. /\ s \in Sessions /\ Chunks(s)' = Chunks(s) \cup {new}
      /\ \A r \in Sessions \ {s} : sessions'[r] = sessions[r]
      /\ pc'[c] = "returned" /\ issued' = Append(issued, q) /\ q.final = FALSE
  BY StubConsumes DEF AudioInv
<1>2. /\ \A d \in Callers \ {c} : pc'[d] = pc[d] /\ call'[d] = call[d]
      /\ pc[c] = "stub" /\ call[c].op = "consume" /\ packets' = packets
      /\ new \in Nat /\ packets \in Nat /\ \A p \in 1..packets : p \in Nat
  <2>1. \A d \in Callers \ {c} : pc'[d] = pc[d] /\ call'[d] = call[d]
    BY CallMoves, CallKeepsSession DEF AudioInv
  <2>2. pc[c] = "stub" /\ call[c].op = "consume" /\ packets' = packets
    BY DEF ConsumeStub
  <2>3. new \in Nat /\ packets \in Nat
    BY DEF AudioInv, SttTypeOK, SttVarsOK, CallType
  <2> QED BY <2>1, <2>2, <2>3
<1>3. /\ Len(issued') = n /\ Len(issued) \in Nat
      /\ \A i \in 1..Len(issued), p \in Nat : Ended(i, p)' <=> Ended(i, p)
  BY <1>1, EndedAppend DEF AudioInv
<1>4. 1..Len(issued') = 1..Len(issued) \cup {n} /\ \A p \in Nat : ~ Ended(n, p)'
  BY <1>1, <1>3 DEF Ended
<1>5. /\ \A p \in Nat : Live(s, p)' <=> Live(s, p) \/ p = new
      /\ \A r \in Sessions \ {s}, p \in Nat : Live(r, p)' <=> Live(r, p)
  BY <1>1 DEF Live, Chunks
<1>6. /\ Held(c, new) /\ (\A p \in Nat : Held(c, p) <=> p = new) /\ \A p \in Nat : ~ Held(c, p)'
      /\ \A d \in Callers \ {c}, p \in Nat : Held(d, p)' <=> Held(d, p)
  BY <1>1, <1>2 DEF Held
<1> HIDE DEF q
<1>7. /\ new \in 1..packets
      /\ \A d \in Callers \ {c} : ~ Held(d, new)
      /\ \A r \in Sessions : ~ Live(r, new)
      /\ \A i \in 1..Len(issued) : ~ Ended(i, new)
  BY <1>2, <1>6 DEF AudioInv, HeldApart
<1>8. Somewhere'
  <2> SUFFICES ASSUME NEW p \in 1..packets
               PROVE  \/ \E d \in Callers : Held(d, p)'
                      \/ \E r \in Sessions : Live(r, p)'
                      \/ \E i \in 1..Len(issued') : Ended(i, p)'
    BY <1>2 DEF Somewhere
  <2>1. CASE p = new
    BY <1>1, <1>2, <1>5, <2>1
  <2>2. CASE p # new /\ \E d \in Callers : Held(d, p)
    BY <1>2, <1>6, <2>2
  <2>3. CASE \E r \in Sessions : Live(r, p)
    BY <1>1, <1>2, <1>5, <2>3
  <2>4. CASE \E i \in 1..Len(issued) : Ended(i, p)
    BY <1>2, <1>3, <1>4, <2>4
  <2> QED BY <2>1, <2>2, <2>3, <2>4 DEF AudioInv, Somewhere
<1>9. HeldApart'
  <2>1. ASSUME NEW d \in Callers, NEW e \in Callers, NEW p \in Nat, Held(d, p)', Held(e, p)' PROVE d = e
    BY <1>6, <2>1 DEF AudioInv, HeldApart
  <2>2. ASSUME NEW d \in Callers, NEW p \in Nat, Held(d, p)'
        PROVE  /\ p \in 1..packets'
               /\ \A r \in Sessions : ~ Live(r, p)'
               /\ \A i \in 1..Len(issued') : ~ Ended(i, p)'
    <3>1. d # c /\ Held(d, p) /\ p # new
      BY <1>6, <1>7, <2>2
    <3>2. /\ p \in 1..packets
          /\ \A r \in Sessions : ~ Live(r, p)
          /\ \A i \in 1..Len(issued) : ~ Ended(i, p)
      BY <3>1 DEF AudioInv, HeldApart
    <3> QED BY <1>1, <1>2, <1>3, <1>4, <1>5, <3>1, <3>2
  <2> QED BY <2>1, <2>2 DEF HeldApart
<1>10. LiveApart'
  <2>1. ASSUME NEW r \in Sessions, NEW t \in Sessions, NEW p \in Nat, Live(r, p)', Live(t, p)' PROVE r = t
    BY <1>1, <1>5, <1>7, <2>1 DEF AudioInv, LiveApart
  <2>2. ASSUME NEW r \in Sessions, NEW p \in Nat, Live(r, p)'
        PROVE  p \in 1..packets' /\ \A i \in 1..Len(issued') : ~ Ended(i, p)'
    <3>1. p = new \/ Live(r, p)
      BY <1>5, <2>2
    <3>2. p \in 1..packets /\ \A i \in 1..Len(issued) : ~ Ended(i, p)
      BY <1>7, <3>1 DEF AudioInv, LiveApart
    <3> QED BY <1>2, <1>3, <1>4, <3>2
  <2> QED BY <2>1, <2>2 DEF LiveApart
<1>11. EndedApart'
  <2>1. \A i \in 1..Len(issued'), p \in Nat : Ended(i, p)' => i \in 1..Len(issued) /\ Ended(i, p)
    BY <1>3, <1>4
  <2> QED BY <1>2, <2>1 DEF AudioInv, EndedApart
<1> QED BY <1>8, <1>9, <1>10, <1>11

\* A flush takes the chunks of its session into the text of a final.
LEMMA AudioFinishes ==
  ASSUME AudioInv, NEW c \in Callers, FlushStub(c), CallStep(c)
  PROVE  Somewhere' /\ HeldApart' /\ LiveApart' /\ EndedApart'
<1>0. (\E s : s = call[c].session) /\ \E i : i = Len(issued) + 1
  OBVIOUS
<1> PICK s : s = call[c].session
  BY <1>0
<1> PICK n : n = Len(issued) + 1
  BY <1>0
<1> DEFINE q == issued'[n]
<1>1. /\ s \in Sessions /\ Chunks(s)' = {} /\ packets' = packets
      /\ \A r \in Sessions \ {s} : sessions'[r] = sessions[r]
      /\ \/ Chunks(s) = {} /\ UNCHANGED <<sessions, issued>>
         \/ issued' = Append(issued, q) /\ q.final = TRUE /\ q.text = Chunks(s)
  BY StubFlushes DEF AudioInv
<1>2. /\ \A d \in Callers \ {c} : pc'[d] = pc[d] /\ call'[d] = call[d]
      /\ call[c].op = "flush" /\ call'[c].op = "flush"
      /\ packets \in Nat /\ \A p \in 1..packets : p \in Nat
  BY CallMoves, CallKeepsSession DEF AudioInv, SttTypeOK, SttVarsOK, FlushStub
<1>3. \A d \in Callers, p \in Nat : Held(d, p)' <=> Held(d, p)
  BY <1>2 DEF Held
<1>4. CASE UNCHANGED <<sessions, issued>>
  BY <1>1, <1>3, <1>4, AudioStays
<1>5. CASE issued' = Append(issued, q) /\ q.final = TRUE /\ q.text = Chunks(s)
  <2>1. /\ Len(issued') = n /\ Len(issued) \in Nat
        /\ \A i \in 1..Len(issued), p \in Nat : Ended(i, p)' <=> Ended(i, p)
    BY <1>5, EndedAppend DEF AudioInv
  <2>2. 1..Len(issued') = 1..Len(issued) \cup {n} /\ n \notin 1..Len(issued)
    BY <2>1
  <2>3. \A p \in Nat : Ended(n, p)' <=> Live(s, p)
    BY <1>5 DEF Ended, Live
  <2>4. /\ \A p \in Nat : ~ Live(s, p)'
        /\ \A r \in Sessions \ {s}, p \in Nat : Live(r, p)' <=> Live(r, p)
    BY <1>1 DEF Live, Chunks
  <2> HIDE DEF q
  <2>5. Somewhere'
    <3> SUFFICES ASSUME NEW p \in 1..packets
                 PROVE  \/ \E d \in Callers : Held(d, p)'
                        \/ \E r \in Sessions : Live(r, p)'
                        \/ \E i \in 1..Len(issued') : Ended(i, p)'
      BY <1>1 DEF Somewhere
    <3>1. p \in Nat
      BY <1>2
    <3>2. CASE \E d \in Callers : Held(d, p)
      BY <1>3, <3>1, <3>2
    <3>3. CASE Live(s, p)
      BY <2>2, <2>3, <3>1, <3>3
    <3>4. CASE \E r \in Sessions \ {s} : Live(r, p)
      BY <2>4, <3>1, <3>4
    <3>5. CASE \E i \in 1..Len(issued) : Ended(i, p)
      BY <2>1, <2>2, <3>1, <3>5
    <3> QED BY <3>2, <3>3, <3>4, <3>5 DEF AudioInv, Somewhere
  <2>6. HeldApart'
    <3>1. ASSUME NEW d \in Callers, NEW e \in Callers, NEW p \in Nat, Held(d, p)', Held(e, p)' PROVE d = e
      BY <1>3, <3>1 DEF AudioInv, HeldApart
    <3>2. ASSUME NEW d \in Callers, NEW p \in Nat, Held(d, p)'
          PROVE  /\ p \in 1..packets'
                 /\ \A r \in Sessions : ~ Live(r, p)'
                 /\ \A i \in 1..Len(issued') : ~ Ended(i, p)'
      <4>1. /\ p \in 1..packets
            /\ \A r \in Sessions : ~ Live(r, p)
            /\ \A i \in 1..Len(issued) : ~ Ended(i, p)
        BY <1>3, <3>2 DEF AudioInv, HeldApart
      <4> QED BY <1>1, <2>1, <2>2, <2>3, <2>4, <4>1
    <3> QED BY <3>1, <3>2 DEF HeldApart
  <2>7. LiveApart'
    <3>1. ASSUME NEW r \in Sessions, NEW p \in Nat, Live(r, p)'
          PROVE  /\ r # s /\ Live(r, p) /\ ~ Live(s, p)
                 /\ p \in 1..packets' /\ \A i \in 1..Len(issued') : ~ Ended(i, p)'
      <4>1. r # s /\ Live(r, p)
        BY <2>4, <3>1
      <4>2. ~ Live(s, p) /\ p \in 1..packets /\ \A i \in 1..Len(issued) : ~ Ended(i, p)
        BY <1>1, <4>1 DEF AudioInv, LiveApart
      <4> QED BY <1>1, <2>1, <2>2, <2>3, <4>1, <4>2
    <3> QED BY <3>1 DEF AudioInv, LiveApart
  <2>8. EndedApart'
    <3>1. ASSUME NEW i \in 1..Len(issued'), NEW p \in Nat, Ended(i, p)'
          PROVE  /\ p \in 1..packets'
                 /\ i = n => Live(s, p) /\ \A j \in 1..Len(issued) : ~ Ended(j, p)
                 /\ i # n => i \in 1..Len(issued) /\ Ended(i, p)
      <4>1. CASE i = n
        BY <1>1, <2>3, <3>1, <4>1 DEF AudioInv, LiveApart
      <4>2. CASE i # n
        BY <1>1, <2>1, <2>2, <3>1, <4>2 DEF AudioInv, EndedApart
      <4> QED BY <4>1, <4>2
    <3> QED BY <3>1 DEF AudioInv, EndedApart
  <2> QED BY <2>5, <2>6, <2>7, <2>8
<1> QED BY <1>1, <1>4, <1>5

LEMMA AudioInitial == ASSUME StubAlone, Init PROVE AudioInv
<1>1. SttTypeOK /\ StubOnly
  BY SttTypeInit DEF Init, SttInit, StubOnly, StubAlone
<1>2. /\ packets = 0 /\ Len(issued) = 0
      /\ \A s \in Sessions, p \in Nat : ~ Live(s, p)
      /\ \A c \in Callers, p \in Nat : ~ Held(c, p)
  BY DEF Init, SttInit, Live, Chunks, Held
<1>3. 1..packets = {} /\ 1..Len(issued) = {}
  BY <1>2
<1> QED BY <1>1, <1>2, <1>3 DEF AudioInv, Somewhere, HeldApart, LiveApart, EndedApart

LEMMA AudioStep == ASSUME StubAlone, AudioInv, [SttNext]_sttVars PROVE AudioInv'
<1> DEFINE Apart == Somewhere /\ HeldApart /\ LiveApart /\ EndedApart
<1>1. SttTypeOK' /\ StubOnly'
  BY SttTypeNext, StubOnlyStep DEF AudioInv
<1>2. ASSUME NEW c \in Callers, CallStep(c) PROVE Apart'
  <2>1. CASE ConsumeStub(c) \/ FlushStub(c)
    BY <1>2, <2>1, AudioLives, AudioFinishes
  <2>2. CASE pc[c] = "provider" /\ pc'[c] = "stub" /\ UNCHANGED <<sessions, call, created, issued, packets>>
    <3>1. \A d \in Callers, p \in Nat : Held(d, p)' <=> Held(d, p)
      BY <1>2, <2>2, CallMoves DEF AudioInv, Held
    <3> QED BY <2>2, <3>1, AudioStays
  <2> QED BY <1>2, <2>1, <2>2, StubCalls DEF AudioInv
<1>3. ASSUME NEW c \in Callers, EndCall(c) PROVE Apart'
  <2>1. /\ pc[c] = "returned" /\ pc'[c] = "idle" /\ UNCHANGED <<sessions, issued, packets>>
        /\ \A d \in Callers \ {c} : pc'[d] = pc[d] /\ call'[d] = call[d]
    BY <1>3, CallEnded DEF AudioInv
  <2>2. \A d \in Callers, p \in Nat : Held(d, p)' <=> Held(d, p)
    BY <2>1 DEF Held
  <2> QED BY <2>1, <2>2, AudioStays
<1>4. ASSUME NEW c \in Callers, NEW s \in Sessions, BeginFlush(c, s) PROVE Apart'
  <2>1. /\ pc[c] = "idle" /\ call'[c].op = "flush" /\ UNCHANGED <<sessions, issued, packets>>
        /\ \A d \in Callers \ {c} : pc'[d] = pc[d] /\ call'[d] = call[d]
    BY <1>4, FlushBegins DEF AudioInv
  <2>2. \A d \in Callers, p \in Nat : Held(d, p)' <=> Held(d, p)
    BY <2>1 DEF Held
  <2> QED BY <2>1, <2>2, AudioStays
<1>5. ASSUME NEW c \in Callers, NEW s \in Sessions, BeginConsume(c, s) PROVE Apart'
  BY <1>5, AudioBegins
<1>6. ASSUME UNCHANGED sttVars PROVE Apart'
  <2>1. \A d \in Callers, p \in Nat : Held(d, p)' <=> Held(d, p)
    BY <1>6 DEF sttVars, Held
  <2> QED BY <1>6, <2>1, AudioStays DEF sttVars
<1>7. ~ \E p \in Providers : SetConfig(p)
  BY DEF SetConfig, StubAlone, AudioInv, SttTypeOK, SttVarsOK
<1>8. Apart'
  BY <1>2, <1>3, <1>4, <1>5, <1>6, <1>7 DEF SttNext
<1> QED BY <1>1, <1>8 DEF AudioInv

\* One place, counted as the property counts it.
LEMMA AudioCounted == ASSUME AudioInv PROVE AudioAccountedFor
<1> SUFFICES ASSUME NEW p \in 1..packets,
                    ~ \E g \in Callers : call[g].packet = p /\ pc[g] \in {"provider", "stub"}
             PROVE  Cardinality({s \in Sessions : sessions[s] # NoState /\ p \in sessions[s].chunks})
                      + Cardinality({i \in 1..Len(issued) : issued[i].final /\ p \in issued[i].text}) = 1
  BY DEF AudioAccountedFor
<1> DEFINE L == {s \in Sessions : Live(s, p)}
           E == {i \in 1..Len(issued) : Ended(i, p)}
<1>1. /\ {s \in Sessions : sessions[s] # NoState /\ p \in sessions[s].chunks} = L
      /\ {i \in 1..Len(issued) : issued[i].final /\ p \in issued[i].text} = E
  BY DEF Live, Chunks, Ended
<1>2. p \in Nat
  BY DEF AudioInv, SttTypeOK, SttVarsOK
<1>3. L # {} \/ E # {}
  BY DEF AudioInv, Somewhere, Held
<1>4. L = {} \/ E = {}
  BY <1>2 DEF AudioInv, LiveApart
<1>5. (\A s, r \in L : s = r) /\ \A i, j \in E : i = j
  BY <1>2 DEF AudioInv, LiveApart, EndedApart
<1> HIDE DEF L, E
<1>6. ASSUME NEW S, S # {}, \A x, y \in S : x = y PROVE Cardinality(S) = 1
  <2>1. PICK x \in S : TRUE
    BY <1>6
  <2>2. S = {x}
    BY <1>6, <2>1
  <2> QED BY <2>2, FS_Singleton
<1>7. Cardinality({}) = 0
  BY FS_EmptySet
<1>8. Cardinality(L) + Cardinality(E) = 1
  <2>1. CASE L = {}
    <3>1. Cardinality(L) = 0 /\ Cardinality(E) = 1
      BY <1>3, <1>5, <1>6, <1>7, <2>1
    <3> QED BY <3>1
  <2>2. CASE E = {}
    <3>1. Cardinality(L) = 1 /\ Cardinality(E) = 0
      BY <1>3, <1>5, <1>6, <1>7, <2>2
    <3> QED BY <3>1
  <2> QED BY <1>4, <2>1, <2>2
<1> QED BY <1>1, <1>8

(* The stub loses and repeats nothing: a packet it has consumed is in the   *)
(* session's live chunks or in the text of one final (consumeStub,          *)
(* flushStub), for any number of sessions and packets and in every order of *)
(* packets, stops and restarts.  The assumption is the run's: the stub is   *)
(* the only provider, and the administrator does not reconfigure, for       *)
(* SetConfig drops the transcripts.                                         *)
THEOREM StubLosesNothing ==
  ASSUME StubAlone
  PROVE  Spec => []AudioAccountedFor
<1>1. Init => AudioInv
  BY AudioInitial
<1>2. AudioInv /\ [Next]_vars => AudioInv'
  <2>1. [Next]_vars => [SttNext]_sttVars
    BY PipelineSteps DEF vars
  <2> QED BY <2>1, AudioStep
<1>3. AudioInv => AudioAccountedFor
  BY AudioCounted
<1> QED BY <1>1, <1>2, <1>3, PTL DEF Spec

-----------------------------------------------------------------------------
(* The stub with a store that does not fail: what was heard is finished.    *)

\* Mqtt has the final of x to reply.
InReply(x) == /\ pc[Mqtt] = "returned"
              /\ call[Mqtt].result # NoPayload /\ call[Mqtt].result.id = x

\* A transcript a delta was issued of is finished, or its entry is there, or its
\* final is on the way.
TendedAt(i) ==
  ~ issued[i].final =>
    \/ issued[i].id \in finished
    \/ /\ sessions[issued[i].session] # NoState
       /\ sessions[issued[i].session].id = issued[i].id
    \/ InReply(issued[i].id)
Tended == \A i \in 1..Len(issued) : TendedAt(i)

\* An entry is never without a chunk, so that a flush that finds none finds none.
NoneBlank == \A s \in Sessions : sessions[s] # NoState => Chunks(s) # {}
TendInv == TypeInv /\ Roles /\ StubOnly /\ NoneBlank /\ Tended

LEMMA TendedKept ==
  ASSUME TendInv, UNCHANGED <<sessions, issued>>, finished \subseteq finished',
         \A x \in Nat : InReply(x) => InReply(x)' \/ x \in finished'
  PROVE  NoneBlank' /\ Tended'
<1>1. issued \in Seq(PayloadType)
  BY DEF TendInv, TypeInv, SttTypeOK, SttVarsOK
<1>2. NoneBlank'
  BY DEF TendInv, NoneBlank, Chunks
<1>3. ASSUME NEW i \in 1..Len(issued) PROVE TendedAt(i)'
  <2>1. issued[i].id \in Nat
    <3>1. issued[i] \in PayloadType
      BY <1>1
    <3> QED BY <3>1 DEF PayloadType
  <2>2. PICK x \in Nat : x = issued[i].id
    BY <2>1
  <2>3. TendedAt(i)
    BY DEF TendInv, Tended
  <2>4. InReply(issued[i].id) => InReply(x)
    BY <2>2
  <2>5. issued'[i].id = x
    BY <2>2
  <2>6. InReply(x)' => InReply(issued[i].id)'
    BY <2>5 DEF InReply
  <2> QED BY <2>2, <2>3, <2>4, <2>5, <2>6 DEF TendedAt
<1> QED BY <1>2, <1>3 DEF Tended

LEMMA TendedByCall ==
  ASSUME TendInv, NEW g \in Callers, CallStep(g), UNCHANGED pipeVars
  PROVE  NoneBlank' /\ Tended'
<1> USE PipelineAssumption
<1>1. /\ SttTypeOK /\ Roles /\ StubOnly /\ pc[g] # "idle" /\ UNCHANGED finished
      /\ \A d \in Callers \ {g} : pc'[d] = pc[d] /\ call'[d] = call[d]
  BY CallMoves, CallKeepsSession DEF TendInv, TypeInv, pipeVars
<1>2. \A i \in 1..Len(issued) : issued[i].id \in Nat /\ issued[i].session \in Sessions
  <2>1. issued \in Seq(PayloadType)
    BY <1>1 DEF SttTypeOK, SttVarsOK
  <2>2. \A i \in 1..Len(issued) : issued[i] \in PayloadType
    BY <2>1
  <2> QED BY <2>2 DEF PayloadType
<1>3. CASE pc[g] = "provider" /\ pc'[g] = "stub" /\ UNCHANGED <<sessions, call, created, issued, packets>>
  <2>1. \A x \in Nat : InReply(x) => InReply(x)'
    BY <1>1, <1>3 DEF InReply
  <2> QED BY <1>1, <1>3, <2>1, TendedKept
<1>4. CASE ConsumeStub(g)
  <2>0. (\E s : s = call[g].session) /\ \E i : i = Len(issued) + 1
    OBVIOUS
  <2> PICK s : s = call[g].session
    BY <2>0
  <2> PICK n : n = Len(issued) + 1
    BY <2>0
  <2> DEFINE q == issued'[n]
  <2>1. /\ s \in Sessions /\ sessions'[s] # NoState /\ Chunks(s)' # {}
        /\ \A r \in Sessions \ {s} : sessions'[r] = sessions[r]
        /\ issued' = Append(issued, q) /\ q.session = s /\ q.id = sessions'[s].id
        /\ sessions[s] # NoState => sessions'[s].id = sessions[s].id
    <3>1. /\ s \in Sessions /\ sessions'[s] # NoState
          /\ Chunks(s)' = Chunks(s) \cup {call[g].packet}
          /\ \A r \in Sessions \ {s} : sessions'[r] = sessions[r]
          /\ issued' = Append(issued, q) /\ q.session = s /\ q.id = sessions'[s].id
          /\ sessions[s] # NoState => sessions'[s].id = sessions[s].id
      BY <1>1, <1>4, StubConsumes, Zenon
    <3> QED BY <3>1
  <2>2. /\ Len(issued') = n /\ 1..n = 1..Len(issued) \cup {n}
        /\ \A i \in 1..Len(issued) : issued'[i] = issued[i]
    BY <1>1, <2>1, EndedAppend
  <2>3. g = Udp
    BY <1>1, <1>4 DEF Roles, ConsumeStub
  <2>4. \A x \in Nat : InReply(x) => InReply(x)'
    BY <1>1, <2>3 DEF InReply
  <2>5. NoneBlank'
    BY <1>1, <2>1 DEF TendInv, NoneBlank, Chunks
  <2> HIDE DEF q
  <2>6. ASSUME NEW i \in 1..Len(issued) PROVE TendedAt(i)'
    <3>1. PICK t \in Sessions, x \in Nat : t = issued[i].session /\ x = issued[i].id
      BY <1>2
    <3>2. issued'[i] = issued[i] /\ TendedAt(i)
      BY <2>2 DEF TendInv, Tended
    <3>3. issued[i].final \/ x \in finished \/ (sessions[t] # NoState /\ sessions[t].id = x) \/ InReply(x)
      BY <3>1, <3>2 DEF TendedAt
    <3>4. issued[i].final \/ x \in finished' \/ (sessions'[t] # NoState /\ sessions'[t].id = x) \/ InReply(x)'
      BY <1>1, <2>1, <2>4, <3>3
    <3>5. issued'[i].session = t /\ issued'[i].id = x /\ issued'[i].final = issued[i].final
      BY <3>1, <3>2
    <3>6. InReply(x)' => InReply(issued[i].id)'
      BY <3>5 DEF InReply
    <3> QED BY <3>4, <3>5, <3>6 DEF TendedAt
  <2>7. TendedAt(n)'
    BY <2>1 DEF q, TendedAt
  <2>8. Tended'
    <3>1. \A i \in 1..n : TendedAt(i)'
      BY <2>2, <2>6, <2>7
    <3> QED BY <2>2, <3>1 DEF Tended
  <2> QED BY <2>5, <2>8
<1>5. CASE FlushStub(g)
  <2>0. (\E s : s = call[g].session) /\ \E i : i = Len(issued) + 1
    OBVIOUS
  <2> PICK s : s = call[g].session
    BY <2>0
  <2> PICK n : n = Len(issued) + 1
    BY <2>0
  <2> DEFINE q == issued'[n]
  <2>1. /\ s \in Sessions /\ \A r \in Sessions \ {s} : sessions'[r] = sessions[r]
        /\ pc'[g] = "returned"
        /\ \/ UNCHANGED <<sessions, issued>>
           \/ /\ sessions'[s] = NoState /\ issued' = Append(issued, q) /\ call'[g].result = q
              /\ q.final = TRUE /\ q.id = sessions[s].id
    BY <1>1, <1>5, StubFlushes, ZenonT(60)
  <2>2. g = Mqtt /\ \A x \in Nat : ~ InReply(x)
    BY <1>1, <1>5 DEF Roles, FlushStub, InReply
  <2>3. CASE UNCHANGED <<sessions, issued>>
    BY <1>1, <2>2, <2>3, TendedKept
  <2>4. CASE /\ sessions'[s] = NoState /\ issued' = Append(issued, q) /\ call'[g].result = q
             /\ q.final = TRUE /\ q.id = sessions[s].id
    <3>1. /\ Len(issued') = n /\ 1..n = 1..Len(issued) \cup {n}
          /\ \A i \in 1..Len(issued) : issued'[i] = issued[i]
      BY <1>1, <2>4, EndedAppend
    <3>2. NoneBlank'
      BY <2>1, <2>4 DEF TendInv, NoneBlank, Chunks
    <3>3. \A x \in Nat : x = sessions[s].id => InReply(x)'
      BY <2>1, <2>2, <2>4 DEF InReply, NoPayload
    <3> HIDE DEF q
    <3>4. ASSUME NEW i \in 1..Len(issued) PROVE TendedAt(i)'
      <4>1. PICK t \in Sessions, x \in Nat : t = issued[i].session /\ x = issued[i].id
        BY <1>2
      <4>2. issued'[i] = issued[i] /\ TendedAt(i)
        BY <3>1 DEF TendInv, Tended
      <4>3. issued[i].final \/ x \in finished \/ (sessions[t] # NoState /\ sessions[t].id = x)
        BY <2>2, <4>1, <4>2 DEF TendedAt
      <4>4. issued[i].final \/ x \in finished' \/ (sessions'[t] # NoState /\ sessions'[t].id = x) \/ InReply(x)'
        BY <1>1, <2>1, <3>3, <4>3
      <4>5. issued'[i].session = t /\ issued'[i].id = x /\ issued'[i].final = issued[i].final
        BY <4>1, <4>2
      <4>6. InReply(x)' => InReply(issued[i].id)'
        BY <4>5 DEF InReply
      <4> QED BY <4>4, <4>5, <4>6 DEF TendedAt
    <3>5. TendedAt(n)'
      BY <2>4 DEF q, TendedAt
    <3>6. Tended'
      <4>1. \A i \in 1..n : TendedAt(i)'
        BY <3>1, <3>4, <3>5
      <4> QED BY <3>1, <4>1 DEF Tended
    <3> QED BY <3>2, <3>6
  <2> QED BY <2>1, <2>3, <2>4
<1> QED BY <1>1, <1>3, <1>4, <1>5, StubCalls

LEMMA TendedByOthers ==
  ASSUME StubAlone, "store" \notin Faults, TendInv, Others
  PROVE  NoneBlank' /\ Tended'
<1> USE PipelineAssumption
<1>1. SttTypeOK
  BY DEF TendInv, TypeInv
<1>2. CASE UNCHANGED <<sttVars, meetings, finished>> \/ Controls
  <2>1. UNCHANGED <<sttVars, finished>>
    BY <1>2 DEF Controls
  <2>2. \A x \in Nat : InReply(x) => InReply(x)'
    BY <2>1 DEF InReply, sttVars
  <2> QED BY <2>1, <2>2, TendedKept DEF sttVars
<1>3. ~ ApplyConfig
  BY <1>1 DEF ApplyConfig, SetConfig, StubAlone, SttTypeOK, SttVarsOK
<1>4. ASSUME NEW s \in Sessions, StopRecording(s) PROVE NoneBlank' /\ Tended'
  <2>1. pc[Mqtt] = "idle" /\ UNCHANGED <<sessions, issued, finished>>
    BY <1>1, <1>4, FlushBegins DEF StopRecording
  <2> QED BY <2>1, TendedKept DEF InReply
<1>5. ASSUME NEW s \in Sessions, AdmitPacket(s) PROVE NoneBlank' /\ Tended'
  <2>1. pc'[Mqtt] = pc[Mqtt] /\ call'[Mqtt] = call[Mqtt] /\ UNCHANGED <<sessions, issued, finished>>
    BY <1>1, <1>5, ConsumeBegins DEF AdmitPacket
  <2>2. \A x \in Nat : InReply(x) => InReply(x)'
    BY <2>1 DEF InReply
  <2> QED BY <2>1, <2>2, TendedKept
<1>6. ASSUME NEW g \in Callers, Ends(g) PROVE NoneBlank' /\ Tended'
  <2>1. /\ UNCHANGED <<sessions, issued>>
        /\ \A d \in Callers \ {g} : pc'[d] = pc[d] /\ call'[d] = call[d]
    BY <1>1, <1>6, CallEnded DEF Ends
  <2>2. CASE g = Udp
    <3>1. \A x \in Nat : InReply(x) => InReply(x)'
      BY <2>1, <2>2 DEF InReply
    <3> QED BY <1>6, <2>1, <2>2, <3>1, TendedKept DEF Ends
  <2>3. CASE g = Mqtt
    <3>1. finished \subseteq finished' /\ \A x \in Nat : InReply(x) => x \in finished'
      BY <1>6, <2>3 DEF Ends, InReply
    <3> QED BY <2>1, <3>1, TendedKept
  <2> QED BY <2>2, <2>3
<1> QED BY <1>2, <1>3, <1>4, <1>5, <1>6 DEF Others

LEMMA TendInitial == ASSUME StubAlone, Init PROVE TendInv
<1>1. StubOnly /\ NoneBlank
  BY DEF Init, SttInit, StubOnly, StubAlone, NoneBlank
<1>2. Len(issued) = 0
  BY DEF Init, SttInit
<1>3. Tended
  BY <1>2 DEF Tended
<1> QED BY <1>1, <1>3, RolesInitial DEF TendInv

LEMMA TendStep ==
  ASSUME StubAlone, "store" \notin Faults, TendInv, [Next]_vars
  PROVE  TendInv'
<1>1. TypeInv' /\ Kinds
  BY TypeStep, StepKinds DEF TendInv
<1>2. Roles'
  BY <1>1, RolesStep DEF TendInv
<1>3. StubOnly'
  <2>1. [SttNext]_sttVars
    BY PipelineSteps DEF vars
  <2> QED BY <2>1, StubOnlyStep DEF TendInv, TypeInv
<1>4. NoneBlank' /\ Tended'
  BY <1>1, TendedByCall, TendedByOthers DEF Kinds
<1> QED BY <1>1, <1>2, <1>3, <1>4 DEF TendInv

\* The flush that finds nothing: the step the property is about.
LEMMA NothingUnfinished ==
  ASSUME StubAlone, TendInv, [Next]_vars, NEW s, s = call[Mqtt].session,
         pc[Mqtt] # "returned", pc'[Mqtt] = "returned", call'[Mqtt].result = NoPayload
  PROVE  Unfinished(s) = {}
<1> USE PipelineAssumption
<1>1. SttTypeOK /\ StubOnly /\ Roles
  BY DEF TendInv, TypeInv
<1>2. CallStep(Mqtt)
  <2>1. CASE Others
    <3>1. CASE UNCHANGED <<sttVars, meetings, finished>> \/ Controls \/ ApplyConfig
      BY <3>1 DEF Controls, ApplyConfig, SetConfig, sttVars
    <3>2. ASSUME NEW r \in Sessions, StopRecording(r) \/ AdmitPacket(r) PROVE FALSE
      BY <1>1, <3>2, FlushBegins, ConsumeBegins DEF StopRecording, AdmitPacket
    <3>3. ASSUME NEW g \in Callers, Ends(g) PROVE FALSE
      BY <1>1, <3>3, CallEnded DEF Ends
    <3> QED BY <2>1, <3>1, <3>2, <3>3 DEF Others
  <2>2. ASSUME NEW g \in Callers, CallStep(g) PROVE CallStep(Mqtt)
    BY <1>1, <2>2, CallMoves
  <2> QED BY <2>1, <2>2, StepKinds DEF TendInv, Kinds
<1>3. FlushStub(Mqtt)
  <2>1. call[Mqtt].op = "flush"
    BY <1>1, <1>2, CallMoves DEF Roles
  <2> QED BY <1>1, <1>2, <2>1, StubCalls DEF ConsumeStub
<1>4. s \in Sessions /\ sessions[s] = NoState
  <2>1. s \in Sessions /\ Chunks(s) = {}
    <3>1. \A p : p.final = TRUE => p # NoPayload
      BY DEF NoPayload
    <3> QED BY <1>1, <1>3, <3>1, StubFlushes
  <2> QED BY <2>1 DEF TendInv, NoneBlank
<1>5. \A i \in 1..Len(issued) : ~ issued[i].final /\ issued[i].session = s => issued[i].id \in finished
  BY <1>4 DEF TendInv, Tended, TendedAt, InReply
<1> QED BY <1>5 DEF Unfinished

(* Under the stub, and a store that does not fail, a stop that finds        *)
(* nothing to flush leaves nothing of the session unfinished: every         *)
(* transcript the client has seen a delta of has had its stt_final          *)
(* (StopRecording, flushStub), whatever restarts, stops and stragglers came *)
(* before.  The assumptions are the run's.                                  *)
THEOREM RecordingsAreFinished ==
  ASSUME StubAlone, "store" \notin Faults
  PROVE  Spec => EveryRecordingIsFinished
<1> DEFINE A ==
      call[Mqtt].op = "flush" /\ pc[Mqtt] # "returned" /\ pc'[Mqtt] = "returned"
        /\ call'[Mqtt].result = NoPayload
        => Unfinished(call[Mqtt].session) = {}
<1>1. Init => TendInv
  BY TendInitial
<1>2. TendInv /\ [Next]_vars => TendInv'
  BY TendStep
<1>3. TendInv /\ [Next]_vars => [A]_vars
  BY NothingUnfinished
<1> QED BY <1>1, <1>2, <1>3, PTL DEF Spec, EveryRecordingIsFinished

=============================================================================
