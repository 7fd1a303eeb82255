-------------------------- MODULE SttServiceProofs --------------------------
(* Proofs about SttService. *)
EXTENDS SttService, SequenceTheorems, TLAPS

-----------------------------------------------------------------------------
(* Operators on single values.                                              *)

LEMMA FreshType == ASSUME NEW id \in Nat PROVE Fresh(id) \in TranscriptState
  BY DEF Fresh, TranscriptState, Texts

LEMMA ReviseType == ASSUME NEW st \in TranscriptState
                    PROVE /\ Revise(st) \in TranscriptState
                          /\ Revise(st).id = st.id
                          /\ Revise(st).rev = st.rev + 1
                          /\ Revise(st).chunks = st.chunks
  BY DEF Revise, TranscriptState

LEMMA BufferedType == ASSUME NEW st \in TranscriptState, NEW p \in Packets
                      PROVE /\ Buffered(st, p) \in TranscriptState
                            /\ Buffered(st, p).id = st.id
                            /\ Buffered(st, p).rev = st.rev
<1>1. st.pcm \cup {p} \in Texts /\ st.since + 1 \in Nat
  BY DEF TranscriptState, Texts
<1>2. Buffered(st, p) = [st EXCEPT !.pcm = st.pcm \cup {p}, !.since = st.since + 1]
  BY DEF Buffered
<1> QED BY <1>1, <1>2 DEF TranscriptState

LEMMA RecognizedType == ASSUME NEW st \in TranscriptState, NEW t \in Texts
                        PROVE /\ Recognized(st, t) \in TranscriptState
                              /\ Recognized(st, t).id = st.id
                              /\ Recognized(st, t).rev = st.rev
  BY DEF Recognized, TranscriptState

LEMMA PayloadOK == ASSUME NEW s \in Sessions, NEW id \in Nat, NEW rev \in Nat,
                          NEW t \in Texts, NEW final \in BOOLEAN
                   PROVE Payload(s, id, rev, t, final) \in PayloadType
  BY DEF Payload, PayloadType

LEMMA IdleCallType == IdleCall \in CallType /\ IdleCall.op = "none" /\ IdleCall.stream = 0
  BY DEF IdleCall, CallType, Texts

LEMMA EnsureStateType == ASSUME SttVarsOK, NEW s \in Sessions PROVE EnsureState(s) \in TranscriptState
<1>1. CASE sessions[s] = NoState
  <2>1. created + 1 \in Nat
    BY DEF SttVarsOK
  <2> QED BY <1>1, <2>1, FreshType DEF EnsureState
<1>2. CASE sessions[s] # NoState
  BY <1>2 DEF EnsureState, SttVarsOK
<1> QED BY <1>1, <1>2

-----------------------------------------------------------------------------
(* The shape of a call.                                                     *)

LEMMA GotoType == ASSUME SttVarsOK, NEW c \in Callers, NEW l \in Labels, Goto(c, l)
                  PROVE /\ pc' \in [Callers -> Labels]
                        /\ pc'[c] = l
                        /\ \A d \in Callers \ {c} : pc'[d] = pc[d]
  BY DEF Goto, SttVarsOK

LEMMA ReturnType == ASSUME SttTypeOK, NEW c \in Callers, NEW r \in Results, Return(c, r),
                           pc[c] # "idle", UNCHANGED heap
                    PROVE /\ pc' \in [Callers -> Labels]
                          /\ call' \in [Callers -> CallType]
                          /\ \A d \in Callers : CallOK(d)'
<1>1. /\ pc' \in [Callers -> Labels]
      /\ pc'[c] = "returned"
      /\ \A d \in Callers \ {c} : pc'[d] = pc[d]
  BY GotoType DEF Return, Labels, SttTypeOK
<1>2. call \in [Callers -> CallType]
  BY DEF SttTypeOK, SttVarsOK
<1>3. call' = [call EXCEPT ![c].result = r]
  BY DEF Return
<1>4. call' \in [Callers -> CallType]
  BY <1>2, <1>3 DEF CallType, Results
<1>5. \A d \in Callers : /\ call'[d].session = call[d].session
                         /\ call'[d].op = call[d].op
                         /\ call'[d].packet = call[d].packet
                         /\ call'[d].stream = call[d].stream
  BY <1>2, <1>3 DEF CallType
<1>6. ASSUME NEW d \in Callers PROVE CallOK(d)'
  BY <1>1, <1>5 DEF CallOK, SttTypeOK
<1> QED BY <1>1, <1>4, <1>6

LEMMA MoveType == ASSUME SttTypeOK, NEW c \in Callers, NEW l \in Labels, Goto(c, l),
                         UNCHANGED <<call, heap>>, pc[c] # "idle",
                         l \notin {"stream_call", "stream_store", "stream_load"} \/ call[c].stream # 0
                  PROVE /\ pc' \in [Callers -> Labels]
                        /\ \A d \in Callers : CallOK(d)'
<1>1. /\ pc' \in [Callers -> Labels]
      /\ pc'[c] = l
      /\ \A d \in Callers \ {c} : pc'[d] = pc[d]
  BY GotoType DEF SttTypeOK
<1>2. ASSUME NEW d \in Callers PROVE CallOK(d)'
  BY <1>1 DEF CallOK, SttTypeOK
<1> QED BY <1>1, <1>2

LEMMA CallUpdate == ASSUME SttVarsOK, NEW c \in Callers, NEW x \in CallType,
                           call' = [call EXCEPT ![c] = x]
                    PROVE /\ call' \in [Callers -> CallType]
                          /\ call'[c] = x
                          /\ \A d \in Callers \ {c} : call'[d] = call[d]
  BY DEF SttVarsOK

\* A step that changes one call and where it is; streams may be made, not lost.
LEMMA CallsType == ASSUME SttTypeOK, NEW c \in Callers, NEW l \in Labels, Goto(c, l),
                          \A d \in Callers \ {c} : call'[d] = call[d],
                          Len(heap') \in Nat, Len(heap) <= Len(heap'),
                          l # "idle" => call'[c].session \in Sessions,
                          call'[c].op = "consume" => call'[c].packet # 0,
                          call'[c].stream \in 0..Len(heap'),
                          l \in {"stream_call", "stream_store", "stream_load"} => call'[c].stream # 0
                   PROVE /\ pc' \in [Callers -> Labels]
                         /\ \A d \in Callers : CallOK(d)'
<1>1. /\ pc' \in [Callers -> Labels]
      /\ pc'[c] = l
      /\ \A d \in Callers \ {c} : pc'[d] = pc[d]
  BY GotoType DEF SttTypeOK
<1>2. ASSUME NEW d \in Callers PROVE CallOK(d)'
  <2>1. CASE d = c
    BY <2>1, <1>1 DEF CallOK
  <2>2. CASE d # c
    <3>1. CallOK(d)
      BY DEF SttTypeOK
    <3>2. call[d].stream \in 0..Len(heap')
      BY <3>1 DEF CallOK, SttTypeOK, SttVarsOK
    <3> QED BY <2>2, <1>1, <3>1, <3>2 DEF CallOK
  <2> QED BY <2>1, <2>2
<1> QED BY <1>1, <1>2

\* What a step that leaves streams and heap alone has to show.
LEMMA TypeParts == ASSUME SttTypeOK, UNCHANGED <<streams, heap>>,
                          SttVarsOK', \A d \in Callers : CallOK(d)'
                   PROVE SttTypeOK'
  BY DEF SttTypeOK, StreamsExist

LEMMA IssueType == ASSUME SttTypeOK, NEW c \in Callers, NEW p \in PayloadType, Issue(c, p),
                          pc[c] # "idle", UNCHANGED heap
                   PROVE /\ pc' \in [Callers -> Labels]
                         /\ call' \in [Callers -> CallType]
                         /\ \A d \in Callers : CallOK(d)'
                         /\ issued' \in Seq(PayloadType)
                         /\ streamed' \in Seq(PayloadType)
<1>1. p \in Results /\ Return(c, p)
  BY DEF Results, Issue
<1>2. issued' \in Seq(PayloadType) /\ streamed' \in Seq(PayloadType)
  BY DEF Issue, SttTypeOK, SttVarsOK
<1> QED BY <1>1, <1>2, ReturnType

LEMMA ReturnNothingType == ASSUME SttTypeOK, NEW c \in Callers, ReturnNothing(c),
                                  pc[c] # "idle", UNCHANGED heap
                           PROVE /\ pc' \in [Callers -> Labels]
                                 /\ call' \in [Callers -> CallType]
                                 /\ \A d \in Callers : CallOK(d)'
                                 /\ issued' \in Seq(PayloadType)
                                 /\ streamed' \in Seq(PayloadType)
<1>1. NoPayload \in Results /\ Return(c, NoPayload)
  BY DEF Results, ReturnNothing
<1>2. issued' \in Seq(PayloadType) /\ streamed' \in Seq(PayloadType)
  BY DEF ReturnNothing, SttTypeOK, SttVarsOK
<1> QED BY <1>1, <1>2, ReturnType

LEMMA SttTypeInit == SttInit => SttTypeOK
<1> SUFFICES ASSUME SttInit PROVE SttTypeOK
  OBVIOUS
<1>1. SttVarsOK
  <2>1. pc \in [Callers -> Labels] /\ call \in [Callers -> CallType]
    BY IdleCallType DEF SttInit, Labels
  <2>2. /\ sessions \in [Sessions -> TranscriptState \cup {NoState}]
        /\ streams \in [Sessions -> Nat]
    BY DEF SttInit
  <2>3. /\ heap \in Seq([rev : Nat, heard : Texts])
        /\ issued \in Seq(PayloadType)
        /\ streamed \in Seq(PayloadType)
    BY DEF SttInit
  <2>4. /\ provider \in Providers
        /\ created \in Nat /\ packets \in Nat /\ configs \in Nat
        /\ crashed \in BOOLEAN
    BY DEF SttInit
  <2> QED BY <2>1, <2>2, <2>3, <2>4 DEF SttVarsOK
<1>2. StreamsExist
  BY DEF SttInit, StreamsExist
<1>3. \A c \in Callers : CallOK(c)
  BY IdleCallType DEF SttInit, CallOK
<1> QED BY <1>1, <1>2, <1>3 DEF SttTypeOK

LEMMA SttTypeBegin == ASSUME SttTypeOK, NEW c \in Callers, NEW s \in Sessions,
                             BeginConsume(c, s) \/ BeginFlush(c, s)
                      PROVE SttTypeOK'
<1>1. packets \in Nat /\ packets' \in Nat /\ packets + 1 \in Nat /\ packets + 1 # 0
  BY DEF SttTypeOK, SttVarsOK, BeginConsume, BeginFlush
<1>2. PICK x \in CallType : /\ call' = [call EXCEPT ![c] = x]
                            /\ x.session = s /\ x.stream = 0
                            /\ x.op = "consume" => x.packet # 0
  <2>1. CASE BeginConsume(c, s)
    <3> DEFINE x == [IdleCall EXCEPT !.op = "consume", !.session = s, !.packet = packets + 1]
    <3>1. /\ x \in CallType /\ x.session = s /\ x.stream = 0 /\ x.packet = packets + 1
      BY <1>1, IdleCallType DEF CallType
    <3>2. call' = [call EXCEPT ![c] = x]
      BY <2>1 DEF BeginConsume
    <3> HIDE DEF x
    <3> QED BY <1>1, <3>1, <3>2
  <2>2. CASE BeginFlush(c, s)
    <3> DEFINE x == [IdleCall EXCEPT !.op = "flush", !.session = s]
    <3>1. /\ x \in CallType /\ x.session = s /\ x.stream = 0 /\ x.op = "flush"
      BY IdleCallType DEF CallType
    <3>2. call' = [call EXCEPT ![c] = x]
      BY <2>2 DEF BeginFlush
    <3> HIDE DEF x
    <3> QED BY <3>1, <3>2
  <2> QED BY <2>1, <2>2
<1>3. /\ UNCHANGED <<provider, sessions, streams, heap, created, issued, streamed, configs, crashed>>
      /\ Goto(c, "provider")
  BY DEF BeginConsume, BeginFlush
<1>4. Len(heap) \in Nat /\ Len(heap') = Len(heap)
  BY <1>3 DEF SttTypeOK, SttVarsOK
<1>5. /\ pc' \in [Callers -> Labels]
      /\ call' \in [Callers -> CallType]
      /\ \A d \in Callers : CallOK(d)'
  <2>1. "provider" \in Labels /\ x.stream \in 0..Len(heap')
    BY <1>2, <1>4 DEF Labels
  <2>2. /\ call' \in [Callers -> CallType]
        /\ call'[c] = x
        /\ \A d \in Callers \ {c} : call'[d] = call[d]
    BY <1>2, CallUpdate DEF SttTypeOK
  <2> QED BY <1>2, <1>3, <1>4, <2>1, <2>2, CallsType
<1>6. SttVarsOK'
  BY <1>1, <1>3, <1>5 DEF SttTypeOK, SttVarsOK
<1> QED BY <1>3, <1>5, <1>6, TypeParts

LEMMA SttTypeEnd == ASSUME SttTypeOK, NEW c \in Callers, EndCall(c) PROVE SttTypeOK'
<1>1. /\ UNCHANGED <<provider, sessions, streams, heap, created, issued, streamed, packets, configs, crashed>>
      /\ Goto(c, "idle")
      /\ call' = [call EXCEPT ![c] = IdleCall]
  BY DEF EndCall
<1>2. Len(heap) \in Nat /\ Len(heap') = Len(heap)
  BY <1>1 DEF SttTypeOK, SttVarsOK
<1>3. /\ pc' \in [Callers -> Labels]
      /\ call' \in [Callers -> CallType]
      /\ \A d \in Callers : CallOK(d)'
  <2>1. "idle" \in Labels /\ IdleCall.stream \in 0..Len(heap')
    BY <1>2, IdleCallType DEF Labels
  <2>2. /\ call' \in [Callers -> CallType]
        /\ call'[c] = IdleCall
        /\ \A d \in Callers \ {c} : call'[d] = call[d]
    BY <1>1, IdleCallType, CallUpdate DEF SttTypeOK
  <2> QED BY <1>1, <1>2, <2>1, <2>2, IdleCallType, CallsType
<1>4. SttVarsOK'
  BY <1>1, <1>3 DEF SttTypeOK, SttVarsOK
<1> QED BY <1>1, <1>3, <1>4, TypeParts

LEMMA SttTypeRead == ASSUME SttTypeOK, NEW c \in Callers, ReadProvider(c) \/ ReadFactory(c)
                     PROVE SttTypeOK'
<1>1. PICK l \in {"stub", "factory", "stream", "buffer"} : Goto(c, l)
  BY DEF ReadProvider, ReadFactory
<1>2. /\ UNCHANGED <<provider, sessions, streams, heap, call, created, issued, streamed, packets, configs, crashed>>
      /\ pc[c] # "idle"
  BY DEF ReadProvider, ReadFactory
<1>3. /\ pc' \in [Callers -> Labels]
      /\ \A d \in Callers : CallOK(d)'
  BY <1>1, <1>2, MoveType DEF Labels
<1>4. SttVarsOK'
  BY <1>2, <1>3 DEF SttTypeOK, SttVarsOK
<1> QED BY <1>2, <1>3, <1>4, TypeParts

LEMMA SttTypeStub == ASSUME SttTypeOK, NEW c \in Callers, ConsumeStub(c) \/ FlushStub(c)
                     PROVE SttTypeOK'
<1> DEFINE s == call[c].session
<1>1. /\ UNCHANGED <<provider, streams, heap, packets, configs, crashed>>
      /\ pc[c] # "idle" /\ s \in Sessions
  BY DEF ConsumeStub, FlushStub, SttTypeOK, CallOK
<1>2. CASE ConsumeStub(c)
  <2> DEFINE old == Revise(EnsureState(s))
             st == [old EXCEPT !.chunks = @ \cup {call[c].packet}]
  <2>1. call[c].packet \in Packets
    BY <1>2 DEF ConsumeStub, SttTypeOK, SttVarsOK, CallOK, CallType, Packets
  <2>2. old \in TranscriptState
    BY <1>1, EnsureStateType, ReviseType DEF SttTypeOK
  <2>3. st \in TranscriptState
    <3>1. old.chunks \cup {call[c].packet} \in Texts
      BY <2>1, <2>2 DEF TranscriptState, Texts
    <3> HIDE DEF old
    <3> QED BY <2>2, <3>1 DEF TranscriptState
  <2>4. /\ sessions' = [sessions EXCEPT ![s] = st]
        /\ CountCreated(s)
        /\ Issue(c, Payload(s, st.id, st.rev, st.chunks, FALSE))
    BY <1>2 DEF ConsumeStub
  <2> HIDE DEF st
  <2>5. Payload(s, st.id, st.rev, st.chunks, FALSE) \in PayloadType
    BY <1>1, <2>3, PayloadOK DEF TranscriptState
  <2>6. SttVarsOK' /\ \A d \in Callers : CallOK(d)'
    <3>1. created' \in Nat
      BY <2>4 DEF CountCreated, SttTypeOK, SttVarsOK
    <3>2. sessions' \in [Sessions -> TranscriptState \cup {NoState}]
      BY <2>3, <2>4 DEF SttTypeOK, SttVarsOK
    <3>3. /\ pc' \in [Callers -> Labels]
          /\ call' \in [Callers -> CallType]
          /\ \A d \in Callers : CallOK(d)'
          /\ issued' \in Seq(PayloadType)
          /\ streamed' \in Seq(PayloadType)
      BY <1>1, <2>4, <2>5, IssueType
    <3> QED BY <1>1, <3>1, <3>2, <3>3 DEF SttTypeOK, SttVarsOK
  <2> QED BY <1>1, <2>6, TypeParts
<1>3. CASE FlushStub(c)
  <2>1. /\ sessions' \in [Sessions -> TranscriptState \cup {NoState}]
        /\ created' = created
    BY <1>3 DEF FlushStub, Forget, SttTypeOK, SttVarsOK
  <2>2. CASE ReturnNothing(c)
    BY <1>1, <2>1, <2>2, ReturnNothingType, TypeParts DEF SttTypeOK, SttVarsOK
  <2>3. CASE ~ ReturnNothing(c)
    <3> DEFINE st == Revise(sessions[s])
               p == Payload(s, st.id, st.rev, st.chunks, TRUE)
    <3>1. HasChunks(s) /\ Issue(c, p)
      BY <1>3, <2>3 DEF FlushStub
    <3>2. st \in TranscriptState
      BY <1>1, <3>1, ReviseType DEF HasChunks, SttTypeOK, SttVarsOK
    <3> HIDE DEF st
    <3>3. p \in PayloadType
      BY <1>1, <3>2, PayloadOK DEF TranscriptState
    <3> HIDE DEF p
    <3> QED BY <1>1, <2>1, <3>1, <3>3, IssueType, TypeParts DEF SttTypeOK, SttVarsOK
  <2> QED BY <2>2, <2>3
<1> QED BY <1>2, <1>3

LEMMA CaptureType == ASSUME SttTypeOK, NEW c \in Callers, NEW st \in TranscriptState,
                            Capture(c, st), Goto(c, "recognize"), pc[c] # "idle", UNCHANGED heap
                     PROVE /\ pc' \in [Callers -> Labels]
                           /\ call' \in [Callers -> CallType]
                           /\ \A d \in Callers : CallOK(d)'
<1>1. call \in [Callers -> CallType]
  BY DEF SttTypeOK, SttVarsOK
<1>2. /\ st.pcm \in Texts /\ st.text \in Texts /\ RealRecognizer \in BOOLEAN
  BY DEF TranscriptState, RealRecognizer
<1>3. call' = [call EXCEPT ![c].audio = st.pcm, ![c].prev = st.text, ![c].real = RealRecognizer]
  BY DEF Capture
<1>4. /\ call' \in [Callers -> CallType]
      /\ \A d \in Callers \ {c} : call'[d] = call[d]
      /\ call'[c].session = call[c].session
      /\ call'[c].op = call[c].op
      /\ call'[c].packet = call[c].packet
      /\ call'[c].stream = call[c].stream
  <2> DEFINE x == [call[c] EXCEPT !.audio = st.pcm, !.prev = st.text, !.real = RealRecognizer]
  <2>1. call[c] \in CallType
    BY <1>1
  <2>2. /\ x \in CallType /\ x.session = call[c].session /\ x.op = call[c].op
        /\ x.packet = call[c].packet /\ x.stream = call[c].stream
    BY <1>2, <2>1 DEF CallType
  <2>3. call' = [call EXCEPT ![c] = x]
    BY <1>1, <1>3
  <2> HIDE DEF x
  <2> QED BY <2>2, <2>3, CallUpdate DEF SttTypeOK
<1>5. "recognize" \in Labels /\ Len(heap) \in Nat /\ CallOK(c)
  BY DEF Labels, SttTypeOK, SttVarsOK
<1> QED BY <1>4, <1>5, CallsType DEF CallOK

LEMMA SttTypeBuffer == ASSUME SttTypeOK, NEW c \in Callers, BufferAudio(c) \/ CaptureAudio(c)
                       PROVE SttTypeOK'
<1> DEFINE s == call[c].session
<1>1. /\ UNCHANGED <<provider, streams, heap, packets, configs, crashed>>
      /\ pc[c] # "idle" /\ s \in Sessions
  BY DEF BufferAudio, CaptureAudio, SttTypeOK, CallOK
<1>2. issued \in Seq(PayloadType) /\ streamed \in Seq(PayloadType) /\ created \in Nat
  BY DEF SttTypeOK, SttVarsOK
<1>3. CASE BufferAudio(c)
  <2> DEFINE st == Buffered(EnsureState(s), call[c].packet)
  <2>1. call[c].packet \in Packets
    BY <1>3 DEF BufferAudio, SttTypeOK, SttVarsOK, CallOK, CallType, Packets
  <2>2. st \in TranscriptState
    BY <1>1, <2>1, EnsureStateType, BufferedType DEF SttTypeOK
  <2>3. /\ sessions' = [sessions EXCEPT ![s] = st]
        /\ CountCreated(s)
        /\ \/ Capture(c, st) /\ Goto(c, "recognize") /\ UNCHANGED <<issued, streamed>>
           \/ ReturnNothing(c)
    BY <1>3 DEF BufferAudio
  <2> HIDE DEF st
  <2>4. /\ pc' \in [Callers -> Labels]
        /\ call' \in [Callers -> CallType]
        /\ \A d \in Callers : CallOK(d)'
        /\ issued' \in Seq(PayloadType)
        /\ streamed' \in Seq(PayloadType)
    BY <1>1, <1>2, <2>2, <2>3, CaptureType, ReturnNothingType
  <2>5. created' \in Nat
    BY <1>2, <2>3 DEF CountCreated
  <2>6. sessions' \in [Sessions -> TranscriptState \cup {NoState}]
    BY <2>2, <2>3 DEF SttTypeOK, SttVarsOK
  <2> QED BY <1>1, <2>4, <2>5, <2>6, TypeParts DEF SttTypeOK, SttVarsOK
<1>4. CASE CaptureAudio(c)
  <2>1. UNCHANGED <<sessions, created>>
    BY <1>4 DEF CaptureAudio
  <2>2. \/ /\ sessions[s] \in TranscriptState
           /\ Capture(c, sessions[s]) /\ Goto(c, "recognize") /\ UNCHANGED <<issued, streamed>>
        \/ ReturnNothing(c)
    BY <1>1, <1>4 DEF CaptureAudio, HasAudio, SttTypeOK, SttVarsOK
  <2>3. /\ pc' \in [Callers -> Labels]
        /\ call' \in [Callers -> CallType]
        /\ \A d \in Callers : CallOK(d)'
        /\ issued' \in Seq(PayloadType)
        /\ streamed' \in Seq(PayloadType)
    BY <1>1, <1>2, <2>2, CaptureType, ReturnNothingType
  <2> QED BY <1>1, <2>1, <2>3, TypeParts DEF SttTypeOK, SttVarsOK
<1> QED BY <1>3, <1>4

LEMMA TableType == ASSUME SttVarsOK, NEW s \in Sessions, NEW st \in TranscriptState, CountCreated(s),
                          sessions' = [sessions EXCEPT ![s] = st] \/ Forget(s)
                   PROVE /\ sessions' \in [Sessions -> TranscriptState \cup {NoState}]
                         /\ created' \in Nat
<1>1. sessions \in [Sessions -> TranscriptState \cup {NoState}] /\ created \in Nat
  BY DEF SttVarsOK
<1>2. created' \in Nat
  BY <1>1 DEF CountCreated
<1>3. CASE sessions' = [sessions EXCEPT ![s] = st]
  BY <1>1, <1>2, <1>3
<1>4. CASE Forget(s)
  BY <1>1, <1>2, <1>4 DEF Forget
<1> QED BY <1>3, <1>4

LEMMA SpokenType == ASSUME SttTypeOK, NEW c \in Callers, NEW answer
                    PROVE Spoken(c, answer) \in Texts /\ call[c].prev \in Texts
<1>1. call[c].audio \in Texts /\ call[c].prev \in Texts /\ {} \in Texts
  BY DEF SttTypeOK, SttVarsOK, CallType, Texts
<1>2. Spoken(c, answer) \in {call[c].audio, call[c].prev, {}}
  BY DEF Spoken
<1> QED BY <1>1, <1>2

LEMMA SttTypeRecognized == ASSUME SttTypeOK, NEW c \in Callers, NEW answer,
                                  ConsumeRecognized(c, answer) \/ FlushRecognized(c, answer)
                           PROVE SttTypeOK'
<1> DEFINE s == call[c].session
           spoken == Spoken(c, answer)
<1>1. /\ UNCHANGED <<provider, streams, heap, packets, configs, crashed>>
      /\ pc[c] # "idle" /\ s \in Sessions
  BY DEF ConsumeRecognized, FlushRecognized, SttTypeOK, CallOK
<1>2. /\ spoken \in Texts /\ call[c].prev \in Texts /\ EnsureState(s) \in TranscriptState
  BY <1>1, SpokenType, EnsureStateType DEF SttTypeOK
<1>3. sessions \in [Sessions -> TranscriptState \cup {NoState}] /\ created \in Nat
  BY DEF SttTypeOK, SttVarsOK
<1> HIDE DEF spoken
\* Whichever way the call ends, the table keeps its type, and so does the result.
<1>4. /\ sessions' \in [Sessions -> TranscriptState \cup {NoState}]
      /\ created' \in Nat
      /\ ReturnNothing(c) \/ \E p \in PayloadType : Issue(c, p)
  <2>1. CASE ConsumeRecognized(c, answer)
    <3>1. CASE /\ ReturnNothing(c)
               /\ UNCHANGED <<sessions, created>>
      BY <3>1, <1>3
    <3>2. CASE /\ sessions' = [sessions EXCEPT ![s] = Recognized(EnsureState(s), spoken)]
               /\ CountCreated(s)
               /\ ReturnNothing(c)
      <4>1. Recognized(EnsureState(s), spoken) \in TranscriptState
        BY <1>2, RecognizedType
      <4> QED BY <3>2, <1>1, <4>1, TableType DEF SttTypeOK
    <3>3. CASE LET st == Recognized(Revise(EnsureState(s)), spoken)
               IN /\ sessions' = [sessions EXCEPT ![s] = st]
                  /\ CountCreated(s)
                  /\ Issue(c, Payload(s, st.id, st.rev, st.text, FALSE))
      <4> DEFINE st == Recognized(Revise(EnsureState(s)), spoken)
      <4>1. st \in TranscriptState
        BY <1>2, ReviseType, RecognizedType
      <4>2. /\ sessions' = [sessions EXCEPT ![s] = st]
            /\ CountCreated(s)
            /\ Issue(c, Payload(s, st.id, st.rev, st.text, FALSE))
        BY <3>3
      <4> HIDE DEF st
      <4>3. Payload(s, st.id, st.rev, st.text, FALSE) \in PayloadType
        BY <1>1, <4>1, PayloadOK DEF TranscriptState
      <4>4. /\ sessions' \in [Sessions -> TranscriptState \cup {NoState}]
            /\ created' \in Nat
        BY <1>1, <4>1, <4>2, TableType DEF SttTypeOK
      <4> QED BY <4>2, <4>3, <4>4
    <3> QED BY <2>1, <3>1, <3>2, <3>3 DEF ConsumeRecognized, spoken
  <2>2. CASE FlushRecognized(c, answer)
    <3> DEFINE text == IF spoken = {} THEN call[c].prev ELSE spoken
               st == Revise(EnsureState(s))
    <3>1. st \in TranscriptState /\ text \in Texts
      BY <1>2, ReviseType
    <3>2. \/ ReturnNothing(c) /\ UNCHANGED <<sessions, created>>
          \/ Issue(c, Payload(s, st.id, st.rev, text, TRUE)) /\ CountCreated(s) /\ Forget(s)
      BY <2>2 DEF FlushRecognized, spoken
    <3> HIDE DEF st, text
    <3>3. Payload(s, st.id, st.rev, text, TRUE) \in PayloadType
      BY <1>1, <3>1, PayloadOK DEF TranscriptState
    <3>4. /\ sessions' \in [Sessions -> TranscriptState \cup {NoState}]
          /\ created' \in Nat
      BY <1>1, <1>3, <3>1, <3>2, TableType DEF SttTypeOK
    <3> QED BY <3>2, <3>3, <3>4
  <2> QED BY <2>1, <2>2
<1>5. /\ pc' \in [Callers -> Labels]
      /\ call' \in [Callers -> CallType]
      /\ \A d \in Callers : CallOK(d)'
      /\ issued' \in Seq(PayloadType)
      /\ streamed' \in Seq(PayloadType)
  BY <1>1, <1>4, IssueType, ReturnNothingType
<1> QED BY <1>1, <1>4, <1>5, TypeParts DEF SttTypeOK, SttVarsOK

-----------------------------------------------------------------------------
(* Streams: what a caller has in hand exists, and no stream is unmade.      *)

\* The caller's stream is now x.
Took(c, x) == call' = [call EXCEPT ![c].stream = x]

LEMMA StreamFieldType == ASSUME SttVarsOK, NEW c \in Callers, NEW x \in Nat, Took(c, x)
                         PROVE /\ call' \in [Callers -> CallType]
                               /\ \A d \in Callers \ {c} : call'[d] = call[d]
                               /\ call'[c].session = call[c].session
                               /\ call'[c].op = call[c].op
                               /\ call'[c].packet = call[c].packet
                               /\ call'[c].stream = x
<1> DEFINE y == [call[c] EXCEPT !.stream = x]
<1>1. call[c] \in CallType
  BY DEF SttVarsOK
<1>2. /\ y \in CallType /\ y.session = call[c].session /\ y.op = call[c].op
      /\ y.packet = call[c].packet /\ y.stream = x
  BY <1>1 DEF CallType
<1>3. call' = [call EXCEPT ![c] = y]
  BY DEF SttVarsOK, Took
<1> HIDE DEF y
<1> QED BY <1>2, <1>3, CallUpdate

LEMMA SttTypeFind == ASSUME SttTypeOK, NEW c \in Callers, FindStream(c) \/ TakeStream(c)
                     PROVE SttTypeOK'
<1> DEFINE s == call[c].session
<1>1. /\ UNCHANGED <<provider, sessions, created, packets, configs>>
      /\ pc[c] # "idle" /\ s \in Sessions /\ CallOK(c)
  BY DEF FindStream, TakeStream, SttTypeOK, CallOK
<1>2. /\ heap \in Seq([rev : Nat, heard : Texts])
      /\ Len(heap) \in Nat
      /\ streams \in [Sessions -> Nat]
      /\ \A r \in Sessions : streams[r] \in 0..Len(heap)
      /\ streams[s] \in 0..Len(heap)
      /\ pc \in [Callers -> Labels] /\ call \in [Callers -> CallType]
      /\ issued \in Seq(PayloadType) /\ streamed \in Seq(PayloadType)
      /\ crashed \in BOOLEAN
  BY <1>1 DEF SttTypeOK, SttVarsOK, StreamsExist
\* A stream is in hand: it was found or taken, or has just been made.
<1>3. ASSUME NEW x \in 1..Len(heap'), Took(c, x), Goto(c, "stream_call"),
             heap' \in Seq([rev : Nat, heard : Texts]), Len(heap) <= Len(heap'),
             streams' \in [Sessions -> Nat], \A r \in Sessions : streams'[r] \in 0..Len(heap'),
             UNCHANGED <<issued, streamed, crashed>>
      PROVE SttTypeOK'
  <2>1. /\ call' \in [Callers -> CallType]
        /\ \A d \in Callers \ {c} : call'[d] = call[d]
        /\ call'[c].session = call[c].session
        /\ call'[c].op = call[c].op
        /\ call'[c].packet = call[c].packet
        /\ call'[c].stream = x
    <3>1. x \in Nat
      BY <1>3
    <3> QED BY <1>3, <3>1, StreamFieldType DEF SttTypeOK
  <2>2. "stream_call" \in Labels /\ Len(heap') \in Nat /\ x \in 0..Len(heap') /\ x # 0
    BY <1>3 DEF Labels
  <2>3. /\ pc' \in [Callers -> Labels]
        /\ \A d \in Callers : CallOK(d)'
    BY <1>1, <1>3, <2>1, <2>2, CallsType DEF CallOK
  <2> QED BY <1>1, <1>2, <1>3, <2>1, <2>3 DEF SttTypeOK, SttVarsOK, StreamsExist
<1>4. CASE FindStream(c)
  <2>1. CASE /\ streams[s] # 0
             /\ call' = [call EXCEPT ![c].stream = streams[s]]
             /\ Goto(c, "stream_call")
             /\ UNCHANGED <<streams, heap, crashed>>
    <3>1. Took(c, streams[s]) /\ UNCHANGED <<issued, streamed>>
      BY <2>1, <1>4 DEF Took, FindStream
    <3>2. streams[s] \in 1..Len(heap') /\ Len(heap) <= Len(heap')
      BY <1>2, <2>1
    <3> QED BY <1>2, <1>3, <2>1, <3>1, <3>2
  <2>2. CASE MakeStream(c, s) /\ Goto(c, "stream_call") /\ UNCHANGED crashed
    <3>1. /\ heap' \in Seq([rev : Nat, heard : Texts])
          /\ Len(heap') = Len(heap) + 1
      <4>1. [rev |-> 0, heard |-> {}] \in [rev : Nat, heard : Texts]
        BY DEF Texts
      <4> QED BY <1>2, <2>2, <4>1 DEF MakeStream
    <3>2. /\ Len(heap) + 1 \in 1..Len(heap') /\ Len(heap) <= Len(heap')
      BY <1>2, <3>1
    <3>3. streams' = [streams EXCEPT ![s] = Len(heap) + 1]
      BY <2>2 DEF MakeStream
    <3>4. /\ streams' \in [Sessions -> Nat]
          /\ \A r \in Sessions : streams'[r] \in 0..Len(heap')
      <4>1. ASSUME NEW r \in Sessions PROVE streams'[r] \in 0..Len(heap')
        <5>1. streams[r] \in 0..Len(heap) /\ streams'[r] \in {streams[r], Len(heap) + 1}
          BY <1>2, <3>3
        <5>2. CASE streams'[r] = streams[r]
          BY <1>2, <3>1, <5>1, <5>2
        <5>3. CASE streams'[r] = Len(heap) + 1
          BY <1>2, <3>1, <5>3
        <5> QED BY <5>1, <5>2, <5>3
      <4>2. Len(heap) + 1 \in Nat
        BY <1>2
      <4>3. streams' \in [Sessions -> Nat]
        BY <1>1, <1>2, <3>3, <4>2
      <4> QED BY <4>1, <4>3
    <3>5. Took(c, Len(heap) + 1)
      BY <2>2 DEF MakeStream, Took
    <3>6. UNCHANGED <<issued, streamed, crashed>>
      BY <1>4, <2>2 DEF FindStream
    <3> QED BY <1>3, <2>2, <3>1, <3>2, <3>4, <3>5, <3>6
  <2>3. CASE CallNilFactory(c)
    <3>1. UNCHANGED <<streams, heap, call, pc, issued, streamed>> /\ crashed' \in BOOLEAN
      BY <1>4, <2>3 DEF CallNilFactory, FindStream
    <3>2. \A d \in Callers : CallOK(d)'
      BY <3>1 DEF SttTypeOK, CallOK
    <3> QED BY <1>1, <3>1, <3>2, TypeParts DEF SttTypeOK, SttVarsOK
  <2> QED BY <1>4, <2>1, <2>2, <2>3 DEF FindStream
<1>5. CASE TakeStream(c)
  <2>1. UNCHANGED <<heap, crashed>>
    BY <1>5 DEF TakeStream
  <2>2. CASE ReturnNothing(c) /\ UNCHANGED streams
    BY <1>1, <2>1, <2>2, ReturnNothingType, TypeParts DEF SttTypeOK, SttVarsOK
  <2>3. CASE /\ streams[s] # 0
             /\ Detach(s)
             /\ call' = [call EXCEPT ![c].stream = streams[s]]
             /\ Goto(c, "stream_call")
             /\ UNCHANGED <<issued, streamed>>
    <3>1. /\ streams' \in [Sessions -> Nat]
          /\ \A r \in Sessions : streams'[r] \in 0..Len(heap')
      <4>1. ASSUME NEW r \in Sessions PROVE streams'[r] \in 0..Len(heap')
        <5>1. streams[r] \in 0..Len(heap) /\ streams'[r] \in {streams[r], 0}
          BY <1>2, <2>3 DEF Detach
        <5> QED BY <1>2, <2>1, <5>1
      <4> QED BY <1>2, <2>3, <4>1 DEF Detach
    <3>2. streams[s] \in 1..Len(heap') /\ Len(heap) <= Len(heap')
      BY <1>2, <2>1, <2>3
    <3>3. Took(c, streams[s])
      BY <2>3 DEF Took
    <3> QED BY <1>2, <1>3, <2>1, <2>3, <3>1, <3>2, <3>3
  <2> QED BY <1>5, <2>2, <2>3 DEF TakeStream
<1> QED BY <1>4, <1>5

LEMMA SttTypeStream == ASSUME SttTypeOK, NEW c \in Callers, NEW speaks \in BOOLEAN,
                              StreamAnswer(c, speaks) \/ StreamStore(c) \/ StreamLoad(c)
                       PROVE SttTypeOK'
<1> DEFINE x == call[c].stream
           Streams == [rev : Nat, heard : Texts]
<1>1. /\ UNCHANGED <<provider, sessions, streams, created, packets, configs, crashed>>
      /\ pc[c] \in {"stream_call", "stream_store", "stream_load"} /\ pc[c] # "idle"
  BY DEF StreamAnswer, StreamStore, StreamLoad
<1>2. /\ CallOK(c) /\ call[c] \in CallType
      /\ call[c].session \in Sessions
      /\ heap \in Seq(Streams) /\ Len(heap) \in Nat
      /\ call \in [Callers -> CallType]
      /\ issued \in Seq(PayloadType) /\ streamed \in Seq(PayloadType)
  BY <1>1 DEF SttTypeOK, SttVarsOK, CallOK
<1>3. /\ x \in 1..Len(heap) /\ heap[x] \in Streams
  <2>1. x \in 1..Len(heap)
    BY <1>1, <1>2 DEF CallOK
  <2> HIDE DEF Streams, x
  <2> QED BY <1>2, <2>1
\* heap changes at most at x, and keeps its length.
<1>4. ASSUME NEW e \in Streams, heap' = [heap EXCEPT ![x] = e]
      PROVE heap' \in Seq(Streams) /\ Len(heap') = Len(heap)
  <2> HIDE DEF x, Streams
  <2> QED BY <1>2, <1>3, <1>4
<1>5. ASSUME NEW l \in Labels \ {"idle"}, Goto(c, l), Len(heap') = Len(heap),
             heap' \in Seq(Streams), streamed' \in Seq(PayloadType), UNCHANGED issued,
             call' \in [Callers -> CallType],
             \A d \in Callers : /\ call'[d].session = call[d].session
                                /\ call'[d].op = call[d].op
                                /\ call'[d].packet = call[d].packet
                                /\ call'[d].stream = call[d].stream
      PROVE SttTypeOK'
  <2>1. /\ pc' \in [Callers -> Labels]
        /\ pc'[c] = l
        /\ \A d \in Callers \ {c} : pc'[d] = pc[d]
    BY <1>5, GotoType DEF SttTypeOK
  <2>2. \A d \in Callers : CallOK(d)'
    BY <1>1, <1>5, <2>1 DEF SttTypeOK, CallOK
  <2>3. StreamsExist'
    BY <1>1, <1>5 DEF SttTypeOK, StreamsExist
  <2> QED BY <1>1, <1>2, <1>5, <2>1, <2>2, <2>3 DEF SttTypeOK, SttVarsOK
<1>6. CASE StreamAnswer(c, speaks)
  <2> DEFINE p == IF call[c].op = "consume" THEN {call[c].packet} ELSE {}
             e == [heap[x] EXCEPT !.heard = @ \cup p]
  <2>1. p \in Texts
    BY <1>2 DEF CallOK, CallType, Texts, Packets
  <2>2. heap[x].heard \cup p \in Texts
    BY <1>3, <2>1 DEF Texts
  <2>3. e \in Streams
    <3> HIDE DEF p
    <3> QED BY <1>3, <2>2
  <2>4. heap' = [heap EXCEPT ![x] = e]
    BY <1>6, <1>3 DEF StreamAnswer
  <2> HIDE DEF e
  <2>5. heap' \in Seq(Streams) /\ Len(heap') = Len(heap)
    BY <1>4, <2>3, <2>4
  <2>6. CASE speaks
    <3>1. /\ call' = [call EXCEPT ![c].base = heap[x].rev]
          /\ Goto(c, "stream_store")
          /\ UNCHANGED <<issued, streamed>>
      BY <1>6, <2>6 DEF StreamAnswer
    <3>2. heap[x].rev \in Nat
      BY <1>3
    <3>3. /\ call' \in [Callers -> CallType]
          /\ \A d \in Callers : /\ call'[d].session = call[d].session
                                /\ call'[d].op = call[d].op
                                /\ call'[d].packet = call[d].packet
                                /\ call'[d].stream = call[d].stream
      BY <1>2, <3>1, <3>2 DEF CallType
    <3>4. "stream_store" \in Labels \ {"idle"}
      BY DEF Labels
    <3> QED BY <1>2, <1>5, <2>5, <3>1, <3>3, <3>4
  <2>7. CASE ~ speaks
    <3>1. ReturnNothing(c)
      BY <1>6, <2>7 DEF StreamAnswer
    <3>2. call' = [call EXCEPT ![c].result = NoPayload] /\ Goto(c, "returned") /\ UNCHANGED <<issued, streamed>>
      BY <3>1 DEF ReturnNothing, Return
    <3>3. /\ call' \in [Callers -> CallType]
          /\ \A d \in Callers : /\ call'[d].session = call[d].session
                                /\ call'[d].op = call[d].op
                                /\ call'[d].packet = call[d].packet
                                /\ call'[d].stream = call[d].stream
      BY <1>2, <3>2 DEF CallType
    <3>4. "returned" \in Labels \ {"idle"}
      BY DEF Labels
    <3> QED BY <1>2, <1>5, <2>5, <3>2, <3>3, <3>4
  <2> QED BY <2>6, <2>7
<1>7. CASE StreamStore(c)
  <2> DEFINE e == [heap[x] EXCEPT !.rev = call[c].base + 1]
  <2>1. e \in Streams
    <3>1. call[c].base + 1 \in Nat
      BY <1>2 DEF CallType
    <3> QED BY <1>3, <3>1
  <2>2. heap' = [heap EXCEPT ![x] = e]
    BY <1>7, <1>3 DEF StreamStore
  <2> HIDE DEF e
  <2>3. heap' \in Seq(Streams) /\ Len(heap') = Len(heap)
    BY <1>4, <2>1, <2>2
  <2>4. "stream_load" \in Labels \ {"idle"} /\ Goto(c, "stream_load") /\ UNCHANGED <<call, issued, streamed>>
    BY <1>7 DEF StreamStore, Labels
  <2> QED BY <1>2, <1>5, <2>3, <2>4
<1>8. CASE StreamLoad(c)
  <2> DEFINE payload == Payload(call[c].session, x, heap[x].rev, heap[x].heard, call[c].op = "flush")
  <2>1. payload \in PayloadType
    BY <1>2, <1>3, PayloadOK DEF CallType
  <2>2. Return(c, payload) /\ streamed' = Append(streamed, payload) /\ UNCHANGED <<heap, issued>>
    BY <1>8 DEF StreamLoad
  <2> HIDE DEF payload
  <2>3. /\ pc' \in [Callers -> Labels]
        /\ call' \in [Callers -> CallType]
        /\ \A d \in Callers : CallOK(d)'
    BY <1>1, <2>1, <2>2, ReturnType DEF Results
  <2>4. streamed' \in Seq(PayloadType)
    <3>1. streamed \in Seq(PayloadType)
      BY <1>2
    <3> QED BY <2>1, <2>2, <3>1
  <2> QED BY <1>1, <2>2, <2>3, <2>4, TypeParts DEF SttTypeOK, SttVarsOK
<1> QED BY <1>6, <1>7, <1>8

LEMMA SttTypeSetConfig == ASSUME SttTypeOK, NEW p \in Providers, SetConfig(p) PROVE SttTypeOK'
<1>1. /\ sessions' \in [Sessions -> TranscriptState \cup {NoState}]
      /\ streams' \in [Sessions -> Nat]
      /\ provider' \in Providers /\ configs' \in Nat
      /\ UNCHANGED <<heap, pc, call, created, issued, streamed, packets, crashed>>
  BY DEF SetConfig, SttTypeOK, SttVarsOK
<1>2. StreamsExist'
  BY <1>1 DEF SetConfig, StreamsExist, SttTypeOK, SttVarsOK
<1>3. \A d \in Callers : CallOK(d)'
  BY <1>1 DEF SttTypeOK, CallOK
<1> QED BY <1>1, <1>2, <1>3 DEF SttTypeOK, SttVarsOK

LEMMA SttTypeCall == ASSUME SttTypeOK, NEW c \in Callers, CallStep(c) PROVE SttTypeOK'
  BY SttTypeRead, SttTypeStub, SttTypeBuffer, SttTypeRecognized, SttTypeFind, SttTypeStream
     DEF CallStep

LEMMA SttTypeNext == ASSUME SttTypeOK, [SttNext]_sttVars PROVE SttTypeOK'
<1>1. CASE SttNext
  BY <1>1, SttTypeCall, SttTypeEnd, SttTypeBegin, SttTypeSetConfig DEF SttNext
<1>2. CASE UNCHANGED sttVars
  BY <1>2 DEF sttVars, SttTypeOK, SttVarsOK, StreamsExist, CallOK
<1> QED BY <1>1, <1>2

(* The service's variables hold values of their kinds in every reachable    *)
(* state, whatever the sets of sessions, callers and providers, and however *)
(* the critical sections of Consume, Flush and SetConfig interleave.        *)
THEOREM SttTyped == SttSpec => []SttTypeOK
  BY SttTypeInit, SttTypeNext, PTL DEF SttSpec

-----------------------------------------------------------------------------
(* The refinement of TranscriptLedger: how a change of the table and of the *)
(* issued payloads looks through the mapping.                               *)

LEMMA EntryOf ==
  ASSUME SttVarsOK, NEW s \in Sessions
  PROVE /\ OpenEntries[s] = NoState <=> sessions[s] = NoState
        /\ Ledger!Entry(s) = [id |-> EnsureState(s).id, rev |-> EnsureState(s).rev]
<1>1. CASE sessions[s] = NoState
  BY <1>1 DEF OpenEntries, Ledger!Entry, EnsureState, Fresh
<1>2. CASE sessions[s] # NoState
  <2>1. OpenEntries[s] = [id |-> sessions[s].id, rev |-> sessions[s].rev]
    BY <1>2 DEF OpenEntries
  <2>2. sessions[s].id \in Nat /\ sessions[s].rev \in Nat
    BY <1>2 DEF SttVarsOK, TranscriptState
  <2>3. OpenEntries[s] # NoState
    BY <2>1, <2>2, SttAssumption
  <2> QED BY <1>2, <2>1, <2>3 DEF Ledger!Entry, EnsureState
<1> QED BY <1>1, <1>2

LEMMA CountOf == ASSUME SttVarsOK, NEW s \in Sessions, CountCreated(s) PROVE Ledger!Count(s)
  BY EntryOf DEF CountCreated, Ledger!Count

\* The table gets a new entry for s; the mapped table does; a payload is issued;
\* its stamp is.
Sets(s, st) == sessions' = [sessions EXCEPT ![s] = st]
Shows(s, e) == OpenEntries' = [OpenEntries EXCEPT ![s] = e]
Issues(p) == issued' = Append(issued, p)
Stamps(q) == IssuedStamps' = Append(IssuedStamps, q)

LEMMA TableOf ==
  ASSUME SttVarsOK, NEW s \in Sessions, NEW st \in TranscriptState, Sets(s, st)
  PROVE Shows(s, [id |-> st.id, rev |-> st.rev])
<1>1. st # NoState
  BY TranscriptAssumption
<1>2. /\ sessions'[s] = st
      /\ \A r \in Sessions \ {s} : sessions'[r] = sessions[r]
  BY DEF SttVarsOK, Sets
<1> QED BY <1>1, <1>2 DEF OpenEntries, Shows

LEMMA ForgetOf ==
  ASSUME SttVarsOK, NEW s \in Sessions, Forget(s)
  PROVE Shows(s, NoState)
  BY DEF SttVarsOK, Forget, OpenEntries, Shows

LEMMA IssuedOf ==
  ASSUME SttVarsOK, NEW p \in PayloadType, Issues(p)
  PROVE Stamps([id |-> p.id, rev |-> p.rev, final |-> p.final])
<1> DEFINE q == [id |-> p.id, rev |-> p.rev, final |-> p.final]
           Q == [id : Nat, rev : Nat, final : BOOLEAN]
<1>1. issued \in Seq(PayloadType) /\ Len(issued) \in Nat
  BY DEF SttVarsOK
<1>2. /\ Len(issued') = Len(issued) + 1
      /\ \A i \in 1..Len(issued) : issued'[i] = issued[i]
      /\ issued'[Len(issued) + 1] = p
  BY <1>1 DEF Issues
<1>3. q \in Q
  BY DEF PayloadType
<1>4. IssuedStamps \in Seq(Q) /\ Len(IssuedStamps) = Len(issued)
  <2>1. \A i \in 1..Len(issued) : issued[i] \in PayloadType
    BY <1>1
  <2>2. \A i \in 1..Len(issued) : IssuedStamps[i] \in Q
    BY <2>1 DEF IssuedStamps, PayloadType
  <2> QED BY <1>1, <2>2 DEF IssuedStamps
<1>5. /\ IssuedStamps' \in Seq(Q) /\ Len(IssuedStamps') = Len(issued) + 1
      /\ \A i \in 1..Len(issued) : IssuedStamps'[i] = IssuedStamps[i]
      /\ IssuedStamps'[Len(issued) + 1] = q
  <2>1. \A i \in 1..Len(issued') : issued'[i] \in PayloadType
    BY <1>1, <1>2
  <2>2. \A i \in 1..Len(issued') : IssuedStamps'[i] \in Q
    BY <2>1 DEF IssuedStamps, PayloadType
  <2>3. /\ IssuedStamps' \in Seq(Q) /\ Len(IssuedStamps') = Len(issued')
    BY <1>1, <1>2, <2>2 DEF IssuedStamps
  <2> QED BY <1>1, <1>2, <2>3 DEF IssuedStamps
<1> HIDE DEF q, Q
<1>6. /\ Append(IssuedStamps, q) \in Seq(Q)
      /\ Len(Append(IssuedStamps, q)) = Len(issued) + 1
      /\ \A i \in 1..Len(issued) : Append(IssuedStamps, q)[i] = IssuedStamps[i]
      /\ Append(IssuedStamps, q)[Len(issued) + 1] = q
  BY <1>3, <1>4, AppendProperties
<1>7. \A i \in 1..Len(IssuedStamps') : IssuedStamps'[i] = Append(IssuedStamps, q)[i]
  BY <1>1, <1>5, <1>6
<1>8. IssuedStamps' = Append(IssuedStamps, q)
  BY <1>5, <1>6, <1>7, SeqEqual
<1> QED BY <1>8 DEF q, Stamps

\* A step that creates or keeps the entry of s without revising it.
LEMMA TouchOf ==
  ASSUME SttVarsOK, NEW s \in Sessions, NEW st \in TranscriptState,
         st.id = EnsureState(s).id, st.rev = EnsureState(s).rev,
         Sets(s, st), CountCreated(s), UNCHANGED issued
  PROVE Ledger!Touch(s)
<1>1. Shows(s, Ledger!Entry(s))
  BY TableOf, EntryOf
<1>2. UNCHANGED IssuedStamps
  BY DEF IssuedStamps
<1> QED BY <1>1, <1>2, CountOf DEF Ledger!Touch, Shows

\* A step that issues a delta of s.
LEMMA DeltaOf ==
  ASSUME SttVarsOK, NEW s \in Sessions, NEW st \in TranscriptState, NEW p \in PayloadType,
         st.id = EnsureState(s).id, st.rev = EnsureState(s).rev + 1,
         p.id = st.id, p.rev = st.rev, p.final = FALSE,
         Sets(s, st), CountCreated(s), Issues(p)
  PROVE Ledger!Delta(s)
<1>1. Shows(s, [id |-> Ledger!Entry(s).id, rev |-> Ledger!Entry(s).rev + 1])
  BY TableOf, EntryOf
<1>2. Stamps(Ledger!Stamp(Ledger!Entry(s), FALSE))
  <2>1. Ledger!Entry(s).id = p.id /\ Ledger!Entry(s).rev + 1 = p.rev
    BY EntryOf
  <2>2. Ledger!Stamp(Ledger!Entry(s), FALSE) = [id |-> p.id, rev |-> p.rev, final |-> p.final]
    BY <2>1 DEF Ledger!Stamp
  <2> QED BY <2>2, IssuedOf
<1> QED BY <1>1, <1>2, CountOf DEF Ledger!Delta, Shows, Stamps

\* A step that issues the final of s.
LEMMA FinalOf ==
  ASSUME SttVarsOK, NEW s \in Sessions, NEW p \in PayloadType,
         p.id = EnsureState(s).id, p.rev = EnsureState(s).rev + 1, p.final = TRUE,
         Forget(s), CountCreated(s), Issues(p)
  PROVE Ledger!Final(s)
<1>1. Stamps(Ledger!Stamp(Ledger!Entry(s), TRUE))
  <2>1. Ledger!Entry(s).id = p.id /\ Ledger!Entry(s).rev + 1 = p.rev
    BY EntryOf
  <2>2. Ledger!Stamp(Ledger!Entry(s), TRUE) = [id |-> p.id, rev |-> p.rev, final |-> p.final]
    BY <2>1 DEF Ledger!Stamp
  <2> QED BY <2>2, IssuedOf
<1> QED BY <1>1, ForgetOf, CountOf DEF Ledger!Final, Shows, Stamps

LEMMA UnchangedOf == ASSUME UNCHANGED <<sessions, created, issued>> PROVE UNCHANGED Ledger!ledgerVars
  BY DEF Ledger!ledgerVars, OpenEntries, IssuedStamps

\* The steps that touch neither the table nor what was issued from it.
LEMMA LedgerStutters ==
  ASSUME NEW c \in Callers,
         \/ EndCall(c) \/ ReadProvider(c) \/ ReadFactory(c) \/ CaptureAudio(c)
         \/ FindStream(c) \/ TakeStream(c) \/ StreamStore(c) \/ StreamLoad(c)
         \/ \E speaks \in BOOLEAN : StreamAnswer(c, speaks)
         \/ \E s \in Sessions : BeginConsume(c, s) \/ BeginFlush(c, s)
  PROVE UNCHANGED Ledger!ledgerVars
<1>1. UNCHANGED <<sessions, created, issued>>
  BY DEF BeginConsume, BeginFlush, EndCall, ReadProvider, ReadFactory, CaptureAudio, FindStream,
         TakeStream, StreamAnswer, StreamStore, StreamLoad, ReturnNothing
<1> QED BY <1>1, UnchangedOf

LEMMA LedgerStub == ASSUME SttTypeOK, NEW c \in Callers, ConsumeStub(c) \/ FlushStub(c)
                    PROVE \/ UNCHANGED Ledger!ledgerVars
                          \/ \E s \in Sessions : Ledger!Delta(s) \/ Ledger!Final(s)
<1> DEFINE s == call[c].session
<1>1. s \in Sessions /\ SttVarsOK /\ EnsureState(s) \in TranscriptState
  BY EnsureStateType DEF ConsumeStub, FlushStub, SttTypeOK, CallOK
<1>2. CASE ConsumeStub(c)
  <2> DEFINE old == Revise(EnsureState(s))
             st == [old EXCEPT !.chunks = @ \cup {call[c].packet}]
             p == Payload(s, st.id, st.rev, st.chunks, FALSE)
  <2>1. old \in TranscriptState /\ old.id = EnsureState(s).id /\ old.rev = EnsureState(s).rev + 1
    BY <1>1, ReviseType
  <2>2. call[c].packet \in Packets
    BY <1>2 DEF ConsumeStub, SttTypeOK, SttVarsOK, CallOK, CallType, Packets
  <2>3. st \in TranscriptState /\ st.id = old.id /\ st.rev = old.rev
    <3>1. old.chunks \cup {call[c].packet} \in Texts
      BY <2>1, <2>2 DEF TranscriptState, Texts
    <3> HIDE DEF old
    <3> QED BY <2>1, <3>1 DEF TranscriptState
  <2>4. Sets(s, st) /\ CountCreated(s) /\ Issues(p)
    BY <1>2 DEF ConsumeStub, Issue, Sets, Issues
  <2> HIDE DEF st, old
  <2>5. p \in PayloadType
    BY <1>1, <2>3, PayloadOK DEF TranscriptState
  <2>6. p.id = st.id /\ p.rev = st.rev /\ p.final = FALSE
    BY DEF Payload
  <2> HIDE DEF p
  <2> QED BY <1>1, <2>1, <2>3, <2>4, <2>5, <2>6, DeltaOf
<1>3. CASE FlushStub(c)
  <2>1. CASE ReturnNothing(c) /\ UNCHANGED sessions
    BY <1>3, <2>1, UnchangedOf DEF FlushStub, ReturnNothing
  <2>2. CASE ~ (ReturnNothing(c) /\ UNCHANGED sessions)
    <3> DEFINE st == Revise(sessions[s])
               p == Payload(s, st.id, st.rev, st.chunks, TRUE)
    <3>1. HasChunks(s) /\ Issues(p) /\ Forget(s) /\ UNCHANGED created
      BY <1>3, <2>2 DEF FlushStub, Issue, Issues
    <3>2. sessions[s] # NoState /\ sessions[s] \in TranscriptState /\ EnsureState(s) = sessions[s]
      BY <1>1, <3>1 DEF HasChunks, SttVarsOK, EnsureState
    <3>3. st \in TranscriptState /\ st.id = EnsureState(s).id /\ st.rev = EnsureState(s).rev + 1
      BY <3>2, ReviseType
    <3> HIDE DEF st
    <3>4. p \in PayloadType
      BY <1>1, <3>3, PayloadOK DEF TranscriptState
    <3>5. p.id = st.id /\ p.rev = st.rev /\ p.final = TRUE
      BY DEF Payload
    <3>6. CountCreated(s)
      BY <3>1, <3>2 DEF CountCreated
    <3> HIDE DEF p
    <3> QED BY <1>1, <3>1, <3>3, <3>4, <3>5, <3>6, FinalOf
  <2> QED BY <2>1, <2>2
<1> QED BY <1>2, <1>3

LEMMA LedgerBuffer == ASSUME SttTypeOK, NEW c \in Callers, BufferAudio(c)
                      PROVE \E s \in Sessions : Ledger!Touch(s)
<1> DEFINE s == call[c].session
           st == Buffered(EnsureState(s), call[c].packet)
<1>1. s \in Sessions /\ SttVarsOK /\ EnsureState(s) \in TranscriptState
  BY EnsureStateType DEF BufferAudio, SttTypeOK, CallOK
<1>2. call[c].packet \in Packets
  BY DEF BufferAudio, SttTypeOK, SttVarsOK, CallOK, CallType, Packets
<1>3. st \in TranscriptState /\ st.id = EnsureState(s).id /\ st.rev = EnsureState(s).rev
  BY <1>1, <1>2, BufferedType
<1>4. Sets(s, st) /\ CountCreated(s) /\ UNCHANGED issued
  BY DEF BufferAudio, ReturnNothing, Sets
<1> HIDE DEF st
<1> QED BY <1>1, <1>3, <1>4, TouchOf

LEMMA LedgerRecognized ==
  ASSUME SttTypeOK, NEW c \in Callers, NEW answer,
         ConsumeRecognized(c, answer) \/ FlushRecognized(c, answer)
  PROVE \/ UNCHANGED Ledger!ledgerVars
        \/ \E s \in Sessions : Ledger!Touch(s) \/ Ledger!Delta(s) \/ Ledger!Final(s)
<1> DEFINE s == call[c].session
           spoken == Spoken(c, answer)
           new == Revise(EnsureState(s))
<1>1. s \in Sessions /\ SttVarsOK /\ EnsureState(s) \in TranscriptState
  BY EnsureStateType DEF ConsumeRecognized, FlushRecognized, SttTypeOK, CallOK
<1>2. spoken \in Texts /\ call[c].prev \in Texts
  BY SpokenType
<1>3. new \in TranscriptState /\ new.id = EnsureState(s).id /\ new.rev = EnsureState(s).rev + 1
  BY <1>1, ReviseType
<1>4. CASE ConsumeRecognized(c, answer)
  <2>1. CASE ReturnNothing(c) /\ UNCHANGED <<sessions, created>>
    BY <2>1, UnchangedOf DEF ReturnNothing
  <2>2. CASE /\ Sets(s, Recognized(EnsureState(s), spoken))
             /\ CountCreated(s)
             /\ ReturnNothing(c)
    <3> DEFINE st == Recognized(EnsureState(s), spoken)
    <3>1. st \in TranscriptState /\ st.id = EnsureState(s).id /\ st.rev = EnsureState(s).rev
      BY <1>1, <1>2, RecognizedType
    <3> HIDE DEF st, spoken
    <3>2. Sets(s, st) /\ CountCreated(s) /\ UNCHANGED issued
      BY <2>2 DEF ReturnNothing, st
    <3> QED BY <1>1, <3>1, <3>2, TouchOf
  <2>3. CASE LET st == Recognized(new, spoken)
             IN /\ Sets(s, st)
                /\ CountCreated(s)
                /\ Issue(c, Payload(s, st.id, st.rev, st.text, FALSE))
    <3> DEFINE st == Recognized(new, spoken)
               p == Payload(s, st.id, st.rev, st.text, FALSE)
    <3>1. st \in TranscriptState /\ st.id = new.id /\ st.rev = new.rev
      BY <1>2, <1>3, RecognizedType
    <3>2. Sets(s, st) /\ CountCreated(s) /\ Issues(p)
      BY <2>3 DEF Issue, Issues
    <3> HIDE DEF st
    <3>3. p \in PayloadType
      BY <1>1, <3>1, PayloadOK DEF TranscriptState
    <3>4. p.id = st.id /\ p.rev = st.rev /\ p.final = FALSE
      BY DEF Payload
    <3> HIDE DEF p, new, spoken
    <3> QED BY <1>1, <1>3, <3>1, <3>2, <3>3, <3>4, DeltaOf
  <2> QED BY <1>4, <2>1, <2>2, <2>3 DEF ConsumeRecognized, Sets
<1>5. CASE FlushRecognized(c, answer)
  <2> DEFINE text == IF spoken = {} THEN call[c].prev ELSE spoken
             p == Payload(s, new.id, new.rev, text, TRUE)
  <2>1. \/ ReturnNothing(c) /\ UNCHANGED <<sessions, created>>
        \/ Issues(p) /\ CountCreated(s) /\ Forget(s)
    BY <1>5 DEF FlushRecognized, Issue, Issues
  <2>2. CASE ReturnNothing(c) /\ UNCHANGED <<sessions, created>>
    BY <2>2, UnchangedOf DEF ReturnNothing
  <2>3. CASE Issues(p) /\ CountCreated(s) /\ Forget(s)
    <3>1. text \in Texts
      BY <1>2
    <3> HIDE DEF text, new
    <3>2. p \in PayloadType
      BY <1>1, <1>3, <3>1, PayloadOK DEF TranscriptState
    <3>3. p.id = new.id /\ p.rev = new.rev /\ p.final = TRUE
      BY DEF Payload
    <3> HIDE DEF p
    <3> QED BY <1>1, <1>3, <2>3, <3>2, <3>3, FinalOf
  <2> QED BY <2>1, <2>2, <2>3
<1> QED BY <1>4, <1>5

LEMMA LedgerConfig == ASSUME NEW p \in Providers, SetConfig(p) PROVE Ledger!DropAll
  BY DEF SetConfig, Ledger!DropAll, OpenEntries, IssuedStamps

LEMMA LedgerInitial == SttInit => Ledger!Init
<1> SUFFICES ASSUME SttInit PROVE Ledger!Init
  OBVIOUS
<1>1. OpenEntries = [s \in Sessions |-> NoState] /\ created = 0
  BY DEF SttInit, OpenEntries
<1>2. IssuedStamps = <<>>
  BY DEF SttInit, IssuedStamps
<1> QED BY <1>1, <1>2 DEF Ledger!Init

LEMMA LedgerStep == ASSUME SttTypeOK, [SttNext]_sttVars PROVE [Ledger!Next]_(Ledger!ledgerVars)
<1>1. CASE UNCHANGED sttVars
  BY <1>1, UnchangedOf DEF sttVars
<1>2. ASSUME NEW c \in Callers, CallStep(c) PROVE [Ledger!Next]_(Ledger!ledgerVars)
  <2>1. CASE ConsumeStub(c) \/ FlushStub(c)
    BY <2>1, LedgerStub DEF Ledger!Next
  <2>2. CASE BufferAudio(c)
    BY <2>2, LedgerBuffer DEF Ledger!Next
  <2>3. CASE \E answer \in AnswersOf(c) : ConsumeRecognized(c, answer) \/ FlushRecognized(c, answer)
    BY <2>3, LedgerRecognized DEF Ledger!Next
  <2>4. CASE \/ ReadProvider(c) \/ ReadFactory(c) \/ CaptureAudio(c)
             \/ FindStream(c) \/ TakeStream(c) \/ StreamStore(c) \/ StreamLoad(c)
             \/ \E speaks \in BOOLEAN : StreamAnswer(c, speaks)
    BY <2>4, LedgerStutters
  <2> QED BY <1>2, <2>1, <2>2, <2>3, <2>4 DEF CallStep
<1>3. ASSUME NEW c \in Callers,
             EndCall(c) \/ \E s \in Sessions : BeginConsume(c, s) \/ BeginFlush(c, s)
      PROVE UNCHANGED Ledger!ledgerVars
  BY <1>3, LedgerStutters
<1>4. ASSUME NEW p \in Providers, SetConfig(p) PROVE Ledger!Next
  BY <1>4, LedgerConfig DEF Ledger!Next
<1> QED BY <1>1, <1>2, <1>3, <1>4 DEF SttNext

(* The service implements the ledger: each critical section of Consume,     *)
(* Flush and SetConfig opens, revises, finishes or drops transcripts as     *)
(* TranscriptLedger allows, or leaves them alone, for any callers,          *)
(* sessions and trigger, in any interleaving.                               *)
THEOREM SttImplementsLedger == SttSpec => ImplementsLedger
<1>1. SttInit => Ledger!Init
  BY LedgerInitial
<1>2. SttTypeOK /\ [SttNext]_sttVars => [Ledger!Next]_(Ledger!ledgerVars)
  BY LedgerStep
<1> QED BY <1>1, <1>2, SttTyped, PTL DEF SttSpec, ImplementsLedger, Ledger!Spec

\* The ledger's own theorem, read through the refinement mapping.
LedgerTheorems ==
  INSTANCE TranscriptLedgerProofs
    WITH NoEntry <- NoState, open <- OpenEntries, opened <- created, stamps <- IssuedStamps

(* Under every interleaving of calls, the payloads of one transcript come   *)
(* out of the service with strictly rising revisions and nothing after the  *)
(* final (consumeStub, flushStub, consumeWithRecognizer,                    *)
(* flushWithRecognizer): the ledger promises it, and the service implements *)
(* the ledger.                                                              *)
THEOREM RevisionsAlwaysRise == SttSpec => []RevisionsRise
<1>1. Ledger!Init => LedgerTheorems!Init
  BY DEF Ledger!Init, LedgerTheorems!Init
<1>2. [Ledger!Next]_(Ledger!ledgerVars) => [LedgerTheorems!Next]_(LedgerTheorems!ledgerVars)
  <2>1. /\ Ledger!ledgerVars = LedgerTheorems!ledgerVars
        /\ UNCHANGED Ledger!ledgerVars => UNCHANGED LedgerTheorems!ledgerVars
    BY DEF Ledger!ledgerVars, LedgerTheorems!ledgerVars
  <2>2. Ledger!DropAll => LedgerTheorems!DropAll
    BY DEF Ledger!DropAll, LedgerTheorems!DropAll
  <2>3. ASSUME NEW s \in Sessions
        PROVE  /\ Ledger!Touch(s) => LedgerTheorems!Touch(s)
               /\ Ledger!Delta(s) => LedgerTheorems!Delta(s)
               /\ Ledger!Final(s) => LedgerTheorems!Final(s)
    BY DEF Ledger!Touch, Ledger!Delta, Ledger!Final, Ledger!Entry, Ledger!Count, Ledger!Stamp,
           LedgerTheorems!Touch, LedgerTheorems!Delta, LedgerTheorems!Final,
           LedgerTheorems!Entry, LedgerTheorems!Count, LedgerTheorems!Stamp
  <2> QED BY <2>1, <2>2, <2>3 DEF Ledger!Next, LedgerTheorems!Next
<1>3. SttTypeOK /\ LedgerTheorems!StampsRise => RevisionsRise
  <2> SUFFICES ASSUME SttTypeOK, LedgerTheorems!StampsRise PROVE RevisionsRise
    OBVIOUS
  <2>1. Len(IssuedStamps) = Len(issued)
    BY DEF SttTypeOK, SttVarsOK, IssuedStamps
  <2>2. \A i \in 1..Len(issued) : /\ IssuedStamps[i].id = issued[i].id
                                  /\ IssuedStamps[i].rev = issued[i].rev
                                  /\ IssuedStamps[i].final = issued[i].final
    BY DEF IssuedStamps
  <2> QED BY <2>1, <2>2 DEF LedgerTheorems!StampsRise, RevisionsRise
<1>4. ImplementsLedger => LedgerTheorems!Spec
  BY <1>1, <1>2, PTL DEF ImplementsLedger, Ledger!Spec, LedgerTheorems!Spec
<1> QED BY <1>3, <1>4, SttTyped, SttImplementsLedger, LedgerTheorems!LedgerDisciplined, PTL

-----------------------------------------------------------------------------
(* Calls and streams.                                                       *)

\* A call keeps its operation, session and packet from step to step, and leaves
\* the other calls alone.
LEMMA CallKeepsSession ==
  ASSUME SttTypeOK, NEW c \in Callers, CallStep(c)
  PROVE /\ call'[c].session = call[c].session
        /\ call'[c].op = call[c].op
        /\ call'[c].packet = call[c].packet
        /\ \A d \in Callers \ {c} : call'[d] = call[d]
<1> DEFINE Keeps == /\ call'[c].session = call[c].session
                    /\ call'[c].op = call[c].op
                    /\ call'[c].packet = call[c].packet
                    /\ \A d \in Callers \ {c} : call'[d] = call[d]
<1>1. call \in [Callers -> CallType]
  BY DEF SttTypeOK, SttVarsOK
<1>2. CASE UNCHANGED call
  BY <1>2
<1>3. ASSUME NEW r, Return(c, r)
      PROVE  Keeps
  BY <1>1, <1>3 DEF Return, CallType
<1>4. ASSUME NEW st, Capture(c, st)
      PROVE  Keeps
  BY <1>1, <1>4 DEF Capture, CallType
<1>5. ASSUME NEW x, call' = [call EXCEPT ![c].stream = x] \/ call' = [call EXCEPT ![c].base = x]
      PROVE  Keeps
  BY <1>1, <1>5 DEF CallType
<1>6. \/ UNCHANGED call
      \/ \E r : Return(c, r)
      \/ \E st : Capture(c, st)
      \/ \E x : call' = [call EXCEPT ![c].stream = x] \/ call' = [call EXCEPT ![c].base = x]
  <2>1. CASE ReadProvider(c) \/ ReadFactory(c) \/ StreamStore(c)
    BY <2>1 DEF ReadProvider, ReadFactory, StreamStore
  <2>2. CASE ConsumeStub(c) \/ FlushStub(c)
    BY <2>2 DEF ConsumeStub, FlushStub, Issue, ReturnNothing
  <2>3. CASE BufferAudio(c) \/ CaptureAudio(c)
    BY <2>3 DEF BufferAudio, CaptureAudio, ReturnNothing
  <2>4. CASE \E answer \in AnswersOf(c) : ConsumeRecognized(c, answer) \/ FlushRecognized(c, answer)
    BY <2>4 DEF ConsumeRecognized, FlushRecognized, Issue, ReturnNothing
  <2>5. CASE FindStream(c) \/ TakeStream(c)
    BY <2>5 DEF FindStream, TakeStream, MakeStream, CallNilFactory, ReturnNothing
  <2>6. CASE \E speaks \in BOOLEAN : StreamAnswer(c, speaks)
    BY <2>6 DEF StreamAnswer, ReturnNothing
  <2>7. CASE StreamLoad(c)
    BY <2>7 DEF StreamLoad
  <2> QED BY <2>1, <2>2, <2>3, <2>4, <2>5, <2>6, <2>7 DEF CallStep
<1> QED BY <1>2, <1>3, <1>4, <1>5, <1>6

\* A caller that flushes the stream x, and a stream whose final was issued.
Flushing(c, x) ==
  /\ pc[c] \in {"stream_call", "stream_store", "stream_load"}
  /\ call[c].op = "flush" /\ call[c].stream = x
Finished(x) == \E i \in 1..Len(streamed) : streamed[i].final /\ streamed[i].id = x

\* A stream that can still be finished has one owner, the table or a flush.
OneOwner ==
  /\ \A s, r \in Sessions : streams[s] # 0 /\ streams[s] = streams[r] => s = r
  /\ \A c \in Callers, s \in Sessions : ~ Flushing(c, streams[s])
  /\ \A c, d \in Callers, x \in Nat : Flushing(c, x) /\ Flushing(d, x) => c = d

\* A finished stream exists and has none.
FinishedUnowned ==
  \A x \in Nat : Finished(x) =>
    x \in 1..Len(heap) /\ (\A s \in Sessions : streams[s] # x) /\ (\A c \in Callers : ~ Flushing(c, x))

\* StreamFinishedOnce is not inductive: what is finished could be owned still.
StreamsInv == SttTypeOK /\ OneOwner /\ FinishedUnowned /\ StreamFinishedOnce

StreamLabels == {"stream_call", "stream_store", "stream_load"}

\* A step that begins no flush of a stream and issues nothing of one.
Quiet ==
  /\ UNCHANGED streamed /\ Len(heap) <= Len(heap')
  /\ \A s \in Sessions : streams'[s] \in {0, streams[s]}
  /\ \A c \in Callers, x \in Nat : Flushing(c, x)' => Flushing(c, x)

\* Of a call that flushes no stream, or goes on flushing the one it had.
LEMMA FlushesAsBefore ==
  ASSUME SttTypeOK, NEW c \in Callers, CallStep(c), NEW l \in Labels, Goto(c, l),
         \/ l \notin StreamLabels
         \/ call[c].op = "consume"
         \/ pc[c] \in StreamLabels /\ call'[c].stream = call[c].stream
  PROVE  \A d \in Callers, x \in Nat : Flushing(d, x)' => Flushing(d, x)
<1>1. /\ call'[c].op = call[c].op
      /\ \A d \in Callers \ {c} : call'[d] = call[d]
  BY CallKeepsSession
<1>2. pc'[c] = l /\ \A d \in Callers \ {c} : pc'[d] = pc[d]
  BY GotoType DEF Goto, SttTypeOK, SttVarsOK
<1>3. ASSUME NEW x \in Nat, Flushing(c, x)'
      PROVE  Flushing(c, x)
  BY <1>1, <1>2, <1>3 DEF Flushing, StreamLabels
<1>4. ASSUME NEW d \in Callers \ {c}, NEW x \in Nat, Flushing(d, x)'
      PROVE  Flushing(d, x)
  BY <1>1, <1>2, <1>4 DEF Flushing
<1> QED BY <1>3, <1>4

\* A new stream in the table.
LEMMA QuietFind ==
  ASSUME SttTypeOK, NEW c \in Callers, CallStep(c), FindStream(c)
  PROVE  \/ Quiet
         \/ /\ UNCHANGED streamed /\ Len(heap') = Len(heap) + 1
            /\ \E s \in Sessions : streams' = [streams EXCEPT ![s] = Len(heap')]
            /\ \A d \in Callers, x \in Nat : Flushing(d, x)' => Flushing(d, x)
<1>1. /\ call[c].session \in Sessions /\ call[c].op = "consume"
      /\ streams \in [Sessions -> Nat] /\ Len(heap) \in Nat
  BY DEF FindStream, SttTypeOK, SttVarsOK, CallOK
<1>2. CASE Goto(c, "stream_call")
  <2>1. \A d \in Callers, x \in Nat : Flushing(d, x)' => Flushing(d, x)
    BY <1>1, <1>2, FlushesAsBefore DEF Labels
  <2>2. CASE UNCHANGED <<streams, heap>>
    BY <1>1, <2>1, <2>2 DEF FindStream, Quiet
  <2>3. CASE MakeStream(c, call[c].session)
    <3>1. Len(heap') = Len(heap) + 1
      BY <2>3 DEF MakeStream, SttTypeOK, SttVarsOK
    <3> QED BY <1>1, <2>1, <2>3, <3>1 DEF FindStream, MakeStream
  <2> QED BY <1>2, <2>2, <2>3 DEF FindStream, CallNilFactory
<1>3. CASE CallNilFactory(c)
  BY <1>1, <1>3 DEF FindStream, CallNilFactory, Quiet, Flushing
<1> QED BY <1>2, <1>3 DEF FindStream

\* A call that goes elsewhere, or on with its stream.
LEMMA QuietCall ==
  ASSUME SttTypeOK, NEW c \in Callers, CallStep(c), ~ TakeStream(c), ~ FindStream(c), ~ StreamLoad(c)
  PROVE  Quiet
<1>1. UNCHANGED <<streams, streamed>> /\ Len(heap) <= Len(heap')
  <2>1. CASE ReadProvider(c) \/ ReadFactory(c) \/ ConsumeStub(c) \/ FlushStub(c) \/ BufferAudio(c) \/ CaptureAudio(c)
    <3>1. UNCHANGED <<streams, heap, streamed>>
      BY <2>1 DEF ReadProvider, ReadFactory, ConsumeStub, FlushStub, BufferAudio, CaptureAudio, Issue, ReturnNothing
    <3> QED BY <3>1 DEF SttTypeOK, SttVarsOK
  <2>2. CASE \E answer \in AnswersOf(c) : ConsumeRecognized(c, answer) \/ FlushRecognized(c, answer)
    <3>1. UNCHANGED <<streams, heap, streamed>>
      BY <2>2 DEF ConsumeRecognized, FlushRecognized, Issue, ReturnNothing
    <3> QED BY <3>1 DEF SttTypeOK, SttVarsOK
  <2>3. CASE StreamStore(c) \/ \E speaks \in BOOLEAN : StreamAnswer(c, speaks)
    <3>1. UNCHANGED <<streams, streamed>>
      BY <2>3 DEF StreamStore, StreamAnswer, ReturnNothing
    <3>2. \E x, y : heap' = [heap EXCEPT ![x] = y]
      BY <2>3 DEF StreamStore, StreamAnswer
    <3>3. Len(heap') = Len(heap) /\ Len(heap) \in Nat
      BY <3>2 DEF SttTypeOK, SttVarsOK
    <3> QED BY <3>1, <3>3
  <2> QED BY <2>1, <2>2, <2>3 DEF CallStep
<1>2. \/ \E l \in Labels \ StreamLabels : Goto(c, l)
      \/ pc[c] \in StreamLabels /\ call'[c].stream = call[c].stream /\ \E l \in Labels : Goto(c, l)
  <2>1. CASE ReadProvider(c) \/ ReadFactory(c)
    BY <2>1 DEF ReadProvider, ReadFactory, Labels, StreamLabels
  <2>2. CASE ConsumeStub(c) \/ FlushStub(c) \/ BufferAudio(c) \/ CaptureAudio(c)
    BY <2>2 DEF ConsumeStub, FlushStub, BufferAudio, CaptureAudio, Issue, ReturnNothing, Return, Labels, StreamLabels
  <2>3. CASE \E answer \in AnswersOf(c) : ConsumeRecognized(c, answer) \/ FlushRecognized(c, answer)
    BY <2>3 DEF ConsumeRecognized, FlushRecognized, Issue, ReturnNothing, Return, Labels, StreamLabels
  <2>4. CASE \E speaks \in BOOLEAN : StreamAnswer(c, speaks)
    <3>1. PICK speaks \in BOOLEAN : StreamAnswer(c, speaks)
      BY <2>4
    <3>2. CASE ReturnNothing(c)
      BY <3>2 DEF ReturnNothing, Return, Labels, StreamLabels
    <3>3. CASE call' = [call EXCEPT ![c].base = heap[call[c].stream].rev] /\ Goto(c, "stream_store")
      BY <3>1, <3>3 DEF StreamAnswer, SttTypeOK, SttVarsOK, CallType, Labels, StreamLabels
    <3> QED BY <3>1, <3>2, <3>3 DEF StreamAnswer
  <2>5. CASE StreamStore(c)
    BY <2>5 DEF StreamStore, Labels, StreamLabels
  <2> QED BY <2>1, <2>2, <2>3, <2>4, <2>5 DEF CallStep
<1>3. \A d \in Callers, x \in Nat : Flushing(d, x)' => Flushing(d, x)
  BY <1>2, FlushesAsBefore
<1> QED BY <1>1, <1>3 DEF Quiet

\* The steps that are no step of a call.
LEMMA QuietOthers ==
  ASSUME SttTypeOK,
         \/ UNCHANGED sttVars
         \/ \E c \in Callers : EndCall(c)
         \/ \E c \in Callers, s \in Sessions : BeginConsume(c, s) \/ BeginFlush(c, s)
         \/ \E p \in Providers : SetConfig(p)
  PROVE  Quiet
<1>1. pc \in [Callers -> Labels] /\ call \in [Callers -> CallType] /\ streams \in [Sessions -> Nat]
      /\ Len(heap) \in Nat
  BY DEF SttTypeOK, SttVarsOK
<1>2. CASE UNCHANGED sttVars
  BY <1>1, <1>2 DEF sttVars, Quiet, Flushing
<1>3. CASE \E c \in Callers : EndCall(c)
  BY <1>1, <1>3 DEF EndCall, Goto, Quiet, Flushing
<1>4. CASE \E c \in Callers, s \in Sessions : BeginConsume(c, s) \/ BeginFlush(c, s)
  <2>1. PICK c \in Callers : /\ UNCHANGED <<streams, heap, streamed>> /\ pc[c] = "idle" /\ Goto(c, "provider")
                             /\ \E r : call' = [call EXCEPT ![c] = r]
    BY <1>4 DEF BeginConsume, BeginFlush
  <2> QED BY <1>1, <2>1 DEF Goto, Quiet, Flushing
<1>5. CASE \E p \in Providers : SetConfig(p)
  BY <1>1, <1>5 DEF SetConfig, Quiet, Flushing
<1> QED BY <1>2, <1>3, <1>4, <1>5

\* What a quiet step keeps.
LEMMA StreamsQuiet ==
  ASSUME StreamsInv, SttTypeOK', Quiet
  PROVE  StreamsInv'
<1>1. \A x \in Nat : Finished(x)' <=> Finished(x)
  BY DEF Quiet, Finished
<1>2. Len(heap) \in Nat /\ Len(heap') \in Nat /\ streams \in [Sessions -> Nat]
  BY DEF StreamsInv, SttTypeOK, SttVarsOK
<1>3. \A c \in Callers, s \in Sessions : ~ Flushing(c, streams[s])'
  <2> SUFFICES ASSUME NEW c \in Callers, NEW s \in Sessions, Flushing(c, streams[s])' PROVE FALSE
    OBVIOUS
  <2>1. streams'[s] # 0
    BY DEF SttTypeOK, CallOK, Flushing
  <2>2. streams'[s] = streams[s] /\ streams[s] \in Nat
    BY <1>2, <2>1 DEF Quiet
  <2>3. Flushing(c, streams[s])
    <3>1. \A x \in Nat : x = streams'[s] => Flushing(c, x)'
      BY DEF Flushing
    <3> QED BY <2>2, <3>1 DEF Quiet
  <2> QED BY <2>3 DEF StreamsInv, OneOwner
<1>4. OneOwner'
  BY <1>2, <1>3 DEF StreamsInv, OneOwner, Quiet
<1>5. FinishedUnowned'
  <2> SUFFICES ASSUME NEW x \in Nat, Finished(x)'
               PROVE  /\ x \in 1..Len(heap') /\ (\A s \in Sessions : streams'[s] # x)
                      /\ (\A c \in Callers : ~ Flushing(c, x)')
    BY DEF FinishedUnowned, Finished, Flushing
  <2> QED BY <1>1, <1>2 DEF StreamsInv, FinishedUnowned, Quiet
<1>6. StreamFinishedOnce'
  BY DEF StreamsInv, StreamFinishedOnce, Quiet
<1> QED BY <1>4, <1>5, <1>6 DEF StreamsInv

\* A new stream is in the table, and in nobody's hands.
LEMMA StreamsMade ==
  ASSUME StreamsInv, SttTypeOK', UNCHANGED streamed, Len(heap') = Len(heap) + 1,
         NEW s \in Sessions, streams' = [streams EXCEPT ![s] = Len(heap')],
         \A d \in Callers, x \in Nat : Flushing(d, x)' => Flushing(d, x)
  PROVE  StreamsInv'
<1> DEFINE n == Len(heap')
<1>1. /\ Len(heap) \in Nat /\ n = Len(heap) + 1 /\ streams \in [Sessions -> Nat]
      /\ \A r \in Sessions : streams[r] \in 0..Len(heap)
      /\ \A c \in Callers : call[c].stream \in 0..Len(heap)
  BY DEF StreamsInv, SttTypeOK, SttVarsOK, StreamsExist, CallOK
<1>2. streams'[s] = n /\ \A r \in Sessions \ {s} : streams'[r] = streams[r]
  BY <1>1
<1>3. \A x \in Nat : Finished(x)' <=> Finished(x)
  BY DEF Finished
<1> HIDE DEF n
<1>4. \A c \in Callers, r \in Sessions : ~ Flushing(c, streams[r])'
  <2> SUFFICES ASSUME NEW c \in Callers, NEW r \in Sessions, Flushing(c, streams[r])' PROVE FALSE
    OBVIOUS
  <2>1. Flushing(c, call[c].stream)
    <3>1. \A x \in Nat : x = streams'[r] => Flushing(c, x)'
      BY DEF Flushing
    <3>2. streams'[r] \in Nat
      BY <1>1, <1>2
    <3>3. Flushing(c, streams'[r])
      BY <3>1, <3>2
    <3> QED BY <3>3 DEF Flushing
  <2>2. Flushing(c, streams'[r])
    <3>1. \A x \in Nat : x = streams'[r] => Flushing(c, x)'
      BY DEF Flushing
    <3> QED BY <1>1, <1>2, <3>1
  <2>3. streams'[r] = call[c].stream
    BY <2>2 DEF Flushing
  <2>4. streams'[r] # n
    BY <1>1, <2>3
  <2>5. streams'[r] = streams[r]
    BY <1>2, <2>4
  <2> QED BY <2>2, <2>5 DEF StreamsInv, OneOwner
<1>5. OneOwner'
  <2>1. \A r, q \in Sessions : streams'[r] # 0 /\ streams'[r] = streams'[q] => r = q
    <3> SUFFICES ASSUME NEW r \in Sessions, NEW q \in Sessions, streams'[r] # 0, streams'[r] = streams'[q]
                 PROVE  r = q
      OBVIOUS
    <3>1. CASE r = s \/ q = s
      BY <1>1, <1>2, <3>1
    <3>2. CASE r # s /\ q # s
      BY <1>2, <3>2 DEF StreamsInv, OneOwner
    <3> QED BY <3>1, <3>2
  <2>2. \A c, d \in Callers, x \in Nat : Flushing(c, x)' /\ Flushing(d, x)' => c = d
    BY DEF StreamsInv, OneOwner
  <2> QED BY <1>4, <2>1, <2>2 DEF OneOwner
<1>6. FinishedUnowned'
  <2> SUFFICES ASSUME NEW x \in Nat, Finished(x)'
               PROVE  /\ x \in 1..Len(heap') /\ (\A r \in Sessions : streams'[r] # x)
                      /\ (\A c \in Callers : ~ Flushing(c, x)')
    BY DEF FinishedUnowned, Finished, Flushing
  <2>1. /\ x \in 1..Len(heap) /\ (\A r \in Sessions : streams[r] # x) /\ \A c \in Callers : ~ Flushing(c, x)
    BY <1>3 DEF StreamsInv, FinishedUnowned
  <2> QED BY <1>1, <1>2, <2>1 DEF n
<1>7. StreamFinishedOnce'
  BY DEF StreamsInv, StreamFinishedOnce
<1> QED BY <1>5, <1>6, <1>7 DEF StreamsInv

\* A flush takes its stream out of the table: it passes from one owner to another.
LEMMA StreamsTaken ==
  ASSUME StreamsInv, SttTypeOK', NEW c \in Callers, TakeStream(c), CallStep(c)
  PROVE  StreamsInv'
<1> DEFINE s == call[c].session
<1>1. /\ s \in Sessions /\ streams \in [Sessions -> Nat] /\ Len(heap) \in Nat
      /\ call \in [Callers -> CallType] /\ pc \in [Callers -> Labels] /\ pc[c] = "stream"
      /\ streams[s] \in 0..Len(heap)
  BY DEF StreamsInv, SttTypeOK, SttVarsOK, CallOK, StreamsExist, TakeStream
<1>2. CASE ReturnNothing(c)
  <2>1. \A d \in Callers, x \in Nat : Flushing(d, x)' => Flushing(d, x)
    BY <1>2, FlushesAsBefore DEF ReturnNothing, Return, Labels, StreamLabels, StreamsInv
  <2>2. UNCHANGED <<heap, streamed>> /\ \A r \in Sessions : streams'[r] \in {0, streams[r]}
    BY <1>1, <1>2 DEF TakeStream, Detach, ReturnNothing
  <2>3. Quiet
    BY <1>1, <2>1, <2>2 DEF Quiet
  <2> QED BY <2>3, StreamsQuiet
<1>3. CASE ~ ReturnNothing(c)
  <2>1. /\ streams[s] # 0 /\ streams' = [streams EXCEPT ![s] = 0] /\ UNCHANGED <<heap, streamed>>
        /\ call' = [call EXCEPT ![c].stream = streams[s]] /\ Goto(c, "stream_call")
        /\ call[c].op = "flush"
    BY <1>3 DEF TakeStream, Detach
  <2> HIDE DEF s
  <2>2. /\ streams'[s] = 0 /\ \A r \in Sessions \ {s} : streams'[r] = streams[r]
        /\ pc'[c] = "stream_call" /\ \A d \in Callers \ {c} : pc'[d] = pc[d]
        /\ call'[c].stream = streams[s] /\ \A d \in Callers \ {c} : call'[d] = call[d]
    BY <1>1, <2>1 DEF Goto, CallType
  <2>3. \A x \in Nat : Flushing(c, x)' => x = streams[s]
    BY <2>2 DEF Flushing
  <2>4. \A d \in Callers \ {c}, x \in Nat : Flushing(d, x)' => Flushing(d, x)
    BY <2>2 DEF Flushing
  <2>5. \A x \in Nat : Finished(x)' <=> Finished(x)
    BY <2>1 DEF Finished
  <2>6. \A d \in Callers, x \in Nat : Flushing(d, x)' => x # 0 /\ (Flushing(d, x) \/ x = streams[s])
    BY <1>1, <2>1, <2>3, <2>4 DEF StreamsInv, SttTypeOK, CallOK, Flushing
  <2>7. \A d \in Callers, r \in Sessions : ~ Flushing(d, streams[r])'
    <3> SUFFICES ASSUME NEW d \in Callers, NEW r \in Sessions, Flushing(d, streams[r])' PROVE FALSE
      OBVIOUS
    <3>1. \A x \in Nat : x = streams'[r] => Flushing(d, x)'
      BY DEF Flushing
    <3>2. streams'[r] \in Nat
      BY <1>1, <2>2
    <3>3. streams'[r] # 0 /\ (Flushing(d, streams'[r]) \/ streams'[r] = streams[s])
      BY <2>6, <3>1, <3>2
    <3>4. r # s /\ streams'[r] = streams[r]
      BY <2>2, <3>3
    <3> QED BY <1>1, <3>3, <3>4 DEF StreamsInv, OneOwner
  <2>8. OneOwner'
    <3>1. \A r, q \in Sessions : streams'[r] # 0 /\ streams'[r] = streams'[q] => r = q
      BY <1>1, <2>2 DEF StreamsInv, OneOwner
    <3>2. \A d, e \in Callers, x \in Nat : Flushing(d, x)' /\ Flushing(e, x)' => d = e
      <4> SUFFICES ASSUME NEW d \in Callers, NEW e \in Callers, NEW x \in Nat, Flushing(d, x)', Flushing(e, x)'
                   PROVE  d = e
        OBVIOUS
      <4>1. CASE d # c /\ e # c
        BY <2>4, <4>1 DEF StreamsInv, OneOwner
      <4>2. CASE x = streams[s] /\ (d # c \/ e # c)
        BY <1>1, <2>4, <4>2 DEF StreamsInv, OneOwner
      <4> QED BY <2>3, <4>1, <4>2
    <3> QED BY <2>7, <3>1, <3>2 DEF OneOwner
  <2>9. FinishedUnowned'
    <3> SUFFICES ASSUME NEW x \in Nat, Finished(x)'
                 PROVE  /\ x \in 1..Len(heap') /\ (\A r \in Sessions : streams'[r] # x)
                        /\ (\A d \in Callers : ~ Flushing(d, x)')
      BY DEF FinishedUnowned, Finished, Flushing
    <3>1. x \in 1..Len(heap) /\ (\A r \in Sessions : streams[r] # x) /\ \A d \in Callers : ~ Flushing(d, x)
      BY <2>5 DEF StreamsInv, FinishedUnowned
    <3>2. \A r \in Sessions : streams'[r] # x
      BY <1>1, <2>2, <3>1
    <3> QED BY <1>1, <2>1, <2>6, <3>1, <3>2
  <2>10. StreamFinishedOnce'
    BY <2>1 DEF StreamsInv, StreamFinishedOnce
  <2> QED BY <2>8, <2>9, <2>10 DEF StreamsInv
<1> QED BY <1>2, <1>3

\* A payload of a stream goes out: a final is the stream's first, and its last.
LEMMA StreamsLoaded ==
  ASSUME StreamsInv, SttTypeOK', NEW c \in Callers, StreamLoad(c), CallStep(c)
  PROVE  StreamsInv'
<1> DEFINE y == call[c].stream
           isFinal == call[c].op = "flush"
           payload == Payload(call[c].session, y, heap[y].rev, heap[y].heard, isFinal)
<1>1. /\ streamed \in Seq(PayloadType) /\ call \in [Callers -> CallType] /\ pc \in [Callers -> Labels]
      /\ Len(heap) \in Nat /\ y \in 1..Len(heap) /\ pc[c] = "stream_load"
  BY DEF StreamsInv, SttTypeOK, SttVarsOK, CallOK, StreamLoad
<1>2. UNCHANGED <<streams, heap>> /\ Return(c, payload) /\ streamed' = Append(streamed, payload)
  BY DEF StreamLoad
<1>3. payload.id = y /\ payload.final = isFinal
  BY DEF Payload
<1> HIDE DEF payload
<1>4. /\ Len(streamed) \in Nat /\ Len(streamed') = Len(streamed) + 1 /\ streamed'[Len(streamed')] = payload
      /\ \A i \in 1..Len(streamed) : streamed'[i] = streamed[i]
  BY <1>1, <1>2
<1>5. \A i \in 1..Len(streamed') : \/ i \in 1..Len(streamed) /\ streamed'[i] = streamed[i]
                                   \/ i = Len(streamed') /\ streamed'[i] = payload
  BY <1>4
<1>6. \A d \in Callers, x \in Nat : Flushing(d, x)' => Flushing(d, x) /\ d # c
  <2>1. pc'[c] = "returned"
    BY <1>1, <1>2 DEF Return, Goto
  <2>2. \A d \in Callers, x \in Nat : Flushing(d, x)' => Flushing(d, x)
    BY <1>2, FlushesAsBefore DEF Return, Labels, StreamLabels, StreamsInv
  <2> QED BY <2>1, <2>2 DEF Flushing
<1>7. isFinal => Flushing(c, y) /\ y \in Nat
  BY <1>1 DEF Flushing
<1> HIDE DEF y, isFinal
<1>8. \A x \in Nat : Finished(x)' => Finished(x) \/ (isFinal /\ x = y)
  <2> SUFFICES ASSUME NEW x \in Nat, Finished(x)'
               PROVE  Finished(x) \/ (isFinal /\ x = y)
    OBVIOUS
  <2>1. PICK i \in 1..Len(streamed') : streamed'[i].final /\ streamed'[i].id = x
    BY DEF Finished
  <2> QED BY <1>3, <1>5, <2>1 DEF Finished
<1>9. isFinal => ~ Finished(y)
  BY <1>7 DEF StreamsInv, FinishedUnowned
<1>10. OneOwner'
  <2>1. \A d \in Callers, r \in Sessions : ~ Flushing(d, streams[r])'
    <3> SUFFICES ASSUME NEW d \in Callers, NEW r \in Sessions, Flushing(d, streams[r])' PROVE FALSE
      OBVIOUS
    <3>1. \A x \in Nat : x = streams'[r] => Flushing(d, x)'
      BY DEF Flushing
    <3>2. streams'[r] = streams[r] /\ streams[r] \in Nat
      BY <1>2 DEF StreamsInv, SttTypeOK, SttVarsOK
    <3>3. Flushing(d, streams[r])
      BY <1>6, <3>1, <3>2
    <3> QED BY <3>3 DEF StreamsInv, OneOwner
  <2>2. \A d, e \in Callers, x \in Nat : Flushing(d, x)' /\ Flushing(e, x)' => d = e
    BY <1>6 DEF StreamsInv, OneOwner
  <2> QED BY <1>2, <2>1, <2>2 DEF StreamsInv, OneOwner
<1>11. FinishedUnowned'
  <2> SUFFICES ASSUME NEW x \in Nat, Finished(x)'
               PROVE  /\ x \in 1..Len(heap') /\ (\A r \in Sessions : streams'[r] # x)
                      /\ (\A d \in Callers : ~ Flushing(d, x)')
    BY DEF FinishedUnowned, Finished, Flushing
  <2>1. CASE Finished(x)
    BY <1>2, <1>6, <2>1 DEF StreamsInv, FinishedUnowned
  <2>2. CASE isFinal /\ x = y
    <3>1. \A d \in Callers : ~ Flushing(d, x)'
      BY <1>6, <1>7, <2>2 DEF StreamsInv, OneOwner
    <3>2. \A r \in Sessions : streams'[r] # x
      BY <1>2, <1>7, <2>2 DEF StreamsInv, OneOwner
    <3> QED BY <1>1, <1>2, <2>2, <3>1, <3>2 DEF y
  <2> QED BY <1>8, <2>1, <2>2
<1>12. StreamFinishedOnce'
  <2> SUFFICES ASSUME NEW i \in 1..Len(streamed'), NEW j \in 1..Len(streamed'),
                      streamed'[i].final, streamed'[j].final, streamed'[i].id = streamed'[j].id
               PROVE  i = j
    BY DEF StreamFinishedOnce
  <2>1. \A k \in 1..Len(streamed) : streamed[k].final /\ streamed[k].id = y => Finished(y)
    BY DEF Finished
  <2>2. CASE i \in 1..Len(streamed) /\ j \in 1..Len(streamed)
    BY <1>4, <2>2 DEF StreamsInv, StreamFinishedOnce
  <2>3. CASE i = Len(streamed') /\ streamed'[i] = payload
    BY <1>3, <1>5, <1>9, <2>1, <2>3
  <2>4. CASE j = Len(streamed') /\ streamed'[j] = payload
    BY <1>3, <1>5, <1>9, <2>1, <2>4
  <2> QED BY <1>5, <2>2, <2>3, <2>4
<1> QED BY <1>10, <1>11, <1>12 DEF StreamsInv

LEMMA StreamsInitial == ASSUME SttInit PROVE StreamsInv
<1>1. SttTypeOK
  BY SttTypeInit
<1>2. /\ \A c \in Callers : pc[c] = "idle"
      /\ \A s \in Sessions : streams[s] = 0
      /\ Len(streamed) = 0
  BY DEF SttInit
<1> QED BY <1>1, <1>2 DEF StreamsInv, OneOwner, FinishedUnowned, StreamFinishedOnce, Finished, Flushing

LEMMA StreamsStep == ASSUME StreamsInv, [SttNext]_sttVars PROVE StreamsInv'
<1>1. SttTypeOK /\ SttTypeOK'
  BY SttTypeNext DEF StreamsInv
<1>2. ASSUME NEW c \in Callers, CallStep(c)
      PROVE  StreamsInv'
  <2>1. CASE FindStream(c)
    BY <1>1, <1>2, <2>1, QuietFind, StreamsQuiet, StreamsMade
  <2>2. CASE TakeStream(c)
    BY <1>1, <1>2, <2>2, StreamsTaken
  <2>3. CASE StreamLoad(c)
    BY <1>1, <1>2, <2>3, StreamsLoaded
  <2>4. CASE ~ TakeStream(c) /\ ~ FindStream(c) /\ ~ StreamLoad(c)
    BY <1>1, <1>2, <2>4, QuietCall, StreamsQuiet
  <2> QED BY <2>1, <2>2, <2>3, <2>4
<1>3. CASE \/ UNCHANGED sttVars
           \/ \E c \in Callers : EndCall(c)
           \/ \E c \in Callers, s \in Sessions : BeginConsume(c, s) \/ BeginFlush(c, s)
           \/ \E p \in Providers : SetConfig(p)
  BY <1>1, <1>3, QuietOthers, StreamsQuiet
<1> QED BY <1>2, <1>3 DEF SttNext

(* However stops, packets and reconfigurations race, no two finals come out *)
(* of one streaming session (flushWithStreamSession, service.go), for any   *)
(* number of callers and sessions.                                          *)
THEOREM StreamsFinishedOnce == SttSpec => []StreamFinishedOnce
<1>1. SttInit => StreamsInv
  BY StreamsInitial
<1>2. StreamsInv /\ [SttNext]_sttVars => StreamsInv'
  BY StreamsStep
<1>3. StreamsInv => StreamFinishedOnce
  BY DEF StreamsInv
<1> QED BY <1>1, <1>2, <1>3, PTL DEF SttSpec

=============================================================================
