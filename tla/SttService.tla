----------------------------- MODULE SttService -----------------------------
(***************************************************************************)
(* The speech-to-text service (internal/pipeline/stt/service.go): one      *)
(* mutex guarding a table of per-session transcripts, a table of streaming *)
(* sessions and the configured provider.                                   *)
(*                                                                         *)
(* A call to Consume or Flush is NOT one critical section.  It reads the   *)
(* provider name under the lock, then the stream factory under the lock,   *)
(* then runs its branch, which itself releases the lock while a recognizer *)
(* or a stream answers.  Each of those sections is an action here, and     *)
(* SetConfig may fall between any two of them.                             *)
(*                                                                         *)
(* Audio is abstracted to the set of packets it came from, and a text to   *)
(* the set of packets it transcribes; the blank text is {}.                *)
(***************************************************************************)
EXTENDS Naturals, Sequences, FiniteSets

CONSTANTS
  Sessions,      \* meeting session identifiers
  Callers,       \* goroutines that call the service
  Providers,     \* providers the administrator may configure
  TriggerEvery,  \* packets between two recognitions (triggerEvery)
  MaxPackets,    \* bound: packets handed to Consume
  MaxConfigs,    \* bound: calls to SetConfig
  NoState        \* "no entry in the map"

AllProviders == {"stub", "openai_compatible", "volcengine_streaming"}

ASSUME SttAssumption ==
  /\ Providers \subseteq AllProviders
  /\ TriggerEvery \in Nat \ {0}
  /\ MaxPackets \in Nat /\ MaxConfigs \in Nat
  /\ NoState \notin [id : Nat, rev : Nat]  \* the absence of an entry is not one

VARIABLES
  provider,     \* Service.providerName; it determines recognizer and streamFactory
  sessions,     \* Service.sessions: [Sessions -> transcript state or NoState]
  streams,      \* Service.streamSessions: [Sessions -> stream id or 0]
  heap,         \* the streaming sessions made so far, by id: <<[rev, heard], ...>>
  pc,           \* where each caller is in its call
  call,         \* arguments, captured values and result of each caller's call
  created,      \* history: transcript states created so far, the source of their ids
  issued,       \* history: payloads of the sessions table, in the order they were made
  streamed,     \* history: payloads of streaming sessions, in the order returned
  packets,      \* packets handed to Consume so far; a packet is its number
  configs,      \* bound: SetConfig calls so far
  crashed       \* the process has panicked

sttVars == <<provider, sessions, streams, heap, pc, call, created, issued,
             streamed, packets, configs, crashed>>

-----------------------------------------------------------------------------
(* State of one transcript (sessionState) and its changes.  id is history:  *)
(* it tells one incarnation of a session's entry from the next.             *)

Fresh(id) == [id |-> id, rev |-> 0, chunks |-> {}, pcm |-> {}, text |-> {}, since |-> 0]

\* ensureState: the session's entry, created when there is none.
EnsureState(s) == IF sessions[s] = NoState THEN Fresh(created + 1) ELSE sessions[s]
CountCreated(s) == created' = IF sessions[s] = NoState THEN created + 1 ELSE created

\* Fault: a payload goes out under the revision of the one before.
ReviseNot(st) == st
Revise(st) == [st EXCEPT !.rev = @ + 1]

Buffered(st, p) == [st EXCEPT !.pcm = @ \cup {p}, !.since = @ + 1]

Recognized(st, text) == [st EXCEPT !.text = text, !.since = 0]

\* delete(s.sessions, sessionID).  Fault: the finished transcript stays.
ForgetNot(s) == UNCHANGED sessions
Forget(s) == sessions' = [sessions EXCEPT ![s] = NoState]

Payload(s, id, rev, text, final) ==
  [session |-> s, id |-> id, rev |-> rev, text |-> text, final |-> final]
NoPayload == [session |-> NoState, id |-> 0, rev |-> 0, text |-> {}, final |-> FALSE]

IdleCall == [op |-> "none", session |-> NoState, packet |-> 0, audio |-> {},
             prev |-> {}, real |-> FALSE, stream |-> 0, base |-> 0,
             result |-> NoPayload]

HasStreamFactory == provider = "volcengine_streaming"
RealRecognizer == provider = "openai_compatible"

-----------------------------------------------------------------------------
(* The shape of a call.                                                     *)

Goto(c, label) == pc' = [pc EXCEPT ![c] = label]

Return(c, result) ==
  /\ Goto(c, "returned")
  /\ call' = [call EXCEPT ![c].result = result]

ReturnNothing(c) ==
  /\ Return(c, NoPayload)
  /\ UNCHANGED <<issued, streamed>>

\* A payload of the sessions table leaves the service.
Issue(c, payload) ==
  /\ Return(c, payload)
  /\ issued' = Append(issued, payload)
  /\ UNCHANGED streamed

BeginConsume(c, s) ==
  /\ pc[c] = "idle"
  /\ packets < MaxPackets
  /\ packets' = packets + 1
  /\ Goto(c, "provider")
  /\ call' = [call EXCEPT ![c] =
       [IdleCall EXCEPT !.op = "consume", !.session = s, !.packet = packets + 1]]
  /\ UNCHANGED <<provider, sessions, streams, heap, created, issued, streamed, configs, crashed>>

BeginFlush(c, s) ==
  /\ pc[c] = "idle"
  /\ Goto(c, "provider")
  /\ call' = [call EXCEPT ![c] = [IdleCall EXCEPT !.op = "flush", !.session = s]]
  /\ UNCHANGED <<provider, sessions, streams, heap, created, issued, streamed, packets, configs, crashed>>

\* The caller has used the result.
EndCall(c) ==
  /\ pc[c] = "returned"
  /\ Goto(c, "idle")
  /\ call' = [call EXCEPT ![c] = IdleCall]
  /\ UNCHANGED <<provider, sessions, streams, heap, created, issued, streamed, packets, configs, crashed>>

\* First critical section of Consume and Flush: ProviderName.
ReadProvider(c) ==
  /\ pc[c] = "provider"
  /\ Goto(c, IF provider = "stub" THEN "stub" ELSE "factory")
  /\ UNCHANGED <<provider, sessions, streams, heap, call, created, issued, streamed, packets, configs, crashed>>

\* Second critical section: hasStreamFactory.
ReadFactory(c) ==
  /\ pc[c] = "factory"
  /\ Goto(c, IF HasStreamFactory THEN "stream" ELSE "buffer")
  /\ UNCHANGED <<provider, sessions, streams, heap, call, created, issued, streamed, packets, configs, crashed>>

-----------------------------------------------------------------------------
(* The stub provider: every packet is a chunk and a revision.               *)

ConsumeStub(c) ==
  /\ pc[c] = "stub" /\ call[c].op = "consume"
  /\ LET s  == call[c].session
         st == [Revise(EnsureState(s)) EXCEPT !.chunks = @ \cup {call[c].packet}]
     IN /\ sessions' = [sessions EXCEPT ![s] = st]
        /\ CountCreated(s)
        /\ Issue(c, Payload(s, st.id, st.rev, st.chunks, FALSE))
  /\ UNCHANGED <<provider, streams, heap, packets, configs, crashed>>

\* Fault: a transcript of one chunk counts as empty.
HasManyChunks(s) == sessions[s] # NoState /\ Cardinality(sessions[s].chunks) > 1
HasChunks(s) == sessions[s] # NoState /\ sessions[s].chunks # {}

FlushStub(c) ==
  /\ pc[c] = "stub" /\ call[c].op = "flush"
  /\ LET s == call[c].session IN
       \/ /\ ~ HasChunks(s)
          /\ ReturnNothing(c)
          /\ UNCHANGED sessions
       \/ /\ HasChunks(s)
          /\ LET st == Revise(sessions[s])
             IN Issue(c, Payload(s, st.id, st.rev, st.chunks, TRUE))
          /\ Forget(s)
  /\ UNCHANGED <<provider, streams, heap, created, packets, configs, crashed>>

-----------------------------------------------------------------------------
(* The HTTP recognizer: audio accumulates and is recognized as a whole      *)
(* every TriggerEvery packets, outside the lock, from captured copies.      *)

Capture(c, st) ==
  call' = [call EXCEPT ![c].audio = st.pcm, ![c].prev = st.text, ![c].real = RealRecognizer]

\* First half of consumeWithRecognizer: buffer the packet; recognize or return.
BufferAudio(c) ==
  /\ pc[c] = "buffer" /\ call[c].op = "consume"
  /\ LET s  == call[c].session
         st == Buffered(EnsureState(s), call[c].packet)
     IN /\ sessions' = [sessions EXCEPT ![s] = st]
        /\ CountCreated(s)
        /\ \/ /\ st.since >= TriggerEvery
              /\ Capture(c, st)
              /\ Goto(c, "recognize")
              /\ UNCHANGED <<issued, streamed>>
           \/ /\ st.since < TriggerEvery
              /\ ReturnNothing(c)
  /\ UNCHANGED <<provider, streams, heap, packets, configs, crashed>>

HasAudio(s) == sessions[s] # NoState /\ sessions[s].pcm # {}

\* First half of flushWithRecognizer.
CaptureAudio(c) ==
  /\ pc[c] = "buffer" /\ call[c].op = "flush"
  /\ LET s == call[c].session IN
       \/ /\ HasAudio(s)
          /\ Capture(c, sessions[s])
          /\ Goto(c, "recognize")
          /\ UNCHANGED <<issued, streamed>>
       \/ /\ ~ HasAudio(s)
          /\ ReturnNothing(c)
  /\ UNCHANGED <<provider, sessions, streams, heap, created, packets, configs, crashed>>

\* What the captured recognizer may answer.  The stub recognizer, captured when
\* the provider changed under the call, always answers blank.
Answers == {"error", "blank", "same", "new"}
AnswersOf(c) == IF call[c].real THEN Answers ELSE {"blank"}

Spoken(c, answer) ==
  CASE answer = "new"  -> call[c].audio
    [] answer = "same" -> call[c].prev
    [] OTHER           -> {}

\* Second half of consumeWithRecognizer.
ConsumeRecognized(c, answer) ==
  /\ pc[c] = "recognize" /\ call[c].op = "consume"
  /\ LET s == call[c].session IN
       \/ /\ answer = "error"
          /\ ReturnNothing(c)
          /\ UNCHANGED <<sessions, created>>
       \/ /\ answer \in {"blank", "same"}
          /\ sessions' = [sessions EXCEPT ![s] = Recognized(EnsureState(s), Spoken(c, answer))]
          /\ CountCreated(s)
          /\ ReturnNothing(c)
       \/ /\ answer = "new"
          /\ LET st == Recognized(Revise(EnsureState(s)), Spoken(c, answer))
             IN /\ sessions' = [sessions EXCEPT ![s] = st]
                /\ CountCreated(s)
                /\ Issue(c, Payload(s, st.id, st.rev, st.text, FALSE))
  /\ UNCHANGED <<provider, streams, heap, packets, configs, crashed>>

\* Second half of flushWithRecognizer: without an answer the last text stands;
\* a blank transcript is not finished, and its entry stays.
FlushRecognized(c, answer) ==
  /\ pc[c] = "recognize" /\ call[c].op = "flush"
  /\ LET s    == call[c].session
         text == IF Spoken(c, answer) = {} THEN call[c].prev ELSE Spoken(c, answer)
     IN \/ /\ text = {}
           /\ ReturnNothing(c)
           /\ UNCHANGED <<sessions, created>>
        \/ /\ text # {}
           /\ LET st == Revise(EnsureState(s))
              IN Issue(c, Payload(s, st.id, st.rev, text, TRUE))
           /\ CountCreated(s)
           /\ Forget(s)
  /\ UNCHANGED <<provider, streams, heap, packets, configs, crashed>>

-----------------------------------------------------------------------------
(* The streaming provider.  A stream session has no lock of its own: a      *)
(* caller that has it in hand goes on using it after another caller took it *)
(* out of the table.  What it answers is left open here; that it numbers    *)
(* its payloads with nextRevision++, and reads nextRevision again for the   *)
(* payload, is not.                                                         *)

MakeStream(c, s) ==
  /\ heap' = Append(heap, [rev |-> 0, heard |-> {}])
  /\ streams' = [streams EXCEPT ![s] = Len(heap) + 1]
  /\ call' = [call EXCEPT ![c].stream = Len(heap) + 1]

\* Fault: a factory found unset is skipped, and the call goes on without a stream.
GoOnWithout(c) ==
  /\ Goto(c, "stream_call")
  /\ UNCHANGED <<streams, heap, call, crashed>>

\* When the factory was unset since it was tested, NewSession is called on a nil
\* interface: the process panics.
CallNilFactory(c) ==
  /\ crashed' = TRUE
  /\ UNCHANGED <<streams, heap, call, pc>>

\* First half of consumeWithStreamSession.
FindStream(c) ==
  /\ pc[c] = "stream" /\ call[c].op = "consume"
  /\ LET s == call[c].session IN
       \/ /\ streams[s] # 0
          /\ call' = [call EXCEPT ![c].stream = streams[s]]
          /\ Goto(c, "stream_call")
          /\ UNCHANGED <<streams, heap, crashed>>
       \/ /\ streams[s] = 0 /\ HasStreamFactory
          /\ MakeStream(c, s)
          /\ Goto(c, "stream_call")
          /\ UNCHANGED crashed
       \/ /\ streams[s] = 0 /\ ~ HasStreamFactory
          /\ CallNilFactory(c)
  /\ UNCHANGED <<provider, sessions, created, issued, streamed, packets, configs>>

\* delete(s.streamSessions, sessionID).  Fault: the stream stays in the table.
DetachNot(s) == UNCHANGED streams
Detach(s) == streams' = [streams EXCEPT ![s] = 0]

\* First half of flushWithStreamSession.
TakeStream(c) ==
  /\ pc[c] = "stream" /\ call[c].op = "flush"
  /\ LET s == call[c].session IN
       \/ /\ streams[s] = 0
          /\ ReturnNothing(c)
          /\ UNCHANGED streams
       \/ /\ streams[s] # 0
          /\ Detach(s)
          /\ call' = [call EXCEPT ![c].stream = streams[s]]
          /\ Goto(c, "stream_call")
          /\ UNCHANGED <<issued, streamed>>
  /\ UNCHANGED <<provider, sessions, heap, created, issued, streamed, packets, configs, crashed>>

\* The stream takes the packet and answers: nothing (or an error), or a text,
\* for which it loads nextRevision.  It keeps its first packet to itself, and
\* has nothing to finish before it.
StreamAnswer(c, speaks) ==
  /\ pc[c] = "stream_call"
  /\ LET x == call[c].stream
         p == IF call[c].op = "consume" THEN {call[c].packet} ELSE {}
     IN /\ heap' = [heap EXCEPT ![x].heard = @ \cup p]
        /\ \/ /\ speaks /\ heap[x].heard # {}
              /\ call' = [call EXCEPT ![c].base = heap[x].rev]
              /\ Goto(c, "stream_store")
              /\ UNCHANGED <<issued, streamed>>
           \/ /\ ~ speaks
              /\ ReturnNothing(c)
  /\ UNCHANGED <<provider, sessions, streams, created, packets, configs, crashed>>

\* nextRevision++ is written back.
StreamStore(c) ==
  /\ pc[c] = "stream_store"
  /\ heap' = [heap EXCEPT ![call[c].stream].rev = call[c].base + 1]
  /\ Goto(c, "stream_load")
  /\ UNCHANGED <<provider, sessions, streams, call, created, issued, streamed, packets, configs, crashed>>

\* nextRevision is read for the payload.
StreamLoad(c) ==
  /\ pc[c] = "stream_load"
  /\ LET x == heap[call[c].stream]
         payload == Payload(call[c].session, call[c].stream, x.rev, x.heard, call[c].op = "flush")
     IN /\ Return(c, payload)
        /\ streamed' = Append(streamed, payload)
  /\ UNCHANGED <<provider, sessions, streams, heap, created, issued, packets, configs, crashed>>

-----------------------------------------------------------------------------
(* SetConfig: every stream is closed and dropped, every transcript dropped. *)

SetConfig(p) ==
  /\ configs < MaxConfigs
  /\ configs' = configs + 1
  /\ provider' = p
  /\ streams' = [s \in Sessions |-> 0]
  /\ sessions' = [s \in Sessions |-> NoState]
  /\ UNCHANGED <<heap, pc, call, created, issued, streamed, packets, crashed>>

\* One step of a call that c has in progress.
CallStep(c) ==
  \/ ReadProvider(c)
  \/ ReadFactory(c)
  \/ ConsumeStub(c)
  \/ FlushStub(c)
  \/ BufferAudio(c)
  \/ CaptureAudio(c)
  \/ \E answer \in AnswersOf(c) : ConsumeRecognized(c, answer)
  \/ \E answer \in AnswersOf(c) : FlushRecognized(c, answer)
  \/ FindStream(c)
  \/ TakeStream(c)
  \/ \E speaks \in BOOLEAN : StreamAnswer(c, speaks)
  \/ StreamStore(c)
  \/ StreamLoad(c)

SttInit ==
  /\ provider \in Providers
  /\ sessions = [s \in Sessions |-> NoState]
  /\ streams = [s \in Sessions |-> 0]
  /\ heap = <<>>
  /\ pc = [c \in Callers |-> "idle"]
  /\ call = [c \in Callers |-> IdleCall]
  /\ created = 0
  /\ issued = <<>>
  /\ streamed = <<>>
  /\ packets = 0
  /\ configs = 0
  /\ crashed = FALSE

\* The service with callers that may make any call at any time.
SttNext ==
  /\ ~ crashed
  /\ \/ \E c \in Callers : CallStep(c) \/ EndCall(c)
     \/ \E c \in Callers, s \in Sessions : BeginConsume(c, s) \/ BeginFlush(c, s)
     \/ \E p \in Providers : SetConfig(p)

SttSpec == SttInit /\ [][SttNext]_sttVars

-----------------------------------------------------------------------------
Packets == Nat \ {0}
Texts == SUBSET Packets
TranscriptState == [id : Nat, rev : Nat, chunks : Texts, pcm : Texts, text : Texts, since : Nat]
ASSUME TranscriptAssumption == NoState \notin TranscriptState
PayloadType == [session : Sessions, id : Nat, rev : Nat, text : Texts, final : BOOLEAN]
Labels == {"idle", "provider", "factory", "stub", "buffer", "recognize",
           "stream", "stream_call", "stream_store", "stream_load", "returned"}
CallType == [op : {"none", "consume", "flush"}, session : Sessions \cup {NoState},
             packet : Nat, audio : Texts, prev : Texts, real : BOOLEAN,
             stream : Nat, base : Nat, result : PayloadType \cup {NoPayload}]

Results == PayloadType \cup {NoPayload}

SttVarsOK ==
  /\ provider \in Providers
  /\ sessions \in [Sessions -> TranscriptState \cup {NoState}]
  /\ streams \in [Sessions -> Nat]
  /\ heap \in Seq([rev : Nat, heard : Texts])
  /\ pc \in [Callers -> Labels]
  /\ call \in [Callers -> CallType]
  /\ created \in Nat
  /\ issued \in Seq(PayloadType)
  /\ streamed \in Seq(PayloadType)
  /\ packets \in Nat /\ configs \in Nat
  /\ crashed \in BOOLEAN

\* A stream in the table exists.
StreamsExist == \A s \in Sessions : streams[s] \in 0..Len(heap)

CallOK(c) ==
  /\ pc[c] # "idle" => call[c].session \in Sessions
  /\ call[c].op = "consume" => call[c].packet # 0
  /\ call[c].stream \in 0..Len(heap)
  /\ pc[c] \in {"stream_call", "stream_store", "stream_load"} => call[c].stream # 0

(* Type invariant: every variable of the service holds a value of its kind, *)
(* a caller that consumes has a packet, and a caller inside a stream holds  *)
(* a stream that exists.                                                    *)
SttTypeOK == SttVarsOK /\ StreamsExist /\ \A c \in Callers : CallOK(c)

(* Revisions discipline: the payloads of one transcript come out of the     *)
(* service under strictly rising revisions, and nothing follows its final,  *)
(* however the critical sections of Consume, Flush and SetConfig interleave *)
(* (consumeStub, flushStub, consumeWithRecognizer, flushWithRecognizer).    *)
RevisionsRise ==
  \A i, j \in 1..Len(issued) :
    i < j /\ issued[i].id = issued[j].id
      => issued[i].rev < issued[j].rev /\ ~ issued[i].final

-----------------------------------------------------------------------------
(* The abstract specification this service implements, seen through the     *)
(* sessions table: the open transcripts with their revisions, and the       *)
(* stamps of what was issued.                                               *)

OpenEntries ==
  [s \in Sessions |-> IF sessions[s] = NoState THEN NoState
                      ELSE [id |-> sessions[s].id, rev |-> sessions[s].rev]]
IssuedStamps ==
  [i \in 1..Len(issued) |->
     [id |-> issued[i].id, rev |-> issued[i].rev, final |-> issued[i].final]]

Ledger == INSTANCE TranscriptLedger
            WITH NoEntry <- NoState, open <- OpenEntries, opened <- created, stamps <- IssuedStamps

(* The table of transcripts is a ledger of revisions: every step of every   *)
(* Consume, Flush and SetConfig opens, revises, finishes or drops           *)
(* transcripts as TranscriptLedger allows, or leaves them alone, although   *)
(* no call is one critical section.                                         *)
ImplementsLedger == Ledger!Spec

-----------------------------------------------------------------------------
(* A streaming session is finished once: whatever stops, retries and        *)
(* reconfigurations race, no two finals come out of the same stream         *)
(* (flushWithStreamSession takes it out of the table before it flushes it). *)
StreamFinishedOnce ==
  \A i, j \in 1..Len(streamed) :
    streamed[i].final /\ streamed[j].final /\ streamed[i].id = streamed[j].id => i = j

(* The final of a streaming session has a higher revision than every delta  *)
(* it follows (volcengine_streaming_test.go:102-103).                       *)
FinalRevisionIncreases ==
  \A i, j \in 1..Len(streamed) :
    i < j /\ streamed[j].final /\ streamed[i].id = streamed[j].id
      => streamed[i].rev < streamed[j].rev

=============================================================================
