-------------------------- MODULE VolcengineProofs --------------------------
(***************************************************************************)
(* Proofs about VolcengineSession: for every number of packets and frames  *)
(* and every room in the buffer.                                           *)
(***************************************************************************)
EXTENDS VolcengineSession, SequenceTheorems, FiniteSetTheorems, TLAPS

-----------------------------------------------------------------------------
(* The inductive invariant.                                                 *)

WireFrames == [kind : {"init", "audio", "last"}, packet : Packets \cup {0}]

BaseInv ==
  /\ call \in [Callers -> CallRecords]
  /\ pending \in 0..MaxPackets /\ fed \in 0..MaxPackets /\ lost \subseteq Packets
  /\ conn \in Conns \cup {0}
  /\ sockets \in [Conns -> {"none", "up", "broken", "closed"}]
  /\ wire \in [Conns -> Seq(WireFrames)]
  /\ pump \in [Conns -> [stage : {"none", "loop", "read", "ended"}, on : Conns \cup {0}]]
  /\ responses \in Seq(Responses) /\ Len(responses) <= Capacity
  /\ readErr \in {"none", "closed", "error"}
  /\ transcript \in Texts /\ issued \in Seq(Responses)
  /\ frames \in 0..MaxFrames /\ spoken \in 0..frames
  /\ registered \in BOOLEAN /\ raced \in BOOLEAN /\ closer \in {"none", "forget", "done"}
  /\ crashed \in {"no", "call", "pump", "race"}

udp == call["udp"]
mqtt == call["mqtt"]

\* Steps of Consume before it looks for a connection and has one, before it has
\* written its packet, and while it has one in hand.
Entering == {"enter", "take", "store"}
Dialling == {"connect", "dial"}
Sending == {"init", "send"}
\* Steps of Flush before and after the last packet.
Flushing == {"enter", "connect", "dial", "init", "last", "send"}
Leaving == {"close", "forget", "done"}

\* Who is in the session.  Unless it was taken out of the table under a Consume,
\* one caller at a time.
CallInv ==
  /\ \/ udp = NoCall
     \/ udp.op = "consume" /\ udp.step \in Entering \cup Dialling \cup Sending \cup {"read"}
  /\ \/ mqtt = NoCall
     \/ mqtt.op = "flush" /\ mqtt.step \in Flushing \cup {"clear", "read"} \cup Leaving
     \/ mqtt.op = "smoke" /\ mqtt.step \in Dialling \cup {"init", "read"} \cup Leaving
  /\ registered => ~raced /\ mqtt = NoCall /\ closer = "none"
  /\ closer # "none" => mqtt = NoCall
  /\ ~registered /\ ~raced => udp = NoCall

\* What is held back and what is in hand.
HeldInv ==
  /\ pending \in IF udp.step \in Entering THEN {0, fed - 1} ELSE {0, fed}
  /\ udp.step # "idle" => fed > 0
  /\ udp.step \notin {"idle", "enter"} => fed > 1
  /\ udp.sending = IF udp.step \in {"store"} \cup Dialling \cup Sending THEN fed - 1 ELSE 0
  /\ mqtt.step = "send" => mqtt.sending # 0
  /\ mqtt.step # "send" => mqtt.sending = 0
  /\ mqtt.step = "send" /\ udp.step = "enter" => mqtt.sending = fed - 1
  /\ registered => pending = IF udp.step \in Entering THEN fed - 1 ELSE fed
  /\ ~raced /\ mqtt.op = "flush" /\ mqtt.step \in Flushing => pending = fed
  /\ ~raced /\ mqtt.step = "send" => mqtt.sending = fed
  /\ mqtt.op = "smoke" => fed = 0

UnwrittenInv ==
  /\ Unwritten \subseteq {fed - 1, fed}
  /\ fed - 1 \in Unwritten => /\ udp.step \in Entering \cup Dialling \cup Sending
                              /\ udp.step = "enter" => pending # 0 /\ mqtt.step # "clear"
  /\ fed \in Unwritten => raced \/ mqtt.op # "flush" \/ mqtt.step \in Flushing

\* At most one dial before the session is closed, and one after it.
DialInv ==
  /\ conn # 0 => sockets[conn] # "none"
  /\ sockets[2] # "none" => sockets[1] # "none"
  /\ registered \/ mqtt.step \in {"enter", "connect"} => conn # 0 \/ sockets[1] = "none"
  /\ udp.step = "dial" /\ (registered \/ mqtt.step \in {"enter"} \cup Dialling) => sockets[1] = "none"
  /\ mqtt.step = "dial" /\ udp.step \in Entering \cup Dialling => sockets[1] = "none"
  /\ registered \/ udp.step \in Entering \cup Dialling \/ mqtt.step \in {"enter"} \cup Dialling
       => sockets[2] = "none"

\* The one connection of a session that was not taken out under a Consume.
SoloInv ==
  ~raced =>
    /\ sockets[2] = "none" /\ wire[2] = <<>> /\ pump[2].stage = "none" /\ conn # 2
    /\ sockets[1] = "none" => wire[1] = <<>>
    /\ conn = 0 /\ sockets[1] # "none" => mqtt.step = "done" \/ closer = "done"
    /\ udp.step \in Sending \/ mqtt.step \in {"init", "last", "send"} => conn = 1
    /\ udp.step = "dial" \/ mqtt.step = "dial" => conn = 0
    /\ udp.step = "init" \/ mqtt.step = "init" => wire[1] = <<>>
    /\ conn = 1 /\ udp.step # "init" /\ mqtt.step # "init"
         => wire[1] # <<>> \/ sockets[1] \in {"broken", "closed"}

\* Consume has a packet to write; Flush has written the last one, or given up.
InHand == udp.step \in Entering \cup Dialling \cup Sending
LastSent == mqtt.op = "flush" /\ mqtt.step \in {"clear", "read"} \cup Leaving

\* Every packet written so far is below this.
Ceiling == IF InHand THEN fed - 1 ELSE IF LastSent THEN fed + 1 ELSE fed

\* One stream of frames: in order, with a single init request, the frame flagged
\* last followed by one audio frame at most, or by none.
Ordered(w) ==
  \A j \in 1..Len(w) :
    /\ (w[j].kind = "init") = (j = 1)
    /\ \A i \in 1..Len(w) : i < j => w[i].kind # "last" /\ w[i].packet < w[j].packet
OneLate(w) ==
  \A i, j, k \in 1..Len(w) :
    i < j /\ j < k /\ w[i].kind = "last" => ~(w[j].kind = "audio" /\ w[k].kind = "audio")
NoneLate(w) ==
  \A i, j \in 1..Len(w) : i < j /\ w[i].kind = "last" => w[j].kind # "audio"
Marked(w) == \A j \in 1..Len(w) : w[j].kind = "init" <=> w[j].packet = 0
HasLast(w) == \E j \in 1..Len(w) : w[j].kind = "last"
Below(w, n) == \A j \in 1..Len(w) : w[j].packet # 0 => w[j].packet < n

StreamInv ==
  \A c \in Conns :
    /\ OneLate(wire[c]) /\ Marked(wire[c])
    /\ HasLast(wire[c]) => LastSent
    /\ InHand => NoneLate(wire[c])
    /\ ~raced => Ordered(wire[c]) /\ Below(wire[c], Ceiling)

\* Texts a and b, the first at hand before the second.
InTurn(a, b) == a = 0 \/ b = 0 \/ a <= b

\* A transcript, the text a caller has heard and the answers it has still to take.
InLine(text, heard, answers) ==
  /\ InTurn(text, heard)
  /\ \A j \in 1..Len(answers) :
       /\ InTurn(text, answers[j].text) /\ InTurn(heard, answers[j].text)
       /\ \A i \in 1..Len(answers) : i < j => InTurn(answers[i].text, answers[j].text)

\* With one pump the texts are at hand in the order in which they were said.
TextInv ==
  /\ \A j \in 1..Len(responses) : responses[j].text <= spoken
  /\ transcript <= spoken /\ udp.heard <= spoken /\ mqtt.heard <= spoken
  /\ ~raced => InLine(transcript, udp.heard, responses) /\ InLine(transcript, mqtt.heard, responses)

IssuedInv ==
  /\ IssuedInOrder
  /\ ~raced => IF issued = <<>> THEN transcript = 0 ELSE issued[Len(issued)].text = transcript
  /\ \A j \in 1..Len(issued) :
       issued[j].final => /\ mqtt.op = "flush" /\ mqtt.step \in Leaving
                          /\ udp.step # "idle" => j = Len(issued)

VolcInv == BaseInv /\ CallInv /\ HeldInv /\ UnwrittenInv /\ DialInv /\ SoloInv /\ StreamInv
             /\ TextInv /\ IssuedInv /\ CallPanicsOnlyInARace

-----------------------------------------------------------------------------
(* Lemmas about the operators of the module.                                *)

\* The first two dials have a connection to themselves.
LEMMA NextConnection ==
  ASSUME sockets \in [Conns -> {"none", "up", "broken", "closed"}], sockets[2] = "none"
  PROVE  /\ NextConn \in Conns /\ sockets[NextConn] = "none"
         /\ NextConn = IF sockets[1] = "none" THEN 1 ELSE 2
<1> DEFINE opened == {c \in Conns : sockets[c] # "none"}
<1>1. CASE sockets[1] = "none"
  <2>1. opened = {}
    BY <1>1 DEF Conns
  <2>2. Cardinality(opened) = 0
    BY <2>1, FS_EmptySet
  <2>3. NextConn = 1
    BY <2>2 DEF NextConn
  <2> QED BY <1>1, <2>3 DEF Conns
<1>2. CASE sockets[1] # "none"
  <2>1. opened = {1}
    BY <1>2 DEF Conns
  <2>2. Cardinality({1}) = 1
    BY FS_Singleton
  <2>3. Cardinality(opened) = 1
    BY <2>1, <2>2, Zenon
  <2>4. NextConn = 2
    BY <2>3 DEF NextConn
  <2> QED BY <1>2, <2>4 DEF Conns
<1> QED BY <1>1, <1>2

\* The record of the caller that moves, and of the other.
Others(k) == \A j \in Callers : j # k => call'[j] = call[j]
RecordOf(op, step, sending, heard) == [op |-> op, step |-> step, sending |-> sending, heard |-> heard]

LEMMA CallChanges ==
  ASSUME call \in [Callers -> CallRecords], NEW k \in Callers
  PROVE  /\ \A r : Becomes(k, r) => call'[k] = r /\ Others(k)
         /\ \A step : Goto(k, step) =>
              call'[k] = RecordOf(call[k].op, step, call[k].sending, call[k].heard) /\ Others(k)
         /\ \A packet, step : TakeUp(k, packet, step) =>
              call'[k] = RecordOf(call[k].op, step, packet, call[k].heard) /\ Others(k)
BY DEF Becomes, Goto, TakeUp, Others, RecordOf, CallRecords

\* A call that ends: Consume is over, the others close the session.
LEMMA CallEnds ==
  ASSUME call \in [Callers -> CallRecords], NEW k \in Callers
  PROVE  /\ k = "udp" => AfterCall(k) = NoCall
         /\ k = "mqtt" => AfterCall(k) = RecordOf(call[k].op, "close", 0, 0)
BY DEF AfterCall, Calling, RecordOf

-----------------------------------------------------------------------------
(* Who writes what.                                                         *)

Crashing ==
  \/ TakeNil \/ WritesCollide \/ ReadsCollide
  \/ \E k \in Callers : WriteOnNil(k)
  \/ \E i \in Conns : PumpOnNil(i)

PumpMoves(i) == PumpLoop(i) \/ PumpReceives(i) \/ PumpFails(i) \/ PumpReadClosed(i)
Feeding == Consume \/ EnterConsume \/ TakePending \/ StorePending
Stopping == Flush \/ EnterFlush \/ SmokeTest \/ TakeLast \/ ClearPending
Connecting(k) == EnsureConnected(k) \/ DialFails(k) \/ Dial(k)
Writing(k) == WriteFails(k) \/ SendInitRequest(k) \/ SendAudioPacket(k)
Reading(k) == TakeResponse(k) \/ TakeError(k) \/ Timeout(k)
Resetting == SetConfigCloses \/ SetConfigForgets

\* All that a caller sees of the session but the channels.
calm == <<call, pending, conn, sockets, wire, transcript, registered, raced, closer, fed, lost, issued>>

LEMMA CrashKeeps ==
  ASSUME Crashing
  PROVE  UNCHANGED <<calm, pump, responses, readErr, frames, spoken>>
BY DEF Crashing, TakeNil, WritesCollide, ReadsCollide, WriteOnNil, PumpOnNil, Crash, calm, session, network,
       table

LEMMA PumpKeeps ==
  ASSUME NEW i \in Conns, PumpMoves(i)
  PROVE  UNCHANGED <<calm, crashed>>
BY DEF PumpMoves, PumpLoop, PumpReceives, PumpFails, PumpReadClosed, calm, session, network, table

LEMMA Cases ==
  ASSUME [Next]_vars
  PROVE  \/ UNCHANGED vars \/ Crashing \/ \E i \in Conns : PumpMoves(i)
         \/ Feeding \/ Stopping \/ Close \/ CloseForgets \/ Resetting
         \/ \E k \in Callers : Connecting(k) \/ Writing(k) \/ Reading(k)
BY DEF Next, CallStep, PumpStep, Crashing, PumpMoves, Feeding, Stopping, Connecting, Writing, Reading,
       Resetting

\* The steps of a caller or of SetConfig leave the rest as it is.
LEMMA CallersKeep ==
  /\ Feeding => UNCHANGED <<pump, conn, responses, readErr, transcript, sockets, wire, frames, spoken,
                            registered, raced, closer, crashed, lost, issued>>
  /\ Stopping => UNCHANGED <<pump, conn, responses, readErr, transcript, sockets, wire, frames, spoken,
                             closer, crashed, fed, lost, issued>>
  /\ Close \/ CloseForgets => UNCHANGED <<pump, pending, responses, readErr, transcript, wire, frames,
                                          spoken, registered, raced, closer, crashed, fed, lost, issued>>
  /\ Resetting => UNCHANGED <<call, pump, pending, responses, readErr, transcript, wire, frames, spoken,
                              crashed, fed, lost, issued>>
  /\ \A k \in Callers :
       /\ Connecting(k) => UNCHANGED <<pending, transcript, wire, frames, spoken, registered, raced, closer,
                                       crashed, fed, issued>>
       /\ Writing(k) => UNCHANGED <<pump, pending, conn, responses, readErr, transcript, frames, spoken,
                                    registered, raced, closer, crashed, fed, issued>>
       /\ Reading(k) => UNCHANGED <<pump, pending, conn, sockets, wire, frames, spoken, registered, raced,
                                    closer, crashed, fed>>
<1> USE DEF session, network, table
<1>1. Feeding => UNCHANGED <<pump, conn, responses, readErr, transcript, sockets, wire, frames, spoken,
                             registered, raced, closer, crashed, lost, issued>>
  BY DEF Feeding, Consume, EnterConsume, TakePending, StorePending
<1>2. Stopping => UNCHANGED <<pump, conn, responses, readErr, transcript, sockets, wire, frames, spoken,
                              closer, crashed, fed, lost, issued>>
  BY DEF Stopping, Flush, EnterFlush, SmokeTest, TakeLast, ClearPending
<1>3. Close \/ CloseForgets => UNCHANGED <<pump, pending, responses, readErr, transcript, wire, frames,
                                           spoken, registered, raced, closer, crashed, fed, lost, issued>>
  BY DEF Close, CloseForgets
<1>4. Resetting => UNCHANGED <<call, pump, pending, responses, readErr, transcript, wire, frames, spoken,
                               crashed, fed, lost, issued>>
  BY DEF Resetting, SetConfigCloses, SetConfigForgets
<1>5. ASSUME NEW k \in Callers
      PROVE  /\ Connecting(k) => UNCHANGED <<pending, transcript, wire, frames, spoken, registered, raced,
                                             closer, crashed, fed, issued>>
             /\ Writing(k) => UNCHANGED <<pump, pending, conn, responses, readErr, transcript, frames, spoken,
                                          registered, raced, closer, crashed, fed, issued>>
             /\ Reading(k) => UNCHANGED <<pump, pending, conn, sockets, wire, frames, spoken, registered,
                                          raced, closer, crashed, fed>>
  <2>1. Connecting(k) => UNCHANGED <<pending, transcript, wire, frames, spoken, registered, raced, closer,
                                     crashed, fed, issued>>
    BY DEF Connecting, EnsureConnected, DialFails, Dial
  <2>2. Writing(k) => UNCHANGED <<pump, pending, conn, responses, readErr, transcript, frames, spoken,
                                  registered, raced, closer, crashed, fed, issued>>
    BY DEF Writing, WriteFails, SendInitRequest, SendInit, SendAudioPacket, Write
  <2>3. Reading(k) => UNCHANGED <<pump, pending, conn, sockets, wire, frames, spoken, registered, raced,
                                  closer, crashed, fed>>
    BY DEF Reading, TakeResponse, TakeError, Timeout, ReadUnchanged
  <2> QED BY <2>1, <2>2, <2>3
<1> QED BY <1>1, <1>2, <1>3, <1>4, <1>5

-----------------------------------------------------------------------------
(* What the steps do to the callers' records.                               *)

NoRecord == RecordOf("none", "idle", 0, 0)

LEMMA Records ==
  ASSUME BaseInv
  PROVE  /\ call \in [Callers -> CallRecords] /\ "udp" \in Callers /\ "mqtt" \in Callers
         /\ udp \in CallRecords /\ mqtt \in CallRecords /\ NoCall = NoRecord
         /\ \A k \in Callers : k = "udp" \/ k = "mqtt"
BY DEF BaseInv, Callers, udp, mqtt, NoCall, Calling, NoRecord, RecordOf

LEMMA FeedingEffect ==
  ASSUME BaseInv, Feeding
  PROVE  /\ mqtt' = mqtt
         /\ \/ /\ udp.step = "idle" /\ registered /\ fed < MaxPackets /\ fed' = fed + 1
               /\ pending' = pending /\ udp' = RecordOf("consume", "enter", 0, 0)
            \/ /\ udp.step = "enter" /\ pending = 0 /\ fed' = fed /\ pending' = fed /\ udp' = NoRecord
            \/ /\ udp.step = "enter" /\ pending # 0 /\ fed' = fed /\ pending' = pending
               /\ udp' = RecordOf(udp.op, "take", udp.sending, udp.heard)
            \/ /\ udp.step = "take" /\ pending # 0 /\ fed' = fed /\ pending' = pending
               /\ udp' = RecordOf(udp.op, "store", pending, udp.heard)
            \/ /\ udp.step = "store" /\ fed' = fed /\ pending' = fed
               /\ udp' = RecordOf(udp.op, "connect", udp.sending, udp.heard)
<1> USE Records, CallChanges DEF At, udp, mqtt, Others
<1>1. CASE Consume
  <2>1. Calling("consume", "enter") = RecordOf("consume", "enter", 0, 0)
    BY DEF Calling, RecordOf
  <2> QED BY <1>1, <2>1 DEF Consume, session
<1>2. CASE EnterConsume
  BY <1>2 DEF EnterConsume
<1>3. CASE TakePending
  BY <1>3 DEF TakePending, ToSend, session
<1>4. CASE StorePending
  BY <1>4 DEF StorePending
<1> QED BY <1>1, <1>2, <1>3, <1>4 DEF Feeding

LEMMA StoppingEffect ==
  ASSUME BaseInv, Stopping
  PROVE  /\ udp' = udp
         /\ \/ /\ mqtt.step = "idle" /\ registered /\ ~registered' /\ pending' = pending
               /\ raced' <=> udp.step # "idle"
               /\ \/ mqtt' = RecordOf("flush", "enter", 0, 0)
                  \/ mqtt' = RecordOf("smoke", "connect", 0, 0) /\ fed = 0
            \/ /\ UNCHANGED <<registered, raced>>
               /\ \/ /\ mqtt.step = "enter" /\ pending' = pending
                     /\ \/ /\ pending = 0 /\ transcript = 0
                           /\ mqtt' = RecordOf(mqtt.op, "close", mqtt.sending, mqtt.heard)
                        \/ mqtt' = RecordOf(mqtt.op, "connect", mqtt.sending, mqtt.heard)
                  \/ /\ mqtt.step = "last" /\ pending' = pending
                     /\ \/ pending = 0 /\ mqtt' = RecordOf(mqtt.op, "read", 0, mqtt.heard)
                        \/ pending # 0 /\ mqtt' = RecordOf(mqtt.op, "send", pending, mqtt.heard)
                  \/ /\ mqtt.step = "clear" /\ pending' = 0
                     /\ mqtt' = RecordOf(mqtt.op, "read", mqtt.sending, mqtt.heard)
<1> USE Records, CallChanges DEF At, udp, mqtt, Others
<1>1. Calling("flush", "enter") = RecordOf("flush", "enter", 0, 0)
      /\ Calling("smoke", "connect") = RecordOf("smoke", "connect", 0, 0)
  BY DEF Calling, RecordOf
<1>2. CASE Flush
  BY <1>1, <1>2 DEF Flush, TakenOut, session
<1>3. CASE SmokeTest
  BY <1>1, <1>3 DEF SmokeTest, TakenOut, session
<1>4. CASE EnterFlush
  BY <1>4 DEF EnterFlush, session, table
<1>5. CASE TakeLast
  BY <1>5 DEF TakeLast, session, table
<1>6. CASE ClearPending
  BY <1>6 DEF ClearPending, table
<1> QED BY <1>2, <1>3, <1>4, <1>5, <1>6 DEF Stopping

\* What ends a call leaves.
Ended(k) ==
  /\ k = "udp" => call'[k] = NoRecord
  /\ k = "mqtt" => call'[k] = RecordOf(call[k].op, "close", 0, 0)

LEMMA FailEffect ==
  ASSUME BaseInv, NEW k \in Callers, Fail(k)
  PROVE  Ended(k) /\ Others(k) /\ lost' = lost \cup Abandoned(k)
BY Records, CallChanges, CallEnds DEF Fail, Ended

\* The step after the connection, for each operation.
LEMMA ConnectedStep ==
  ASSUME NEW k \in Callers
  PROVE  /\ Connected(k) \in {"send", "last", "read"}
         /\ call[k].op = "consume" => Connected(k) = "send"
         /\ call[k].op = "flush" => Connected(k) = "last"
         /\ call[k].op = "smoke" => Connected(k) = "read"
BY DEF Connected

LEMMA ConnectingEffect ==
  ASSUME BaseInv, NEW k \in Callers, Connecting(k)
  PROVE  /\ Others(k)
         /\ \/ /\ call[k].step = "connect" /\ UNCHANGED <<conn, sockets, lost, pump, responses, readErr>>
               /\ \/ conn # 0 /\ call'[k] = RecordOf(call[k].op, Connected(k), call[k].sending, call[k].heard)
                  \/ conn = 0 /\ call'[k] = RecordOf(call[k].op, "dial", call[k].sending, call[k].heard)
            \/ /\ call[k].step = "dial" /\ UNCHANGED <<conn, sockets, pump, responses, readErr>>
               /\ Ended(k) /\ lost' = lost \cup Abandoned(k)
            \/ /\ Dial(k) /\ call[k].step = "dial" /\ UNCHANGED lost
               /\ NextConn \in Conns /\ conn' = NextConn /\ sockets' = [sockets EXCEPT ![NextConn] = "up"]
               /\ call'[k] = RecordOf(call[k].op, "init", call[k].sending, call[k].heard)
<1> USE Records, CallChanges DEF At
<1>1. CASE EnsureConnected(k)
  BY <1>1 DEF EnsureConnected, session, network
<1>2. CASE DialFails(k)
  <2>1. Ended(k) /\ Others(k) /\ lost' = lost \cup Abandoned(k)
    BY <1>2, FailEffect DEF DialFails, DialError
  <2> QED BY <1>2, <2>1 DEF DialFails, session, network
<1>3. CASE Dial(k)
  BY <1>3 DEF Dial
<1> QED BY <1>1, <1>2, <1>3 DEF Connecting

LEMMA WritingEffect ==
  ASSUME BaseInv, NEW k \in Callers, Writing(k)
  PROVE  /\ Others(k) /\ conn # 0
         /\ \/ /\ WriteFails(k) /\ call[k].step \in {"init", "send"} /\ UNCHANGED wire
               /\ sockets' = [sockets EXCEPT ![conn] = IF @ = "closed" THEN @ ELSE "broken"]
               /\ Ended(k) /\ lost' = lost \cup Abandoned(k)
            \/ /\ call[k].step = "init" /\ sockets[conn] = "up" /\ UNCHANGED <<sockets, lost>>
               /\ wire' = [wire EXCEPT ![conn] = Append(@, Frame("init", 0))]
               /\ call'[k] = RecordOf(call[k].op, Connected(k), call[k].sending, call[k].heard)
            \/ /\ call[k].step = "send" /\ sockets[conn] = "up" /\ UNCHANGED <<sockets, lost>>
               /\ wire' = [wire EXCEPT ![conn] =
                             Append(@, Frame(IF k = "mqtt" THEN "last" ELSE "audio", call[k].sending))]
               /\ call'[k] = RecordOf(call[k].op, IF k = "mqtt" THEN "clear" ELSE "read", 0, call[k].heard)
<1> USE Records, CallChanges DEF At, At2
<1>1. CASE WriteFails(k)
  <2>1. Ended(k) /\ Others(k) /\ lost' = lost \cup Abandoned(k)
    BY <1>1, FailEffect DEF WriteFails
  <2> QED BY <1>1, <2>1 DEF WriteFails
<1>2. CASE SendInitRequest(k)
  BY <1>2 DEF SendInitRequest, SendInit, Write
<1>3. CASE SendAudioPacket(k)
  BY <1>3 DEF SendAudioPacket, Write
<1> QED BY <1>1, <1>2, <1>3 DEF Writing

\* What a caller issues when it concludes with the text it heard.
Issues(k, heard) ==
  \/ Silent
  \/ call[k].op = "consume" /\ NewText(heard) /\ Emit(heard, FALSE)
  \/ /\ call[k].op = "flush"
     /\ \E text \in {heard, transcript} :
          (heard = 0 => text = transcript) /\ (heard # 0 => text = heard) /\ Emit(text, TRUE)

LEMMA ConcludeEffect ==
  ASSUME BaseInv, NEW k \in Callers, NEW heard, Conclude(k, heard)
  PROVE  Ended(k) /\ Others(k) /\ Issues(k, heard)
<1>1. Ended(k) /\ Others(k)
  BY Records, CallChanges, CallEnds DEF Conclude, Ended
<1>2. CASE call[k].op = "consume"
  BY <1>1, <1>2 DEF Conclude, Issues
<1>3. CASE call[k].op = "flush"
  <2> DEFINE text == IF heard # 0 THEN heard ELSE transcript
  <2>1. IF text # 0 THEN Emit(text, TRUE) ELSE Silent
    BY <1>3 DEF Conclude
  <2>2. text \in {heard, transcript} /\ (heard = 0 => text = transcript) /\ (heard # 0 => text = heard)
    OBVIOUS
  <2> HIDE DEF text
  <2> QED BY <1>1, <1>3, <2>1, <2>2 DEF Issues
<1>4. CASE call[k].op \notin {"consume", "flush"}
  BY <1>1, <1>4 DEF Conclude, Issues
<1> QED BY <1>2, <1>3, <1>4

LEMMA ReadingEffect ==
  ASSUME BaseInv, NEW k \in Callers, Reading(k)
  PROVE  /\ Others(k) /\ call[k].step = "read"
         /\ \/ /\ responses # <<>> /\ responses' = Tail(responses) /\ UNCHANGED <<transcript, issued, lost, readErr>>
               /\ call'[k] = RecordOf(call[k].op, "read", call[k].sending,
                    IF Head(responses).text # 0 THEN Head(responses).text ELSE call[k].heard)
            \/ /\ responses # <<>> /\ responses' = Tail(responses) /\ Ended(k) /\ UNCHANGED <<lost, readErr>>
               /\ Issues(k, IF Head(responses).text # 0 THEN Head(responses).text ELSE call[k].heard)
            \/ /\ UNCHANGED <<responses, lost>> /\ readErr' \in {readErr, "none"} /\ Ended(k)
               /\ Issues(k, call[k].heard)
            \/ /\ UNCHANGED <<responses, transcript, issued>> /\ readErr' = "none" /\ Ended(k)
               /\ lost' = lost \cup Abandoned(k)
<1> USE DEF At
<1>1. CASE TakeResponse(k)
  <2> DEFINE heard == IF Head(responses).text # 0 THEN Head(responses).text ELSE call[k].heard
  <2>1. /\ call[k].step = "read" /\ responses # <<>> /\ responses' = Tail(responses) /\ UNCHANGED <<lost, readErr>>
        /\ \/ Conclude(k, heard)
           \/ call' = [call EXCEPT ![k].heard = heard] /\ Silent
    BY <1>1 DEF TakeResponse
  <2>2. call' = [call EXCEPT ![k].heard = heard] =>
           call'[k] = RecordOf(call[k].op, call[k].step, call[k].sending, heard) /\ Others(k)
    BY Records DEF Others, RecordOf, CallRecords
  <2> QED BY <2>1, <2>2, ConcludeEffect DEF Silent
<1>2. CASE TakeError(k)
  BY <1>2, ConcludeEffect, FailEffect DEF TakeError, Silent
<1>3. CASE Timeout(k)
  BY <1>3, ConcludeEffect DEF Timeout
<1> QED BY <1>1, <1>2, <1>3 DEF Reading

LEMMA ClosingEffect ==
  ASSUME BaseInv, Close \/ CloseForgets
  PROVE  /\ udp' = udp
         /\ \/ /\ mqtt.step = "close" /\ conn = 0 /\ UNCHANGED <<conn, sockets>>
               /\ mqtt' = RecordOf(mqtt.op, "done", mqtt.sending, mqtt.heard)
            \/ /\ mqtt.step = "close" /\ conn # 0 /\ UNCHANGED conn /\ CloseSocket
               /\ mqtt' = RecordOf(mqtt.op, "forget", mqtt.sending, mqtt.heard)
            \/ /\ mqtt.step = "forget" /\ conn' = 0 /\ UNCHANGED sockets
               /\ mqtt' = RecordOf(mqtt.op, "done", mqtt.sending, mqtt.heard)
<1> USE Records, CallChanges DEF At, udp, mqtt, Others
<1>1. CASE Close
  BY <1>1 DEF Close, session
<1>2. CASE CloseForgets
  BY <1>2 DEF CloseForgets, network
<1> QED BY <1>1, <1>2

LEMMA ResettingEffect ==
  ASSUME Resetting
  PROVE  \/ /\ registered /\ ~registered' /\ (raced' <=> udp.step # "idle") /\ UNCHANGED conn
            /\ \/ conn = 0 /\ closer' = "done" /\ UNCHANGED sockets
               \/ conn # 0 /\ closer' = "forget" /\ CloseSocket
         \/ closer = "forget" /\ closer' = "done" /\ conn' = 0 /\ UNCHANGED <<sockets, registered, raced>>
BY DEF Resetting, SetConfigCloses, SetConfigForgets, TakenOut, session, network, udp

-----------------------------------------------------------------------------
(* Who is in the session, and what is held back.                            *)

LEMMA Quiet ==
  ASSUME UNCHANGED vars \/ Crashing \/ \E i \in Conns : PumpMoves(i)
  PROVE  UNCHANGED calm
BY CrashKeeps, PumpKeeps DEF vars, calm, session, network, table

\* The other caller's record stays.
LEMMA OtherStays ==
  /\ Others("udp") => mqtt' = mqtt
  /\ Others("mqtt") => udp' = udp
BY DEF Others, udp, mqtt, Callers

\* Who is in a call.
LEMMA Busy ==
  ASSUME BaseInv, CallInv
  PROVE  /\ udp.step # "idle" => udp.op = "consume"
         /\ mqtt.step # "idle" => mqtt.op \in {"flush", "smoke"}
         /\ mqtt.step \in {"send", "enter", "clear", "last"} => mqtt.op = "flush"
<1>1. NoCall.step = "idle"
  BY DEF NoCall, Calling
<1> QED BY <1>1 DEF CallInv, Dialling, Leaving

\* The steps of each caller in the session, with what it may be doing there.
LEMMA UdpConnects ==
  ASSUME BaseInv, CallInv, Connecting("udp")
  PROVE  /\ mqtt' = mqtt /\ udp.op = "consume"
         /\ UNCHANGED <<pending, transcript, wire, frames, spoken, registered, raced, closer, crashed, fed, issued>>
         /\ \/ /\ udp.step = "connect" /\ UNCHANGED <<conn, sockets, lost, pump, responses, readErr>>
               /\ \/ conn # 0 /\ udp' = RecordOf("consume", "send", udp.sending, udp.heard)
                  \/ conn = 0 /\ udp' = RecordOf("consume", "dial", udp.sending, udp.heard)
            \/ /\ udp.step = "dial" /\ UNCHANGED <<conn, sockets, pump, responses, readErr>> /\ udp' = NoRecord
               /\ lost' = lost \cup Abandoned("udp")
            \/ /\ udp.step = "dial" /\ Dial("udp") /\ UNCHANGED lost /\ NextConn \in Conns
               /\ conn' = NextConn /\ sockets' = [sockets EXCEPT ![NextConn] = "up"]
               /\ udp' = RecordOf("consume", "init", udp.sending, udp.heard)
<1>0. call["udp"].step \in {"connect", "dial"}
  BY Records, ConnectingEffect
<1>1. call["udp"].op = "consume"
  BY <1>0, Busy DEF udp
<1>2. Connected("udp") = "send"
  BY <1>1, ConnectedStep, Records
<1> QED BY <1>0, <1>1, <1>2, Records, ConnectingEffect, OtherStays, CallersKeep DEF udp, Ended

LEMMA MqttConnects ==
  ASSUME BaseInv, CallInv, Connecting("mqtt")
  PROVE  /\ udp' = udp /\ mqtt.op \in {"flush", "smoke"}
         /\ UNCHANGED <<pending, transcript, wire, frames, spoken, registered, raced, closer, crashed, fed, issued>>
         /\ \/ /\ mqtt.step = "connect" /\ UNCHANGED <<conn, sockets, lost, pump, responses, readErr>>
               /\ \/ /\ conn # 0
                     /\ mqtt' = RecordOf(mqtt.op, IF mqtt.op = "flush" THEN "last" ELSE "read",
                                         mqtt.sending, mqtt.heard)
                  \/ conn = 0 /\ mqtt' = RecordOf(mqtt.op, "dial", mqtt.sending, mqtt.heard)
            \/ /\ mqtt.step = "dial" /\ UNCHANGED <<conn, sockets, pump, responses, readErr>>
               /\ mqtt' = RecordOf(mqtt.op, "close", 0, 0) /\ lost' = lost \cup Abandoned("mqtt")
            \/ /\ mqtt.step = "dial" /\ Dial("mqtt") /\ UNCHANGED lost /\ NextConn \in Conns
               /\ conn' = NextConn /\ sockets' = [sockets EXCEPT ![NextConn] = "up"]
               /\ mqtt' = RecordOf(mqtt.op, "init", mqtt.sending, mqtt.heard)
<1>0. call["mqtt"].step \in {"connect", "dial"}
  BY Records, ConnectingEffect
<1>1. call["mqtt"].op \in {"flush", "smoke"}
  BY <1>0, Busy DEF mqtt
<1>2. Connected("mqtt") = IF call["mqtt"].op = "flush" THEN "last" ELSE "read"
  BY <1>1, ConnectedStep, Records
<1> QED BY <1>0, <1>1, <1>2, Records, ConnectingEffect, OtherStays, CallersKeep DEF mqtt, Ended

LEMMA UdpWrites ==
  ASSUME BaseInv, CallInv, Writing("udp")
  PROVE  /\ mqtt' = mqtt /\ udp.op = "consume" /\ conn # 0
         /\ UNCHANGED <<pump, pending, conn, responses, readErr, transcript, frames, spoken, registered, raced,
                        closer, crashed, fed, issued>>
         /\ \/ /\ WriteFails("udp") /\ udp.step \in {"init", "send"} /\ UNCHANGED wire
               /\ sockets' = [sockets EXCEPT ![conn] = IF @ = "closed" THEN @ ELSE "broken"]
               /\ udp' = NoRecord /\ lost' = lost \cup Abandoned("udp")
            \/ /\ udp.step = "init" /\ sockets[conn] = "up" /\ UNCHANGED <<sockets, lost>>
               /\ wire' = [wire EXCEPT ![conn] = Append(@, Frame("init", 0))]
               /\ udp' = RecordOf("consume", "send", udp.sending, udp.heard)
            \/ /\ udp.step = "send" /\ sockets[conn] = "up" /\ UNCHANGED <<sockets, lost>>
               /\ wire' = [wire EXCEPT ![conn] = Append(@, Frame("audio", udp.sending))]
               /\ udp' = RecordOf("consume", "read", 0, udp.heard)
<1>0. call["udp"].step \in {"init", "send"}
  BY Records, WritingEffect
<1>1. call["udp"].op = "consume"
  BY <1>0, Busy DEF udp
<1>2. Connected("udp") = "send"
  BY <1>1, ConnectedStep, Records
<1> QED BY <1>0, <1>1, <1>2, Records, WritingEffect, OtherStays, CallersKeep DEF udp, Ended

LEMMA MqttWrites ==
  ASSUME BaseInv, CallInv, Writing("mqtt")
  PROVE  /\ udp' = udp /\ mqtt.op \in {"flush", "smoke"} /\ conn # 0
         /\ UNCHANGED <<pump, pending, conn, responses, readErr, transcript, frames, spoken, registered, raced,
                        closer, crashed, fed, issued>>
         /\ \/ /\ WriteFails("mqtt") /\ mqtt.step \in {"init", "send"} /\ UNCHANGED wire
               /\ sockets' = [sockets EXCEPT ![conn] = IF @ = "closed" THEN @ ELSE "broken"]
               /\ mqtt' = RecordOf(mqtt.op, "close", 0, 0) /\ lost' = lost \cup Abandoned("mqtt")
            \/ /\ mqtt.step = "init" /\ sockets[conn] = "up" /\ UNCHANGED <<sockets, lost>>
               /\ wire' = [wire EXCEPT ![conn] = Append(@, Frame("init", 0))]
               /\ mqtt' = RecordOf(mqtt.op, IF mqtt.op = "flush" THEN "last" ELSE "read",
                                   mqtt.sending, mqtt.heard)
            \/ /\ mqtt.step = "send" /\ mqtt.op = "flush" /\ sockets[conn] = "up" /\ UNCHANGED <<sockets, lost>>
               /\ wire' = [wire EXCEPT ![conn] = Append(@, Frame("last", mqtt.sending))]
               /\ mqtt' = RecordOf("flush", "clear", 0, mqtt.heard)
<1>0. call["mqtt"].step \in {"init", "send"}
  BY Records, WritingEffect
<1>1. call["mqtt"].op \in {"flush", "smoke"}
  BY <1>0, Busy DEF mqtt
<1>2. Connected("mqtt") = IF call["mqtt"].op = "flush" THEN "last" ELSE "read"
  BY <1>1, ConnectedStep, Records
<1>3. call["mqtt"].step = "send" => call["mqtt"].op = "flush"
  BY Busy DEF mqtt
<1> QED BY <1>0, <1>1, <1>2, <1>3, Records, WritingEffect, OtherStays, CallersKeep DEF mqtt, Ended

LEMMA UdpReads ==
  ASSUME BaseInv, CallInv, Reading("udp")
  PROVE  /\ mqtt' = mqtt /\ udp.op = "consume" /\ udp.step = "read"
         /\ UNCHANGED <<pump, pending, conn, sockets, wire, frames, spoken, registered, raced, closer, crashed, fed>>
         /\ \/ \E heard : udp' = RecordOf("consume", "read", udp.sending, heard)
            \/ udp' = NoRecord
         /\ \/ UNCHANGED lost
            \/ udp' = NoRecord /\ UNCHANGED issued /\ lost' = lost \cup Abandoned("udp")
<1>0. call["udp"].step \in {"read"}
  BY Records, ReadingEffect
<1>1. call["udp"].op = "consume"
  BY <1>0, Busy DEF udp
<1> QED BY <1>0, <1>1, Records, ReadingEffect, OtherStays, CallersKeep DEF udp, Ended

LEMMA MqttReads ==
  ASSUME BaseInv, CallInv, Reading("mqtt")
  PROVE  /\ udp' = udp /\ mqtt.op \in {"flush", "smoke"} /\ mqtt.step = "read"
         /\ UNCHANGED <<pump, pending, conn, sockets, wire, frames, spoken, registered, raced, closer, crashed, fed>>
         /\ \/ \E heard : mqtt' = RecordOf(mqtt.op, "read", mqtt.sending, heard)
            \/ mqtt' = RecordOf(mqtt.op, "close", 0, 0)
         /\ \/ UNCHANGED lost
            \/ /\ mqtt' = RecordOf(mqtt.op, "close", 0, 0) /\ UNCHANGED issued
               /\ lost' = lost \cup Abandoned("mqtt")
<1>0. call["mqtt"].step \in {"read"}
  BY Records, ReadingEffect
<1>1. call["mqtt"].op \in {"flush", "smoke"}
  BY <1>0, Busy DEF mqtt
<1> QED BY <1>0, <1>1, Records, ReadingEffect, OtherStays, CallersKeep DEF mqtt, Ended

LEMMA CallInvStep ==
  ASSUME BaseInv, CallInv, HeldInv, [Next]_vars
  PROVE  CallInv'
<1> USE Records, OtherStays DEF NoRecord, RecordOf, Entering, Dialling, Sending, Flushing, Leaving
<1>0. registered \in BOOLEAN /\ raced \in BOOLEAN
  BY DEF BaseInv
<1>1. CASE UNCHANGED calm
  BY <1>1 DEF calm, CallInv, udp, mqtt, NoCall, Calling
<1>2. CASE Feeding
  BY <1>2, FeedingEffect, CallersKeep DEF CallInv
<1>3. CASE Stopping
  BY <1>0, <1>3, StoppingEffect, CallersKeep DEF CallInv, HeldInv
<1>4. ASSUME NEW k \in Callers, Connecting(k)
      PROVE  CallInv'
  <2>1. CASE k = "udp"
    BY <1>4, <2>1, UdpConnects DEF CallInv
  <2>2. CASE k = "mqtt"
    BY <1>4, <2>2, MqttConnects DEF CallInv
  <2> QED BY <2>1, <2>2
<1>5. ASSUME NEW k \in Callers, Writing(k)
      PROVE  CallInv'
  <2>1. CASE k = "udp"
    BY <1>5, <2>1, UdpWrites DEF CallInv
  <2>2. CASE k = "mqtt"
    BY <1>5, <2>2, MqttWrites DEF CallInv
  <2> QED BY <2>1, <2>2
<1>6. ASSUME NEW k \in Callers, Reading(k)
      PROVE  CallInv'
  <2>1. CASE k = "udp"
    BY <1>6, <2>1, UdpReads DEF CallInv
  <2>2. CASE k = "mqtt"
    BY <1>6, <2>2, MqttReads DEF CallInv
  <2> QED BY <2>1, <2>2
<1>7. CASE Close \/ CloseForgets
  BY <1>7, ClosingEffect, CallersKeep DEF CallInv
<1>8. CASE Resetting
  BY <1>0, <1>8, ResettingEffect, CallersKeep DEF CallInv, udp, mqtt
<1> QED BY <1>1, <1>2, <1>3, <1>4, <1>5, <1>6, <1>7, <1>8, Cases, Quiet

LEMMA HeldInvStep ==
  ASSUME BaseInv, CallInv, HeldInv, [Next]_vars
  PROVE  HeldInv'
<1> USE Records, OtherStays DEF NoRecord, RecordOf, Entering, Dialling, Sending, Flushing, Leaving
<1>0. /\ registered \in BOOLEAN /\ raced \in BOOLEAN /\ pending \in 0..MaxPackets /\ fed \in 0..MaxPackets
      /\ MaxPackets \in Nat
  BY VolcengineAssumption DEF BaseInv
<1>1. CASE UNCHANGED calm
  BY <1>1 DEF calm, HeldInv, udp, mqtt
<1>2. CASE Feeding
  BY <1>0, <1>2, FeedingEffect, CallersKeep DEF CallInv, HeldInv
<1>3. CASE Stopping
  BY <1>0, <1>3, StoppingEffect, CallersKeep DEF CallInv, HeldInv
<1>4. ASSUME NEW k \in Callers, Connecting(k)
      PROVE  HeldInv'
  <2>1. CASE k = "udp"
    BY <1>0, <1>4, <2>1, UdpConnects DEF CallInv, HeldInv
  <2>2. CASE k = "mqtt"
    BY <1>0, <1>4, <2>2, MqttConnects DEF CallInv, HeldInv
  <2> QED BY <2>1, <2>2
<1>5. ASSUME NEW k \in Callers, Writing(k)
      PROVE  HeldInv'
  <2>1. CASE k = "udp"
    BY <1>0, <1>5, <2>1, UdpWrites DEF CallInv, HeldInv
  <2>2. CASE k = "mqtt"
    BY <1>0, <1>5, <2>2, MqttWrites DEF CallInv, HeldInv
  <2> QED BY <2>1, <2>2
<1>6. ASSUME NEW k \in Callers, Reading(k)
      PROVE  HeldInv'
  <2>1. CASE k = "udp"
    BY <1>0, <1>6, <2>1, UdpReads DEF CallInv, HeldInv
  <2>2. CASE k = "mqtt"
    BY <1>0, <1>6, <2>2, MqttReads DEF CallInv, HeldInv
  <2> QED BY <2>1, <2>2
<1>7. CASE Close \/ CloseForgets
  BY <1>0, <1>7, ClosingEffect, CallersKeep DEF CallInv, HeldInv
<1>8. CASE Resetting
  BY <1>0, <1>8, ResettingEffect, CallersKeep DEF CallInv, HeldInv, udp, mqtt
<1> QED BY <1>1, <1>2, <1>3, <1>4, <1>5, <1>6, <1>7, <1>8, Cases, Quiet


-----------------------------------------------------------------------------
(* The connections.                                                         *)

LEMMA DialedEffect ==
  ASSUME BaseInv, DialInv, NEW k \in Callers, Dial(k), udp.step = "dial" \/ mqtt.step = "dial"
  PROVE  \/ /\ sockets[1] = "none" /\ NextConn = 1 /\ conn' = 1
            /\ sockets'[1] = "up" /\ sockets'[2] = "none"
         \/ /\ sockets[1] # "none" /\ NextConn = 2 /\ conn' = 2
            /\ sockets'[1] = sockets[1] /\ sockets'[2] = "up"
<1>1. sockets \in [Conns -> {"none", "up", "broken", "closed"}]
  BY DEF BaseInv
<1>2. sockets[2] = "none"
  BY DEF DialInv, Dialling
<1>3. conn' = NextConn /\ sockets' = [sockets EXCEPT ![NextConn] = "up"]
  BY DEF Dial
<1>4. NextConn = IF sockets[1] = "none" THEN 1 ELSE 2
  BY <1>1, <1>2, NextConnection
<1> QED BY <1>1, <1>2, <1>3, <1>4 DEF Conns

\* A write that fails and a Close open no connection and forget none.
LEMMA NoneOpened ==
  ASSUME BaseInv, DialInv, conn # 0,
         CloseSocket \/ sockets' = [sockets EXCEPT ![conn] = IF @ = "closed" THEN @ ELSE "broken"]
  PROVE  /\ sockets'[1] = "none" <=> sockets[1] = "none"
         /\ sockets'[2] = "none" <=> sockets[2] = "none"
         /\ sockets'[conn] \in {"broken", "closed"}
         /\ \A c \in Conns : c # conn => sockets'[c] = sockets[c]
<1>1. sockets \in [Conns -> {"none", "up", "broken", "closed"}] /\ conn \in Conns
  BY DEF BaseInv
<1> QED BY <1>1 DEF CloseSocket, DialInv, Conns

LEMMA DialInvStep ==
  ASSUME BaseInv, CallInv, HeldInv, DialInv, SoloInv, [Next]_vars
  PROVE  DialInv'
<1> USE Records DEF NoRecord, RecordOf, Entering, Dialling, Sending, Flushing, Leaving
<1>0. registered \in BOOLEAN /\ conn \in {0, 1, 2}
  BY DEF BaseInv, Conns
<1>1. CASE UNCHANGED calm
  BY <1>1 DEF calm, DialInv, udp, mqtt
<1>2. CASE Feeding
  BY <1>0, <1>2, FeedingEffect, CallersKeep DEF CallInv, DialInv
<1>3. CASE Stopping
  BY <1>0, <1>3, StoppingEffect, CallersKeep DEF CallInv, DialInv
<1>4. ASSUME NEW k \in Callers, Connecting(k)
      PROVE  DialInv'
  <2>1. CASE k = "udp"
    BY <1>0, <1>4, <2>1, UdpConnects, DialedEffect DEF CallInv, DialInv
  <2>2. CASE k = "mqtt"
    BY <1>0, <1>4, <2>2, MqttConnects, DialedEffect DEF CallInv, DialInv
  <2> QED BY <2>1, <2>2
<1>5. ASSUME NEW k \in Callers, Writing(k)
      PROVE  DialInv'
  <2>1. CASE k = "udp"
    BY <1>0, <1>5, <2>1, UdpWrites, NoneOpened DEF CallInv, DialInv
  <2>2. CASE k = "mqtt"
    BY <1>0, <1>5, <2>2, MqttWrites, NoneOpened DEF CallInv, DialInv
  <2> QED BY <2>1, <2>2
<1>6. ASSUME NEW k \in Callers, Reading(k)
      PROVE  DialInv'
  <2>1. CASE k = "udp"
    BY <1>0, <1>6, <2>1, UdpReads DEF CallInv, DialInv
  <2>2. CASE k = "mqtt"
    BY <1>0, <1>6, <2>2, MqttReads DEF CallInv, DialInv
  <2> QED BY <2>1, <2>2
<1>7. CASE Close \/ CloseForgets
  BY <1>0, <1>7, ClosingEffect, NoneOpened, CallersKeep DEF CallInv, DialInv
<1>8. CASE Resetting
  <2>1. udp' = udp /\ mqtt' = mqtt
    BY <1>8, CallersKeep DEF udp, mqtt
  <2>2. /\ registered \/ closer = "forget" => mqtt.step = "idle"
        /\ closer = "forget" => ~registered
    BY DEF CallInv
  <2>3. CASE UNCHANGED sockets
    BY <1>0, <1>8, <2>1, <2>2, <2>3, ResettingEffect DEF DialInv
  <2>4. CASE conn # 0 /\ conn' = conn /\ CloseSocket /\ registered /\ ~registered'
    BY <1>0, <2>1, <2>2, <2>4, NoneOpened DEF DialInv
  <2> QED BY <1>8, <2>3, <2>4, ResettingEffect
<1> QED BY <1>1, <1>2, <1>3, <1>4, <1>5, <1>6, <1>7, <1>8, Cases, Quiet

\* What is written goes to the connection that is set.
LEMMA WireEffect ==
  ASSUME BaseInv, conn # 0, NEW frame, wire' = [wire EXCEPT ![conn] = Append(@, frame)]
  PROVE  /\ wire'[conn] = Append(wire[conn], frame)
         /\ \A c \in Conns : c # conn => wire'[c] = wire[c]
BY DEF BaseInv

LEMMA SoloPump ==
  ASSUME BaseInv, pump[2].stage = "none",
         UNCHANGED vars \/ Crashing \/ \E i \in Conns : PumpMoves(i)
  PROVE  pump'[2].stage = "none"
<1>1. pump \in [Conns -> [stage : {"none", "loop", "read", "ended"}, on : Conns \cup {0}]]
  BY DEF BaseInv
<1>2. ASSUME NEW i \in Conns, PumpMoves(i)
      PROVE  pump'[2].stage = "none"
  <2>1. pump[i].stage \in {"loop", "read"} /\ \A j \in Conns : j # i => pump'[j] = pump[j]
    BY <1>1, <1>2 DEF PumpMoves, PumpLoop, PumpReceives, PumpFails, PumpReadClosed, PumpAt, PumpTo
  <2> QED BY <2>1 DEF Conns
<1> QED BY <1>2, CrashKeeps DEF vars

\* The dial of a session that was not taken out under a Consume is its first.
LEMMA SoloDial ==
  ASSUME BaseInv, CallInv, DialInv, SoloInv, ~raced, NEW k \in Callers, Dial(k),
         udp.step = "dial" \/ mqtt.step = "dial"
  PROVE  /\ sockets[1] = "none" /\ conn' = 1 /\ sockets'[1] = "up" /\ sockets'[2] = "none"
         /\ wire[1] = <<>> /\ pump'[2].stage = "none"
<1>1. NoCall.step = "idle"
  BY DEF NoCall, Calling
<1>2. conn = 0
  BY DEF SoloInv
<1>3. ~(mqtt.step = "done" \/ closer = "done")
  BY <1>1 DEF CallInv
<1>4. sockets[1] = "none"
  BY <1>2, <1>3 DEF SoloInv
<1>5. NextConn = 1 /\ conn' = 1 /\ sockets'[1] = "up" /\ sockets'[2] = "none"
  BY <1>4, DialedEffect
<1>6. pump' = [pump EXCEPT ![1].stage = "loop"]
  BY <1>5 DEF Dial
<1>7. pump'[2] = pump[2]
  BY <1>6 DEF BaseInv, Conns
<1> QED BY <1>4, <1>5, <1>7 DEF SoloInv

LEMMA SoloInvStep ==
  ASSUME BaseInv, CallInv, HeldInv, DialInv, SoloInv, [Next]_vars
  PROVE  SoloInv'
<1> SUFFICES ASSUME ~raced'
             PROVE  SoloInv'
  BY DEF SoloInv
<1> USE Records DEF NoRecord, RecordOf, Entering, Dialling, Sending, Flushing, Leaving
<1>0. registered \in BOOLEAN /\ raced \in BOOLEAN /\ conn \in {0, 1, 2} /\ \A c \in Conns : wire[c] \in Seq(WireFrames)
  BY DEF BaseInv, Conns
<1>1. CASE UNCHANGED vars \/ Crashing \/ \E i \in Conns : PumpMoves(i)
  BY <1>1, Quiet, SoloPump, CrashKeeps DEF calm, SoloInv, udp, mqtt
<1>2. CASE Feeding
  BY <1>0, <1>2, FeedingEffect, CallersKeep DEF CallInv, SoloInv
<1>3. CASE Stopping
  BY <1>0, <1>3, StoppingEffect, CallersKeep DEF CallInv, DialInv, SoloInv
<1>4. ASSUME NEW k \in Callers, Connecting(k)
      PROVE  SoloInv'
  <2>1. CASE k = "udp"
    BY <1>0, <1>4, <2>1, UdpConnects, SoloDial DEF CallInv, SoloInv
  <2>2. CASE k = "mqtt"
    BY <1>0, <1>4, <2>2, MqttConnects, SoloDial DEF CallInv, SoloInv
  <2> QED BY <2>1, <2>2
<1>5. ASSUME NEW k \in Callers, Writing(k)
      PROVE  SoloInv'
  <2>1. conn = 1 /\ UNCHANGED <<conn, pump, raced, closer>> /\ ~raced
    BY <1>0, <1>5, UdpWrites, MqttWrites DEF SoloInv, WriteFails, At2, udp, mqtt
  <2>2. wire[1] \in Seq(WireFrames) /\ wire[2] = <<>> /\ sockets[2] = "none" /\ sockets[1] # "none"
    BY <1>0, <2>1 DEF SoloInv, DialInv, Conns
  <2>3. ASSUME NEW frame, wire' = [wire EXCEPT ![conn] = Append(@, frame)]
        PROVE  wire'[1] # <<>> /\ wire'[2] = <<>>
    <3>1. wire'[1] = Append(wire[1], frame) /\ wire'[2] = <<>>
      BY <2>1, <2>2, <2>3 DEF BaseInv, Conns
    <3> QED BY <2>2, <3>1
  <2>4. sockets' = [sockets EXCEPT ![conn] = IF @ = "closed" THEN @ ELSE "broken"]
          => sockets'[1] \in {"broken", "closed"} /\ sockets'[2] = "none"
    BY <2>1, <2>2, NoneOpened DEF Conns
  <2>5. \/ sockets' = sockets /\ wire'[1] # <<>> /\ wire'[2] = <<>>
        \/ sockets'[1] \in {"broken", "closed"} /\ sockets'[2] = "none" /\ UNCHANGED wire
    BY <1>5, <2>3, <2>4, UdpWrites, MqttWrites
  <2>6. CASE k = "udp"
    <3>1. mqtt.step = "idle"
      BY <2>1, <2>6, <1>5, UdpWrites DEF CallInv
    <3>2. mqtt' = mqtt /\ udp'.step \in {"idle", "send", "read"}
      BY <1>5, <2>6, UdpWrites
    <3> QED BY <2>1, <2>2, <2>5, <3>1, <3>2 DEF SoloInv
  <2>7. CASE k = "mqtt"
    <3>1. udp.step = "idle"
      BY <2>1, <2>7, <1>5, MqttWrites DEF CallInv
    <3>2. udp' = udp /\ mqtt'.step \in {"close", "last", "read", "clear"}
      BY <1>5, <2>7, MqttWrites
    <3> QED BY <2>1, <2>2, <2>5, <3>1, <3>2 DEF SoloInv
  <2> QED BY <2>6, <2>7
<1>6. ASSUME NEW k \in Callers, Reading(k)
      PROVE  SoloInv'
  <2>1. CASE k = "udp"
    BY <1>0, <1>6, <2>1, UdpReads DEF CallInv, SoloInv
  <2>2. CASE k = "mqtt"
    BY <1>0, <1>6, <2>2, MqttReads DEF CallInv, SoloInv
  <2> QED BY <2>1, <2>2
<1>7. CASE Close \/ CloseForgets
  BY <1>0, <1>7, ClosingEffect, NoneOpened, CallersKeep DEF CallInv, SoloInv
<1>8. CASE Resetting
  BY <1>0, <1>8, ResettingEffect, NoneOpened, CallersKeep DEF CallInv, SoloInv, udp, mqtt
<1> QED BY <1>1, <1>2, <1>3, <1>4, <1>5, <1>6, <1>7, <1>8, Cases

-----------------------------------------------------------------------------
(* The packets that have not been written.                                  *)

LEMMA WrittenGrows ==
  ASSUME BaseInv, conn # 0, NEW kind, NEW packet,
         wire' = [wire EXCEPT ![conn] = Append(@, Frame(kind, packet))]
  PROVE  Written' = Written \cup {packet}
<1> DEFINE frame == Frame(kind, packet)
<1>1. conn \in Conns /\ \A c \in Conns : wire[c] \in Seq(WireFrames)
  BY DEF BaseInv
<1>2. frame.packet = packet
  BY DEF Frame
<1>3. wire'[conn] = Append(wire[conn], frame) /\ \A c \in Conns : c # conn => wire'[c] = wire[c]
  BY WireEffect
<1> HIDE DEF frame
<1>4. /\ Len(wire'[conn]) = Len(wire[conn]) + 1 /\ Len(wire[conn]) \in Nat
      /\ wire'[conn][Len(wire[conn]) + 1] = frame
      /\ \A j \in 1..Len(wire[conn]) : wire'[conn][j] = wire[conn][j]
  BY <1>1, <1>3
<1>5. ASSUME NEW p \in Written' PROVE p \in Written \cup {packet}
  <2>1. PICK c \in Conns : \E j \in 1..Len(wire'[c]) : p = wire'[c][j].packet
    BY <1>5 DEF Written
  <2>2. CASE c = conn
    BY <1>2, <1>4, <2>1, <2>2 DEF Written
  <2>3. CASE c # conn
    BY <1>3, <2>1, <2>3 DEF Written
  <2> QED BY <2>2, <2>3
<1>6. ASSUME NEW p \in Written PROVE p \in Written'
  <2>1. PICK c \in Conns : \E j \in 1..Len(wire[c]) : p = wire[c][j].packet
    BY <1>6 DEF Written
  <2>2. CASE c = conn
    <3>1. PICK j \in 1..Len(wire[conn]) : p = wire[conn][j].packet
      BY <2>1, <2>2
    <3>2. j \in 1..Len(wire'[conn]) /\ p = wire'[conn][j].packet
      BY <1>4, <3>1
    <3> QED BY <1>1, <3>2 DEF Written
  <2>3. CASE c # conn
    BY <1>3, <2>1, <2>3 DEF Written
  <2> QED BY <2>2, <2>3
<1>7. packet \in Written'
  <2>1. Len(wire[conn]) + 1 \in 1..Len(wire'[conn]) /\ packet = wire'[conn][Len(wire[conn]) + 1].packet
    BY <1>2, <1>4
  <2> QED BY <1>1, <2>1 DEF Written
<1> QED BY <1>5, <1>6, <1>7

\* What is written or lost is no longer unwritten.
LEMMA UnwrittenLess ==
  ASSUME fed' = fed, Written \subseteq Written', lost \subseteq lost'
  PROVE  Unwritten' \subseteq Unwritten /\ \A p \in Written' \cup lost' : p \notin Unwritten'
BY DEF Unwritten

LEMMA UnwrittenKept ==
  ASSUME UNCHANGED <<fed, wire, lost>>
  PROVE  Unwritten' = Unwritten
BY DEF Unwritten, Written

LEMMA UnwrittenLost ==
  ASSUME UNCHANGED <<fed, wire>>, NEW k \in Callers, lost' = lost \cup Abandoned(k)
  PROVE  /\ Unwritten' \subseteq Unwritten
         /\ call[k].sending # 0 => call[k].sending \notin Unwritten'
         /\ k = "mqtt" /\ pending # 0 => pending \notin Unwritten'
<1>1. Written' = Written
  BY DEF Written
<1> QED BY <1>1, UnwrittenLess DEF Abandoned

LEMMA UnwrittenSent ==
  ASSUME BaseInv, conn # 0, UNCHANGED <<fed, lost>>, NEW kind, NEW packet,
         wire' = [wire EXCEPT ![conn] = Append(@, Frame(kind, packet))]
  PROVE  Unwritten' \subseteq Unwritten /\ packet \notin Unwritten'
<1>1. Written' = Written \cup {packet}
  BY WrittenGrows, Zenon
<1> QED BY <1>1, UnwrittenLess

\* The numbers of packets begin at one.
LEMMA UnwrittenPackets == 0 \notin Unwritten
BY DEF Unwritten

LEMMA UnwrittenInvStep ==
  ASSUME BaseInv, CallInv, HeldInv, UnwrittenInv, [Next]_vars
  PROVE  UnwrittenInv'
<1> USE Records DEF NoRecord, RecordOf, Entering, Dialling, Sending, Flushing, Leaving
<1>0. /\ registered \in BOOLEAN /\ raced \in BOOLEAN /\ pending \in 0..MaxPackets /\ fed \in 0..MaxPackets
      /\ MaxPackets \in Nat
  BY VolcengineAssumption DEF BaseInv
<1>1. CASE UNCHANGED calm
  BY <1>1, UnwrittenKept DEF calm, UnwrittenInv, udp, mqtt
<1>2. CASE Feeding
  <2>1. CASE fed' = fed
    <3>1. Unwritten' = Unwritten
      BY <1>2, <2>1, CallersKeep, UnwrittenKept
    <3> QED BY <1>0, <1>2, <2>1, <3>1, FeedingEffect, CallersKeep DEF CallInv, HeldInv, UnwrittenInv
  <2>2. CASE fed' = fed + 1
    <3>1. Unwritten' \subseteq Unwritten \cup {fed + 1}
      BY <1>0, <1>2, <2>2, CallersKeep DEF Unwritten, Written
    <3>2. udp.step = "idle" /\ registered /\ udp' = RecordOf("consume", "enter", 0, 0) /\ mqtt' = mqtt
          /\ pending' = pending /\ UNCHANGED raced
      BY <1>0, <1>2, <2>2, FeedingEffect, CallersKeep
    <3>3. pending = fed /\ mqtt.step = "idle" /\ mqtt.op = "none"
      BY <3>2 DEF HeldInv, CallInv
    <3>4. Unwritten \subseteq {fed}
      BY <3>2 DEF UnwrittenInv
    <3> QED BY <1>0, <2>2, <3>1, <3>2, <3>3, <3>4, UnwrittenPackets DEF UnwrittenInv
  <2> QED BY <1>2, <2>1, <2>2, FeedingEffect
<1>3. CASE Stopping
  <2>1. Unwritten' = Unwritten
    BY <1>3, CallersKeep, UnwrittenKept
  <2> QED BY <1>0, <1>3, <2>1, StoppingEffect, CallersKeep, UnwrittenPackets DEF CallInv, HeldInv, UnwrittenInv
<1>4. ASSUME NEW k \in Callers, Connecting(k)
      PROVE  UnwrittenInv'
  <2>1. CASE k = "udp"
    <3>1. Unwritten' \subseteq Unwritten /\ UNCHANGED <<fed, pending, raced>> /\ mqtt' = mqtt
      BY <1>4, <2>1, UdpConnects, UnwrittenKept, UnwrittenLost
    <3>2. udp.step \in Dialling /\ udp.sending = fed - 1 /\ fed > 1
      BY <1>4, <2>1, UdpConnects DEF HeldInv
    <3>3. \/ udp'.step \in Dialling \cup Sending
          \/ udp.sending # 0 => udp.sending \notin Unwritten'
      BY <1>4, <2>1, UdpConnects, UnwrittenLost DEF udp
    <3> QED BY <1>0, <3>1, <3>2, <3>3 DEF UnwrittenInv
  <2>2. CASE k = "mqtt"
    <3>1. Unwritten' \subseteq Unwritten /\ UNCHANGED <<fed, pending, raced>> /\ udp' = udp
      BY <1>4, <2>2, MqttConnects, UnwrittenKept, UnwrittenLost
    <3>2. /\ mqtt.op \in {"flush", "smoke"} /\ mqtt.step \in Dialling /\ mqtt'.op = mqtt.op
          /\ mqtt.op = "flush" => mqtt'.step \in Flushing \/ (pending # 0 => pending \notin Unwritten')
          /\ mqtt'.step # "clear"
      BY <1>4, <2>2, MqttConnects, UnwrittenLost
    <3>3. ~raced /\ mqtt.op = "flush" => pending = fed
      BY <3>2 DEF HeldInv
    <3> QED BY <1>0, <3>1, <3>2, <3>3, UnwrittenPackets DEF UnwrittenInv
  <2> QED BY <2>1, <2>2
<1>5. ASSUME NEW k \in Callers, Writing(k)
      PROVE  UnwrittenInv'
  <2>1. CASE k = "udp"
    <3>1. Unwritten' \subseteq Unwritten /\ UNCHANGED <<fed, pending, raced>> /\ mqtt' = mqtt
      BY <1>5, <2>1, UdpWrites, UnwrittenSent, UnwrittenLost, UnwrittenKept
    <3>2. udp.step \in Sending /\ udp.sending = fed - 1 /\ fed > 1
      BY <1>5, <2>1, UdpWrites DEF HeldInv
    <3>3. \/ udp'.step \in Sending
          \/ udp.sending # 0 => udp.sending \notin Unwritten'
      <4>1. CASE UNCHANGED wire /\ lost' = lost \cup Abandoned("udp")
        BY <1>5, <2>1, <4>1, UdpWrites, UnwrittenLost DEF udp
      <4>2. CASE UNCHANGED lost /\ wire' = [wire EXCEPT ![conn] = Append(@, Frame("audio", udp.sending))]
        BY <1>5, <2>1, <4>2, UdpWrites, UnwrittenSent
      <4> QED BY <1>5, <2>1, <4>1, <4>2, UdpWrites
    <3> QED BY <1>0, <3>1, <3>2, <3>3 DEF UnwrittenInv
  <2>2. CASE k = "mqtt"
    <3>1. Unwritten' \subseteq Unwritten /\ UNCHANGED <<fed, pending, raced>> /\ udp' = udp
      BY <1>5, <2>2, MqttWrites, UnwrittenSent, UnwrittenLost, UnwrittenKept
    <3>2. /\ mqtt.op \in {"flush", "smoke"} /\ mqtt.step \in Sending /\ mqtt'.op = mqtt.op
          /\ \/ mqtt.op = "smoke" /\ mqtt'.step # "clear"
             \/ mqtt'.step \in Flushing
             \/ mqtt'.step # "clear" /\ (pending # 0 => pending \notin Unwritten')
             \/ mqtt.step = "send" /\ mqtt.sending \notin Unwritten'
      <4>1. CASE UNCHANGED wire /\ lost' = lost \cup Abandoned("mqtt") /\ mqtt' = RecordOf(mqtt.op, "close", 0, 0)
        BY <1>5, <2>2, <4>1, MqttWrites, UnwrittenLost
      <4>2. CASE /\ UNCHANGED lost /\ wire' = [wire EXCEPT ![conn] = Append(@, Frame("last", mqtt.sending))]
                 /\ mqtt.step = "send" /\ mqtt' = RecordOf("flush", "clear", 0, mqtt.heard) /\ mqtt.op = "flush"
        BY <1>5, <2>2, <4>2, MqttWrites, UnwrittenSent
      <4>3. CASE mqtt' = RecordOf(mqtt.op, IF mqtt.op = "flush" THEN "last" ELSE "read", mqtt.sending, mqtt.heard)
        BY <1>5, <2>2, <4>3, MqttWrites
      <4> QED BY <1>5, <2>2, <4>1, <4>2, <4>3, MqttWrites
    <3>3. /\ ~raced /\ mqtt.op = "flush" => pending = fed
          /\ ~raced /\ mqtt.step = "send" => mqtt.sending = fed
          /\ mqtt.step = "send" /\ udp.step = "enter" => mqtt.sending = fed - 1
      BY <3>2 DEF HeldInv
    <3> QED BY <1>0, <3>1, <3>2, <3>3, UnwrittenPackets DEF UnwrittenInv
  <2> QED BY <2>1, <2>2
<1>6. ASSUME NEW k \in Callers, Reading(k)
      PROVE  UnwrittenInv'
  <2>1. CASE k = "udp"
    <3>1. Unwritten' \subseteq Unwritten /\ UNCHANGED <<fed, pending, raced>> /\ mqtt' = mqtt
      BY <1>6, <2>1, UdpReads, UnwrittenKept, UnwrittenLost
    <3>2. udp.step = "read"
      BY <1>6, <2>1, UdpReads
    <3> QED BY <1>0, <3>1, <3>2 DEF UnwrittenInv
  <2>2. CASE k = "mqtt"
    <3>1. Unwritten' \subseteq Unwritten /\ UNCHANGED <<fed, pending, raced>> /\ udp' = udp
      BY <1>6, <2>2, MqttReads, UnwrittenKept, UnwrittenLost
    <3>2. mqtt.step = "read" /\ mqtt'.op = mqtt.op /\ mqtt'.step # "clear"
      BY <1>6, <2>2, MqttReads
    <3> QED BY <1>0, <3>1, <3>2 DEF UnwrittenInv
  <2> QED BY <2>1, <2>2
<1>7. CASE Close \/ CloseForgets
  <2>1. Unwritten' = Unwritten
    BY <1>7, ClosingEffect, CallersKeep, UnwrittenKept
  <2> QED BY <1>0, <1>7, <2>1, ClosingEffect, CallersKeep DEF CallInv, UnwrittenInv
<1>8. CASE Resetting
  <2>1. Unwritten' = Unwritten /\ udp' = udp /\ mqtt' = mqtt /\ UNCHANGED <<fed, pending>>
    BY <1>8, CallersKeep, UnwrittenKept DEF udp, mqtt
  <2>2. raced' = raced \/ mqtt.op = "none"
    BY <1>8, ResettingEffect DEF CallInv
  <2> QED BY <1>0, <2>1, <2>2 DEF UnwrittenInv
<1> QED BY <1>1, <1>2, <1>3, <1>4, <1>5, <1>6, <1>7, <1>8, Cases, Quiet

-----------------------------------------------------------------------------
(* The streams of frames.                                                   *)

LEMMA StreamsInOrder ==
  ASSUME BaseInv, StreamInv
  PROVE  StreamsWellFormed
<1>1. ASSUME NEW c \in Conns, NEW j \in 1..Len(wire[c]), ~raced
      PROVE  /\ (wire[c][j].kind = "init") = (j = 1)
             /\ j < Len(wire[c]) => wire[c][j].kind # "last" /\ wire[c][j].packet < wire[c][j + 1].packet
  <2>1. Ordered(wire[c])
    BY <1>1 DEF StreamInv
  <2>2. Len(wire[c]) \in Nat
    BY DEF BaseInv
  <2>3. j < Len(wire[c]) => j + 1 \in 1..Len(wire[c]) /\ j < j + 1
    BY <2>2
  <2> QED BY <2>1, <2>3 DEF Ordered
<1> QED BY <1>1 DEF StreamInv, StreamsWellFormed, OneLate

LEMMA EmptyStream ==
  /\ Ordered(<<>>) /\ OneLate(<<>>) /\ NoneLate(<<>>) /\ Marked(<<>>) /\ ~HasLast(<<>>)
  /\ \A n : Below(<<>>, n)
BY DEF Ordered, OneLate, NoneLate, Marked, HasLast, Below

LEMMA FrameNumbers ==
  ASSUME NEW w \in Seq(WireFrames), NEW j \in 1..Len(w)
  PROVE  w[j] \in WireFrames /\ w[j].packet \in Int
<1>1. w[j] \in WireFrames
  OBVIOUS
<1>2. \A frame \in WireFrames : frame.packet \in Int
  BY DEF WireFrames, Packets
<1> QED BY <1>1, <1>2

\* A frame is appended.
LEMMA StreamGrows ==
  ASSUME NEW w \in Seq(WireFrames), NEW frame \in WireFrames, NEW v, v = Append(w, frame)
  PROVE  /\ Marked(w) /\ (frame.kind = "init" <=> frame.packet = 0) => Marked(v)
         /\ HasLast(v) => HasLast(w) \/ frame.kind = "last"
         /\ \A n \in Int, m \in Int : Below(w, n) /\ n <= m /\ (frame.packet = 0 \/ frame.packet < m) => Below(v, m)
         /\ NoneLate(w) /\ (frame.kind = "audio" => ~HasLast(w)) => NoneLate(v)
         /\ OneLate(w) /\ (frame.kind = "audio" => NoneLate(w)) => OneLate(v)
<1>0. \A j \in 1..Len(w) : w[j] \in WireFrames /\ w[j].packet \in Int
  BY FrameNumbers
<1>1. /\ Len(w) \in Nat /\ Len(v) = Len(w) + 1 /\ v[Len(w) + 1] = frame
      /\ \A j \in 1..Len(w) : v[j] = w[j]
      /\ \A j \in 1..Len(v) : j \in 1..Len(w) \/ j = Len(w) + 1
      /\ \A j \in 1..Len(w) : j < Len(w) + 1 /\ w[j].packet \in Int
  <2> HIDE DEF WireFrames
  <2> QED BY <1>0
<1>2. frame.packet \in Int
  BY DEF WireFrames, Packets
<1> HIDE DEF WireFrames
<1>3. Marked(w) /\ (frame.kind = "init" <=> frame.packet = 0) => Marked(v)
  BY <1>1 DEF Marked
<1>4. HasLast(v) => HasLast(w) \/ frame.kind = "last"
  BY <1>1 DEF HasLast
<1>5. ASSUME NEW n \in Int, NEW m \in Int, Below(w, n), n <= m,
             frame.packet = 0 \/ frame.packet < m
      PROVE  Below(v, m)
  <2> SUFFICES ASSUME NEW j \in 1..Len(v), v[j].packet # 0
               PROVE  v[j].packet < m
    BY DEF Below
  <2>1. CASE j \in 1..Len(w)
    BY <1>1, <1>5, <2>1 DEF Below
  <2>2. CASE j = Len(w) + 1
    BY <1>1, <1>5, <2>2
  <2> QED BY <1>1, <2>1, <2>2
<1>6. NoneLate(w) /\ (frame.kind = "audio" => ~HasLast(w)) => NoneLate(v)
  <2> SUFFICES ASSUME NoneLate(w), frame.kind = "audio" => ~HasLast(w),
                      NEW i \in 1..Len(v), NEW j \in 1..Len(v), i < j, v[i].kind = "last"
               PROVE  v[j].kind # "audio"
    BY DEF NoneLate
  <2>1. i \in 1..Len(w)
    BY <1>1
  <2>2. HasLast(w)
    BY <1>1, <2>1 DEF HasLast
  <2> QED BY <1>1, <2>1, <2>2 DEF NoneLate
<1>7. OneLate(w) /\ (frame.kind = "audio" => NoneLate(w)) => OneLate(v)
  <2> SUFFICES ASSUME OneLate(w), frame.kind = "audio" => NoneLate(w),
                      NEW i \in 1..Len(v), NEW j \in 1..Len(v), NEW k \in 1..Len(v),
                      i < j, j < k, v[i].kind = "last", v[j].kind = "audio", v[k].kind = "audio"
               PROVE  FALSE
    BY DEF OneLate
  <2>1. i \in 1..Len(w) /\ j \in 1..Len(w)
    BY <1>1
  <2>2. CASE k \in 1..Len(w)
    BY <1>1, <2>1, <2>2 DEF OneLate
  <2>3. CASE k = Len(w) + 1
    BY <1>1, <2>1, <2>3 DEF NoneLate
  <2> QED BY <1>1, <2>2, <2>3
<1> QED BY <1>3, <1>4, <1>5, <1>6, <1>7

\* The stream stays in order: it begins with the init request, and a newer packet
\* goes to the end of one that is open.
LEMMA OrderGrows ==
  ASSUME NEW w \in Seq(WireFrames), NEW frame \in WireFrames, NEW v, v = Append(w, frame), Ordered(w),
         \/ w = <<>> /\ frame.kind = "init"
         \/ /\ w # <<>> /\ frame.kind # "init" /\ ~HasLast(w)
            /\ \A j \in 1..Len(w) : w[j].packet < frame.packet
  PROVE  Ordered(v)
<1>1. /\ Len(w) \in Nat /\ Len(v) = Len(w) + 1 /\ v[Len(w) + 1] = frame
      /\ \A j \in 1..Len(w) : v[j] = w[j]
      /\ w # <<>> => Len(w) # 0
      /\ w = <<>> => Len(w) = 0
  OBVIOUS
<1>2. ASSUME NEW j \in 1..Len(v)
      PROVE  (v[j].kind = "init") = (j = 1)
  <2>1. CASE j = Len(w) + 1
    BY <1>1, <2>1
  <2>2. CASE j \in 1..Len(w)
    BY <1>1, <2>2 DEF Ordered
  <2> QED BY <1>1, <2>1, <2>2
<1>3. ASSUME NEW j \in 1..Len(v), NEW i \in 1..Len(v), i < j
      PROVE  v[i].kind # "last" /\ v[i].packet < v[j].packet
  <2>1. i \in 1..Len(w) /\ v[i] = w[i] /\ w # <<>>
    BY <1>1, <1>3
  <2>2. CASE j = Len(w) + 1
    BY <1>1, <2>1, <2>2 DEF HasLast
  <2>3. CASE j \in 1..Len(w)
    BY <1>1, <1>3, <2>1, <2>3 DEF Ordered
  <2> QED BY <1>1, <2>2, <2>3
<1> QED BY <1>2, <1>3 DEF Ordered

\* A stream to which nothing is written.
LEMMA StreamKept ==
  ASSUME BaseInv, BaseInv', StreamInv, raced => raced', LastSent => LastSent',
         InHand' => InHand \/ ~LastSent, ~raced' => Ceiling <= Ceiling',
         NEW c \in Conns, wire'[c] = wire[c]
  PROVE  /\ OneLate(wire'[c]) /\ Marked(wire'[c])
         /\ HasLast(wire'[c]) => LastSent'
         /\ InHand' => NoneLate(wire'[c])
         /\ ~raced' => Ordered(wire'[c]) /\ Below(wire'[c], Ceiling')
<1>1. /\ OneLate(wire[c]) /\ Marked(wire[c]) /\ (HasLast(wire[c]) => LastSent)
      /\ InHand => NoneLate(wire[c])
      /\ ~raced => Ordered(wire[c]) /\ Below(wire[c], Ceiling)
  BY DEF StreamInv
<1>2. ~HasLast(wire[c]) => NoneLate(wire[c])
  BY DEF HasLast, NoneLate
<1>3. Ceiling \in Int /\ Ceiling' \in Int /\ \A j \in 1..Len(wire[c]) : wire[c][j].packet \in Int
  <2>1. wire[c] \in Seq(WireFrames) /\ fed \in Int /\ fed' \in Int
    BY VolcengineAssumption DEF BaseInv
  <2>2. \A j \in 1..Len(wire[c]) : wire[c][j].packet \in Int
    BY <2>1, FrameNumbers
  <2> QED BY <2>1, <2>2 DEF Ceiling
<1>4. Below(wire[c], Ceiling) /\ Ceiling <= Ceiling' => Below(wire[c], Ceiling')
  BY <1>3 DEF Below
<1> QED BY <1>1, <1>2, <1>4

\* Steps that write nothing.
LEMMA StreamsKept ==
  ASSUME BaseInv, BaseInv', StreamInv, UNCHANGED wire, raced => raced', LastSent => LastSent',
         InHand' => InHand \/ ~LastSent, ~raced' => Ceiling <= Ceiling'
  PROVE  StreamInv'
BY StreamKept DEF StreamInv

\* The frame that a caller writes.
LEMMA FrameWritten ==
  ASSUME BaseInv, CallInv, HeldInv, NEW k \in Callers, Writing(k), wire' # wire
  PROVE  \E frame \in WireFrames :
           /\ sockets[conn] = "up" /\ wire' = [wire EXCEPT ![conn] = Append(@, frame)]
           /\ frame.kind = "init" <=> frame.packet = 0
           /\ \/ frame.kind = "init" /\ (udp.step = "init" \/ mqtt.step = "init")
              \/ /\ frame.kind = "audio" /\ frame.packet = fed - 1
                 /\ udp.step = "send" /\ udp'.step = "read" /\ mqtt' = mqtt
              \/ /\ frame.kind = "last" /\ frame.packet = mqtt.sending
                 /\ mqtt.step = "send" /\ LastSent' /\ udp' = udp
<1>1. CASE /\ wire' = [wire EXCEPT ![conn] = Append(@, Frame("init", 0))] /\ sockets[conn] = "up"
           /\ udp.step = "init" \/ mqtt.step = "init"
  <2> DEFINE frame == Frame("init", 0)
  <2>1. frame \in WireFrames /\ frame.kind = "init" /\ frame.packet = 0
    BY DEF Frame, WireFrames
  <2>2. wire' = [wire EXCEPT ![conn] = Append(@, frame)]
    BY <1>1
  <2> HIDE DEF frame
  <2> QED BY <1>1, <2>1, <2>2
<1>2. CASE /\ wire' = [wire EXCEPT ![conn] = Append(@, Frame("audio", udp.sending))] /\ sockets[conn] = "up"
           /\ udp.step = "send" /\ udp'.step = "read" /\ mqtt' = mqtt
  <2> DEFINE frame == Frame("audio", udp.sending)
  <2>1. udp.sending = fed - 1 /\ fed > 1 /\ fed \in 0..MaxPackets
    BY <1>2 DEF BaseInv, HeldInv, Entering, Dialling, Sending
  <2>2. udp.sending \in Packets /\ udp.sending # 0
    BY <2>1, VolcengineAssumption DEF Packets
  <2>3. frame \in WireFrames /\ frame.kind = "audio" /\ frame.packet = udp.sending
    BY <2>2 DEF Frame, WireFrames
  <2>4. wire' = [wire EXCEPT ![conn] = Append(@, frame)]
    BY <1>2
  <2> HIDE DEF frame
  <2> QED BY <1>2, <2>1, <2>2, <2>3, <2>4
<1>3. CASE /\ wire' = [wire EXCEPT ![conn] = Append(@, Frame("last", mqtt.sending))] /\ sockets[conn] = "up"
           /\ mqtt.step = "send" /\ mqtt'.op = "flush" /\ mqtt'.step = "clear" /\ udp' = udp
  <2> DEFINE frame == Frame("last", mqtt.sending)
  <2>1. mqtt.sending \in Packets \cup {0} /\ mqtt.sending # 0
    BY <1>3, Records DEF HeldInv, CallRecords
  <2>2. frame \in WireFrames /\ frame.kind = "last" /\ frame.packet = mqtt.sending
    BY <2>1 DEF Frame, WireFrames
  <2>3. wire' = [wire EXCEPT ![conn] = Append(@, frame)]
    BY <1>3
  <2> HIDE DEF frame
  <2> QED BY <1>3, <2>1, <2>2, <2>3 DEF LastSent
<1>4. CASE k = "udp"
  BY <1>1, <1>2, <1>4, UdpWrites DEF RecordOf
<1>5. CASE k = "mqtt"
  BY <1>1, <1>3, <1>5, MqttWrites DEF RecordOf
<1> QED BY <1>4, <1>5, Records

LEMMA StreamInvStep ==
  ASSUME BaseInv, BaseInv', CallInv, HeldInv, DialInv, SoloInv, StreamInv, [Next]_vars
  PROVE  StreamInv'
<1> USE Records DEF NoRecord, RecordOf, Entering, Dialling, Sending, Flushing, Leaving, InHand, LastSent
<1>0. /\ registered \in BOOLEAN /\ raced \in BOOLEAN /\ raced' \in BOOLEAN /\ fed \in Nat
      /\ registered => ~raced /\ mqtt.op = "none" /\ mqtt.step = "idle"
  BY VolcengineAssumption DEF BaseInv, CallInv
<1>1. CASE UNCHANGED calm
  BY <1>0, <1>1, StreamsKept DEF calm, Ceiling, udp, mqtt
<1>2. CASE Feeding
  <2>1. UNCHANGED <<wire, raced>> /\ mqtt' = mqtt
    BY <1>2, FeedingEffect, CallersKeep
  <2>2. (InHand' => InHand \/ ~LastSent) /\ (~raced' => Ceiling <= Ceiling')
    BY <1>0, <1>2, <2>1, FeedingEffect DEF CallInv, HeldInv, Ceiling
  <2> QED BY <2>1, <2>2, StreamsKept
<1>3. CASE Stopping
  <2>1. UNCHANGED <<wire, fed>> /\ udp' = udp
    BY <1>3, StoppingEffect, CallersKeep
  <2>2. (raced => raced') /\ (LastSent => LastSent')
    BY <1>0, <1>3, StoppingEffect
  <2>3. ~raced' => Ceiling <= Ceiling'
    BY <1>0, <2>1, <2>2 DEF Ceiling
  <2> QED BY <2>1, <2>2, <2>3, StreamsKept
<1>4. ASSUME NEW k \in Callers, Connecting(k)
      PROVE  StreamInv'
  <2>1. UNCHANGED <<wire, fed, raced>> /\ (LastSent => LastSent') /\ (InHand' => InHand)
    BY <1>4, UdpConnects, MqttConnects
  <2>2. Ceiling <= Ceiling'
    BY <1>0, <2>1 DEF Ceiling
  <2> QED BY <2>1, <2>2, StreamsKept
<1>6. ASSUME NEW k \in Callers, Reading(k)
      PROVE  StreamInv'
  <2>1. UNCHANGED <<wire, fed, raced>> /\ (LastSent => LastSent') /\ (InHand' => InHand)
    BY <1>6, UdpReads, MqttReads
  <2>2. Ceiling <= Ceiling'
    BY <1>0, <2>1 DEF Ceiling
  <2> QED BY <2>1, <2>2, StreamsKept
<1>7. CASE Close \/ CloseForgets
  <2>1. UNCHANGED <<wire, fed, raced>> /\ (LastSent => LastSent') /\ (InHand' => InHand)
    BY <1>7, ClosingEffect, CallersKeep
  <2>2. Ceiling <= Ceiling'
    BY <1>0, <2>1 DEF Ceiling
  <2> QED BY <2>1, <2>2, StreamsKept
<1>8. CASE Resetting
  <2>1. UNCHANGED <<wire, fed>> /\ (raced => raced') /\ udp' = udp /\ mqtt' = mqtt
    BY <1>0, <1>8, ResettingEffect, CallersKeep DEF udp, mqtt
  <2>2. Ceiling <= Ceiling'
    BY <1>0, <2>1 DEF Ceiling
  <2> QED BY <2>1, <2>2, StreamsKept
<1>5. ASSUME NEW k \in Callers, Writing(k)
      PROVE  StreamInv'
  <2>1. UNCHANGED <<fed, raced, conn>> /\ (LastSent => LastSent') /\ (InHand' => InHand) /\ conn # 0
    BY <1>5, UdpWrites, MqttWrites
  <2>2. CASE UNCHANGED wire
    <3>1. Ceiling <= Ceiling'
      BY <1>0, <2>1 DEF Ceiling
    <3> QED BY <2>1, <2>2, <3>1, StreamsKept
  <2>3. CASE wire' # wire
    <3>1. PICK frame \in WireFrames :
            /\ sockets[conn] = "up" /\ wire' = [wire EXCEPT ![conn] = Append(@, frame)]
            /\ frame.kind = "init" <=> frame.packet = 0
            /\ \/ frame.kind = "init" /\ (udp.step = "init" \/ mqtt.step = "init")
               \/ /\ frame.kind = "audio" /\ frame.packet = fed - 1
                  /\ udp.step = "send" /\ udp'.step = "read" /\ mqtt' = mqtt
               \/ /\ frame.kind = "last" /\ frame.packet = mqtt.sending
                  /\ mqtt.step = "send" /\ LastSent' /\ udp' = udp
      BY <1>5, <2>3, FrameWritten
    <3>2. conn \in Conns /\ wire[conn] \in Seq(WireFrames) /\ wire'[conn] = Append(wire[conn], frame)
          /\ \A c \in Conns : c # conn => wire'[c] = wire[c]
      BY <2>1, <3>1, WireEffect DEF BaseInv
    <3>3. /\ OneLate(wire[conn]) /\ Marked(wire[conn]) /\ (HasLast(wire[conn]) => LastSent)
          /\ InHand => NoneLate(wire[conn])
          /\ ~raced => Ordered(wire[conn]) /\ Below(wire[conn], Ceiling)
      BY <3>2 DEF StreamInv
    <3>4. /\ OneLate(wire'[conn]) /\ Marked(wire'[conn]) /\ (HasLast(wire'[conn]) => LastSent')
          /\ InHand' => NoneLate(wire'[conn])
      <4>1. frame.kind = "audio" => InHand /\ ~InHand' /\ NoneLate(wire[conn])
        BY <3>1, <3>3
      <4>2. frame.kind = "last" => LastSent'
        BY <3>1
      <4> QED BY <2>1, <3>1, <3>2, <3>3, <4>1, <4>2, StreamGrows
    <3>5. ASSUME ~raced
          PROVE  Ordered(wire'[conn]) /\ Below(wire'[conn], Ceiling') /\ Ceiling <= Ceiling'
      <4>1. conn = 1
        BY <3>1, <3>5 DEF SoloInv
      <4>2. Ceiling \in Int /\ Ceiling' \in Int /\ Ceiling <= Ceiling'
        BY <1>0, <2>1 DEF Ceiling
      <4>3. frame.packet = 0 \/ frame.packet < Ceiling'
        BY <1>0, <2>1, <3>1, <3>5 DEF Ceiling, CallInv, HeldInv
      <4>4. Below(wire'[conn], Ceiling')
        BY <3>2, <3>3, <3>5, <4>2, <4>3, StreamGrows
      <4>5. ASSUME frame.kind = "init"
            PROVE  Ordered(wire'[conn])
        <5>1. wire[conn] = <<>>
          BY <3>1, <3>5, <4>1, <4>5 DEF SoloInv
        <5> QED BY <3>2, <3>3, <3>5, <4>5, <5>1, OrderGrows
      <4>6. ASSUME frame.kind # "init"
            PROVE  Ordered(wire'[conn])
        <5>1. \/ udp.step = "send" /\ frame.packet = fed - 1
              \/ mqtt.step = "send" /\ frame.packet = mqtt.sending
          BY <3>1, <4>6
        <5>2. udp.step = "send" => mqtt.op = "none" /\ mqtt.step = "idle" /\ fed > 1
          BY <1>0, <3>5 DEF CallInv, HeldInv
        <5>3. mqtt.step = "send" => udp.step = "idle" /\ mqtt.sending = fed /\ mqtt.sending # 0
          BY <1>0, <3>5 DEF CallInv, HeldInv
        <5>4. wire[conn] # <<>>
          BY <3>1, <3>5, <4>1, <5>1, <5>2, <5>3 DEF SoloInv
        <5>5. frame.packet = Ceiling /\ Ceiling > 0 /\ ~LastSent
          BY <1>0, <5>1, <5>2, <5>3 DEF Ceiling
        <5>6. \A j \in 1..Len(wire[conn]) : wire[conn][j].packet < frame.packet
          BY <3>2, <3>3, <3>5, <5>5, FrameNumbers DEF Below
        <5> QED BY <3>2, <3>3, <3>5, <4>6, <5>4, <5>5, <5>6, OrderGrows
      <4> QED BY <4>2, <4>4, <4>5, <4>6
    <3>6. ASSUME NEW c \in Conns
          PROVE  /\ OneLate(wire'[c]) /\ Marked(wire'[c])
                 /\ HasLast(wire'[c]) => LastSent'
                 /\ InHand' => NoneLate(wire'[c])
                 /\ ~raced' => Ordered(wire'[c]) /\ Below(wire'[c], Ceiling')
      <4>1. CASE c = conn
        BY <2>1, <3>4, <3>5, <4>1
      <4>2. CASE c # conn
        BY <2>1, <3>2, <3>5, <4>2, StreamKept
      <4> QED BY <4>1, <4>2
    <3> QED BY <3>6 DEF StreamInv
  <2> QED BY <2>2, <2>3
<1> QED BY <1>1, <1>2, <1>3, <1>4, <1>5, <1>6, <1>7, <1>8, Cases, Quiet

-----------------------------------------------------------------------------
(* The texts.                                                               *)

LEMMA TextNumbers ==
  ASSUME BaseInv
  PROVE  /\ spoken \in Nat /\ transcript \in Nat /\ udp.heard \in Nat /\ mqtt.heard \in Nat
         /\ responses \in Seq(Responses) /\ \A j \in 1..Len(responses) : responses[j].text \in Nat
         /\ \A answer \in Responses : answer.text \in Texts /\ answer.text \in Nat
<1>1. \A text \in Texts : text \in Nat
  BY VolcengineAssumption DEF Texts
<1>2. udp.heard \in Texts /\ mqtt.heard \in Texts
  BY Records DEF CallRecords
<1>3. transcript \in Texts /\ spoken \in Nat /\ responses \in Seq(Responses)
  BY VolcengineAssumption DEF BaseInv
<1>4. \A answer \in Responses : answer.text \in Texts
  BY DEF Responses
<1>5. \A j \in 1..Len(responses) : responses[j] \in Responses
  BY <1>3
<1> QED BY <1>1, <1>2, <1>3, <1>4, <1>5

\* A caller that stops has heard nothing; what it concluded with is the transcript.
LEMMA LineEnds ==
  ASSUME NEW text, NEW heard, NEW answers, InLine(text, heard, answers)
  PROVE  /\ InLine(text, 0, answers) /\ InLine(heard, 0, answers)
         /\ InLine(text, 0, <<>>) /\ InLine(text, heard, <<>>)
BY DEF InLine, InTurn

\* The caller takes the first answer.
LEMMA LineTakes ==
  ASSUME NEW text, NEW heard, NEW answers \in Seq(Responses), InLine(text, heard, answers), answers # <<>>
  PROVE  InLine(text, IF Head(answers).text # 0 THEN Head(answers).text ELSE heard, Tail(answers))
<1>1. /\ Head(answers) = answers[1] /\ Len(answers) \in Nat /\ Len(Tail(answers)) = Len(answers) - 1
      /\ 1 \in 1..Len(answers)
      /\ \A j \in 1..Len(Tail(answers)) : /\ j + 1 \in 1..Len(answers) /\ 1 < j + 1
                                          /\ Tail(answers)[j] = answers[j + 1]
      /\ \A i, j \in 1..Len(Tail(answers)) : i < j => i + 1 < j + 1
  OBVIOUS
<1> DEFINE rest == Tail(answers)
<1> HIDE DEF rest
<1>2. InTurn(text, answers[1].text) /\ InTurn(text, heard)
  BY <1>1 DEF InLine
<1>3. ASSUME NEW j \in 1..Len(Tail(answers))
      PROVE  /\ InTurn(text, Tail(answers)[j].text) /\ InTurn(heard, Tail(answers)[j].text)
             /\ InTurn(answers[1].text, Tail(answers)[j].text)
             /\ \A i \in 1..Len(Tail(answers)) : i < j => InTurn(Tail(answers)[i].text, Tail(answers)[j].text)
  BY <1>1, <1>3 DEF InLine
<1> QED BY <1>1, <1>2, <1>3 DEF InLine

\* The service says something that is not older than all that is at hand.
LEMMA LineGrows ==
  ASSUME NEW text, NEW heard, NEW answers \in Seq(Responses), InLine(text, heard, answers),
         NEW answer \in Responses, InTurn(text, answer.text), InTurn(heard, answer.text),
         \A j \in 1..Len(answers) : InTurn(answers[j].text, answer.text)
  PROVE  InLine(text, heard, Append(answers, answer))
<1> DEFINE all == Append(answers, answer)
<1>1. /\ Len(answers) \in Nat /\ Len(all) = Len(answers) + 1 /\ all[Len(answers) + 1] = answer
      /\ \A j \in 1..Len(answers) : all[j] = answers[j]
      /\ \A j \in 1..Len(all) : j \in 1..Len(answers) \/ j = Len(answers) + 1
  OBVIOUS
<1> HIDE DEF all
<1>2. ASSUME NEW j \in 1..Len(all)
      PROVE  /\ InTurn(text, all[j].text) /\ InTurn(heard, all[j].text)
             /\ \A i \in 1..Len(all) : i < j => InTurn(all[i].text, all[j].text)
  <2>1. CASE j \in 1..Len(answers)
    <3>1. \A i \in 1..Len(all) : i < j => i \in 1..Len(answers)
      BY <1>1, <2>1
    <3> QED BY <1>1, <2>1, <3>1 DEF InLine
  <2>2. CASE j = Len(answers) + 1
    <3>1. \A i \in 1..Len(all) : i < j => i \in 1..Len(answers)
      BY <1>1, <2>2
    <3> QED BY <1>1, <2>2, <3>1
  <2> QED BY <1>1, <2>1, <2>2
<1>3. InLine(text, heard, all)
  BY <1>2 DEF InLine
<1> QED BY <1>3 DEF all

\* Steps that neither hear nor issue anything.
LEMMA TextKept ==
  ASSUME BaseInv, TextInv, UNCHANGED <<transcript, spoken>>, raced => raced',
         responses' \in {responses, <<>>}, udp'.heard \in {udp.heard, 0}, mqtt'.heard \in {mqtt.heard, 0}
  PROVE  TextInv'
<1>1. /\ \A j \in 1..Len(responses') : responses'[j].text <= spoken'
      /\ transcript' <= spoken' /\ udp'.heard <= spoken' /\ mqtt'.heard <= spoken'
  BY TextNumbers DEF TextInv
<1>2. ASSUME ~raced'
      PROVE  InLine(transcript', udp'.heard, responses') /\ InLine(transcript', mqtt'.heard, responses')
  BY <1>2, LineEnds DEF TextInv
<1> QED BY <1>1, <1>2 DEF TextInv

LEMMA TextReceived ==
  ASSUME BaseInv, TextInv, NEW i \in Conns, PumpReceives(i)
  PROVE  TextInv'
<1>1. PICK frame \in Decoded :
        /\ spoken' = IF frame.text > spoken THEN frame.text ELSE spoken
        /\ responses' = Append(responses, frame) \/ UNCHANGED responses
  BY DEF PumpReceives
<1>2. UNCHANGED <<call, transcript, raced>> /\ frames < MaxFrames
  BY DEF PumpReceives, table
<1>3. UNCHANGED <<udp, mqtt>>
  BY <1>2 DEF udp, mqtt
<1>4. spoken \in 0..frames /\ frames \in 0..MaxFrames /\ MaxFrames \in Nat
  BY VolcengineAssumption DEF BaseInv
<1>5. frame.text \in {0, spoken, spoken + 1} /\ frame \in Responses
  <2>1. {0, spoken, spoken + 1} \subseteq Texts
    BY <1>2, <1>4 DEF Texts
  <2> QED BY <2>1 DEF Decoded, Responses
<1>6. spoken \in Nat /\ spoken' \in Nat /\ spoken <= spoken' /\ frame.text <= spoken'
  BY <1>1, <1>4, <1>5
<1>7. \A text \in Nat : text <= spoken => InTurn(text, frame.text) /\ text <= spoken'
  BY <1>4, <1>5, <1>6 DEF InTurn
<1>8. /\ \A j \in 1..Len(responses) : responses[j].text <= spoken'
      /\ transcript' <= spoken' /\ udp'.heard <= spoken' /\ mqtt'.heard <= spoken'
  BY <1>2, <1>3, <1>7, TextNumbers DEF TextInv
<1>9. CASE UNCHANGED responses
  BY <1>2, <1>3, <1>8, <1>9 DEF TextInv
<1>10. CASE responses' = Append(responses, frame)
  <2>1. /\ Len(responses) \in Nat /\ Len(responses') = Len(responses) + 1
        /\ responses'[Len(responses) + 1] = frame
        /\ \A j \in 1..Len(responses) : responses'[j] = responses[j]
        /\ \A j \in 1..Len(responses') : j \in 1..Len(responses) \/ j = Len(responses) + 1
    BY <1>5, <1>10, TextNumbers
  <2>2. \A j \in 1..Len(responses') : responses'[j].text <= spoken'
    BY <1>6, <1>8, <2>1
  <2>3. /\ InTurn(transcript, frame.text) /\ InTurn(udp.heard, frame.text) /\ InTurn(mqtt.heard, frame.text)
        /\ \A j \in 1..Len(responses) : InTurn(responses[j].text, frame.text)
    BY <1>7, TextNumbers DEF TextInv
  <2>4. ASSUME ~raced
        PROVE  InLine(transcript, udp.heard, responses') /\ InLine(transcript, mqtt.heard, responses')
    BY <1>5, <1>10, <2>3, <2>4, TextNumbers, LineGrows DEF TextInv
  <2> QED BY <1>2, <1>3, <1>8, <2>2, <2>4 DEF TextInv
<1> QED BY <1>1, <1>9, <1>10

\* What a caller that stops waiting makes of the transcript.
LEMMA IssuesText ==
  ASSUME NEW k, NEW heard, Issues(k, heard)
  PROVE  transcript' = transcript \/ (heard # 0 /\ transcript' = heard)
<1>1. CASE Silent
  BY <1>1 DEF Silent
<1>2. CASE NewText(heard) /\ Emit(heard, FALSE)
  BY <1>2 DEF NewText, Emit
<1>3. CASE \E text \in {heard, transcript} :
             (heard = 0 => text = transcript) /\ (heard # 0 => text = heard) /\ Emit(text, TRUE)
  BY <1>3 DEF Emit
<1> QED BY <1>1, <1>2, <1>3 DEF Issues

\* What a caller hears and leaves when it reads.
LEMMA TextRead ==
  ASSUME BaseInv, CallInv, TextInv, NEW k \in Callers, Reading(k)
  PROVE  /\ responses' = responses \/ (responses # <<>> /\ responses' = Tail(responses))
         /\ call'[k].heard <= spoken /\ transcript' <= spoken
         /\ ~raced => InLine(transcript', call'[k].heard, responses')
<1> DEFINE heard == IF Head(responses).text # 0 THEN Head(responses).text ELSE call[k].heard
<1>1. /\ InTurn(0, 0) /\ call[k].heard <= spoken /\ 0 <= spoken /\ transcript <= spoken
      /\ ~raced => InLine(transcript, call[k].heard, responses)
  BY Records, TextNumbers DEF TextInv, InTurn, udp, mqtt
<1>2. responses # <<>> => heard <= spoken
  <2>1. responses # <<>> => Head(responses) = responses[1] /\ 1 \in 1..Len(responses)
    BY TextNumbers
  <2> QED BY <1>1, <2>1 DEF TextInv
<1>3. ~raced /\ responses # <<>> => InLine(transcript, heard, Tail(responses))
  BY <1>1, TextNumbers, LineTakes
<1>4. Ended(k) => call'[k].heard = 0
  BY Records DEF Ended, NoRecord, RecordOf
<1> DEFINE outcome ==
      \/ responses # <<>> /\ responses' = Tail(responses) /\ transcript' = transcript /\ call'[k].heard = heard
      \/ /\ responses # <<>> /\ responses' = Tail(responses) /\ call'[k].heard = 0
         /\ transcript' = transcript \/ transcript' = heard
      \/ responses' = responses /\ call'[k].heard = 0 /\ (transcript' = transcript \/ transcript' = call[k].heard)
<1>5. outcome
  <2>1. CASE /\ responses # <<>> /\ responses' = Tail(responses) /\ transcript' = transcript
             /\ call'[k] = RecordOf(call[k].op, "read", call[k].sending, heard)
    BY <2>1 DEF RecordOf
  <2>2. CASE responses # <<>> /\ responses' = Tail(responses) /\ Ended(k) /\ Issues(k, heard)
    BY <1>4, <2>2, IssuesText
  <2>3. CASE UNCHANGED responses /\ Ended(k) /\ Issues(k, call[k].heard)
    BY <1>4, <2>3, IssuesText
  <2>4. CASE UNCHANGED <<responses, transcript>> /\ Ended(k)
    BY <1>4, <2>4
  <2> QED BY <2>1, <2>2, <2>3, <2>4, ReadingEffect
<1> HIDE DEF heard
<1> QED BY <1>1, <1>2, <1>3, <1>5, LineEnds

\* Unless the session was taken out under a Consume only one caller is in it.
LEMMA OneCaller ==
  ASSUME BaseInv, CallInv, ~raced
  PROVE  /\ udp.step # "idle" => mqtt = NoRecord
         /\ mqtt.step # "idle" => udp = NoRecord
BY Records DEF CallInv, BaseInv, NoRecord, RecordOf

LEMMA TextInvStep ==
  ASSUME BaseInv, CallInv, TextInv, [Next]_vars
  PROVE  TextInv'
<1> USE Records DEF NoRecord, RecordOf
<1>0. registered \in BOOLEAN /\ raced \in BOOLEAN /\ (registered => ~raced)
  BY DEF BaseInv, CallInv
<1>1. CASE UNCHANGED vars \/ Crashing \/ \E i \in Conns : PumpMoves(i)
  <2>1. UNCHANGED <<udp, mqtt, transcript, raced>>
    BY <1>1, Quiet DEF calm, udp, mqtt
  <2>2. CASE UNCHANGED <<responses, spoken>>
    BY <2>1, <2>2, TextKept
  <2>3. \/ UNCHANGED <<responses, spoken>>
        \/ \E i \in Conns : PumpReceives(i)
    BY <1>1, CrashKeeps DEF vars, session, network, PumpMoves, PumpLoop, PumpFails, PumpReadClosed
  <2> QED BY <2>2, <2>3, TextReceived
<1>2. CASE Feeding
  BY <1>2, FeedingEffect, CallersKeep, TextKept
<1>3. CASE Stopping
  BY <1>0, <1>3, StoppingEffect, CallersKeep, TextKept
<1>4. ASSUME NEW k \in Callers, Connecting(k)
      PROVE  TextInv'
  <2>1. responses' \in {responses, <<>>}
    BY <1>4 DEF Connecting, EnsureConnected, DialFails, Dial, session
  <2> QED BY <1>4, <2>1, UdpConnects, MqttConnects, TextKept
<1>5. ASSUME NEW k \in Callers, Writing(k)
      PROVE  TextInv'
  BY <1>5, UdpWrites, MqttWrites, TextKept
<1>6. ASSUME NEW k \in Callers, Reading(k)
      PROVE  TextInv'
  <2>1. UNCHANGED <<spoken, raced>>
    BY <1>6, CallersKeep
  <2>2. \A j \in 1..Len(responses') : responses'[j].text <= spoken
    <3>1. CASE responses' = responses
      BY <3>1 DEF TextInv
    <3>2. CASE responses # <<>> /\ responses' = Tail(responses)
      <4>1. \A j \in 1..Len(responses') : j + 1 \in 1..Len(responses) /\ responses'[j] = responses[j + 1]
        BY <3>2, TextNumbers
      <4> QED BY <4>1 DEF TextInv
    <3> QED BY <1>6, <3>1, <3>2, TextRead
  <2>3. CASE k = "udp"
    <3>1. mqtt' = mqtt /\ udp.step # "idle"
      BY <1>6, <2>3, UdpReads
    <3>2. udp'.heard <= spoken /\ transcript' <= spoken /\ (~raced => InLine(transcript', udp'.heard, responses'))
      BY <1>6, <2>3, TextRead DEF udp
    <3>3. ~raced => mqtt.heard = 0
      BY <3>1, OneCaller
    <3> QED BY <2>1, <2>2, <3>1, <3>2, <3>3, LineEnds DEF TextInv
  <2>4. CASE k = "mqtt"
    <3>1. udp' = udp /\ mqtt.step # "idle"
      BY <1>6, <2>4, MqttReads
    <3>2. mqtt'.heard <= spoken /\ transcript' <= spoken /\ (~raced => InLine(transcript', mqtt'.heard, responses'))
      BY <1>6, <2>4, TextRead DEF mqtt
    <3>3. ~raced => udp.heard = 0
      BY <3>1, OneCaller
    <3> QED BY <2>1, <2>2, <3>1, <3>2, <3>3, LineEnds DEF TextInv
  <2> QED BY <2>3, <2>4
<1>7. CASE Close \/ CloseForgets
  BY <1>7, ClosingEffect, CallersKeep, TextKept
<1>8. CASE Resetting
  BY <1>0, <1>8, ResettingEffect, CallersKeep, TextKept DEF udp, mqtt
<1> QED BY <1>1, <1>2, <1>3, <1>4, <1>5, <1>6, <1>7, <1>8, Cases

-----------------------------------------------------------------------------
(* What is issued.                                                          *)

\* Steps that issue nothing.
LEMMA IssuedKept ==
  ASSUME BaseInv, CallInv, IssuedInv, UNCHANGED <<transcript, issued>>, raced => raced', raced \in BOOLEAN,
         mqtt.op = "flush" /\ mqtt.step \in Leaving => mqtt'.op = "flush" /\ mqtt'.step \in Leaving,
         udp'.step # "idle" => udp.step # "idle" \/ mqtt.step = "idle"
  PROVE  IssuedInv'
<1>1. IssuedInOrder'
  BY DEF IssuedInv, IssuedInOrder
<1>2. ~raced' => IF issued' = <<>> THEN transcript' = 0 ELSE issued'[Len(issued')].text = transcript'
  BY DEF IssuedInv
<1>3. \A j \in 1..Len(issued') :
        issued'[j].final => /\ mqtt'.op = "flush" /\ mqtt'.step \in Leaving
                            /\ udp'.step # "idle" => j = Len(issued')
  BY DEF IssuedInv, Leaving
<1> QED BY <1>1, <1>2, <1>3 DEF IssuedInv

\* One more payload: a final ends the list, a delta at most follows it.
LEMMA IssuedGrows ==
  ASSUME BaseInv, IssuedInv, NEW text \in Texts, NEW final \in BOOLEAN, Emit(text, final),
         UNCHANGED raced, final \/ udp'.step = "idle",
         mqtt.op = "flush" /\ mqtt.step \in Leaving => UNCHANGED mqtt,
         \A j \in 1..Len(issued) : issued[j].final => j = Len(issued) /\ ~final /\ raced,
         ~raced => IF final THEN text >= transcript ELSE text > transcript,
         final => mqtt'.op = "flush" /\ mqtt'.step \in Leaving
  PROVE  IssuedInv'
<1> DEFINE new == [text |-> text, final |-> final]
<1>1. issued \in Seq(Responses) /\ new \in Responses /\ new.text = text /\ new.final = final /\ raced \in BOOLEAN
  BY DEF BaseInv, Responses
<1>2. issued' = Append(issued, new) /\ transcript' = text
  BY DEF Emit
<1> HIDE DEF new
<1>3. /\ Len(issued) \in Nat /\ Len(issued') = Len(issued) + 1 /\ issued'[Len(issued) + 1] = new
      /\ \A j \in 1..Len(issued) : issued'[j] = issued[j]
      /\ issued' # <<>>
  BY <1>1, <1>2
<1>4. issued'[Len(issued')].text = transcript'
  BY <1>1, <1>2, <1>3
<1>5. \A j \in 1..Len(issued') : \/ j \in 1..Len(issued) /\ issued'[j] = issued[j]
                                 \/ j = Len(issued') /\ issued'[j] = new
  BY <1>3
<1>6. \A j \in 1..Len(issued') : issued'[j].final => j >= Len(issued') - 1
  BY <1>3, <1>5
<1>7. \A j \in 1..Len(issued') :
        issued'[j].final => /\ mqtt'.op = "flush" /\ mqtt'.step \in Leaving
                            /\ udp'.step # "idle" => j = Len(issued')
  BY <1>1, <1>3, <1>5 DEF IssuedInv
<1>8. ASSUME ~raced, NEW j \in 1..Len(issued')
      PROVE  /\ issued'[j].final => j = Len(issued')
             /\ j > 1 => IF issued'[j].final THEN issued'[j].text >= issued'[j - 1].text
                                             ELSE issued'[j].text > issued'[j - 1].text
  <2>1. issued'[j].final => j = Len(issued')
    BY <1>5, <1>8
  <2>2. ASSUME j > 1
        PROVE  IF issued'[j].final THEN issued'[j].text >= issued'[j - 1].text
                                   ELSE issued'[j].text > issued'[j - 1].text
    <3>1. j - 1 \in 1..Len(issued) /\ issued'[j - 1] = issued[j - 1]
      BY <1>3, <2>2
    <3>2. CASE j \in 1..Len(issued) /\ issued'[j] = issued[j]
      BY <1>8, <2>2, <3>1, <3>2 DEF IssuedInv, IssuedInOrder
    <3>3. CASE j = Len(issued') /\ issued'[j] = new
      <4>1. j - 1 = Len(issued) /\ issued # <<>>
        BY <1>3, <3>1, <3>3
      <4>2. issued[j - 1].text = transcript
        BY <1>8, <4>1 DEF IssuedInv
      <4> QED BY <1>1, <1>8, <3>1, <3>3, <4>2
    <3> QED BY <1>5, <3>2, <3>3
  <2> QED BY <2>1, <2>2
<1> QED BY <1>3, <1>4, <1>6, <1>7, <1>8 DEF IssuedInv, IssuedInOrder

\* A caller concludes with a text that it had at hand.
LEMMA Heard ==
  ASSUME BaseInv, TextInv, NEW k \in Callers, Reading(k)
  PROVE  \/ UNCHANGED <<transcript, issued>>
         \/ \E heard \in Texts : (~raced => InTurn(transcript, heard)) /\ Issues(k, heard) /\ Ended(k)
<1>1. call[k].heard \in Texts /\ (~raced => InTurn(transcript, call[k].heard))
  BY Records DEF CallRecords, TextInv, InLine, udp, mqtt
<1> DEFINE first == IF Head(responses).text # 0 THEN Head(responses).text ELSE call[k].heard
<1>2. responses # <<>> => first \in Texts /\ (~raced => InTurn(transcript, first))
  <2>1. responses # <<>> => Head(responses) = responses[1] /\ 1 \in 1..Len(responses) /\ responses[1] \in Responses
    BY TextNumbers
  <2>2. responses # <<>> => Head(responses).text \in Texts
    BY <2>1, TextNumbers
  <2>3. ~raced /\ responses # <<>> => InTurn(transcript, Head(responses).text)
    BY <2>1 DEF TextInv, InLine
  <2> QED BY <1>1, <2>2, <2>3
<1> HIDE DEF first
<1>3. \/ UNCHANGED <<transcript, issued>>
      \/ responses # <<>> /\ Issues(k, first) /\ Ended(k)
      \/ Issues(k, call[k].heard) /\ Ended(k)
  BY ReadingEffect DEF first
<1> QED BY <1>1, <1>2, <1>3

LEMMA IssuedInvStep ==
  ASSUME BaseInv, CallInv, TextInv, IssuedInv, [Next]_vars
  PROVE  IssuedInv'
<1> USE Records DEF NoRecord, RecordOf, Leaving
<1>0. registered \in BOOLEAN /\ raced \in BOOLEAN /\ (registered => ~raced /\ mqtt.step = "idle")
  BY DEF BaseInv, CallInv
<1>1. CASE UNCHANGED calm
  <2>1. UNCHANGED <<transcript, issued, raced, udp, mqtt>>
    BY <1>1 DEF calm, udp, mqtt
  <2> QED BY <1>0, <2>1, IssuedKept
<1>2. CASE Feeding
  BY <1>0, <1>2, FeedingEffect, CallersKeep, IssuedKept
<1>3. CASE Stopping
  BY <1>0, <1>3, StoppingEffect, CallersKeep, IssuedKept
<1>4. ASSUME NEW k \in Callers, Connecting(k)
      PROVE  IssuedInv'
  BY <1>0, <1>4, UdpConnects, MqttConnects, IssuedKept
<1>5. ASSUME NEW k \in Callers, Writing(k)
      PROVE  IssuedInv'
  BY <1>0, <1>5, UdpWrites, MqttWrites, IssuedKept
<1>6. ASSUME NEW k \in Callers, Reading(k)
      PROVE  IssuedInv'
  <2>1. /\ UNCHANGED raced /\ (k = "udp" \/ k = "mqtt")
        /\ k = "udp" => mqtt' = mqtt /\ udp.op = "consume" /\ udp.step = "read"
        /\ k = "mqtt" => /\ udp' = udp /\ mqtt.op \in {"flush", "smoke"} /\ mqtt.step = "read"
                         /\ mqtt'.op = mqtt.op
    BY <1>6, UdpReads, MqttReads
  <2>2. CASE UNCHANGED <<transcript, issued>>
    BY <1>0, <1>6, <2>1, <2>2, IssuedKept
  <2>3. ASSUME NEW heard \in Texts, ~raced => InTurn(transcript, heard), Issues(k, heard), Ended(k)
        PROVE  IssuedInv'
    <3>1. CASE Silent
      BY <2>2, <3>1 DEF Silent
    <3>2. CASE call[k].op = "consume" /\ NewText(heard) /\ Emit(heard, FALSE)
      <4>1. k = "udp" /\ udp'.step = "idle" /\ mqtt' = mqtt
        BY <2>1, <2>3, <3>2 DEF Ended, mqtt, udp
      <4>2. ~raced => heard > transcript
        BY <2>3, <3>2, VolcengineAssumption DEF BaseInv, NewText, InTurn, Texts
      <4>3. \A j \in 1..Len(issued) : issued[j].final => j = Len(issued) /\ raced
        BY <1>0, <2>1, <4>1, OneCaller DEF IssuedInv
      <4> QED BY <2>1, <3>2, <4>1, <4>2, <4>3, IssuedGrows
    <3>3. ASSUME call[k].op = "flush", NEW text \in {heard, transcript}, heard = 0 => text = transcript,
                 heard # 0 => text = heard, Emit(text, TRUE)
          PROVE  IssuedInv'
      <4>1. k = "mqtt" /\ mqtt'.op = "flush" /\ mqtt'.step = "close"
        BY <2>1, <2>3, <3>3 DEF Ended, mqtt, udp
      <4>2. text \in Texts /\ (~raced => text >= transcript)
        BY <2>3, <3>3, VolcengineAssumption DEF BaseInv, InTurn, Texts
      <4>3. \A j \in 1..Len(issued) : ~issued[j].final
        BY <2>1, <4>1 DEF IssuedInv
      <4> QED BY <2>1, <3>3, <4>1, <4>2, <4>3, IssuedGrows
    <3> QED BY <2>3, <3>1, <3>2, <3>3 DEF Issues
  <2> QED BY <1>6, <2>2, <2>3, Heard
<1>7. CASE Close \/ CloseForgets
  BY <1>0, <1>7, ClosingEffect, CallersKeep, IssuedKept
<1>8. CASE Resetting
  BY <1>0, <1>8, ResettingEffect, CallersKeep, IssuedKept DEF udp, mqtt
<1> QED BY <1>1, <1>2, <1>3, <1>4, <1>5, <1>6, <1>7, <1>8, Cases, Quiet

-----------------------------------------------------------------------------
(* Types.                                                                   *)

LEMMA CallTyped ==
  ASSUME BaseInv, [Next]_vars
  PROVE  call' \in [Callers -> CallRecords]
<1>1. call \in [Callers -> CallRecords] /\ pending \in Packets \cup {0} /\ 0 \in Texts
  BY VolcengineAssumption DEF BaseInv, Packets, Texts
<1> DEFINE AllSteps == {"idle", "enter", "take", "store", "connect", "dial", "init", "last",
                        "send", "clear", "read", "close", "forget", "done"}
<1>2. \A k \in Callers, r \in CallRecords : Becomes(k, r) => call' \in [Callers -> CallRecords]
  BY <1>1 DEF Becomes
<1>3. \A k \in Callers, step \in AllSteps : Goto(k, step) => call' \in [Callers -> CallRecords]
  BY <1>1 DEF Goto, CallRecords
<1>4. \A k \in Callers, packet \in Packets \cup {0}, step \in AllSteps :
        TakeUp(k, packet, step) => call' \in [Callers -> CallRecords]
  <2>1. ASSUME NEW k \in Callers, NEW packet \in Packets \cup {0}, NEW step \in AllSteps, TakeUp(k, packet, step)
        PROVE  call' \in [Callers -> CallRecords]
    <3>1. [call[k] EXCEPT !.sending = packet, !.step = step] \in CallRecords
      BY <1>1 DEF CallRecords
    <3>2. call' = [call EXCEPT ![k] = [call[k] EXCEPT !.sending = packet, !.step = step]]
      BY <1>1, <2>1 DEF TakeUp, CallRecords
    <3> QED BY <1>1, <3>1, <3>2
  <2> QED BY <2>1
<1>5. /\ NoCall \in CallRecords /\ Calling("consume", "enter") \in CallRecords
      /\ Calling("flush", "enter") \in CallRecords /\ Calling("smoke", "connect") \in CallRecords
      /\ \A k \in Callers : AfterCall(k) \in CallRecords
  <2>1. /\ \A op \in {"none", "consume", "flush", "smoke"}, step \in AllSteps : Calling(op, step) \in CallRecords
        /\ \A k \in Callers : call[k].op \in {"none", "consume", "flush", "smoke"}
    BY <1>1 DEF Calling, CallRecords
  <2> QED BY <2>1 DEF NoCall, AfterCall
<1>6. \A k \in Callers : Fail(k) => call' \in [Callers -> CallRecords]
  BY <1>2, <1>5 DEF Fail
<1>7. \A k \in Callers : \A heard : Conclude(k, heard) => call' \in [Callers -> CallRecords]
  BY <1>2, <1>5 DEF Conclude
<1>8. \A k \in Callers, heard \in Texts :
        call' = [call EXCEPT ![k].heard = heard] => call' \in [Callers -> CallRecords]
  BY <1>1 DEF CallRecords
<1>9. "udp" \in Callers /\ "mqtt" \in Callers
  BY DEF Callers
<1> HIDE DEF AllSteps
<1>10. {"enter", "take", "store", "connect", "dial", "init", "last", "send", "clear", "read", "forget", "done",
        "close"} \subseteq AllSteps
  BY DEF AllSteps
<1>11. CASE UNCHANGED calm
  BY <1>1, <1>11 DEF calm
<1>12. CASE Feeding
  BY <1>1, <1>2, <1>3, <1>4, <1>5, <1>9, <1>10, <1>12
     DEF Feeding, Consume, EnterConsume, TakePending, StorePending, ToSend
<1>13. CASE Stopping
  BY <1>1, <1>2, <1>3, <1>4, <1>5, <1>9, <1>10, <1>13 DEF Stopping, Flush, EnterFlush, SmokeTest, TakeLast, ClearPending
<1>14. ASSUME NEW k \in Callers, Connecting(k)
       PROVE  call' \in [Callers -> CallRecords]
  BY <1>3, <1>6, <1>10, <1>14, ConnectedStep DEF Connecting, EnsureConnected, DialFails, DialError, Dial
<1>15. ASSUME NEW k \in Callers, Writing(k)
       PROVE  call' \in [Callers -> CallRecords]
  <2>1. 0 \in Packets \cup {0}
    OBVIOUS
  <2> QED BY <1>3, <1>4, <1>6, <1>10, <1>15, <2>1, ConnectedStep
         DEF Writing, WriteFails, SendInitRequest, SendAudioPacket
<1>16. ASSUME NEW k \in Callers, Reading(k)
       PROVE  call' \in [Callers -> CallRecords]
  <2>1. responses # <<>> => Head(responses) = responses[1] /\ 1 \in 1..Len(responses) /\ responses[1] \in Responses
    BY TextNumbers
  <2>2. call[k].heard \in Texts /\ (responses # <<>> => Head(responses).text \in Texts)
    BY <1>1, <2>1, TextNumbers DEF CallRecords
  <2> QED BY <1>6, <1>7, <1>8, <1>16, <2>2 DEF Reading, TakeResponse, TakeError, Timeout
<1>17. CASE Close \/ CloseForgets
  BY <1>3, <1>9, <1>10, <1>17 DEF Close, CloseForgets
<1>18. CASE Resetting
  BY <1>1, <1>18, CallersKeep
<1> QED BY <1>11, <1>12, <1>13, <1>14, <1>15, <1>16, <1>17, <1>18, Cases, Quiet

LEMMA PumpTyped ==
  ASSUME BaseInv, CallInv, HeldInv, DialInv, [Next]_vars
  PROVE  /\ pump' \in [Conns -> [stage : {"none", "loop", "read", "ended"}, on : Conns \cup {0}]]
         /\ responses' \in Seq(Responses) /\ Len(responses') <= Capacity
         /\ readErr' \in {"none", "closed", "error"}
         /\ frames' \in 0..MaxFrames /\ spoken' \in 0..frames'
<1> DEFINE Records1 == [stage : {"none", "loop", "read", "ended"}, on : Conns \cup {0}]
<1>1. /\ pump \in [Conns -> Records1] /\ conn \in Conns \cup {0}
      /\ responses \in Seq(Responses) /\ Len(responses) <= Capacity /\ Capacity \in Nat
      /\ readErr \in {"none", "closed", "error"}
      /\ frames \in 0..MaxFrames /\ spoken \in 0..frames /\ MaxFrames \in Nat
  BY VolcengineAssumption DEF BaseInv
<1>2. CASE UNCHANGED <<pump, responses, readErr, frames, spoken>>
  BY <1>1, <1>2
<1>3. ASSUME NEW i \in Conns, PumpMoves(i), ~PumpReceives(i)
      PROVE  /\ pump' \in [Conns -> Records1] /\ UNCHANGED <<responses, frames, spoken>>
             /\ readErr' \in {"none", "closed", "error"}
  BY <1>1, <1>3 DEF PumpMoves, PumpLoop, PumpFails, PumpReadClosed, PumpTo, PutError, session, network
<1>4. ASSUME NEW i \in Conns, PumpReceives(i)
      PROVE  /\ pump' \in [Conns -> Records1]
             /\ responses' \in Seq(Responses) /\ Len(responses') <= Capacity
             /\ readErr' \in {"none", "closed", "error"}
             /\ frames' \in 0..MaxFrames /\ spoken' \in 0..frames'
  <2>1. PICK frame \in Decoded :
          /\ spoken' = IF frame.text > spoken THEN frame.text ELSE spoken
          /\ IF HasRoom
             THEN /\ responses' = Append(responses, frame)
                  /\ PumpTo(i, "loop", 0) /\ UNCHANGED readErr
             ELSE PutError("error") /\ PumpTo(i, "ended", 0) /\ UNCHANGED responses
    BY <1>4 DEF PumpReceives
  <2>2. frames < MaxFrames /\ frames' = frames + 1
    BY <1>4 DEF PumpReceives
  <2>3. frame.text \in {0, spoken, spoken + 1} /\ frame \in Responses
    <3>1. {0, spoken, spoken + 1} \subseteq Texts
      BY <1>1, <2>2 DEF Texts
    <3> QED BY <3>1 DEF Decoded, Responses
  <2>4. frames' \in 0..MaxFrames /\ spoken' \in 0..frames'
    BY <1>1, <2>1, <2>2, <2>3
  <2>5. pump' \in [Conns -> Records1] /\ readErr' \in {"none", "closed", "error"}
    BY <1>1, <2>1 DEF PumpTo, PutError
  <2>6. responses' \in Seq(Responses) /\ Len(responses') <= Capacity
    <3>1. CASE HasRoom
      <4>1. responses' = Append(responses, frame) /\ Len(responses) < Capacity
        BY <2>1, <3>1 DEF HasRoom
      <4> HIDE DEF Records1
      <4> QED BY <1>1, <2>3, <4>1
    <3>2. CASE ~HasRoom
      BY <1>1, <2>1, <3>2
    <3> QED BY <3>1, <3>2
  <2> QED BY <2>4, <2>5, <2>6
<1>5. ASSUME NEW k \in Callers, Connecting(k)
      PROVE  /\ pump' \in [Conns -> Records1] /\ UNCHANGED <<frames, spoken>>
             /\ responses' \in Seq(Responses) /\ Len(responses') <= Capacity
             /\ readErr' \in {"none", "closed", "error"}
  <2>1. CASE UNCHANGED <<pump, responses, readErr>>
    BY <1>1, <1>5, <2>1, CallersKeep
  <2>2. CASE Dial(k)
    <3>1. responses' = <<>> /\ readErr' = "none"
      BY <2>2 DEF Dial
    <3>2. pump' \in [Conns -> Records1]
      BY <1>1, <2>2 DEF Dial
    <3>3. <<>> \in Seq(Responses) /\ Len(<<>>) = 0
      OBVIOUS
    <3> QED BY <1>1, <1>5, <3>1, <3>2, <3>3, CallersKeep
  <2> QED BY <1>5, <2>1, <2>2, ConnectingEffect
<1>6. ASSUME NEW k \in Callers, Reading(k)
      PROVE  /\ UNCHANGED <<pump, frames, spoken>>
             /\ responses' \in Seq(Responses) /\ Len(responses') <= Capacity
             /\ readErr' \in {"none", "closed", "error"}
  <2>1. readErr' \in {readErr, "none"} /\ (responses' = responses \/ (responses # <<>> /\ responses' = Tail(responses)))
    BY <1>6, ReadingEffect
  <2>2. responses # <<>> => Tail(responses) \in Seq(Responses) /\ Len(Tail(responses)) <= Capacity
    BY <1>1
  <2> QED BY <1>1, <1>6, <2>1, <2>2, CallersKeep
<1> HIDE DEF Records1
<1>7. \/ UNCHANGED <<pump, responses, readErr, frames, spoken>>
      \/ \E i \in Conns : PumpMoves(i)
      \/ \E k \in Callers : Connecting(k) \/ Reading(k)
  <2>1. UNCHANGED vars => UNCHANGED <<pump, responses, readErr, frames, spoken>>
    BY DEF vars, session, network
  <2> QED BY <2>1, CrashKeeps, CallersKeep, Cases
<1> QED BY <1>1, <1>2, <1>3, <1>4, <1>5, <1>6, <1>7 DEF Records1

LEMMA NetworkTyped ==
  ASSUME BaseInv, CallInv, HeldInv, DialInv, [Next]_vars
  PROVE  /\ conn' \in Conns \cup {0}
         /\ sockets' \in [Conns -> {"none", "up", "broken", "closed"}]
         /\ wire' \in [Conns -> Seq(WireFrames)]
<1>1. /\ conn \in Conns \cup {0} /\ 0 \in Conns \cup {0}
      /\ sockets \in [Conns -> {"none", "up", "broken", "closed"}] /\ wire \in [Conns -> Seq(WireFrames)]
  BY DEF BaseInv
<1>2. CASE UNCHANGED <<conn, sockets, wire>>
  BY <1>1, <1>2
<1>3. ASSUME NEW k \in Callers, Connecting(k)
      PROVE  /\ conn' \in Conns \cup {0} /\ sockets' \in [Conns -> {"none", "up", "broken", "closed"}]
             /\ UNCHANGED wire
  BY <1>1, <1>3, UdpConnects, MqttConnects, Records
<1>4. ASSUME NEW k \in Callers, Writing(k)
      PROVE  /\ UNCHANGED conn /\ sockets' \in [Conns -> {"none", "up", "broken", "closed"}]
             /\ wire' \in [Conns -> Seq(WireFrames)]
  <2>1. UNCHANGED conn /\ conn \in Conns
    BY <1>1, <1>4, CallersKeep, WritingEffect
  <2>2. sockets' \in [Conns -> {"none", "up", "broken", "closed"}]
    BY <1>1, <1>4, <2>1, WritingEffect
  <2>3. CASE UNCHANGED wire
    BY <1>1, <2>1, <2>2, <2>3
  <2>4. CASE wire' # wire
    <3>1. PICK frame \in WireFrames : wire' = [wire EXCEPT ![conn] = Append(@, frame)]
      BY <1>4, <2>4, FrameWritten
    <3>2. Append(wire[conn], frame) \in Seq(WireFrames)
      BY <1>1, <2>1, <3>1
    <3>3. wire' = [wire EXCEPT ![conn] = Append(wire[conn], frame)]
      BY <3>1
    <3> QED BY <1>1, <2>1, <2>2, <3>2, <3>3
  <2> QED BY <2>3, <2>4
<1>5. CASE Close \/ CloseForgets
  BY <1>1, <1>5, ClosingEffect, CallersKeep DEF CloseSocket
<1>6. CASE Resetting
  BY <1>1, <1>6, ResettingEffect, CallersKeep DEF CloseSocket
<1>7. \/ UNCHANGED <<conn, sockets, wire>> \/ Close \/ CloseForgets \/ Resetting
      \/ \E k \in Callers : Connecting(k) \/ Writing(k)
  BY Quiet, CallersKeep, Cases DEF calm
<1> QED BY <1>1, <1>2, <1>3, <1>4, <1>5, <1>6, <1>7

LEMMA SessionTyped ==
  ASSUME BaseInv, CallInv, HeldInv, TextInv, [Next]_vars
  PROVE  /\ pending' \in 0..MaxPackets /\ fed' \in 0..MaxPackets /\ lost' \subseteq Packets
         /\ transcript' \in Texts /\ issued' \in Seq(Responses)
         /\ registered' \in BOOLEAN /\ raced' \in BOOLEAN /\ closer' \in {"none", "forget", "done"}
         /\ crashed' \in {"no", "call", "pump", "race"}
<1>1. /\ pending \in 0..MaxPackets /\ fed \in 0..MaxPackets /\ lost \subseteq Packets /\ MaxPackets \in Nat
      /\ transcript \in Texts /\ issued \in Seq(Responses)
      /\ registered \in BOOLEAN /\ raced \in BOOLEAN /\ closer \in {"none", "forget", "done"}
      /\ crashed \in {"no", "call", "pump", "race"}
  BY VolcengineAssumption DEF BaseInv
<1>2. pending' \in 0..MaxPackets /\ fed' \in 0..MaxPackets
  <2>1. \/ UNCHANGED <<pending, fed>> \/ Feeding \/ Stopping
    BY Quiet, CallersKeep, Cases DEF calm
  <2>2. Feeding => pending' \in 0..MaxPackets /\ fed' \in 0..MaxPackets
    BY <1>1, FeedingEffect
  <2>3. Stopping => pending' \in 0..MaxPackets /\ fed' \in 0..MaxPackets
    BY <1>1, StoppingEffect, CallersKeep
  <2> QED BY <1>1, <2>1, <2>2, <2>3
<1>3. lost' \subseteq Packets
  <2>1. \A k \in Callers : Abandoned(k) \subseteq Packets
    BY <1>1, Records DEF Abandoned, CallRecords, Packets, BaseInv
  <2>2. UNCHANGED lost \/ \E k \in Callers : lost' = lost \cup Abandoned(k)
    BY Quiet, CallersKeep, Cases, ConnectingEffect, WritingEffect, ReadingEffect DEF calm
  <2> QED BY <1>1, <2>1, <2>2
<1>4. transcript' \in Texts /\ issued' \in Seq(Responses)
  <2>1. UNCHANGED <<transcript, issued>> \/ \E k \in Callers : Reading(k)
    BY Quiet, CallersKeep, Cases DEF calm
  <2>2. \A text \in Texts, final \in BOOLEAN : Emit(text, final) => transcript' \in Texts /\ issued' \in Seq(Responses)
    BY <1>1 DEF Emit, Responses
  <2>3. \A k \in Callers, heard \in Texts : Issues(k, heard) => transcript' \in Texts /\ issued' \in Seq(Responses)
    BY <1>1, <2>2 DEF Issues, Silent
  <2> QED BY <1>1, <2>1, <2>3, Heard
<1>5. registered' \in BOOLEAN /\ raced' \in BOOLEAN /\ closer' \in {"none", "forget", "done"}
  <2>1. UNCHANGED <<registered, raced, closer>> \/ Stopping \/ Resetting
    BY Quiet, CallersKeep, Cases DEF calm
  <2>2. Stopping => registered' \in BOOLEAN /\ raced' \in BOOLEAN /\ UNCHANGED closer
    BY <1>1, CallersKeep DEF Stopping, Flush, SmokeTest, TakenOut, EnterFlush, TakeLast, ClearPending, table
  <2>3. Resetting => registered' \in BOOLEAN /\ raced' \in BOOLEAN /\ closer' \in {"none", "forget", "done"}
    BY <1>1 DEF Resetting, SetConfigCloses, SetConfigForgets, TakenOut
  <2> QED BY <1>1, <2>1, <2>2, <2>3
<1>6. crashed' \in {"no", "call", "pump", "race"}
  <2>1. UNCHANGED crashed \/ Crashing
    BY PumpKeeps, CallersKeep, Cases DEF vars
  <2>2. Crashing => crashed' \in {"call", "pump", "race"}
    BY DEF Crashing, TakeNil, WritesCollide, ReadsCollide, WriteOnNil, PumpOnNil, Crash
  <2> QED BY <1>1, <2>1, <2>2
<1> QED BY <1>1, <1>2, <1>3, <1>4, <1>5, <1>6

LEMMA BaseInvStep ==
  ASSUME BaseInv, CallInv, HeldInv, DialInv, TextInv, [Next]_vars
  PROVE  BaseInv'
<1>1. call' \in [Callers -> CallRecords]
  BY CallTyped
<1>2. /\ pump' \in [Conns -> [stage : {"none", "loop", "read", "ended"}, on : Conns \cup {0}]]
      /\ responses' \in Seq(Responses) /\ Len(responses') <= Capacity
      /\ readErr' \in {"none", "closed", "error"}
      /\ frames' \in 0..MaxFrames /\ spoken' \in 0..frames'
  BY PumpTyped
<1>3. /\ conn' \in Conns \cup {0}
      /\ sockets' \in [Conns -> {"none", "up", "broken", "closed"}]
      /\ wire' \in [Conns -> Seq(WireFrames)]
  BY NetworkTyped
<1>4. /\ pending' \in 0..MaxPackets /\ fed' \in 0..MaxPackets /\ lost' \subseteq Packets
      /\ transcript' \in Texts /\ issued' \in Seq(Responses)
      /\ registered' \in BOOLEAN /\ raced' \in BOOLEAN /\ closer' \in {"none", "forget", "done"}
      /\ crashed' \in {"no", "call", "pump", "race"}
  BY SessionTyped
<1> QED BY <1>1, <1>2, <1>3, <1>4 DEF BaseInv

-----------------------------------------------------------------------------
(* The invariant and what follows from it.                                  *)

\* A session that was not taken out under a Consume panics in no call.
LEMMA PanicStep ==
  ASSUME BaseInv, CallInv, HeldInv, SoloInv, CallPanicsOnlyInARace, [Next]_vars
  PROVE  CallPanicsOnlyInARace'
<1> USE Records DEF NoRecord, RecordOf, Entering, Dialling, Sending
<1>0. crashed \in {"no", "call", "pump", "race"} /\ raced \in BOOLEAN /\ registered \in BOOLEAN
      /\ fed \in Nat
  BY VolcengineAssumption DEF BaseInv
<1>1. CASE Crashing
  <2>1. UNCHANGED raced
    BY <1>1, CrashKeeps DEF calm
  <2>2. ASSUME ~raced
        PROVE  ~TakeNil /\ ~WritesCollide /\ ~ReadsCollide /\ \A k \in Callers : ~WriteOnNil(k)
    <3>1. ~TakeNil
      <4>1. ASSUME udp.step = "take"
            PROVE  pending # 0
        <5>1. registered
          BY <1>0, <2>2, <4>1 DEF CallInv
        <5>2. pending = fed - 1 /\ fed > 1
          BY <4>1, <5>1 DEF HeldInv
        <5> QED BY <1>0, <5>2
      <4> QED BY <4>1 DEF TakeNil, At, udp
    <3>2. ~WritesCollide
      BY <2>2, OneCaller DEF WritesCollide, At2, udp, mqtt
    <3>3. ~ReadsCollide
      BY <2>2 DEF ReadsCollide, PumpAt, SoloInv, Conns
    <3>4. \A k \in Callers : ~WriteOnNil(k)
      BY <2>2 DEF WriteOnNil, At2, SoloInv, udp, mqtt
    <3> QED BY <3>1, <3>2, <3>3, <3>4
  <2>3. (\E i \in Conns : PumpOnNil(i)) => crashed' = "pump"
    BY DEF PumpOnNil, Crash
  <2> QED BY <1>0, <1>1, <2>1, <2>2, <2>3 DEF Crashing, CallPanicsOnlyInARace
<1>2. CASE ~Crashing
  <2>1. UNCHANGED crashed
    BY <1>2, PumpKeeps, CallersKeep, Cases DEF vars
  <2>2. raced => raced'
    <3>1. UNCHANGED raced \/ Stopping \/ Resetting
      BY <1>2, Quiet, CallersKeep, Cases DEF calm
    <3>2. registered => ~raced
      BY DEF CallInv
    <3> QED BY <1>0, <3>1, <3>2, StoppingEffect, ResettingEffect
  <2> QED BY <2>1, <2>2 DEF CallPanicsOnlyInARace
<1> QED BY <1>1, <1>2

LEMMA VolcInvInit ==
  ASSUME Init
  PROVE  VolcInv
<1> USE VolcengineAssumption
<1>1. udp = NoRecord /\ mqtt = NoRecord /\ NoCall = NoRecord /\ call \in [Callers -> CallRecords]
  <2>1. NoCall = NoRecord /\ NoRecord \in CallRecords
    BY DEF NoCall, Calling, NoRecord, RecordOf, CallRecords, Texts
  <2> QED BY <2>1 DEF Init, Callers, udp, mqtt
<1>2. /\ pending = 0 /\ conn = 0 /\ fed = 0 /\ frames = 0 /\ spoken = 0 /\ transcript = 0
      /\ registered = TRUE /\ raced = FALSE /\ closer = "none" /\ crashed = "no" /\ readErr = "none"
      /\ responses = <<>> /\ issued = <<>> /\ lost = {}
  BY DEF Init
<1>3. /\ sockets = [c \in Conns |-> "none"] /\ wire = [c \in Conns |-> <<>>]
      /\ pump = [c \in Conns |-> [stage |-> "none", on |-> 0]]
  BY DEF Init
<1>4. udp.step = "idle" /\ mqtt.step = "idle" /\ mqtt.op = "none" /\ udp.sending = 0 /\ mqtt.sending = 0
      /\ udp.heard = 0 /\ mqtt.heard = 0
  BY <1>1 DEF NoRecord, RecordOf
<1>5. BaseInv
  <2>1. responses \in Seq(Responses) /\ Len(responses) <= Capacity /\ issued \in Seq(Responses)
    BY <1>2
  <2>2. wire \in [Conns -> Seq(WireFrames)]
    BY <1>3
  <2>3. /\ sockets \in [Conns -> {"none", "up", "broken", "closed"}]
        /\ pump \in [Conns -> [stage : {"none", "loop", "read", "ended"}, on : Conns \cup {0}]]
    BY <1>3
  <2>4. /\ pending \in 0..MaxPackets /\ fed \in 0..MaxPackets /\ lost \subseteq Packets
        /\ conn \in Conns \cup {0} /\ transcript \in Texts
        /\ frames \in 0..MaxFrames /\ spoken \in 0..frames
    BY <1>2 DEF Texts
  <2>5. /\ registered \in BOOLEAN /\ raced \in BOOLEAN /\ closer \in {"none", "forget", "done"}
        /\ crashed \in {"no", "call", "pump", "race"} /\ readErr \in {"none", "closed", "error"}
    BY <1>2
  <2> QED BY <1>1, <2>1, <2>2, <2>3, <2>4, <2>5, Zenon DEF BaseInv
<1>6. CallInv
  BY <1>1, <1>2 DEF CallInv
<1>7. HeldInv
  BY <1>2, <1>4 DEF HeldInv, Entering, Dialling, Sending
<1>8. UnwrittenInv
  <2>1. Unwritten = {}
    BY <1>2 DEF Unwritten
  <2> QED BY <2>1 DEF UnwrittenInv
<1>9. DialInv /\ SoloInv
  BY <1>2, <1>3, <1>4 DEF DialInv, SoloInv, Conns, Entering, Dialling, Sending
<1>10. StreamInv
  BY <1>3, <1>4, EmptyStream DEF StreamInv, InHand, Entering, Dialling, Sending
<1>11. TextInv
  <2>1. Len(responses) = 0
    BY <1>2
  <2> QED BY <1>2, <1>4, <2>1 DEF TextInv, InLine, InTurn
<1>12. IssuedInv
  BY <1>2 DEF IssuedInv, IssuedInOrder
<1>13. CallPanicsOnlyInARace
  BY <1>2 DEF CallPanicsOnlyInARace
<1> QED BY <1>5, <1>6, <1>7, <1>8, <1>9, <1>10, <1>11, <1>12, <1>13 DEF VolcInv

LEMMA VolcInvStep ==
  ASSUME VolcInv, [Next]_vars
  PROVE  VolcInv'
<1>1. BaseInv'
  BY BaseInvStep DEF VolcInv
<1>2. CallInv' /\ HeldInv' /\ DialInv'
  BY CallInvStep, HeldInvStep, DialInvStep DEF VolcInv
<1>3. UnwrittenInv' /\ SoloInv'
  BY UnwrittenInvStep, SoloInvStep DEF VolcInv
<1>4. StreamInv'
  BY <1>1, StreamInvStep DEF VolcInv
<1>5. TextInv' /\ IssuedInv'
  BY TextInvStep, IssuedInvStep DEF VolcInv
<1>6. CallPanicsOnlyInARace'
  BY PanicStep DEF VolcInv
<1> QED BY <1>1, <1>2, <1>3, <1>4, <1>5, <1>6 DEF VolcInv

LEMMA VolcInvHolds == Spec => []VolcInv
<1>1. Init => VolcInv
  BY VolcInvInit
<1>2. VolcInv /\ [Next]_vars => VolcInv'
  BY VolcInvStep
<1> QED BY <1>1, <1>2, PTL DEF Spec

\* With the stop, a provider change and a Consume in the session at once, in any
\* order, a streaming session keeps its types: no buffer holds more answers than
\* it has room for, and a session dials twice at most.
THEOREM VolcengineTyped == Spec => []TypeOK
<1>1. ASSUME VolcInv
      PROVE  TypeOK
  <2>1. BaseInv /\ DialInv
    BY <1>1 DEF VolcInv
  <2>2. \A k \in Callers : At(k, "dial") => NextConn \in Conns
    <3>1. udp.step = "dial" \/ mqtt.step = "dial" => sockets[2] = "none"
      BY <2>1 DEF DialInv, Dialling
    <3>2. sockets[2] = "none" => NextConn \in Conns
      BY <2>1, NextConnection DEF BaseInv
    <3> QED BY <2>1, <3>1, <3>2, Records DEF At, udp, mqtt
  <2>3. \A k \in 1..Len(responses) : responses[k] \in Responses /\ Len(responses) <= Capacity
    BY <2>1 DEF BaseInv
  <2>4. pending \in Packets \cup {0} /\ spoken \in Texts
    BY <2>1, VolcengineAssumption DEF BaseInv, Packets, Texts
  <2> QED BY <2>1, <2>2, <2>3, <2>4 DEF TypeOK, BaseInv
<1> QED BY <1>1, VolcInvHolds, PTL

\* On every connection the recognizer gets one init request and then packets in
\* the order of the recording, none after the one flagged last, unless the session
\* was taken out of the table under a Consume (service.go:348, 358); at most one
\* packet follows the last one even then.
THEOREM StreamsStayWellFormed == Spec => []StreamsWellFormed
<1>1. VolcInv => StreamsWellFormed
  BY StreamsInOrder DEF VolcInv
<1> QED BY <1>1, VolcInvHolds, PTL

\* No packet is forgotten but the one that a Consume stores while Flush is between
\* its write and its s.pending = nil (volcengine_streaming.go:121, 150-153); when
\* no Consume was in the session at the stop, none is, and none is sent twice.
THEOREM EveryPacketAccountedFor == Spec => []PacketsAccountedFor
<1>1. ASSUME VolcInv
      PROVE  PacketsAccountedFor
  <2>1. BaseInv /\ CallInv /\ UnwrittenInv /\ SoloInv /\ StreamInv
    BY <1>1 DEF VolcInv
  <2>2. Unwritten \subseteq IF udp.step = "idle" THEN {fed} ELSE {fed - 1, fed}
    BY <2>1 DEF UnwrittenInv, Entering, Dialling, Sending
  <2>3. ASSUME ~raced, Flushed
        PROVE  Unwritten = {}
    <3>1. mqtt.op = "flush" /\ mqtt.step = "done" /\ udp.step = "idle"
      BY <2>1, <2>3, OneCaller DEF Flushed, mqtt, NoRecord, RecordOf
    <3> QED BY <2>1, <2>2, <2>3, <3>1 DEF UnwrittenInv, Flushing
  <2>4. ASSUME ~raced, NEW c \in Conns, NEW d \in Conns, NEW i \in 1..Len(wire[c]), NEW j \in 1..Len(wire[d]),
               wire[c][i].packet = wire[d][j].packet
        PROVE  c = d /\ i = j
    <3>1. c = 1 /\ d = 1
      BY <2>1, <2>4 DEF SoloInv, Conns
    <3>2. Ordered(wire[1])
      BY <2>1, <2>4 DEF StreamInv, Conns
    <3>3. wire[1] \in Seq(WireFrames)
      BY <2>1 DEF BaseInv, Conns
    <3>4. wire[1][i].packet \in Int /\ wire[1][j].packet \in Int /\ i \in Nat /\ j \in Nat
      BY <2>4, <3>1, <3>3, FrameNumbers
    <3>5. i < j \/ j < i \/ i = j
      BY <3>4
    <3> QED BY <2>4, <3>1, <3>2, <3>4, <3>5 DEF Ordered
  <2> QED BY <2>2, <2>3, <2>4 DEF PacketsAccountedFor, udp
<1> QED BY <1>1, VolcInvHolds, PTL

\* Deltas come out strictly newer and the final last, whatever the timeouts of
\* readAvailableResponses cut short (volcengine_streaming.go:257); a Consume that
\* was in the session when the stop came adds one delta at most after the final.
THEOREM TextsIssuedInOrder == Spec => []IssuedInOrder
<1>1. VolcInv => IssuedInOrder
  BY DEF VolcInv, IssuedInv
<1> QED BY <1>1, VolcInvHolds, PTL

\* A call dereferences a nil connection or packet, or writes while the other does,
\* only if a stop or SetConfig took the session out of the table under a Consume.
THEOREM PanicsNeedARace == Spec => []CallPanicsOnlyInARace
<1>1. VolcInv => CallPanicsOnlyInARace
  BY DEF VolcInv
<1> QED BY <1>1, VolcInvHolds, PTL

=============================================================================
