--------------------------- MODULE VolcengineSession ---------------------------
(***************************************************************************)
(* One streaming session of internal/pipeline/stt/volcengine_streaming.go: *)
(* a websocket to the recognizer, the audio packet held back until the     *)
(* next one or the stop, and the pump that reads the answers.              *)
(*                                                                         *)
(* Four goroutines meet in it without a lock: Consume for the UDP server,  *)
(* the stop's Flush and deferred Close for the MQTT callback, SetConfig,   *)
(* which closes every session it finds in the table, and the pump of each  *)
(* connection.  Only the table is locked (service.go:340, 357, 111), so a  *)
(* Consume that found the session goes on in it while a stop or a provider *)
(* change takes it out and closes it: raced remembers that.  Every read of *)
(* s.pending and s.conn is a step of its own.  The end of a call, which    *)
(* compares and sets the transcript, is one step, and so is what a dial    *)
(* assigns (conn, responses, readErrCh).                                   *)
(*                                                                         *)
(* Packets are numbered in the order of Consume.  A text is the number of  *)
(* times the service has said something new; 0 is the blank text.  Empty   *)
(* payloads, which Consume ignores, timestamps and revisions (SttService)  *)
(* are left out.                                                           *)
(***************************************************************************)
EXTENDS Integers, Sequences, FiniteSets

CONSTANTS
  MaxPackets,   \* bound: packets given to Consume
  MaxFrames,    \* bound: frames the service sends
  Capacity      \* room in s.responses (32 in the code)

ASSUME VolcengineAssumption ==
  MaxPackets \in Nat /\ MaxFrames \in Nat /\ Capacity \in Nat \ {0}

VARIABLES
  call,        \* what each caller is doing
  pending,     \* s.pending: a packet or 0
  conn,        \* s.conn: a connection or 0
  sockets,     \* state of each connection
  pump,        \* the pump started with each connection
  responses,   \* s.responses, decoded answers, made anew by each dial
  readErr,     \* s.readErrCh, room for one error, likewise
  transcript,  \* s.cumulativeTranscript
  registered,  \* the session is in Service.streamSessions
  closer,      \* SetConfig's Close of this session
  crashed,     \* what took the process down
  raced,       \* history: the session was taken out of the table under a Consume
  fed,         \* packets given to Consume
  frames,      \* frames the service has sent
  spoken,      \* texts the service has sent
  wire,        \* history: the frames written to each connection
  lost,        \* history: packets not written when their call returned an error
  issued       \* history: the payloads returned

session == <<pending, conn, responses, readErr, transcript>>
network == <<sockets, wire, frames, spoken>>
table == <<registered, raced, closer>>
vars == <<call, pump, session, network, table, crashed, fed, lost, issued>>

-----------------------------------------------------------------------------
\* The UDP goroutine, and the MQTT callback of a stop (or a smoke test).
Callers == {"udp", "mqtt"}

\* The stop or SetConfig closes the session once, and one Consume may be in it.
Conns == 1..2
NextConn == Cardinality({c \in Conns : sockets[c] # "none"}) + 1

Packets == 1..MaxPackets
Texts == 0..MaxFrames
Responses == [text : Texts, final : BOOLEAN]

\* sending is the packet still to be written, heard the latest text.
Calling(op, step) == [op |-> op, step |-> step, sending |-> 0, heard |-> 0]
NoCall == Calling("none", "idle")
At(k, step) == crashed = "no" /\ call[k].step = step
At2(k, steps) == crashed = "no" /\ call[k].step \in steps

Becomes(k, record) == call' = [call EXCEPT ![k] = record]
Goto(k, step) == call' = [call EXCEPT ![k].step = step]
TakeUp(k, packet, step) == call' = [call EXCEPT ![k].sending = packet, ![k].step = step]

\* Consume returns; Flush and SmokeTest close the session first.
AfterCall(k) ==
  IF k = "udp" THEN NoCall ELSE Calling(call[k].op, "close")

\* What a call that returns an error leaves unwritten: the packet it took out of
\* s.pending, and what a failed Flush throws away with the session.
Abandoned(k) == {call[k].sending, IF k = "mqtt" THEN pending ELSE 0} \ {0}
Fail(k) == Becomes(k, AfterCall(k)) /\ lost' = lost \cup Abandoned(k)

Crash(how) ==
  crashed' = how /\ UNCHANGED <<call, pump, session, network, table, fed, lost, issued>>

-----------------------------------------------------------------------------
(* Calls begin *)

\* consumeWithStreamSession finds the session in the table.
Consume ==
  /\ At("udp", "idle") /\ registered /\ fed < MaxPackets
  /\ fed' = fed + 1
  /\ Becomes("udp", Calling("consume", "enter"))
  /\ UNCHANGED <<pump, session, network, table, crashed, lost, issued>>

\* The first packet is held back.
EnterConsume ==
  /\ At("udp", "enter")
  /\ IF pending = 0 THEN pending' = fed /\ Becomes("udp", NoCall)
                    ELSE pending' = pending /\ Goto("udp", "take")
  /\ UNCHANGED <<pump, conn, responses, readErr, transcript, network, table,
                 crashed, fed, lost, issued>>

\* Fault: the packet that was just given is sent, not the one held back.
SendTheNewOne == fed
ToSend == pending

\* The packet held back is copied ...
TakePending ==
  /\ At("udp", "take") /\ pending # 0
  /\ TakeUp("udp", ToSend, "store")
  /\ UNCHANGED <<pump, session, network, table, crashed, fed, lost, issued>>

\* ... which a Flush may have cleared since Consume looked ...
TakeNil ==
  /\ At("udp", "take") /\ pending = 0
  /\ Crash("call")

\* ... and replaced by the new one.
StorePending ==
  /\ At("udp", "store")
  /\ pending' = fed
  /\ Goto("udp", "connect")
  /\ UNCHANGED <<pump, conn, responses, readErr, transcript, network, table,
                 crashed, fed, lost, issued>>

\* Out of the table: a stop or a provider change; a Consume may be in the session.
TakenOut ==
  /\ registered /\ registered' = FALSE
  /\ raced' = (call["udp"].step # "idle")

\* flushWithStreamSession takes the session out of the table and flushes it.
Flush ==
  /\ At("mqtt", "idle") /\ TakenOut
  /\ Becomes("mqtt", Calling("flush", "enter"))
  /\ UNCHANGED <<pump, session, network, closer, crashed, fed, lost, issued>>

\* Flush has nothing to do without a packet and a text.
EnterFlush ==
  /\ At("mqtt", "enter")
  /\ Goto("mqtt", IF pending = 0 /\ transcript = 0 THEN "close" ELSE "connect")
  /\ UNCHANGED <<pump, session, network, table, crashed, fed, lost, issued>>

\* The administrator's connection test: a session of its own, never in a table.
SmokeTest ==
  /\ At("mqtt", "idle") /\ fed = 0 /\ TakenOut
  /\ Becomes("mqtt", Calling("smoke", "connect"))
  /\ UNCHANGED <<pump, session, network, closer, crashed, fed, lost, issued>>

-----------------------------------------------------------------------------
(* The connection *)

\* What a call does with its connection.
Connected(k) ==
  CASE call[k].op = "consume" -> "send"
    [] call[k].op = "flush" -> "last"
    [] OTHER -> "read"

EnsureConnected(k) ==
  /\ At(k, "connect")
  /\ Goto(k, IF conn # 0 THEN Connected(k) ELSE "dial")
  /\ UNCHANGED <<pump, session, network, table, crashed, fed, lost, issued>>

\* Fault: a failed dial is not reported.
GoOnUnconnected(k) == Goto(k, Connected(k)) /\ UNCHANGED lost
DialError(k) == Fail(k)

\* A missing setting or a failed handshake; the next call tries again.
DialFails(k) ==
  /\ At(k, "dial")
  /\ DialError(k)
  /\ UNCHANGED <<pump, session, network, table, crashed, fed, issued>>

\* New channels come with the connection.  A caller still waiting on the old ones
\* could have taken what they hold just before.
Dial(k) ==
  /\ At(k, "dial") /\ NextConn \in Conns
  /\ responses' = <<>> /\ readErr' = "none"
  /\ conn' = NextConn
  /\ sockets' = [sockets EXCEPT ![NextConn] = "up"]
  /\ pump' = [pump EXCEPT ![NextConn].stage = "loop"]
  /\ Goto(k, "init")
  /\ UNCHANGED <<pending, transcript, wire, frames, spoken, table, crashed, fed, lost, issued>>

Frame(kind, packet) == [kind |-> kind, packet |-> packet]

\* conn.WriteMessage.  A write may still succeed when the peer is gone, and a
\* connection that failed a write fails every later one.
Write(frame) ==
  /\ conn # 0 /\ sockets[conn] = "up"
  /\ wire' = [wire EXCEPT ![conn] = Append(@, frame)]
  /\ UNCHANGED <<sockets, frames, spoken>>

WriteFails(k) ==
  /\ At2(k, {"init", "send"}) /\ conn # 0
  /\ sockets' = [sockets EXCEPT ![conn] = IF @ = "closed" THEN @ ELSE "broken"]
  /\ Fail(k)
  /\ UNCHANGED <<pump, session, wire, frames, spoken, table, crashed, fed, issued>>

\* A Close came between the check for a connection and its use.
WriteOnNil(k) ==
  /\ At2(k, {"init", "send"}) /\ conn = 0
  /\ Crash("call")

\* Both callers write at once, which the websocket library answers with a panic
\* or a torn frame: what follows is not modelled.
WritesCollide ==
  /\ At2("udp", {"init", "send"}) /\ At2("mqtt", {"init", "send"}) /\ conn # 0
  /\ Crash("race")

\* Fault: the init request is left out.
SendNothing == UNCHANGED network
SendInit == Write(Frame("init", 0))

\* If this write fails the connection stays, and no later call sends it again.
SendInitRequest(k) ==
  /\ At(k, "init")
  /\ SendInit
  /\ Goto(k, Connected(k))
  /\ UNCHANGED <<pump, session, table, crashed, fed, lost, issued>>

\* Flush sends the packet held back, if there is one ...
TakeLast ==
  /\ At("mqtt", "last")
  /\ TakeUp("mqtt", pending, IF pending = 0 THEN "read" ELSE "send")
  /\ UNCHANGED <<pump, session, network, table, crashed, fed, lost, issued>>

\* ... with the last-packet flag.
SendAudioPacket(k) ==
  /\ At(k, "send")
  /\ Write(Frame(IF k = "mqtt" THEN "last" ELSE "audio", call[k].sending))
  /\ TakeUp(k, 0, IF k = "mqtt" THEN "clear" ELSE "read")
  /\ UNCHANGED <<pump, session, table, crashed, fed, lost, issued>>

\* ... and forgets what is held back by then.
ClearPending ==
  /\ At("mqtt", "clear")
  /\ pending' = 0
  /\ Goto("mqtt", "read")
  /\ UNCHANGED <<pump, conn, responses, readErr, transcript, network, table,
                 crashed, fed, lost, issued>>

-----------------------------------------------------------------------------
(* Answers, as the caller sees them *)

\* Fault: a text that has not changed is emitted again.
AnyText(text) == text # 0
NewText(text) == text \notin {0, transcript}

Emit(text, final) ==
  /\ transcript' = text
  /\ issued' = Append(issued, [text |-> text, final |-> final])

Silent == UNCHANGED <<transcript, issued>>

\* What is left of Consume (emitSnapshot) or Flush once the waiting is over.
Conclude(k, heard) ==
  /\ Becomes(k, AfterCall(k))
  /\ CASE call[k].op = "consume" -> IF NewText(heard) THEN Emit(heard, FALSE) ELSE Silent
       [] call[k].op = "flush" ->
            LET text == IF heard # 0 THEN heard ELSE transcript IN
            IF text # 0 THEN Emit(text, TRUE) ELSE Silent
       [] OTHER -> Silent

ReadUnchanged == UNCHANGED <<pump, pending, conn, network, table, crashed, fed>>

\* readAvailableResponses: the latest text wins, a final answer ends the wait.
TakeResponse(k) ==
  LET answer == Head(responses)
      heard == IF answer.text # 0 THEN answer.text ELSE call[k].heard IN
  /\ At(k, "read") /\ responses # <<>>
  /\ responses' = Tail(responses)
  /\ IF answer.final
     THEN Conclude(k, heard)
     ELSE call' = [call EXCEPT ![k].heard = heard] /\ Silent
  /\ UNCHANGED <<readErr, lost>> /\ ReadUnchanged

\* A close of either side ends the wait like a timeout; another error ends the
\* call, and what it had heard is dropped.
TakeError(k) ==
  /\ At(k, "read") /\ readErr # "none"
  /\ readErr' = "none"
  /\ IF readErr = "closed"
     THEN Conclude(k, call[k].heard) /\ UNCHANGED lost
     ELSE Fail(k) /\ Silent
  /\ UNCHANGED responses /\ ReadUnchanged

Timeout(k) ==
  /\ At(k, "read")
  /\ Conclude(k, call[k].heard)
  /\ UNCHANGED <<responses, readErr, lost>> /\ ReadUnchanged

-----------------------------------------------------------------------------
(* Close *)

\* Fault: the connection is only forgotten.
LeaveOpen == UNCHANGED sockets
CloseSocket == sockets' = [sockets EXCEPT ![conn] = "closed"]

\* Close closes the connection ...
Close ==
  /\ At("mqtt", "close")
  /\ IF conn = 0 THEN Goto("mqtt", "done") /\ UNCHANGED sockets
                 ELSE Goto("mqtt", "forget") /\ CloseSocket
  /\ UNCHANGED <<pump, session, wire, frames, spoken, table, crashed, fed, lost, issued>>

\* ... and sets it to nil, while a pump may be about to read from it or a
\* Consume to write to it.
CloseForgets ==
  /\ At("mqtt", "forget")
  /\ conn' = 0
  /\ Goto("mqtt", "done")
  /\ UNCHANGED <<pump, pending, responses, readErr, transcript, network, table,
                 crashed, fed, lost, issued>>

\* SetConfig empties the table and closes what was in it.
SetConfigCloses ==
  /\ crashed = "no" /\ TakenOut
  /\ IF conn = 0 THEN closer' = "done" /\ UNCHANGED sockets ELSE closer' = "forget" /\ CloseSocket
  /\ UNCHANGED <<call, pump, session, wire, frames, spoken, crashed, fed, lost, issued>>

SetConfigForgets ==
  /\ closer = "forget" /\ crashed = "no"
  /\ closer' = "done"
  /\ conn' = 0
  /\ UNCHANGED <<call, pump, pending, responses, readErr, transcript, network,
                 registered, raced, crashed, fed, lost, issued>>

-----------------------------------------------------------------------------
(* The pump *)

PumpAt(i, stage) == crashed = "no" /\ pump[i].stage = stage
PumpTo(i, stage, c) == pump' = [pump EXCEPT ![i] = [stage |-> stage, on |-> c]]

\* s.conn is read again before every message.
PumpLoop(i) ==
  /\ PumpAt(i, "loop") /\ conn # 0
  /\ PumpTo(i, "read", conn)
  /\ UNCHANGED <<call, session, network, table, crashed, fed, lost, issued>>

PumpOnNil(i) ==
  /\ PumpAt(i, "loop") /\ conn = 0
  /\ Crash("pump")

\* The pumps of two dials read one connection at once: likewise not followed.
ReadsCollide ==
  /\ \A i \in Conns : PumpAt(i, "read")
  /\ pump[1].on = pump[2].on
  /\ Crash("race")

\* A pump sends to the channels of the newest dial, and never waits.
PutError(kind) == readErr' = IF readErr = "none" THEN kind ELSE readErr

\* Fault: one answer too many is queued.
RoomForOneMore == Len(responses) <= Capacity
HasRoom == Len(responses) < Capacity

\* What decodeVolcengineServerMessage makes of a frame: a text that is blank,
\* repeated or new ...
Decoded == [text : {0, spoken, spoken + 1}, final : BOOLEAN]

\* ... which is queued; a full buffer ends the pump.  Frames read ahead are still
\* delivered when the connection has been closed.
PumpReceives(i) ==
  /\ PumpAt(i, "read")
  /\ frames < MaxFrames
  /\ frames' = frames + 1
  /\ \E frame \in Decoded :
       /\ spoken' = IF frame.text > spoken THEN frame.text ELSE spoken
       /\ IF HasRoom
          THEN /\ responses' = Append(responses, frame)
               /\ PumpTo(i, "loop", 0) /\ UNCHANGED readErr
          ELSE PutError("error") /\ PumpTo(i, "ended", 0) /\ UNCHANGED responses
  /\ UNCHANGED <<call, pending, conn, transcript, sockets, wire, table, crashed, fed, lost, issued>>

\* An undecodable frame (an error, an unknown type, a truncated payload) ends the
\* pump, as do a peer that closes or goes away ...
PumpFails(i) ==
  /\ PumpAt(i, "read")
  /\ sockets[pump[i].on] # "closed"
  /\ \E kind \in {"closed", "error"} : PutError(kind)
  /\ PumpTo(i, "ended", 0)
  /\ UNCHANGED <<call, pending, conn, responses, transcript, network, table,
                 crashed, fed, lost, issued>>

\* ... and a Close of the connection it reads.
PumpReadClosed(i) ==
  /\ PumpAt(i, "read")
  /\ sockets[pump[i].on] = "closed"
  /\ PutError("closed") /\ PumpTo(i, "ended", 0)
  /\ UNCHANGED <<call, pending, conn, responses, transcript, network, table,
                 crashed, fed, lost, issued>>

-----------------------------------------------------------------------------
CallStep(k) ==
  \/ EnsureConnected(k) \/ DialFails(k) \/ Dial(k)
  \/ WriteFails(k) \/ WriteOnNil(k) \/ SendInitRequest(k) \/ SendAudioPacket(k)
  \/ TakeResponse(k) \/ TakeError(k) \/ Timeout(k)

PumpStep(i) == PumpLoop(i) \/ PumpOnNil(i) \/ PumpReadClosed(i)

Next ==
  \/ Consume \/ EnterConsume \/ TakePending \/ TakeNil \/ StorePending
  \/ Flush \/ EnterFlush \/ TakeLast \/ ClearPending \/ Close \/ CloseForgets
  \/ SmokeTest
  \/ \E k \in Callers : CallStep(k)
  \/ WritesCollide \/ ReadsCollide
  \/ SetConfigCloses \/ SetConfigForgets
  \/ \E i \in Conns : PumpStep(i) \/ PumpReceives(i) \/ PumpFails(i)

\* NewSession.
Init ==
  /\ call = [k \in Callers |-> NoCall]
  /\ pending = 0 /\ conn = 0
  /\ sockets = [c \in Conns |-> "none"]
  /\ pump = [c \in Conns |-> [stage |-> "none", on |-> 0]]
  /\ responses = <<>> /\ readErr = "none"
  /\ transcript = 0
  /\ registered = TRUE /\ raced = FALSE /\ closer = "none" /\ crashed = "no"
  /\ fed = 0 /\ frames = 0 /\ spoken = 0
  /\ wire = [c \in Conns |-> <<>>]
  /\ lost = {} /\ issued = <<>>

Spec == Init /\ [][Next]_vars

\* The pumps are scheduled, and a read of a connection that has ended fails.
\* Nothing asks the service to answer, the network to hold, a write to return
\* or a caller to come.
FairSpec == Spec /\ \A i \in Conns : WF_vars(PumpStep(i))

-----------------------------------------------------------------------------
(* Properties *)

CallRecords ==
  [op : {"none", "consume", "flush", "smoke"},
   step : {"idle", "enter", "take", "store", "connect", "dial", "init", "last",
           "send", "clear", "read", "close", "forget", "done"},
   sending : Packets \cup {0}, heard : Texts]

TypeOK ==
  /\ call \in [Callers -> CallRecords]
  /\ \A k \in Callers : At(k, "dial") => NextConn \in Conns
  /\ pending \in Packets \cup {0} /\ conn \in Conns \cup {0}
  /\ sockets \in [Conns -> {"none", "up", "broken", "closed"}]
  /\ pump \in [Conns -> [stage : {"none", "loop", "read", "ended"}, on : Conns \cup {0}]]
  /\ \A k \in 1..Len(responses) : responses[k] \in Responses /\ Len(responses) <= Capacity
  /\ readErr \in {"none", "closed", "error"}
  /\ transcript \in Texts /\ spoken \in Texts
  /\ registered \in BOOLEAN /\ raced \in BOOLEAN /\ closer \in {"none", "forget", "done"}
  /\ crashed \in {"no", "call", "pump", "race"}

\* What the recognizer gets on a connection is one init request, then packets
\* in the order they were recorded, none after the one flagged last: also when
\* the init request failed and later calls found the connection set
\* (ensureConnected, volcengine_streaming.go:192).  When the session was taken
\* out of the table under a Consume this is lost, but at most one audio frame
\* follows the one flagged last.
StreamsWellFormed ==
  \A c \in Conns :
    /\ raced \/ \A j \in 1..Len(wire[c]) :
         /\ (wire[c][j].kind = "init") = (j = 1)
         /\ j < Len(wire[c]) => /\ wire[c][j].kind # "last"
                                /\ wire[c][j].packet < wire[c][j + 1].packet
    /\ \A i, j, k \in 1..Len(wire[c]) :
         i < j /\ j < k /\ wire[c][i].kind = "last"
           => ~(wire[c][j].kind = "audio" /\ wire[c][k].kind = "audio")

Written == UNION {{wire[c][j].packet : j \in 1..Len(wire[c])} : c \in Conns}
Unwritten == {p \in 1..fed : p \notin Written /\ p \notin lost}
Flushed == call["mqtt"].op = "flush" /\ call["mqtt"].step = "done"

\* No packet is forgotten: all but the one Consume has taken up and the one held
\* back have been written or were in a call that returned an error; Flush leaves
\* none behind, and none is written twice.  When a Consume was in the session at
\* the stop, Flush may also clear the packet which that Consume has just stored
\* (volcengine_streaming.go:121, 153), but no other is forgotten even then.
PacketsAccountedFor ==
  /\ Unwritten \subseteq IF call["udp"].step = "idle" THEN {fed} ELSE {fed - 1, fed}
  /\ raced \/
     /\ Flushed => Unwritten = {}
     /\ \A c, d \in Conns : \A i \in 1..Len(wire[c]), j \in 1..Len(wire[d]) :
          wire[c][i].packet = wire[d][j].packet /\ wire[c][i].packet # 0 => c = d /\ i = j

\* Texts come out in the order the recognizer said them, a delta only for a new
\* one, and the final last, never behind the newest delta, although the answers
\* pass through a buffer and the waits that empty it may be cut short.  A
\* Consume that was in the session when the stop came may add one delta after
\* the final (volcengine_streaming.go:130, 156), never two.
IssuedInOrder ==
  /\ raced \/ \A j \in 1..Len(issued) :
       /\ issued[j].final => j = Len(issued)
       /\ j > 1 => IF issued[j].final THEN issued[j].text >= issued[j - 1].text
                                      ELSE issued[j].text > issued[j - 1].text
  /\ \A j \in 1..Len(issued) : issued[j].final => j >= Len(issued) - 1

\* A call of the server dereferences a nil connection or packet, or writes while
\* another does, only when the session was taken out of the table under a
\* Consume: no failed dial or write leads there.
CallPanicsOnlyInARace == crashed \in {"call", "race"} => raced

Over == ~registered /\ closer # "forget" /\ \A k \in Callers : call[k].step \in {"idle", "done"}

\* Once nobody is in a session that is out of the table its pumps end: a full
\* buffer never blocks one, and the connection it reads was closed.  (One that
\* has a frame in hand during Close panics; a Consume that was in the session
\* may leave a connection open, and its pump with it.)
PumpsEnd ==
  (Over /\ (raced => \A c \in Conns : sockets[c] \in {"none", "closed"}))
    ~> ((\A i \in Conns : pump[i].stage \in {"none", "ended"}) \/ crashed # "no")
=============================================================================
