--------------------------- MODULE AnalysisRuntime ---------------------------
(***************************************************************************)
(* The analysis runtime (internal/runtime/analysis/runtime.go) with the    *)
(* two services it drives (pipeline/action_items, pipeline/summary).       *)
(*                                                                         *)
(* Producers write a transcript snapshot and then schedule a job; a job    *)
(* names its meeting, never the text.  One goroutine takes the jobs out of *)
(* a buffered channel and analyses whatever the store then holds.          *)
(*                                                                         *)
(* The channel is Go's: a buffer, a FIFO queue of senders parked on it,    *)
(* and a send on a closed channel that panics.  A job that finds the       *)
(* buffer full is sent by a goroutine of its own, which may run at any     *)
(* later time.                                                             *)
(***************************************************************************)
EXTENDS Naturals, Sequences, FiniteSets

CONSTANTS
  Sessions,    \* meeting session identifiers
  Producers,   \* goroutines that schedule: audio ingest and stop
  Capacity,    \* of the jobs channel (64)
  LoadFails,   \* may LoadSnapshot report an error?
  MaxJobs,     \* bound: jobs scheduled
  NoJob

ASSUME AnalysisAssumption ==
  /\ Capacity \in Nat \ {0} /\ MaxJobs \in Nat
  /\ LoadFails \in BOOLEAN
  /\ NoJob \notin [n : Nat, session : Sessions, rev : Nat, final : BOOLEAN]

VARIABLES
  text,       \* transcript store: how often each snapshot was written; 0 is "none"
  writing,    \* each producer: the job it is about to schedule, or NoJob
  buffer,     \* the channel's buffer
  parked,     \* senders parked on the full channel, first come first served
  spawned,    \* overflow goroutines that have not reached the channel yet
  closed,     \* close(jobs) was called
  done,       \* the loop has returned (close(done))
  hand,       \* the job the loop is working on, or NoJob
  loopAt,     \* where the loop is in process
  loaded,     \* the snapshot process has loaded
  itemsVer,   \* action_items sessions: version, 0 for "no entry"
  summaryVer, \* summary sessions: version, 0 for "no entry"
  drawn,      \* versions drawn for the job in hand: [items, summary]
  scheduled,  \* number of jobs scheduled; a job carries its number
  overflowed, \* history: jobs that found the buffer full
  processed,  \* history: job numbers, in the order the loop took them
  published,  \* history: the pairs of messages published, in order
  crashed     \* the process has panicked

prodVars == <<text, writing, scheduled, overflowed>>
chanVars == <<buffer, parked, spawned, closed>>
loopVars == <<done, hand, loopAt, loaded, itemsVer, summaryVer, drawn, processed, published>>
vars == <<prodVars, chanVars, loopVars, crashed>>

-----------------------------------------------------------------------------
(* A producer: UpsertSnapshot, then Schedule (Manager.HandleMixedAudio and   *)
(* Manager.StopRecording).                                                   *)

UpsertSnapshot(g, s, final) ==
  /\ writing[g] = NoJob
  /\ scheduled + Cardinality({h \in Producers : writing[h] # NoJob}) < MaxJobs
  /\ text' = [text EXCEPT ![s] = @ + 1]
  /\ writing' = [writing EXCEPT ![g] = [n |-> 0, session |-> s, rev |-> text[s] + 1, final |-> final]]
  /\ UNCHANGED <<scheduled, overflowed, chanVars, loopVars, crashed>>

HasRoom == Len(buffer) < Capacity

\* Fault: every job is sent by a goroutine of its own.
EnqueueLater(job) == spawned' = spawned \cup {job} /\ UNCHANGED buffer
Enqueue(job) == buffer' = Append(buffer, job) /\ UNCHANGED spawned

\* Fault: a job that does not fit is dropped.
OverflowDropped(job) == UNCHANGED spawned
Overflow(job) == spawned' = spawned \cup {job}

\* The select of Schedule: send if there is room, else leave it to a goroutine;
\* on a closed channel the send case is the one that runs, and it panics.
Schedule(g) ==
  /\ writing[g] # NoJob
  /\ LET job == [writing[g] EXCEPT !.n = scheduled + 1] IN
       \/ /\ closed
          /\ crashed' = TRUE
          /\ UNCHANGED <<buffer, spawned, overflowed>>
       \/ /\ ~ closed /\ HasRoom
          /\ Enqueue(job)
          /\ UNCHANGED <<overflowed, crashed>>
       \/ /\ ~ closed /\ ~ HasRoom
          /\ Overflow(job)
          /\ overflowed' = overflowed \cup {job.n}
          /\ UNCHANGED <<buffer, crashed>>
  /\ scheduled' = scheduled + 1
  /\ writing' = [writing EXCEPT ![g] = NoJob]
  /\ UNCHANGED <<text, parked, closed, loopVars>>

\* An overflow goroutine reaches its send.
OverflowSend(job) ==
  /\ job \in spawned
  /\ \/ /\ closed
        /\ crashed' = TRUE
        /\ UNCHANGED <<buffer, parked, spawned>>
     \/ /\ ~ closed /\ HasRoom
        /\ buffer' = Append(buffer, job)
        /\ spawned' = spawned \ {job}
        /\ UNCHANGED <<parked, crashed>>
     \/ /\ ~ closed /\ ~ HasRoom
        /\ parked' = Append(parked, job)
        /\ spawned' = spawned \ {job}
        /\ UNCHANGED <<buffer, crashed>>
  /\ UNCHANGED <<prodVars, closed, loopVars>>

\* Close: every sender still parked on the channel panics.  The call returns
\* when the loop has (done).
Close ==
  /\ ~ closed
  /\ closed' = TRUE
  /\ crashed' = (parked # <<>>)
  /\ UNCHANGED <<prodVars, buffer, parked, spawned, loopVars>>

-----------------------------------------------------------------------------
(* The loop: one job at a time.                                             *)

\* A receive takes the head of the buffer; the first parked sender, if any,
\* moves into the room that makes.

\* Fault: a parked sender is not woken.
RefillForgets == buffer' = Tail(buffer) /\ UNCHANGED parked

Refill ==
  IF parked = <<>>
  THEN buffer' = Tail(buffer) /\ UNCHANGED parked
  ELSE buffer' = Append(Tail(buffer), Head(parked)) /\ parked' = Tail(parked)

Receive ==
  /\ loopAt = "receive" /\ ~ done
  /\ buffer # <<>>
  /\ Refill
  /\ hand' = Head(buffer)
  /\ processed' = Append(processed, Head(buffer).n)
  /\ loopAt' = "load"
  /\ UNCHANGED <<prodVars, spawned, closed, done, loaded, itemsVer, summaryVer,
                 drawn, published, crashed>>

\* Fault: the loop ends as soon as the channel is closed.
ExhaustedAtOnce == closed
Exhausted == closed /\ buffer = <<>>

\* Fault: the loop returns and leaves done open.
DoneLeftOpen == UNCHANGED done
CloseDone == done' = TRUE

\* range over a channel ends when it is closed and empty.
Finish ==
  /\ loopAt = "receive" /\ ~ done
  /\ Exhausted
  /\ CloseDone
  /\ UNCHANGED <<prodVars, chanVars, hand, loopAt, loaded, itemsVer, summaryVer,
                 drawn, processed, published, crashed>>

BackToReceive ==
  /\ hand' = NoJob
  /\ loopAt' = "receive"

\* What process analyses.  Fault: the text of the time the job was scheduled.
SnapshotCarried(job) == job.rev
Snapshot(job) == text[job.session]

\* LoadSnapshot.  A job whose snapshot is missing or cannot be read is skipped.
LoadSnapshot ==
  /\ loopAt = "load"
  /\ \/ /\ text[hand.session] # 0
        /\ loaded' = Snapshot(hand)
        /\ loopAt' = "items"
        /\ UNCHANGED hand
     \/ /\ LoadFails \/ text[hand.session] = 0
        /\ BackToReceive
        /\ UNCHANGED loaded
  /\ UNCHANGED <<prodVars, chanVars, done, itemsVer, summaryVer, drawn, processed,
                 published, crashed>>

\* action_items.Generate: a new version; a final one drops the entry.
\* Fault: the entry survives its final.
ItemsAfterKeeping(s, final) == itemsVer[s] + 1
ItemsAfter(s, final) == IF final THEN 0 ELSE itemsVer[s] + 1

GenerateItems ==
  /\ loopAt = "items"
  /\ drawn' = [drawn EXCEPT !.items = itemsVer[hand.session] + 1]
  /\ itemsVer' = [itemsVer EXCEPT ![hand.session] = ItemsAfter(hand.session, hand.final)]
  /\ loopAt' = "summary"
  /\ UNCHANGED <<prodVars, chanVars, done, hand, loaded, summaryVer, processed,
                 published, crashed>>

\* summary.Generate: the same for its own table.
GenerateSummary ==
  /\ loopAt = "summary"
  /\ drawn' = [drawn EXCEPT !.summary = summaryVer[hand.session] + 1]
  /\ summaryVer' = [summaryVer EXCEPT ![hand.session] =
                      IF hand.final THEN 0 ELSE summaryVer[hand.session] + 1]
  /\ loopAt' = "publish"
  /\ UNCHANGED <<prodVars, chanVars, done, hand, loaded, itemsVer, processed,
                 published, crashed>>

\* One call of Publish carries both messages and returns when the broker has
\* taken them.  It is given no context that ends and sets no time-out, and a
\* final goes at QoS 1: with the broker away it does not return.
Publish ==
  /\ loopAt = "publish"
  /\ published' = Append(published,
       [session |-> hand.session, n |-> hand.n, rev |-> loaded, final |-> hand.final,
        items |-> drawn.items, summary |-> drawn.summary])
  /\ BackToReceive
  /\ UNCHANGED <<prodVars, chanVars, done, loaded, itemsVer, summaryVer, drawn,
                 processed, crashed>>

\* What the loop does by itself; for Publish it needs the broker.
Working == Receive \/ Finish \/ LoadSnapshot \/ GenerateItems \/ GenerateSummary
Loop == Working \/ Publish

-----------------------------------------------------------------------------
Init ==
  /\ text = [s \in Sessions |-> 0]
  /\ writing = [g \in Producers |-> NoJob]
  /\ buffer = <<>> /\ parked = <<>> /\ spawned = {}
  /\ closed = FALSE /\ done = FALSE
  /\ hand = NoJob /\ loopAt = "receive" /\ loaded = 0
  /\ itemsVer = [s \in Sessions |-> 0]
  /\ summaryVer = [s \in Sessions |-> 0]
  /\ drawn = [items |-> 0, summary |-> 0]
  /\ scheduled = 0 /\ overflowed = {} /\ processed = <<>> /\ published = <<>>
  /\ crashed = FALSE

Producer(g) ==
  \/ \E s \in Sessions, final \in BOOLEAN : UpsertSnapshot(g, s, final)
  \/ Schedule(g)

Senders == \E job \in spawned : OverflowSend(job)

\* App.Run closes the runtime when a component failed or a signal came,
\* whatever the producers are doing.
Next == ~ crashed /\ (Loop \/ Senders \/ Close \/ \E g \in Producers : Producer(g))

Spec == Init /\ [][Next]_vars

\* The loop and every overflow goroutine keep running: a model call has a
\* client-side timeout, the store's is a local statement, and the Go scheduler
\* leaves no runnable goroutine out.  A publication need not ever end.
FairSpec == Spec /\ WF_vars(~ crashed /\ Working) /\ WF_vars(~ crashed /\ Senders)

-----------------------------------------------------------------------------
Jobs == [n : Nat, session : Sessions, rev : Nat, final : BOOLEAN]
LoopLabels == {"receive", "load", "items", "summary", "publish"}
Pairs == [session : Sessions, n : Nat, rev : Nat, final : BOOLEAN, items : Nat, summary : Nat]

(* Type invariant, with the channel's own: senders park only on a full      *)
(* buffer, and the loop holds a job exactly while it processes one.         *)
TypeOK ==
  /\ text \in [Sessions -> Nat]
  /\ writing \in [Producers -> Jobs \cup {NoJob}]
  /\ buffer \in Seq(Jobs) /\ Len(buffer) <= Capacity
  /\ parked \in Seq(Jobs) /\ (parked # <<>> => Len(buffer) = Capacity)
  /\ spawned \subseteq Jobs
  /\ closed \in BOOLEAN /\ done \in BOOLEAN /\ crashed \in BOOLEAN
  /\ hand \in Jobs \cup {NoJob}
  /\ loopAt \in LoopLabels
  /\ hand = NoJob <=> loopAt = "receive"
  /\ loaded \in Nat
  /\ itemsVer \in [Sessions -> Nat] /\ summaryVer \in [Sessions -> Nat]
  /\ drawn \in [items : Nat, summary : Nat]
  /\ scheduled \in Nat
  /\ overflowed \subseteq Nat
  /\ processed \in Seq(Nat)
  /\ published \in Seq(Pairs)

(* The two messages of one publication carry the same version, although the *)
(* action items and the summary of a meeting are numbered by two services   *)
(* with two tables and two ways to drop an entry at the final.              *)
VersionsAgree == \A i \in 1..Len(published) : published[i].items = published[i].summary

LastOf(s, i) == {j \in 1..(i - 1) : published[j].session = s}

(* What is published of one meeting is numbered 1, 2, 3, ... up to a final  *)
(* and from 1 again after it: no version is skipped or given twice, not     *)
(* even when jobs are skipped, overflow or overtake each other.             *)
VersionsConsecutive ==
  \A i \in 1..Len(published) :
    LET before == LastOf(published[i].session, i)
    IN published[i].items =
         IF before = {} THEN 1
         ELSE LET j == CHOOSE j \in before : \A k \in before : k <= j
              IN IF published[j].final THEN 1 ELSE published[j].items + 1

(* A job is overtaken only when it overflowed: while every job finds room   *)
(* in the channel, meetings are analysed in the order they were scheduled,  *)
(* the final last.                                                          *)
OvertakenOnlyByOverflow ==
  \A i, j \in 1..Len(processed) :
    i < j /\ processed[j] < processed[i] => processed[j] \in overflowed


Waiting == {buffer[i].n : i \in 1..Len(buffer)} \cup {parked[i].n : i \in 1..Len(parked)}
             \cup {job.n : job \in spawned}

(* No job is lost or analysed twice: each is in the channel, with an        *)
(* overflow goroutine or has been taken by the loop, and it is so once.     *)
NoJobLost ==
  /\ ~ crashed => 1..scheduled = Waiting \cup {processed[i] : i \in 1..Len(processed)}
  /\ Cardinality(Waiting) = Len(buffer) + Len(parked) + Cardinality(spawned)
  /\ \A i \in 1..Len(processed) : processed[i] \notin Waiting
  /\ \A i, j \in 1..Len(processed) : processed[i] = processed[j] => i = j

(* Close waits for every job that has reached the channel: when the loop    *)
(* has returned, only what an overflow goroutine still holds is unprocessed.*)
DrainedAtClose == done => buffer = <<>> /\ parked = <<>> /\ hand = NoJob

Quiet(s) ==
  /\ \A g \in Producers : writing[g] = NoJob \/ writing[g].session # s
  /\ \A i \in 1..Len(buffer) : buffer[i].session # s
  /\ \A i \in 1..Len(parked) : parked[i].session # s
  /\ \A job \in spawned : job.session # s
  /\ hand = NoJob \/ hand.session # s

(* The analysis a meeting is left with is the one of its last transcript:   *)
(* jobs carry no text and may overtake each other, but whichever is taken   *)
(* last finds the newest snapshot (process loads it after it took the job,  *)
(* and producers write it before they schedule).                            *)
LastTranscriptAnalysed ==
  \A s \in Sessions :
    Quiet(s) /\ text[s] # 0 /\ ~ crashed
      => \E i \in 1..Len(published) :
           /\ published[i].session = s /\ published[i].rev = text[s]
           /\ \A j \in (i + 1)..Len(published) :
                published[j].session = s => published[j].rev = text[s]

\* The broker takes every publication it is given.
BrokerAnswers == []<>(loopAt # "publish")

(* As long as the broker answers, every job that is scheduled is taken by   *)
(* the loop in the end, the ones that found the channel full included,      *)
(* unless a send on the closed channel takes the process down.              *)
EveryJobTaken ==
  BrokerAnswers =>
    \A n \in 1..MaxJobs :
      scheduled >= n ~> crashed \/ \E i \in 1..Len(processed) : processed[i] = n

(* As long as the broker answers, Close returns: whatever is in the channel *)
(* and on its way to it, the loop comes to its end and says so.             *)
CloseReturns == BrokerAnswers => (closed ~> done \/ crashed)

=============================================================================
