------------------------ MODULE AnalysisRuntimeProofs ------------------------
(***************************************************************************)
(* Proofs about AnalysisRuntime: the runs check these properties for one   *)
(* or two meetings and a channel of one or two, the theorems state them    *)
(* for every set of meetings and producers and every capacity.             *)
(***************************************************************************)
EXTENDS AnalysisRuntime, SequenceTheorems, FunctionTheorems, FiniteSetTheorems, TLAPS

-----------------------------------------------------------------------------
(* The inductive invariants.                                                *)

Numbers(q) == {q[i].n : i \in 1..Len(q)}
Once(q) == \A i, j \in 1..Len(q) : q[i].n = q[j].n => i = j
SpawnedNumbers == {job.n : job \in spawned}
Taken == {processed[i] : i \in 1..Len(processed)}

\* Every job has a number of its own and is in one place.
EachInOnePlace ==
  /\ Once(buffer) /\ Once(parked)
  /\ \A a, b \in spawned : a.n = b.n => a = b
  /\ \A i, j \in 1..Len(processed) : processed[i] = processed[j] => i = j
  /\ Numbers(buffer) \cap Numbers(parked) = {}
  /\ Numbers(buffer) \cap SpawnedNumbers = {}
  /\ Numbers(parked) \cap SpawnedNumbers = {}
  /\ Taken \cap (Numbers(buffer) \cup Numbers(parked) \cup SpawnedNumbers) = {}

Everywhere == Numbers(buffer) \cup Numbers(parked) \cup SpawnedNumbers \cup Taken

ChannelInv ==
  /\ EachInOnePlace
  /\ IsFiniteSet(spawned)
  /\ Everywhere \subseteq 1..scheduled
  /\ ~ crashed => 1..scheduled \subseteq Everywhere

\* Whoever is behind a job with a higher number has overflowed.
OrderInv ==
  /\ SpawnedNumbers \cup Numbers(parked) \subseteq overflowed
  /\ \A i, j \in 1..Len(processed) : i < j /\ processed[j] < processed[i] => processed[j] \in overflowed
  /\ \A i \in 1..Len(processed), j \in 1..Len(buffer) :
       buffer[j].n < processed[i] => buffer[j].n \in overflowed
  /\ \A i, j \in 1..Len(buffer) : i < j /\ buffer[j].n < buffer[i].n => buffer[j].n \in overflowed

DrainInv == done => closed /\ loopAt = "receive" /\ buffer = <<>> /\ parked = <<>>

\* m is the last publication of s among the first k of pub.
LastPublished(pub, s, m, k) ==
  /\ m \in 1..k /\ pub[m].session = s
  /\ \A j \in (m + 1)..k : pub[j].session # s

NotPublished(pub, s, k) == \A j \in 1..k : pub[j].session # s

\* ver is the number of versions given since the last final, up to publication k.
CountsUpTo(pub, s, k, ver) ==
  \/ NotPublished(pub, s, k) /\ ver = 0
  \/ \E m \in 1..k :
       LastPublished(pub, s, m, k) /\ ver = IF pub[m].final THEN 0 ELSE pub[m].items

\* The version the items of s had before the job in hand.
Undrawn(s) ==
  IF loopAt = "summary" /\ hand.session = s THEN summaryVer[s]
  ELSE IF loopAt = "publish" /\ hand.session = s THEN drawn.items - 1
  ELSE itemsVer[s]

VersionInv ==
  /\ \A s \in Sessions : ~ (loopAt = "summary" /\ hand.session = s) => itemsVer[s] = summaryVer[s]
  /\ loopAt = "summary" => /\ drawn.items = summaryVer[hand.session] + 1
                           /\ itemsVer[hand.session] = IF hand.final THEN 0 ELSE drawn.items
  /\ loopAt = "publish" => /\ drawn.items = drawn.summary /\ drawn.items # 0
                           /\ itemsVer[hand.session] = IF hand.final THEN 0 ELSE drawn.items
  /\ \A s \in Sessions : CountsUpTo(published, s, Len(published), Undrawn(s))
  /\ \A i \in 1..Len(published) :
       /\ published[i].items = published[i].summary
       /\ published[i].items # 0
       /\ CountsUpTo(published, published[i].session, i - 1, published[i].items - 1)

\* A job of s that will load the transcript still.
Pending(s) ==
  \/ \E g \in Producers : writing[g] # NoJob /\ writing[g].session = s
  \/ \E i \in 1..Len(buffer) : buffer[i].session = s
  \/ \E i \in 1..Len(parked) : parked[i].session = s
  \/ \E job \in spawned : job.session = s
  \/ loopAt = "load" /\ hand.session = s

Analysing(s) == loopAt \in {"items", "summary", "publish"} /\ hand.session = s

NewestPublished(s) ==
  \E m \in 1..Len(published) :
    LastPublished(published, s, m, Len(published)) /\ published[m].rev = text[s]

\* The newest transcript of s is analysed or will be.
Covered(s) ==
  \/ text[s] = 0
  \/ Pending(s)
  \/ Analysing(s) /\ loaded = text[s]
  \/ ~ Analysing(s) /\ NewestPublished(s)

CoverInv == ~ crashed => \A s \in Sessions : Covered(s)

-----------------------------------------------------------------------------
(* Sequences of jobs.                                                       *)

LEMMA AppendJob ==
  ASSUME NEW q \in Seq(Jobs), NEW job \in Jobs
  PROVE  /\ Append(q, job) \in Seq(Jobs)
         /\ Len(Append(q, job)) = Len(q) + 1
         /\ Append(q, job)[Len(q) + 1] = job
         /\ \A i \in 1..Len(q) : Append(q, job)[i] = q[i]
         /\ Numbers(Append(q, job)) = Numbers(q) \cup {job.n}
         /\ Once(q) /\ job.n \notin Numbers(q) => Once(Append(q, job))
<1> DEFINE r == Append(q, job)
<1>1. /\ r \in Seq(Jobs) /\ Len(q) \in Nat
      /\ Len(r) = Len(q) + 1
      /\ r[Len(q) + 1] = job
      /\ \A i \in 1..Len(q) : r[i] = q[i]
  OBVIOUS
<1> HIDE DEF r
<1>2. Numbers(r) = Numbers(q) \cup {job.n}
  BY <1>1 DEF Numbers
<1>3. ASSUME Once(q), job.n \notin Numbers(q) PROVE Once(r)
  <2>1. \A i \in 1..Len(q) : q[i].n # job.n
    BY <1>3 DEF Numbers
  <2> QED BY <1>1, <1>3, <2>1 DEF Once
<1> QED BY <1>1, <1>2, <1>3 DEF r

LEMMA TailJob ==
  ASSUME NEW q \in Seq(Jobs), q # <<>>
  PROVE  /\ Tail(q) \in Seq(Jobs) /\ Head(q) \in Jobs
         /\ Head(q) = q[1] /\ 1 \in 1..Len(q)
         /\ Len(Tail(q)) = Len(q) - 1
         /\ \A i \in 1..Len(Tail(q)) : i + 1 \in 1..Len(q) /\ Tail(q)[i] = q[i + 1]
         /\ Head(q).n \in Numbers(q)
         /\ Numbers(q) = Numbers(Tail(q)) \cup {Head(q).n}
         /\ Once(q) => Once(Tail(q)) /\ Head(q).n \notin Numbers(Tail(q))
<1> DEFINE r == Tail(q)
<1>1. /\ r \in Seq(Jobs) /\ Head(q) \in Jobs /\ Head(q) = q[1]
      /\ Len(q) \in Nat /\ 1 \in 1..Len(q) /\ Len(r) = Len(q) - 1
      /\ \A i \in 1..Len(r) : i + 1 \in 1..Len(q) /\ r[i] = q[i + 1]
  BY HeadTailProperties
<1> HIDE DEF r
<1>2. Head(q).n \in Numbers(q)
  BY <1>1 DEF Numbers
<1>3. Numbers(q) = Numbers(r) \cup {Head(q).n}
  <2>1. ASSUME NEW i \in 1..Len(q) PROVE q[i].n \in Numbers(r) \cup {Head(q).n}
    <3>1. CASE i = 1
      BY <1>1, <3>1
    <3>2. CASE i # 1
      BY <1>1, <3>2, i - 1 \in 1..Len(r), r[i - 1] = q[i] DEF Numbers
    <3> QED BY <3>1, <3>2
  <2>2. \A i \in 1..Len(r) : r[i].n \in Numbers(q)
    BY <1>1 DEF Numbers
  <2> QED BY <1>2, <2>1, <2>2 DEF Numbers
<1>4. ASSUME Once(q) PROVE Once(r) /\ Head(q).n \notin Numbers(r)
  <2>1. ASSUME NEW i \in 1..Len(r) PROVE r[i].n # Head(q).n
    <3>1. i + 1 \in 1..Len(q) /\ r[i] = q[i + 1] /\ i + 1 # 1
      BY <1>1
    <3> QED BY <1>1, <1>4, <3>1 DEF Once
  <2>2. ASSUME NEW i \in 1..Len(r), NEW j \in 1..Len(r), r[i].n = r[j].n PROVE i = j
    <3>1. i + 1 = j + 1
      BY <1>1, <1>4, <2>2 DEF Once
    <3> QED BY <3>1
  <2> QED BY <2>1, <2>2 DEF Once, Numbers
<1> QED BY <1>1, <1>2, <1>3, <1>4 DEF r

-----------------------------------------------------------------------------
(* Types.                                                                   *)

LEMMA NoJobIsNoJob == NoJob \notin Jobs
  BY AnalysisAssumption DEF Jobs

\* A producer's step.
LEMMA ProducerType ==
  ASSUME TypeOK, NEW g \in Producers, Producer(g)
  PROVE  TypeOK'
<1>1. CASE \E s \in Sessions, final \in BOOLEAN : UpsertSnapshot(g, s, final)
  <2>1. PICK s \in Sessions, final \in BOOLEAN : UpsertSnapshot(g, s, final)
    BY <1>1
  <2>2. [n |-> 0, session |-> s, rev |-> text[s] + 1, final |-> final] \in Jobs
    BY DEF Jobs, TypeOK
  <2>3. text' \in [Sessions -> Nat] /\ writing' \in [Producers -> Jobs \cup {NoJob}]
    BY <2>1, <2>2 DEF UpsertSnapshot, TypeOK
  <2> QED BY <2>1, <2>3 DEF UpsertSnapshot, TypeOK, chanVars, loopVars
<1>2. CASE Schedule(g)
  <2> DEFINE job == [writing[g] EXCEPT !.n = scheduled + 1]
  <2>1. job \in Jobs /\ job.n \in Nat
    <3>1. writing[g] \in Jobs /\ scheduled + 1 \in Nat
      BY <1>2 DEF Schedule, Enqueue, TypeOK
    <3> QED BY <3>1 DEF Jobs
  <2>2. /\ scheduled' \in Nat
        /\ writing' \in [Producers -> Jobs \cup {NoJob}]
        /\ UNCHANGED <<text, parked, closed, loopVars>>
    BY <1>2 DEF Schedule, Enqueue, TypeOK
  <2>3. /\ buffer' \in Seq(Jobs) /\ Len(buffer') <= Capacity
        /\ parked # <<>> => Len(buffer') = Capacity
        /\ spawned' \subseteq Jobs /\ overflowed' \subseteq Nat /\ crashed' \in BOOLEAN
    <3>1. CASE closed \/ ~ HasRoom
      BY <1>2, <2>1, <3>1 DEF Schedule, Enqueue, Overflow, TypeOK
    <3>2. CASE ~ closed /\ HasRoom
      <4>1. buffer' = Append(buffer, job) /\ UNCHANGED <<spawned, overflowed, crashed>>
        BY <1>2, <3>2 DEF Schedule, Enqueue
      <4> HIDE DEF job
      <4>2. Len(buffer) \in Nat /\ Capacity \in Nat /\ Len(buffer) < Capacity
        BY <3>2, AnalysisAssumption DEF HasRoom, TypeOK
      <4> QED BY <2>1, <4>1, <4>2, AppendJob DEF TypeOK
    <3> QED BY <3>1, <3>2
  <2> QED BY <2>2, <2>3 DEF TypeOK, loopVars
<1> QED BY <1>1, <1>2 DEF Producer

LEMMA SenderType ==
  ASSUME TypeOK, NEW job \in spawned, OverflowSend(job)
  PROVE  TypeOK'
<1>1. job \in Jobs /\ Len(buffer) \in Nat /\ Capacity \in Nat /\ Capacity # 0
  BY AnalysisAssumption DEF TypeOK
<1>2. UNCHANGED <<prodVars, closed, loopVars>>
  BY DEF OverflowSend
<1>3. /\ buffer' \in Seq(Jobs) /\ Len(buffer') <= Capacity
      /\ parked' \in Seq(Jobs) /\ (parked' # <<>> => Len(buffer') = Capacity)
      /\ spawned' \subseteq Jobs /\ crashed' \in BOOLEAN
  <2>1. CASE closed
    BY <2>1 DEF OverflowSend, TypeOK
  <2>2. CASE ~ closed /\ HasRoom
    <3>1. buffer' = Append(buffer, job) /\ spawned' = spawned \ {job} /\ UNCHANGED <<parked, crashed>>
      BY <2>2 DEF OverflowSend
    <3>2. parked = <<>> /\ Len(buffer) < Capacity /\ buffer \in Seq(Jobs)
      BY <1>1, <2>2 DEF TypeOK, HasRoom
    <3>3. buffer' \in Seq(Jobs) /\ Len(buffer') = Len(buffer) + 1
      BY <1>1, <3>1, <3>2, AppendJob
    <3> QED BY <1>1, <3>1, <3>2, <3>3 DEF TypeOK
  <2>3. CASE ~ closed /\ ~ HasRoom
    <3>1. parked' = Append(parked, job) /\ spawned' = spawned \ {job} /\ UNCHANGED <<buffer, crashed>>
      BY <2>3 DEF OverflowSend
    <3>2. Len(buffer) = Capacity
      BY <1>1, <2>3 DEF TypeOK, HasRoom
    <3> QED BY <1>1, <3>1, <3>2, AppendJob DEF TypeOK
  <2> QED BY <2>1, <2>2, <2>3
<1> QED BY <1>2, <1>3 DEF TypeOK, prodVars, loopVars

LEMMA RefillType ==
  ASSUME TypeOK, Refill, buffer # <<>>
  PROVE  /\ buffer' \in Seq(Jobs) /\ Len(buffer') <= Capacity
         /\ parked' \in Seq(Jobs) /\ (parked' # <<>> => Len(buffer') = Capacity)
<1>1. Len(buffer) \in Nat /\ Capacity \in Nat
  BY AnalysisAssumption DEF TypeOK
<1>2. Tail(buffer) \in Seq(Jobs) /\ Len(Tail(buffer)) = Len(buffer) - 1
  BY TailJob DEF TypeOK
<1>3. CASE parked = <<>>
  <2>1. buffer' = Tail(buffer) /\ parked' = parked
    BY <1>3 DEF Refill
  <2>2. parked \in Seq(Jobs) /\ Len(buffer) <= Capacity
    BY DEF TypeOK
  <2> QED BY <1>1, <1>2, <1>3, <2>1, <2>2
<1>4. CASE parked # <<>>
  <2>1. Tail(parked) \in Seq(Jobs) /\ Head(parked) \in Jobs
    BY <1>4, TailJob DEF TypeOK
  <2>2. buffer' = Append(Tail(buffer), Head(parked)) /\ parked' = Tail(parked)
    BY <1>4 DEF Refill
  <2>3. Len(buffer) = Capacity
    BY <1>4 DEF TypeOK
  <2>4. buffer' \in Seq(Jobs) /\ Len(buffer') = Len(Tail(buffer)) + 1
    BY <1>2, <2>1, <2>2, AppendJob
  <2> QED BY <1>1, <1>2, <2>1, <2>2, <2>3, <2>4
<1> QED BY <1>3, <1>4

LEMMA LoopType == ASSUME TypeOK, Loop PROVE TypeOK'
<1>1. CASE Receive
  <2>1. /\ buffer' \in Seq(Jobs) /\ Len(buffer') <= Capacity
        /\ parked' \in Seq(Jobs) /\ (parked' # <<>> => Len(buffer') = Capacity)
    BY <1>1, RefillType DEF Receive
  <2>2. Head(buffer) \in Jobs /\ Head(buffer).n \in Nat
    BY <1>1, TailJob DEF Receive, TypeOK, Jobs
  <2>3. hand' \in Jobs /\ hand' # NoJob /\ loopAt' = "load" /\ processed' \in Seq(Nat)
    BY <1>1, <2>2, NoJobIsNoJob DEF Receive, TypeOK
  <2> QED BY <1>1, <2>1, <2>3 DEF Receive, TypeOK, LoopLabels, prodVars
<1>2. CASE Finish
  BY <1>2 DEF Finish, CloseDone, TypeOK, prodVars, chanVars
<1>3. CASE LoadSnapshot
  BY <1>3 DEF LoadSnapshot, BackToReceive, Snapshot, TypeOK, LoopLabels, prodVars, chanVars, Jobs
<1>4. CASE GenerateItems
  <2>1. hand \in Jobs /\ hand # NoJob /\ hand.session \in Sessions /\ hand.final \in BOOLEAN
    BY <1>4 DEF GenerateItems, TypeOK, Jobs
  <2>2. itemsVer' \in [Sessions -> Nat] /\ drawn' \in [items : Nat, summary : Nat]
    <3>1. itemsVer[hand.session] + 1 \in Nat /\ ItemsAfter(hand.session, hand.final) \in Nat
      BY <2>1 DEF ItemsAfter, TypeOK
    <3> QED BY <1>4, <3>1 DEF GenerateItems, TypeOK
  <2> QED BY <1>4, <2>1, <2>2 DEF GenerateItems, TypeOK, LoopLabels, prodVars, chanVars
<1>5. CASE GenerateSummary
  <2>1. hand \in Jobs /\ hand # NoJob /\ hand.session \in Sessions /\ hand.final \in BOOLEAN
    BY <1>5 DEF GenerateSummary, TypeOK, Jobs
  <2>2. summaryVer' \in [Sessions -> Nat] /\ drawn' \in [items : Nat, summary : Nat]
    <3>1. summaryVer[hand.session] + 1 \in Nat
      BY <2>1 DEF TypeOK
    <3>2. (IF hand.final THEN 0 ELSE summaryVer[hand.session] + 1) \in Nat
      BY <3>1
    <3> QED BY <1>5, <3>1, <3>2 DEF GenerateSummary, TypeOK
  <2> QED BY <1>5, <2>1, <2>2 DEF GenerateSummary, TypeOK, LoopLabels, prodVars, chanVars
<1>6. CASE Publish
  <2>1. hand \in Jobs
    BY <1>6 DEF Publish, TypeOK
  <2>2. [session |-> hand.session, n |-> hand.n, rev |-> loaded, final |-> hand.final,
         items |-> drawn.items, summary |-> drawn.summary] \in Pairs
    BY <2>1 DEF Pairs, Jobs, TypeOK
  <2>3. published' \in Seq(Pairs)
    BY <1>6, <2>2 DEF Publish, TypeOK
  <2> QED BY <1>6, <2>3 DEF Publish, BackToReceive, TypeOK, LoopLabels, prodVars, chanVars
<1> QED BY <1>1, <1>2, <1>3, <1>4, <1>5, <1>6 DEF Loop, Working

LEMMA CloseType == ASSUME TypeOK, Close PROVE TypeOK'
  BY DEF Close, TypeOK, prodVars, loopVars

LEMMA TypeInit == Init => TypeOK
<1> SUFFICES ASSUME Init PROVE TypeOK
  OBVIOUS
<1>1. /\ Len(buffer) <= Capacity /\ buffer \in Seq(Jobs) /\ parked \in Seq(Jobs)
      /\ parked = <<>> /\ processed \in Seq(Nat) /\ published \in Seq(Pairs)
  BY AnalysisAssumption DEF Init
<1>2. /\ text \in [Sessions -> Nat] /\ writing \in [Producers -> Jobs \cup {NoJob}]
      /\ itemsVer \in [Sessions -> Nat] /\ summaryVer \in [Sessions -> Nat]
      /\ drawn \in [items : Nat, summary : Nat]
  BY DEF Init
<1> QED BY <1>1, <1>2 DEF Init, TypeOK, LoopLabels

LEMMA TypeStep == ASSUME TypeOK, [Next]_vars PROVE TypeOK'
<1>1. CASE UNCHANGED vars
  BY <1>1 DEF vars, prodVars, chanVars, loopVars, TypeOK
<1>2. CASE Next
  BY <1>2, ProducerType, SenderType, LoopType, CloseType DEF Next, Senders
<1> QED BY <1>1, <1>2

(* The variables keep their types, senders park only on a full channel, and *)
(* the loop holds a job exactly while it processes one.                     *)
THEOREM AnalysisTyped == Spec => []TypeOK
  BY TypeInit, TypeStep, PTL DEF Spec

-----------------------------------------------------------------------------
(* Every job is in one place.                                               *)

LEMMA ChannelInit == Init => ChannelInv
<1> SUFFICES ASSUME Init PROVE ChannelInv
  OBVIOUS
<1>1. buffer = <<>> /\ parked = <<>> /\ spawned = {} /\ processed = <<>> /\ scheduled = 0
  BY DEF Init
<1>2. Numbers(buffer) = {} /\ Numbers(parked) = {} /\ SpawnedNumbers = {} /\ Taken = {}
  BY <1>1 DEF Numbers, SpawnedNumbers, Taken
<1>3. Once(buffer) /\ Once(parked)
  BY <1>1 DEF Once
<1>4. IsFiniteSet(spawned)
  BY <1>1, FS_EmptySet
<1> QED BY <1>1, <1>2, <1>3, <1>4 DEF ChannelInv, EachInOnePlace, Everywhere

LEMMA PlacesUntouched ==
  ASSUME EachInOnePlace, UNCHANGED <<buffer, parked, spawned, processed>>
  PROVE  EachInOnePlace' /\ UNCHANGED Everywhere
<1>1. UNCHANGED <<Numbers(buffer), Numbers(parked), Once(buffer), Once(parked), SpawnedNumbers, Taken>>
  BY DEF Numbers, Once, SpawnedNumbers, Taken
<1> QED BY <1>1 DEF EachInOnePlace, Everywhere

LEMMA ChannelUntouched ==
  ASSUME ChannelInv, UNCHANGED <<buffer, parked, spawned, processed, scheduled>>,
         ~ crashed \/ UNCHANGED crashed
  PROVE  ChannelInv'
  BY PlacesUntouched DEF ChannelInv

LEMMA SpawnedFacts ==
  ASSUME EachInOnePlace, NEW job \in spawned
  PROVE  /\ job.n \in SpawnedNumbers
         /\ {a.n : a \in spawned \ {job}} = SpawnedNumbers \ {job.n}
<1>1. \A a \in spawned \ {job} : a.n # job.n
  BY DEF EachInOnePlace
<1> QED BY <1>1 DEF SpawnedNumbers

LEMMA ScheduleChannel ==
  ASSUME TypeOK, ChannelInv, NEW g \in Producers, Schedule(g)
  PROVE  ChannelInv'
<1> DEFINE job == [writing[g] EXCEPT !.n = scheduled + 1]
<1>1. job \in Jobs /\ job.n = scheduled + 1
  <2>1. writing[g] \in Jobs /\ scheduled + 1 \in Nat
    BY DEF Schedule, Enqueue, TypeOK
  <2> QED BY <2>1 DEF Jobs
<1>2. /\ scheduled \in Nat /\ scheduled' = scheduled + 1
      /\ UNCHANGED <<parked, processed>>
  BY DEF Schedule, Enqueue, TypeOK, loopVars
<1>3. job.n \notin Everywhere /\ job.n \in 1..scheduled'
      /\ 1..scheduled' = 1..scheduled \cup {job.n}
  BY <1>1, <1>2 DEF ChannelInv
<1>4. CASE closed
  <2>1. crashed' /\ UNCHANGED <<buffer, spawned>>
    BY <1>4 DEF Schedule, Enqueue
  <2> QED BY <1>2, <1>3, <2>1, PlacesUntouched DEF ChannelInv
<1>5. CASE ~ closed /\ HasRoom
  <2>1. buffer' = Append(buffer, job) /\ UNCHANGED <<spawned, crashed>>
    BY <1>5 DEF Schedule, Enqueue
  <2> HIDE DEF job
  <2>2. /\ Numbers(buffer)' = Numbers(buffer) \cup {job.n}
        /\ Once(buffer)'
    BY <1>1, <1>3, <2>1, AppendJob DEF TypeOK, ChannelInv, EachInOnePlace, Everywhere
  <2>3. UNCHANGED <<Numbers(parked), Once(parked), SpawnedNumbers, Taken>>
    BY <1>2, <2>1 DEF Numbers, Once, SpawnedNumbers, Taken
  <2>4. EachInOnePlace'
    BY <1>2, <1>3, <2>1, <2>2, <2>3 DEF EachInOnePlace, ChannelInv, Everywhere
  <2> QED BY <1>3, <2>1, <2>2, <2>3, <2>4 DEF ChannelInv, Everywhere
<1>6. CASE ~ closed /\ ~ HasRoom
  <2>1. spawned' = spawned \cup {job} /\ UNCHANGED <<buffer, crashed>>
    BY <1>6 DEF Schedule, Enqueue, Overflow
  <2> HIDE DEF job
  <2>2. SpawnedNumbers' = SpawnedNumbers \cup {job.n}
    BY <2>1 DEF SpawnedNumbers
  <2>3. UNCHANGED <<Numbers(buffer), Once(buffer), Numbers(parked), Once(parked), Taken>>
    BY <1>2, <2>1 DEF Numbers, Once, Taken
  <2>4. \A a, b \in spawned' : a.n = b.n => a = b
    <3>1. \A a \in spawned : a.n # job.n
      BY <1>3 DEF Everywhere, SpawnedNumbers
    <3> QED BY <2>1, <3>1 DEF ChannelInv, EachInOnePlace
  <2>5. EachInOnePlace'
    BY <1>2, <1>3, <2>2, <2>3, <2>4 DEF EachInOnePlace, ChannelInv, Everywhere
  <2>6. IsFiniteSet(spawned')
    BY <2>1, FS_AddElement DEF ChannelInv
  <2> QED BY <1>3, <2>1, <2>2, <2>3, <2>5, <2>6 DEF ChannelInv, Everywhere
<1> QED BY <1>4, <1>5, <1>6

LEMMA SenderChannel ==
  ASSUME TypeOK, ChannelInv, NEW job \in spawned, OverflowSend(job)
  PROVE  ChannelInv'
<1>1. job \in Jobs /\ UNCHANGED <<scheduled, processed>>
  BY DEF OverflowSend, TypeOK, prodVars, loopVars
<1>2. CASE closed
  <2>1. crashed' /\ UNCHANGED <<buffer, parked, spawned>>
    BY <1>2 DEF OverflowSend
  <2> QED BY <1>1, <2>1, PlacesUntouched DEF ChannelInv
<1>3. CASE ~ closed
  <2>1. spawned' = spawned \ {job} /\ UNCHANGED crashed
    BY <1>3 DEF OverflowSend
  <2>2. job.n \in SpawnedNumbers /\ SpawnedNumbers' = SpawnedNumbers \ {job.n}
    BY <2>1, SpawnedFacts DEF ChannelInv, SpawnedNumbers
  <2>3. IsFiniteSet(spawned')
    BY <2>1, FS_RemoveElement DEF ChannelInv
  <2>4. UNCHANGED Taken
    BY <1>1 DEF Taken
  <2>5. CASE HasRoom
    <3>1. buffer' = Append(buffer, job) /\ UNCHANGED parked
      BY <1>3, <2>5 DEF OverflowSend
    <3>2. /\ Numbers(buffer)' = Numbers(buffer) \cup {job.n}
          /\ Once(buffer)'
      BY <1>1, <2>2, <3>1, AppendJob DEF TypeOK, ChannelInv, EachInOnePlace
    <3>3. UNCHANGED <<Numbers(parked), Once(parked)>>
      BY <3>1 DEF Numbers, Once
    <3>4. EachInOnePlace'
      BY <1>1, <2>1, <2>2, <2>4, <3>2, <3>3 DEF EachInOnePlace, ChannelInv
    <3> QED BY <1>1, <2>1, <2>2, <2>3, <2>4, <3>2, <3>3, <3>4 DEF ChannelInv, Everywhere
  <2>6. CASE ~ HasRoom
    <3>1. parked' = Append(parked, job) /\ UNCHANGED buffer
      BY <1>3, <2>6 DEF OverflowSend
    <3>2. /\ Numbers(parked)' = Numbers(parked) \cup {job.n}
          /\ Once(parked)'
      BY <1>1, <2>2, <3>1, AppendJob DEF TypeOK, ChannelInv, EachInOnePlace
    <3>3. UNCHANGED <<Numbers(buffer), Once(buffer)>>
      BY <3>1 DEF Numbers, Once
    <3>4. EachInOnePlace'
      BY <1>1, <2>1, <2>2, <2>4, <3>2, <3>3 DEF EachInOnePlace, ChannelInv
    <3> QED BY <1>1, <2>1, <2>2, <2>3, <2>4, <3>2, <3>3, <3>4 DEF ChannelInv, Everywhere
  <2> QED BY <2>5, <2>6
<1> QED BY <1>2, <1>3

LEMMA ReceiveChannel == ASSUME TypeOK, ChannelInv, Receive PROVE ChannelInv'
<1> DEFINE n == Head(buffer).n
<1>1. /\ buffer # <<>> /\ Refill /\ processed' = Append(processed, n)
      /\ UNCHANGED <<scheduled, spawned, crashed>>
  BY DEF Receive, prodVars
<1>2. /\ Tail(buffer) \in Seq(Jobs) /\ n \in Numbers(buffer) /\ n \in Nat
      /\ Numbers(buffer) = Numbers(Tail(buffer)) \cup {n}
      /\ Once(Tail(buffer)) /\ n \notin Numbers(Tail(buffer))
  BY <1>1, TailJob DEF TypeOK, ChannelInv, EachInOnePlace, Jobs
<1>3. Taken' = Taken \cup {n} /\ n \notin Taken
      /\ \A i, j \in 1..Len(processed') : processed'[i] = processed'[j] => i = j
  <2>1. /\ Len(processed) \in Nat /\ Len(processed') = Len(processed) + 1
        /\ processed'[Len(processed) + 1] = n
        /\ \A i \in 1..Len(processed) : processed'[i] = processed[i]
    BY <1>1, <1>2 DEF TypeOK
  <2>2. n \notin Taken
    BY <1>2 DEF ChannelInv, EachInOnePlace
  <2>3. \A i \in 1..Len(processed) : processed[i] # n
    BY <2>2 DEF Taken
  <2>4. Taken' = Taken \cup {n}
    BY <2>1 DEF Taken
  <2> QED BY <2>1, <2>2, <2>3, <2>4 DEF ChannelInv, EachInOnePlace
<1>4. UNCHANGED SpawnedNumbers
  BY <1>1 DEF SpawnedNumbers
<1> HIDE DEF n
<1>5. /\ Numbers(buffer)' \cup Numbers(parked)' = (Numbers(buffer) \cup Numbers(parked)) \ {n}
      /\ Numbers(buffer)' \cap Numbers(parked)' = {}
      /\ Once(buffer)' /\ Once(parked)'
  <2>1. CASE parked = <<>>
    <3>1. buffer' = Tail(buffer) /\ parked' = parked
      BY <1>1, <2>1 DEF Refill
    <3>2. Numbers(parked) = {} /\ Once(parked)
      BY <2>1 DEF Numbers, Once
    <3> QED BY <1>2, <3>1, <3>2
  <2>2. CASE parked # <<>>
    <3> DEFINE first == Head(parked)
    <3>1. buffer' = Append(Tail(buffer), first) /\ parked' = Tail(parked)
      BY <1>1, <2>2 DEF Refill
    <3>2. /\ first \in Jobs
          /\ Numbers(parked) = Numbers(Tail(parked)) \cup {first.n}
          /\ Once(Tail(parked)) /\ first.n \notin Numbers(Tail(parked))
      BY <2>2, TailJob DEF TypeOK, ChannelInv, EachInOnePlace
    <3> HIDE DEF first
    <3>3. Numbers(buffer) \cap Numbers(parked) = {}
      BY DEF ChannelInv, EachInOnePlace
    <3>4. Numbers(buffer') = Numbers(Tail(buffer)) \cup {first.n} /\ Once(buffer')
      BY <1>2, <3>1, <3>2, <3>3, AppendJob
    <3>5. /\ Numbers(buffer') = (Numbers(buffer) \ {n}) \cup {first.n}
          /\ Numbers(parked') = Numbers(parked) \ {first.n}
          /\ Once(buffer') /\ Once(parked')
      BY <1>2, <3>1, <3>2, <3>4
    <3> QED BY <1>2, <3>2, <3>3, <3>5
  <2> QED BY <2>1, <2>2
<1>6. EachInOnePlace'
  BY <1>1, <1>2, <1>3, <1>4, <1>5 DEF EachInOnePlace, ChannelInv
<1> QED BY <1>1, <1>2, <1>3, <1>4, <1>5, <1>6 DEF ChannelInv, Everywhere

LEMMA ChannelStep == ASSUME TypeOK, ChannelInv, [Next]_vars PROVE ChannelInv'
<1>1. CASE UNCHANGED vars
  BY <1>1, ChannelUntouched DEF vars, prodVars, chanVars, loopVars
<1>2. ASSUME ~ crashed, NEW g \in Producers, Producer(g) PROVE ChannelInv'
  <2>1. CASE Schedule(g)
    BY <2>1, ScheduleChannel
  <2>2. CASE \E s \in Sessions, final \in BOOLEAN : UpsertSnapshot(g, s, final)
    BY <1>2, <2>2, ChannelUntouched DEF UpsertSnapshot, chanVars, loopVars
  <2> QED BY <1>2, <2>1, <2>2 DEF Producer
<1>3. ASSUME ~ crashed, Loop PROVE ChannelInv'
  <2>1. CASE Receive
    BY <2>1, ReceiveChannel
  <2>2. CASE ~ Receive
    <3>1. UNCHANGED <<buffer, parked, spawned, processed, scheduled>>
      BY <1>3, <2>2 DEF Loop, Working, Finish, CloseDone, LoadSnapshot, GenerateItems, GenerateSummary, Publish,
                        prodVars, chanVars
    <3> QED BY <1>3, <3>1, ChannelUntouched
  <2> QED BY <2>1, <2>2
<1>4. ASSUME ~ crashed, Close PROVE ChannelInv'
  BY <1>4, ChannelUntouched DEF Close, prodVars, loopVars
<1> QED BY <1>1, <1>2, <1>3, <1>4, SenderChannel DEF Next, Senders

LEMMA OnceCardinality ==
  ASSUME NEW q \in Seq(Jobs), Once(q)
  PROVE  IsFiniteSet(Numbers(q)) /\ Cardinality(Numbers(q)) = Len(q)
<1> DEFINE f == [i \in 1..Len(q) |-> q[i].n]
<1>1. f \in Bijection(1..Len(q), Numbers(q))
  <2>1. f \in [1..Len(q) -> Numbers(q)]
    BY DEF Numbers
  <2>2. \A i, j \in 1..Len(q) : f[i] = f[j] => i = j
    BY DEF Once
  <2>3. \A n \in Numbers(q) : \E i \in 1..Len(q) : f[i] = n
    BY DEF Numbers
  <2> HIDE DEF f
  <2> QED BY <2>1, <2>2, <2>3, Fun_IsBij
<1>2. ExistsBijection(1..Len(q), Numbers(q))
  BY <1>1 DEF ExistsBijection
<1>3. Len(q) \in Nat
  OBVIOUS
<1>4. IsFiniteSet(1..Len(q)) /\ Cardinality(1..Len(q)) = Len(q)
  BY <1>3, FS_Interval
<1> QED BY <1>2, <1>4, FS_Bijection

LEMMA SpawnedCardinality ==
  ASSUME EachInOnePlace, IsFiniteSet(spawned)
  PROVE  IsFiniteSet(SpawnedNumbers) /\ Cardinality(SpawnedNumbers) = Cardinality(spawned)
<1> DEFINE f == [job \in spawned |-> job.n]
<1>1. f \in Bijection(spawned, SpawnedNumbers)
  <2>1. f \in [spawned -> SpawnedNumbers]
    BY DEF SpawnedNumbers
  <2>2. \A a, b \in spawned : f[a] = f[b] => a = b
    BY DEF EachInOnePlace
  <2>3. \A n \in SpawnedNumbers : \E a \in spawned : f[a] = n
    BY DEF SpawnedNumbers
  <2> HIDE DEF f
  <2> QED BY <2>1, <2>2, <2>3, Fun_IsBij
<1>2. ExistsBijection(spawned, SpawnedNumbers)
  BY <1>1 DEF ExistsBijection
<1> QED BY <1>2, FS_Bijection

\* Two disjoint finite sets have the elements of both.
LEMMA DisjointUnion ==
  ASSUME NEW S, NEW T, IsFiniteSet(S), IsFiniteSet(T)
  PROVE  /\ IsFiniteSet(S \cup T)
         /\ S \cap T = {} => Cardinality(S \cup T) = Cardinality(S) + Cardinality(T)
<1>1. Cardinality(S) \in Nat /\ Cardinality(T) \in Nat /\ Cardinality({}) = 0
  BY FS_CardinalityType, FS_EmptySet
<1>2. /\ IsFiniteSet(S \cup T)
      /\ Cardinality(S \cup T) = Cardinality(S) + Cardinality(T) - Cardinality(S \cap T)
  BY FS_Union
<1>3. ASSUME S \cap T = {} PROVE Cardinality(S \cap T) = 0
  BY <1>1, <1>3, Zenon
<1> DEFINE s == Cardinality(S) t == Cardinality(T) u == Cardinality(S \cup T) v == Cardinality(S \cap T)
<1>4. s \in Nat /\ t \in Nat /\ u = s + t - v /\ (S \cap T = {} => v = 0)
  BY <1>1, <1>2, <1>3
<1> HIDE DEF s, t, u, v
<1>5. S \cap T = {} => u = s + t
  BY <1>4
<1> QED BY <1>2, <1>5 DEF s, t, u

LEMMA ChannelKeepsJobs == ASSUME TypeOK, ChannelInv PROVE NoJobLost
<1>1. Waiting = Numbers(buffer) \cup Numbers(parked) \cup SpawnedNumbers
  BY DEF Waiting, Numbers, SpawnedNumbers
<1>2. Cardinality(Waiting) = Len(buffer) + Len(parked) + Cardinality(spawned)
  <2>1. /\ IsFiniteSet(Numbers(buffer)) /\ Cardinality(Numbers(buffer)) = Len(buffer)
        /\ IsFiniteSet(Numbers(parked)) /\ Cardinality(Numbers(parked)) = Len(parked)
        /\ IsFiniteSet(SpawnedNumbers) /\ Cardinality(SpawnedNumbers) = Cardinality(spawned)
    BY OnceCardinality, SpawnedCardinality DEF TypeOK, ChannelInv, EachInOnePlace
  <2>2. /\ Numbers(buffer) \cap Numbers(parked) = {}
        /\ (Numbers(buffer) \cup Numbers(parked)) \cap SpawnedNumbers = {}
    BY DEF ChannelInv, EachInOnePlace
  <2> DEFINE inChannel == Numbers(buffer) \cup Numbers(parked)
  <2>3. IsFiniteSet(inChannel) /\ Cardinality(inChannel) = Len(buffer) + Len(parked)
    <3>1. /\ IsFiniteSet(inChannel)
          /\ Cardinality(inChannel) = Cardinality(Numbers(buffer)) + Cardinality(Numbers(parked))
      BY <2>1, <2>2, DisjointUnion, Zenon
    <3> QED BY <2>1, <3>1, Zenon
  <2>4. Cardinality(inChannel \cup SpawnedNumbers) = Cardinality(inChannel) + Cardinality(spawned)
    <3>1. inChannel \cap SpawnedNumbers = {}
      BY <2>2
    <3> HIDE DEF inChannel
    <3> QED BY <2>1, <2>3, <3>1, DisjointUnion
  <2> QED BY <1>1, <2>3, <2>4
<1>3. ~ crashed => 1..scheduled = Waiting \cup Taken
  BY <1>1 DEF ChannelInv, Everywhere
<1>4. \A i \in 1..Len(processed) : processed[i] \notin Waiting
  BY <1>1 DEF ChannelInv, EachInOnePlace, Taken
<1>5. \A i, j \in 1..Len(processed) : processed[i] = processed[j] => i = j
  BY DEF ChannelInv, EachInOnePlace
<1> QED BY <1>2, <1>3, <1>4, <1>5 DEF NoJobLost, Taken

LEMMA AnalysisChannel == Spec => []ChannelInv
  BY AnalysisTyped, ChannelInit, ChannelStep, PTL DEF Spec

(* No job that Schedule accepted is lost, and none is analysed twice,       *)
(* however the channel, the overflow goroutines and Close interleave.       *)
THEOREM NoJobIsLost == Spec => []NoJobLost
  BY AnalysisTyped, AnalysisChannel, ChannelKeepsJobs, PTL

-----------------------------------------------------------------------------
(* Close drains the channel.                                                *)

LEMMA DrainInit == Init => DrainInv
  BY DEF Init, DrainInv

LEMMA DrainStep == ASSUME TypeOK, DrainInv, [Next]_vars PROVE DrainInv'
<1>1. ASSUME done PROVE DrainInv'
  <2>1. closed /\ loopAt = "receive" /\ buffer = <<>> /\ parked = <<>>
    BY <1>1 DEF DrainInv
  <2>2. UNCHANGED <<closed, loopAt, buffer, parked, done>>
    BY <1>1, <2>1 DEF Next, Senders, Producer, Loop, Working, UpsertSnapshot, Schedule, Enqueue, OverflowSend,
              Close, Receive, Finish, CloseDone, LoadSnapshot, GenerateItems, GenerateSummary, Publish,
              vars, chanVars, loopVars, prodVars
  <2> QED BY <2>1, <2>2 DEF DrainInv
<1>2. ASSUME ~ done, done' PROVE DrainInv'
  <2>1. Finish
    BY <1>2 DEF Next, Senders, Producer, Loop, Working, UpsertSnapshot, Schedule, Enqueue, OverflowSend,
              Close, Receive, LoadSnapshot, GenerateItems, GenerateSummary, Publish,
              vars, loopVars
  <2>2. closed /\ buffer = <<>> /\ loopAt = "receive"
    BY <2>1 DEF Finish, CloseDone, Exhausted
  <2>3. parked = <<>>
    BY <2>2, AnalysisAssumption DEF TypeOK
  <2> QED BY <2>1, <2>2, <2>3 DEF Finish, CloseDone, chanVars, DrainInv
<1>3. ASSUME ~ done' PROVE DrainInv'
  BY <1>3 DEF DrainInv
<1> QED BY <1>1, <1>2, <1>3

(* When Close returns, no job is left in the channel or in hand.            *)
THEOREM CloseDrains == Spec => []DrainedAtClose
<1>1. TypeOK /\ DrainInv => DrainedAtClose
  BY DEF TypeOK, DrainInv, DrainedAtClose
<1> QED BY <1>1, AnalysisTyped, DrainInit, DrainStep, PTL DEF Spec

-----------------------------------------------------------------------------
(* Only a job that overflowed is overtaken.                                 *)

LEMMA OrderInit == Init => OrderInv
  BY DEF Init, OrderInv, SpawnedNumbers, Numbers

LEMMA OrderUntouched ==
  ASSUME OrderInv, UNCHANGED <<buffer, parked, spawned, processed, overflowed>>
  PROVE  OrderInv'
<1>1. UNCHANGED <<SpawnedNumbers, Numbers(parked)>>
  BY DEF SpawnedNumbers, Numbers
<1> QED BY <1>1 DEF OrderInv

\* A job with a number that is not lower than any before it, or that has
\* overflowed, joins the buffer.
LEMMA BufferGrows ==
  ASSUME TypeOK, OrderInv, NEW q \in Seq(Jobs), NEW job \in Jobs,
         job.n \in overflowed'
           \/ \A n \in Taken \cup Numbers(q) : n <= job.n,
         buffer' = Append(q, job),
         \A i, j \in 1..Len(q) : i < j /\ q[j].n < q[i].n => q[j].n \in overflowed,
         \A i \in 1..Len(processed'), j \in 1..Len(q) :
           q[j].n < processed'[i] => q[j].n \in overflowed,
         \A i \in 1..Len(processed') : processed'[i] \in Taken \cup Numbers(q) \/ job.n \in overflowed',
         overflowed \subseteq overflowed'
  PROVE  /\ \A i, j \in 1..Len(buffer') :
              i < j /\ buffer'[j].n < buffer'[i].n => buffer'[j].n \in overflowed'
         /\ \A i \in 1..Len(processed'), j \in 1..Len(buffer') :
              buffer'[j].n < processed'[i] => buffer'[j].n \in overflowed'
<1>1. /\ Len(q) \in Nat /\ Len(buffer') = Len(q) + 1
      /\ buffer'[Len(q) + 1] = job
      /\ \A i \in 1..Len(q) : buffer'[i] = q[i]
  BY AppendJob
<1>2. /\ \A i \in 1..Len(q) : q[i].n \in Nat /\ q[i].n \in Numbers(q)
      /\ job.n \in Nat
  <2>1. \A i \in 1..Len(q) : q[i] \in Jobs
    OBVIOUS
  <2> QED BY <2>1 DEF Jobs, Numbers
<1>3. \A n \in Taken : n \in Nat
  BY DEF Taken, TypeOK
<1>4. ASSUME NEW i \in 1..Len(buffer'), NEW j \in 1..Len(buffer'), i < j, buffer'[j].n < buffer'[i].n
      PROVE  buffer'[j].n \in overflowed'
  <2>1. i \in 1..Len(q)
    BY <1>1, <1>4
  <2>2. CASE j \in 1..Len(q)
    BY <1>1, <1>4, <2>1, <2>2
  <2>3. CASE j = Len(q) + 1
    <3>1. buffer'[j] = job /\ buffer'[i] = q[i] /\ q[i].n \in Numbers(q)
      BY <1>1, <1>2, <2>1, <2>3
    <3> QED BY <1>2, <1>4, <2>1, <3>1
  <2> QED BY <1>1, <2>2, <2>3
<1>5. ASSUME NEW i \in 1..Len(processed'), NEW j \in 1..Len(buffer'), buffer'[j].n < processed'[i]
      PROVE  buffer'[j].n \in overflowed'
  <2>1. CASE j \in 1..Len(q)
    BY <1>1, <1>5, <2>1
  <2>2. CASE j = Len(q) + 1
    <3>1. buffer'[j] = job
      BY <1>1, <2>2
    <3>2. ASSUME job.n \notin overflowed' PROVE FALSE
      <4>1. processed'[i] \in Taken \cup Numbers(q) /\ processed'[i] <= job.n
        BY <3>2
      <4>2. processed'[i] \in Nat
        BY <1>2, <1>3, <4>1 DEF Numbers
      <4> QED BY <1>2, <1>5, <3>1, <4>1, <4>2
    <3> QED BY <3>1, <3>2
  <2> QED BY <1>1, <2>1, <2>2
<1> QED BY <1>4, <1>5

LEMMA ScheduleOrder ==
  ASSUME TypeOK, ChannelInv, OrderInv, NEW g \in Producers, Schedule(g)
  PROVE  OrderInv'
<1> DEFINE job == [writing[g] EXCEPT !.n = scheduled + 1]
<1>1. job \in Jobs /\ job.n = scheduled + 1
  <2>1. writing[g] \in Jobs /\ scheduled + 1 \in Nat
    BY DEF Schedule, Enqueue, TypeOK
  <2> QED BY <2>1 DEF Jobs
<1>2. scheduled \in Nat /\ UNCHANGED <<parked, processed>>
  BY DEF Schedule, Enqueue, TypeOK, loopVars
<1>3. UNCHANGED <<Numbers(parked), Taken>>
  BY <1>2 DEF Numbers, Taken
<1>4. CASE closed
  <2>1. UNCHANGED <<buffer, spawned, overflowed>>
    BY <1>4 DEF Schedule, Enqueue
  <2> QED BY <1>2, <2>1, OrderUntouched
<1>5. CASE ~ closed /\ HasRoom
  <2>1. buffer' = Append(buffer, job) /\ UNCHANGED <<spawned, overflowed>>
    BY <1>5 DEF Schedule, Enqueue
  <2> HIDE DEF job
  <2>2. \A n \in Taken \cup Numbers(buffer) : n <= job.n
    BY <1>1, <1>2 DEF ChannelInv, Everywhere
  <2>3. \A i \in 1..Len(processed') : processed'[i] \in Taken
    BY <1>2 DEF Taken
  <2>4. buffer \in Seq(Jobs)
    BY DEF TypeOK
  <2>5. /\ \A i, j \in 1..Len(buffer') :
             i < j /\ buffer'[j].n < buffer'[i].n => buffer'[j].n \in overflowed'
        /\ \A i \in 1..Len(processed'), j \in 1..Len(buffer') :
             buffer'[j].n < processed'[i] => buffer'[j].n \in overflowed'
    BY <1>1, <1>2, <2>1, <2>2, <2>3, <2>4, BufferGrows DEF OrderInv
  <2>6. UNCHANGED SpawnedNumbers
    BY <2>1 DEF SpawnedNumbers
  <2> QED BY <1>2, <1>3, <2>1, <2>5, <2>6 DEF OrderInv
<1>6. CASE ~ closed /\ ~ HasRoom
  <2>1. /\ spawned' = spawned \cup {job} /\ UNCHANGED buffer
        /\ overflowed' = overflowed \cup {job.n}
    BY <1>6 DEF Schedule, Enqueue, Overflow
  <2> HIDE DEF job
  <2>2. SpawnedNumbers' = SpawnedNumbers \cup {job.n}
    BY <2>1 DEF SpawnedNumbers
  <2> QED BY <1>2, <1>3, <2>1, <2>2 DEF OrderInv
<1> QED BY <1>4, <1>5, <1>6

LEMMA SenderOrder ==
  ASSUME TypeOK, ChannelInv, OrderInv, NEW job \in spawned, OverflowSend(job)
  PROVE  OrderInv'
<1>1. job \in Jobs /\ UNCHANGED <<overflowed, processed>>
  BY DEF OverflowSend, TypeOK, prodVars, loopVars
<1>2. job.n \in overflowed
  BY DEF OrderInv, SpawnedNumbers
<1>3. CASE closed
  BY <1>1, <1>3, OrderUntouched DEF OverflowSend
<1>4. CASE ~ closed
  <2>1. spawned' = spawned \ {job} /\ SpawnedNumbers' \subseteq SpawnedNumbers
    BY <1>4 DEF OverflowSend, SpawnedNumbers
  <2>2. CASE HasRoom
    <3>1. buffer' = Append(buffer, job) /\ UNCHANGED parked /\ UNCHANGED Numbers(parked)
      BY <1>4, <2>2 DEF OverflowSend, Numbers
    <3>2. buffer \in Seq(Jobs)
      BY DEF TypeOK
    <3>3. /\ \A i, j \in 1..Len(buffer') :
               i < j /\ buffer'[j].n < buffer'[i].n => buffer'[j].n \in overflowed'
          /\ \A i \in 1..Len(processed'), j \in 1..Len(buffer') :
               buffer'[j].n < processed'[i] => buffer'[j].n \in overflowed'
      BY <1>1, <1>2, <3>1, <3>2, BufferGrows DEF OrderInv
    <3> QED BY <1>1, <2>1, <3>1, <3>3 DEF OrderInv
  <2>3. CASE ~ HasRoom
    <3>1. parked' = Append(parked, job) /\ UNCHANGED buffer
      BY <1>4, <2>3 DEF OverflowSend
    <3>2. Numbers(parked)' = Numbers(parked) \cup {job.n}
      BY <1>1, <3>1, AppendJob DEF TypeOK
    <3> QED BY <1>1, <1>2, <2>1, <3>1, <3>2 DEF OrderInv
  <2> QED BY <2>2, <2>3
<1> QED BY <1>3, <1>4

LEMMA ReceiveOrder ==
  ASSUME TypeOK, ChannelInv, OrderInv, Receive
  PROVE  OrderInv'
<1> DEFINE n == Head(buffer).n
<1> DEFINE rest == Tail(buffer)
<1>1. /\ buffer # <<>> /\ Refill /\ processed' = Append(processed, n)
      /\ UNCHANGED <<overflowed, spawned>>
  BY DEF Receive, prodVars
<1>2. /\ rest \in Seq(Jobs) /\ n \in Nat /\ n = buffer[1].n /\ 1 \in 1..Len(buffer)
      /\ \A i \in 1..Len(rest) : i + 1 \in 1..Len(buffer) /\ rest[i] = buffer[i + 1]
  BY <1>1, TailJob DEF TypeOK, Jobs
<1>3. /\ Len(processed) \in Nat /\ Len(processed') = Len(processed) + 1
      /\ processed'[Len(processed) + 1] = n
      /\ \A i \in 1..Len(processed) : processed'[i] = processed[i]
  BY <1>1, <1>2 DEF TypeOK
<1> HIDE DEF n, rest
<1>4. \A i, j \in 1..Len(processed') :
        i < j /\ processed'[j] < processed'[i] => processed'[j] \in overflowed'
  <2> SUFFICES ASSUME NEW i \in 1..Len(processed'), NEW j \in 1..Len(processed'),
                      i < j, processed'[j] < processed'[i]
               PROVE  processed'[j] \in overflowed'
    OBVIOUS
  <2>1. i \in 1..Len(processed)
    BY <1>3
  <2>2. CASE j \in 1..Len(processed)
    BY <1>1, <1>3, <2>1, <2>2 DEF OrderInv
  <2>3. CASE j = Len(processed) + 1
    BY <1>1, <1>2, <1>3, <2>1, <2>3 DEF OrderInv
  <2> QED BY <1>3, <2>2, <2>3
<1>5. \A i, j \in 1..Len(rest) : i < j /\ rest[j].n < rest[i].n => rest[j].n \in overflowed
  <2> SUFFICES ASSUME NEW i \in 1..Len(rest), NEW j \in 1..Len(rest), i < j, rest[j].n < rest[i].n
               PROVE  rest[j].n \in overflowed
    OBVIOUS
  <2>1. i + 1 < j + 1
    OBVIOUS
  <2> QED BY <1>2, <2>1 DEF OrderInv
<1>6. \A i \in 1..Len(processed'), j \in 1..Len(rest) :
        rest[j].n < processed'[i] => rest[j].n \in overflowed
  <2> SUFFICES ASSUME NEW i \in 1..Len(processed'), NEW j \in 1..Len(rest), rest[j].n < processed'[i]
               PROVE  rest[j].n \in overflowed
    OBVIOUS
  <2>1. j + 1 \in 1..Len(buffer) /\ rest[j] = buffer[j + 1] /\ 1 < j + 1
    BY <1>2
  <2>2. CASE i \in 1..Len(processed)
    BY <1>3, <2>1, <2>2 DEF OrderInv
  <2>3. CASE i = Len(processed) + 1
    BY <1>2, <1>3, <2>1, <2>3 DEF OrderInv
  <2> QED BY <1>3, <2>2, <2>3
<1>7. UNCHANGED SpawnedNumbers
  BY <1>1 DEF SpawnedNumbers
<1>8. CASE parked = <<>>
  <2>1. buffer' = rest /\ parked' = parked
    BY <1>1, <1>8 DEF Refill, rest
  <2>2. UNCHANGED Numbers(parked)
    BY <2>1 DEF Numbers
  <2> QED BY <1>1, <1>4, <1>5, <1>6, <1>7, <2>1, <2>2 DEF OrderInv
<1>9. CASE parked # <<>>
  <2>1. buffer' = Append(rest, Head(parked)) /\ parked' = Tail(parked)
    BY <1>1, <1>9 DEF Refill, rest
  <2>2. Head(parked) \in Jobs /\ Head(parked).n \in overflowed /\ Numbers(parked') \subseteq Numbers(parked)
    BY <1>9, <2>1, TailJob DEF TypeOK, OrderInv
  <2>3. /\ \A i, j \in 1..Len(buffer') :
             i < j /\ buffer'[j].n < buffer'[i].n => buffer'[j].n \in overflowed'
        /\ \A i \in 1..Len(processed'), j \in 1..Len(buffer') :
             buffer'[j].n < processed'[i] => buffer'[j].n \in overflowed'
    BY <1>1, <1>2, <1>5, <1>6, <2>1, <2>2, BufferGrows
  <2> QED BY <1>1, <1>4, <1>7, <2>2, <2>3 DEF OrderInv
<1> QED BY <1>8, <1>9

LEMMA OrderStep == ASSUME TypeOK, ChannelInv, OrderInv, [Next]_vars PROVE OrderInv'
<1>1. CASE UNCHANGED vars
  BY <1>1, OrderUntouched DEF vars, prodVars, chanVars, loopVars
<1>2. ASSUME NEW g \in Producers, Producer(g) PROVE OrderInv'
  <2>1. CASE Schedule(g)
    BY <2>1, ScheduleOrder
  <2>2. CASE \E s \in Sessions, final \in BOOLEAN : UpsertSnapshot(g, s, final)
    BY <2>2, OrderUntouched DEF UpsertSnapshot, chanVars, loopVars
  <2> QED BY <1>2, <2>1, <2>2 DEF Producer
<1>3. ASSUME Loop PROVE OrderInv'
  <2>1. CASE Receive
    BY <2>1, ReceiveOrder
  <2>2. CASE ~ Receive
    <3>1. UNCHANGED <<buffer, parked, spawned, processed, overflowed>>
      BY <1>3, <2>2 DEF Loop, Working, Finish, CloseDone, LoadSnapshot, GenerateItems, GenerateSummary, Publish,
                        prodVars, chanVars
    <3> QED BY <3>1, OrderUntouched
  <2> QED BY <2>1, <2>2
<1>4. ASSUME Close PROVE OrderInv'
  BY <1>4, OrderUntouched DEF Close, prodVars, loopVars
<1> QED BY <1>1, <1>2, <1>3, <1>4, SenderOrder DEF Next, Senders

(* As long as jobs find room in the channel, they are analysed in the order *)
(* they were scheduled: a job that is overtaken has overflowed, also while  *)
(* the server goes down.                                                    *)
THEOREM OnlyOverflowIsOvertaken == Spec => []OvertakenOnlyByOverflow
<1>1. OrderInv => OvertakenOnlyByOverflow
  BY DEF OrderInv, OvertakenOnlyByOverflow
<1> QED BY <1>1, AnalysisTyped, AnalysisChannel, OrderInit, OrderStep, PTL DEF Spec

-----------------------------------------------------------------------------
(* Versions.                                                                *)

\* What follows publication k does not change the count up to it.
LEMMA CountsKept ==
  ASSUME NEW pub, NEW pub2, NEW s, NEW k \in Nat, NEW ver,
         \A i \in 1..k : pub2[i] = pub[i],
         CountsUpTo(pub, s, k, ver)
  PROVE  CountsUpTo(pub2, s, k, ver)
<1>1. CASE NotPublished(pub, s, k) /\ ver = 0
  BY <1>1 DEF CountsUpTo, NotPublished
<1>2. CASE \E m \in 1..k :
             LastPublished(pub, s, m, k) /\ ver = IF pub[m].final THEN 0 ELSE pub[m].items
  <2>1. PICK m \in 1..k :
          LastPublished(pub, s, m, k) /\ ver = IF pub[m].final THEN 0 ELSE pub[m].items
    BY <1>2
  <2>2. pub2[m] = pub[m] /\ \A j \in (m + 1)..k : j \in 1..k
    OBVIOUS
  <2>3. LastPublished(pub2, s, m, k)
    BY <2>1, <2>2 DEF LastPublished
  <2> QED BY <2>1, <2>2, <2>3 DEF CountsUpTo
<1> QED BY <1>1, <1>2 DEF CountsUpTo

\* A publication of another meeting leaves the count as it is.
LEMMA CountsPassOthers ==
  ASSUME NEW pub, NEW s, NEW k \in Nat, NEW ver,
         CountsUpTo(pub, s, k, ver), pub[k + 1].session # s
  PROVE  CountsUpTo(pub, s, k + 1, ver)
<1>1. CASE NotPublished(pub, s, k) /\ ver = 0
  <2>1. \A j \in 1..(k + 1) : j \in 1..k \/ j = k + 1
    OBVIOUS
  <2> QED BY <1>1, <2>1 DEF CountsUpTo, NotPublished
<1>2. CASE \E m \in 1..k :
             LastPublished(pub, s, m, k) /\ ver = IF pub[m].final THEN 0 ELSE pub[m].items
  <2>1. PICK m \in 1..k :
          LastPublished(pub, s, m, k) /\ ver = IF pub[m].final THEN 0 ELSE pub[m].items
    BY <1>2
  <2>2. m \in 1..(k + 1) /\ \A j \in (m + 1)..(k + 1) : j \in (m + 1)..k \/ j = k + 1
    OBVIOUS
  <2>3. LastPublished(pub, s, m, k + 1)
    BY <2>1, <2>2 DEF LastPublished
  <2> QED BY <2>1, <2>2, <2>3 DEF CountsUpTo
<1> QED BY <1>1, <1>2 DEF CountsUpTo

LEMMA VersionInit == Init => VersionInv
<1> SUFFICES ASSUME Init PROVE VersionInv
  OBVIOUS
<1>1. published = <<>> /\ Len(published) = 0 /\ loopAt = "receive"
  BY DEF Init
<1>2. \A s \in Sessions : CountsUpTo(published, s, Len(published), Undrawn(s))
  BY <1>1 DEF CountsUpTo, NotPublished, Undrawn, Init
<1> QED BY <1>1, <1>2 DEF VersionInv, Init

\* What the steps that do not publish have to show.
LEMMA VersionsUnpublished ==
  ASSUME TypeOK, VersionInv, UNCHANGED published,
         \A s \in Sessions : Undrawn(s)' = Undrawn(s)
  PROVE  /\ \A s \in Sessions : CountsUpTo(published', s, Len(published'), Undrawn(s)')
         /\ \A i \in 1..Len(published') :
              /\ published'[i].items = published'[i].summary
              /\ published'[i].items # 0
              /\ CountsUpTo(published', published'[i].session, i - 1, published'[i].items - 1)
  BY DEF VersionInv

\* A step that neither generates nor publishes.
LEMMA VersionUntouched ==
  ASSUME TypeOK, VersionInv, UNCHANGED <<itemsVer, summaryVer, published>>,
         \/ UNCHANGED <<hand, loopAt, drawn>>
         \/ loopAt \notin {"summary", "publish"} /\ loopAt' \notin {"summary", "publish"}
  PROVE  VersionInv'
<1>1. \A s \in Sessions : Undrawn(s)' = Undrawn(s)
  BY DEF Undrawn
<1> QED BY <1>1, VersionsUnpublished DEF VersionInv

LEMMA ItemsVersion == ASSUME TypeOK, VersionInv, GenerateItems PROVE VersionInv'
<1>1. hand \in Jobs /\ hand.session \in Sessions /\ hand.final \in BOOLEAN
  BY DEF GenerateItems, TypeOK, Jobs
<1>2. /\ UNCHANGED <<hand, summaryVer, published>> /\ loopAt = "items" /\ loopAt' = "summary"
      /\ drawn'.items = summaryVer[hand.session] + 1
      /\ itemsVer'[hand.session] = IF hand.final THEN 0 ELSE summaryVer[hand.session] + 1
      /\ \A s \in Sessions \ {hand.session} : itemsVer'[s] = itemsVer[s]
      /\ itemsVer[hand.session] = summaryVer[hand.session]
  <2>1. itemsVer[hand.session] = summaryVer[hand.session]
    BY <1>1 DEF GenerateItems, VersionInv
  <2> QED BY <1>1, <2>1 DEF GenerateItems, ItemsAfter, TypeOK
<1>3. \A s \in Sessions : Undrawn(s)' = Undrawn(s)
  BY <1>1, <1>2 DEF Undrawn, TypeOK
<1>4. \A s \in Sessions \ {hand.session} : itemsVer[s] = summaryVer[s]
  BY <1>2 DEF VersionInv
<1> QED BY <1>1, <1>2, <1>3, <1>4, VersionsUnpublished DEF VersionInv

LEMMA SummaryVersion == ASSUME TypeOK, VersionInv, GenerateSummary PROVE VersionInv'
<1>1. hand \in Jobs /\ hand.session \in Sessions /\ hand.final \in BOOLEAN
  BY DEF GenerateSummary, TypeOK, Jobs
<1>2. /\ UNCHANGED <<hand, itemsVer, published>> /\ loopAt = "summary" /\ loopAt' = "publish"
      /\ drawn'.items = drawn.items /\ drawn'.summary = drawn.items /\ drawn.items # 0
      /\ drawn.items = summaryVer[hand.session] + 1
      /\ itemsVer[hand.session] = IF hand.final THEN 0 ELSE drawn.items
      /\ summaryVer'[hand.session] = itemsVer[hand.session]
      /\ \A s \in Sessions \ {hand.session} : summaryVer'[s] = summaryVer[s]
  <2>1. summaryVer[hand.session] \in Nat
    BY <1>1 DEF TypeOK
  <2> QED BY <1>1, <2>1 DEF GenerateSummary, VersionInv, TypeOK
<1>3. \A s \in Sessions : Undrawn(s)' = Undrawn(s)
  BY <1>1, <1>2 DEF Undrawn, TypeOK
<1>4. \A s \in Sessions : itemsVer'[s] = summaryVer'[s]
  BY <1>2 DEF VersionInv
<1> QED BY <1>2, <1>3, <1>4, VersionsUnpublished DEF VersionInv

LEMMA PublishVersion == ASSUME TypeOK, VersionInv, Publish PROVE VersionInv'
<1> DEFINE k == Len(published) s0 == hand.session
<1>1. hand \in Jobs /\ s0 \in Sessions /\ hand.final \in BOOLEAN /\ k \in Nat
  BY DEF Publish, TypeOK, Jobs
<1>2. /\ UNCHANGED <<itemsVer, summaryVer>> /\ loopAt = "publish" /\ loopAt' = "receive"
      /\ drawn.items = drawn.summary /\ drawn.items # 0 /\ drawn.items \in Nat
      /\ itemsVer[s0] = IF hand.final THEN 0 ELSE drawn.items
      /\ \A s \in Sessions : itemsVer[s] = summaryVer[s]
  BY DEF Publish, BackToReceive, VersionInv, TypeOK
<1>3. /\ Len(published') = k + 1
      /\ \A i \in 1..k : published'[i] = published[i]
      /\ published'[k + 1].session = s0 /\ published'[k + 1].final = hand.final
      /\ published'[k + 1].items = drawn.items /\ published'[k + 1].summary = drawn.summary
  <2> DEFINE p == [session |-> hand.session, n |-> hand.n, rev |-> loaded, final |-> hand.final,
                   items |-> drawn.items, summary |-> drawn.summary]
  <2>1. p.session = s0 /\ p.final = hand.final /\ p.items = drawn.items /\ p.summary = drawn.summary
    OBVIOUS
  <2>2. published' = Append(published, p) /\ published \in Seq(Pairs)
    BY DEF Publish, TypeOK
  <2> HIDE DEF p, s0
  <2> QED BY <2>1, <2>2
<1> HIDE DEF k, s0
<1>4. \A s \in Sessions : CountsUpTo(published, s, k, IF s = s0 THEN drawn.items - 1 ELSE itemsVer[s])
  BY <1>2 DEF VersionInv, Undrawn, k, s0
<1>5. \A i \in 1..(k + 1) :
        /\ published'[i].items = published'[i].summary
        /\ published'[i].items # 0
        /\ CountsUpTo(published', published'[i].session, i - 1, published'[i].items - 1)
  <2> TAKE i \in 1..(k + 1)
  <2>1. CASE i = k + 1
    <3>1. CountsUpTo(published', s0, k, drawn.items - 1)
      BY <1>1, <1>3, <1>4, CountsKept
    <3> QED BY <1>1, <1>2, <1>3, <2>1, <3>1
  <2>2. CASE i \in 1..k
    <3>1. /\ published[i].items = published[i].summary /\ published[i].items # 0
          /\ CountsUpTo(published, published[i].session, i - 1, published[i].items - 1)
          /\ published'[i] = published[i]
      BY <1>3, <2>2 DEF VersionInv, k
    <3>2. i - 1 \in Nat /\ \A j \in 1..(i - 1) : published'[j] = published[j]
      BY <1>1, <1>3, <2>2
    <3>3. CountsUpTo(published', published[i].session, i - 1, published[i].items - 1)
      BY <3>1, <3>2, CountsKept
    <3> QED BY <3>1, <3>3
  <2> QED BY <1>1, <2>1, <2>2
<1>6. \A s \in Sessions : CountsUpTo(published', s, k + 1, itemsVer[s])
  <2> TAKE s \in Sessions
  <2>1. CASE s = s0
    <3>1. LastPublished(published', s0, k + 1, k + 1)
      BY <1>1, <1>3 DEF LastPublished
    <3>2. k + 1 \in 1..(k + 1)
      BY <1>1
    <3> QED BY <1>2, <1>3, <2>1, <3>1, <3>2 DEF CountsUpTo
  <2>2. CASE s # s0
    <3>1. CountsUpTo(published', s, k, itemsVer[s])
      BY <1>1, <1>3, <1>4, <2>2, CountsKept
    <3> QED BY <1>1, <1>3, <2>2, <3>1, CountsPassOthers
  <2> QED BY <2>1, <2>2
<1>7. \A s \in Sessions : Undrawn(s)' = itemsVer'[s]
  BY <1>2 DEF Undrawn
<1> QED BY <1>2, <1>3, <1>5, <1>6, <1>7 DEF VersionInv

LEMMA VersionStep == ASSUME TypeOK, VersionInv, [Next]_vars PROVE VersionInv'
<1>1. CASE UNCHANGED vars
  BY <1>1, VersionUntouched DEF vars, loopVars
<1>2. ASSUME NEW g \in Producers, Producer(g) PROVE VersionInv'
  BY <1>2, VersionUntouched DEF Producer, UpsertSnapshot, Schedule, Enqueue, loopVars
<1>3. ASSUME NEW job \in spawned, OverflowSend(job) PROVE VersionInv'
  BY <1>3, VersionUntouched DEF OverflowSend, loopVars
<1>4. ASSUME Close PROVE VersionInv'
  BY <1>4, VersionUntouched DEF Close, loopVars
<1>5. ASSUME Receive \/ Finish \/ LoadSnapshot PROVE VersionInv'
  BY <1>5, VersionUntouched DEF Receive, Finish, CloseDone, LoadSnapshot, BackToReceive
<1> QED BY <1>1, <1>2, <1>3, <1>4, <1>5, ItemsVersion, SummaryVersion, PublishVersion
        DEF Next, Senders, Loop, Working

LEMMA AnalysisVersions == Spec => []VersionInv
  BY AnalysisTyped, VersionInit, VersionStep, PTL DEF Spec

(* The action items and the summary published together always have the same *)
(* version.                                                                 *)
THEOREM VersionsAlwaysAgree == Spec => []VersionsAgree
<1>1. VersionInv => VersionsAgree
  BY DEF VersionInv, VersionsAgree
<1> QED BY <1>1, AnalysisVersions, PTL

\* The last publication before the i-th is the one VersionsConsecutive chooses.
LEMMA LastIsChosen ==
  ASSUME NEW s, NEW i \in Nat \ {0}, NEW m \in 1..(i - 1), LastPublished(published, s, m, i - 1)
  PROVE  /\ m \in LastOf(s, i)
         /\ (CHOOSE j \in LastOf(s, i) : \A k \in LastOf(s, i) : k <= j) = m
<1>1. m \in LastOf(s, i) /\ \A k \in LastOf(s, i) : k <= m
  BY DEF LastPublished, LastOf
<1>2. \A j \in LastOf(s, i) : (\A k \in LastOf(s, i) : k <= j) => j = m
  BY <1>1 DEF LastOf
<1> QED BY <1>1, <1>2

LEMMA VersionsCount == ASSUME TypeOK, VersionInv PROVE VersionsConsecutive
<1> SUFFICES ASSUME NEW i \in 1..Len(published)
             PROVE  LET before == LastOf(published[i].session, i)
                    IN published[i].items =
                         IF before = {} THEN 1
                         ELSE LET j == CHOOSE j \in before : \A k \in before : k <= j
                              IN IF published[j].final THEN 1 ELSE published[j].items + 1
  BY DEF VersionsConsecutive
<1> DEFINE s == published[i].session
           before == LastOf(s, i)
           last == CHOOSE j \in before : \A k \in before : k <= j
<1>1. Len(published) \in Nat /\ i \in Nat \ {0} /\ \A j \in 1..i : published[j].items \in Nat
  <2>1. published \in Seq(Pairs)
    BY DEF TypeOK
  <2>2. Len(published) \in Nat /\ \A j \in 1..Len(published) : published[j] \in Pairs
    BY <2>1
  <2>3. \A j \in 1..i : j \in 1..Len(published)
    BY <2>2
  <2> QED BY <2>2, <2>3 DEF Pairs
<1>2. CountsUpTo(published, s, i - 1, published[i].items - 1)
  BY DEF VersionInv
<1>3. CASE NotPublished(published, s, i - 1) /\ published[i].items - 1 = 0
  <2>1. before = {}
    BY <1>3 DEF NotPublished, LastOf
  <2> QED BY <1>1, <1>3, <2>1
<1>4. CASE \E m \in 1..(i - 1) :
             /\ LastPublished(published, s, m, i - 1)
             /\ published[i].items - 1 = IF published[m].final THEN 0 ELSE published[m].items
  <2>1. PICK m \in 1..(i - 1) :
               /\ LastPublished(published, s, m, i - 1)
               /\ published[i].items - 1 = IF published[m].final THEN 0 ELSE published[m].items
    BY <1>4
  <2>2. m \in before /\ last = m
    BY <1>1, <2>1, LastIsChosen
  <2>3. published[m].items \in Nat
    BY <1>1, <2>1
  <2>4. published[i].items = IF published[m].final THEN 1 ELSE published[m].items + 1
    BY <1>1, <2>1, <2>3
  <2> HIDE DEF last
  <2>5. published[i].items = IF before = {} THEN 1
                             ELSE IF published[last].final THEN 1 ELSE published[last].items + 1
    BY <2>2, <2>4
  <2> QED BY <2>5 DEF last
<1> QED BY <1>2, <1>3, <1>4 DEF CountsUpTo

(* The versions of a meeting count 1, 2, 3, ... up to a final and start     *)
(* again after it, whatever is skipped, overflows or overtakes.             *)
THEOREM VersionsAreConsecutive == Spec => []VersionsConsecutive
  BY AnalysisTyped, AnalysisVersions, VersionsCount, PTL

-----------------------------------------------------------------------------
(* The last transcript is analysed.                                         *)

LEMMA CoverInit == Init => CoverInv
  BY DEF Init, CoverInv, Covered

\* A step that loads, publishes and writes nothing keeps a meeting covered when
\* it keeps its pending jobs.
LEMMA CoverKept ==
  ASSUME NEW s \in Sessions, Covered(s), UNCHANGED <<text, loaded, published>>,
         Analysing(s)' = Analysing(s), Pending(s) => Pending(s)'
  PROVE  Covered(s)'
  BY DEF Covered, NewestPublished, LastPublished

LEMMA UpsertCover ==
  ASSUME TypeOK, CoverInv, ~ crashed, NEW g \in Producers, NEW s0 \in Sessions, NEW final \in BOOLEAN,
         UpsertSnapshot(g, s0, final)
  PROVE  CoverInv'
<1>1. /\ writing'[g] = [n |-> 0, session |-> s0, rev |-> text[s0] + 1, final |-> final]
      /\ writing[g] = NoJob /\ \A h \in Producers \ {g} : writing'[h] = writing[h]
      /\ \A s \in Sessions \ {s0} : text'[s] = text[s]
      /\ UNCHANGED <<buffer, parked, spawned, hand, loopAt, loaded, published>>
  BY DEF UpsertSnapshot, TypeOK, chanVars, loopVars
<1>2. writing'[g] # NoJob /\ writing'[g].session = s0
  <2>1. [n |-> 0, session |-> s0, rev |-> text[s0] + 1, final |-> final] \in Jobs
    BY DEF TypeOK, Jobs
  <2> QED BY <1>1, <2>1, NoJobIsNoJob
<1>3. Pending(s0)'
  BY <1>2 DEF Pending
<1>4. ASSUME NEW s \in Sessions, s # s0 PROVE Covered(s)'
  <2>1. Covered(s) /\ text'[s] = text[s] /\ Analysing(s)' = Analysing(s)
    BY <1>1, <1>4 DEF CoverInv, Analysing
  <2>2. Pending(s) => Pending(s)'
    BY <1>1 DEF Pending
  <2>3. NewestPublished(s) => NewestPublished(s)'
    BY <1>1, <2>1 DEF NewestPublished
  <2> QED BY <1>1, <2>1, <2>2, <2>3 DEF Covered
<1> QED BY <1>3, <1>4 DEF CoverInv, Covered

LEMMA ScheduleCover ==
  ASSUME TypeOK, CoverInv, ~ crashed, NEW g \in Producers, Schedule(g)
  PROVE  CoverInv'
<1> SUFFICES ASSUME ~ crashed', NEW s \in Sessions PROVE Covered(s)'
  BY DEF CoverInv
<1> DEFINE job == [writing[g] EXCEPT !.n = scheduled + 1]
<1>1. ~ closed /\ UNCHANGED <<text, loaded, published, hand, loopAt, parked>>
  BY DEF Schedule, Enqueue, loopVars
<1>2. Covered(s) /\ Analysing(s)' = Analysing(s)
  BY <1>1 DEF CoverInv, Analysing
<1>3. job \in Jobs /\ job.session = writing[g].session
  <2>1. writing[g] \in Jobs /\ scheduled + 1 \in Nat
    BY DEF Schedule, Enqueue, TypeOK
  <2> QED BY <2>1 DEF Jobs
<1>4. \/ buffer' = Append(buffer, job) /\ spawned' = spawned
      \/ buffer' = buffer /\ spawned' = spawned \cup {job}
  <2>1. ASSUME HasRoom PROVE buffer' = Append(buffer, job) /\ spawned' = spawned
    BY <1>1, <2>1 DEF Schedule, Enqueue
  <2>2. ASSUME ~ HasRoom PROVE buffer' = buffer /\ spawned' = spawned \cup {job}
    BY <1>1, <2>2 DEF Schedule, Enqueue, Overflow
  <2> QED BY <2>1, <2>2
<1>5. \A h \in Producers \ {g} : writing'[h] = writing[h]
  BY DEF Schedule, Enqueue, TypeOK
<1> HIDE DEF job
<1>6. CASE buffer' = buffer /\ spawned' = spawned \cup {job}
  <2>1. Pending(s) => Pending(s)'
    BY <1>1, <1>3, <1>5, <1>6 DEF Pending
  <2> QED BY <1>1, <1>2, <2>1, CoverKept
<1>7. CASE buffer' = Append(buffer, job) /\ spawned' = spawned
  <2>1. /\ Len(buffer) \in Nat /\ Len(buffer') = Len(buffer) + 1
        /\ buffer'[Len(buffer) + 1] = job
        /\ \A i \in 1..Len(buffer) : buffer'[i] = buffer[i]
    BY <1>3, <1>7, AppendJob DEF TypeOK
  <2>2. /\ \A i \in 1..Len(buffer) : i \in 1..Len(buffer')
        /\ Len(buffer) + 1 \in 1..Len(buffer')
    BY <2>1
  <2>3. Pending(s) => Pending(s)'
    BY <1>1, <1>3, <1>5, <1>7, <2>1, <2>2 DEF Pending
  <2> QED BY <1>1, <1>2, <2>3, CoverKept
<1> QED BY <1>4, <1>6, <1>7

LEMMA SenderCover ==
  ASSUME TypeOK, CoverInv, ~ crashed, NEW job \in spawned, OverflowSend(job)
  PROVE  CoverInv'
<1> SUFFICES ASSUME ~ crashed', NEW s \in Sessions PROVE Covered(s)'
  BY DEF CoverInv
<1>1. job \in Jobs /\ UNCHANGED <<text, writing, loaded, published, hand, loopAt>>
  BY DEF OverflowSend, TypeOK, loopVars, prodVars
<1>2. Covered(s) /\ Analysing(s)' = Analysing(s)
  BY <1>1 DEF CoverInv, Analysing
<1>3. /\ spawned' = spawned \ {job}
      /\ \/ buffer' = Append(buffer, job) /\ parked' = parked
         \/ parked' = Append(parked, job) /\ buffer' = buffer
  BY DEF OverflowSend
<1>4. ASSUME NEW q \in Seq(Jobs)
      PROVE  /\ \A i \in 1..Len(q) : i \in 1..Len(Append(q, job)) /\ Append(q, job)[i] = q[i]
             /\ Len(q) + 1 \in 1..Len(Append(q, job)) /\ Append(q, job)[Len(q) + 1] = job
  BY <1>1, <1>4
<1>5. Pending(s) => Pending(s)'
  <2>1. CASE buffer' = Append(buffer, job) /\ parked' = parked
    <3>1. /\ \A i \in 1..Len(buffer) : i \in 1..Len(buffer') /\ buffer'[i] = buffer[i]
          /\ Len(buffer) + 1 \in 1..Len(buffer') /\ buffer'[Len(buffer) + 1] = job
      BY <1>4, <2>1 DEF TypeOK
    <3> QED BY <1>1, <1>3, <2>1, <3>1 DEF Pending
  <2>2. CASE parked' = Append(parked, job) /\ buffer' = buffer
    <3>1. /\ \A i \in 1..Len(parked) : i \in 1..Len(parked') /\ parked'[i] = parked[i]
          /\ Len(parked) + 1 \in 1..Len(parked') /\ parked'[Len(parked) + 1] = job
      BY <1>4, <2>2 DEF TypeOK
    <3> QED BY <1>1, <1>3, <2>2, <3>1 DEF Pending
  <2> QED BY <1>3, <2>1, <2>2
<1> QED BY <1>1, <1>2, <1>5, CoverKept

LEMMA ReceiveCover == ASSUME TypeOK, CoverInv, ~ crashed, Receive PROVE CoverInv'
<1> SUFFICES ASSUME NEW s \in Sessions PROVE Covered(s)'
  BY DEF CoverInv
<1>1. /\ UNCHANGED <<text, writing, spawned, loaded, published>> /\ buffer # <<>> /\ Refill
      /\ loopAt = "receive" /\ loopAt' = "load" /\ hand' = Head(buffer)
  BY DEF Receive, prodVars
<1>2. Covered(s) /\ Analysing(s)' = Analysing(s)
  BY <1>1 DEF CoverInv, Analysing
<1>3. /\ Tail(buffer) \in Seq(Jobs) /\ Len(buffer) \in Nat /\ Len(Tail(buffer)) = Len(buffer) - 1
      /\ hand' = buffer[1]
      /\ \A i \in 1..Len(Tail(buffer)) : Tail(buffer)[i] = buffer[i + 1]
  BY <1>1, TailJob DEF TypeOK
<1>4. ASSUME NEW i \in 1..Len(buffer), buffer[i].session = s PROVE Pending(s)'
  <2>1. CASE i = 1
    BY <1>1, <1>3, <1>4, <2>1 DEF Pending
  <2>2. CASE i # 1
    <3>1. i - 1 \in 1..Len(Tail(buffer)) /\ Tail(buffer)[i - 1] = buffer[i]
      BY <1>3, <2>2
    <3>2. i - 1 \in 1..Len(buffer') /\ buffer'[i - 1] = buffer[i]
      <4>1. CASE parked = <<>>
        BY <1>1, <3>1, <4>1 DEF Refill
      <4>2. CASE parked # <<>>
        <5>1. buffer' = Append(Tail(buffer), Head(parked)) /\ Head(parked) \in Jobs
          BY <1>1, <4>2, TailJob DEF Refill, TypeOK
        <5> QED BY <1>3, <3>1, <5>1
      <4> QED BY <4>1, <4>2
    <3> QED BY <1>4, <3>2 DEF Pending
  <2> QED BY <2>1, <2>2
<1>5. ASSUME NEW i \in 1..Len(parked), parked[i].session = s PROVE Pending(s)'
  <2>1. parked # <<>> /\ parked \in Seq(Jobs)
    BY DEF TypeOK
  <2>2. buffer' = Append(Tail(buffer), Head(parked)) /\ parked' = Tail(parked)
    BY <1>1, <2>1 DEF Refill
  <2>3. Head(parked) \in Jobs /\ Head(parked) = parked[1] /\ Len(parked') = Len(parked) - 1
        /\ \A j \in 1..Len(parked') : parked'[j] = parked[j + 1]
    BY <2>1, <2>2, TailJob
  <2>4. CASE i = 1
    <3>1. Len(buffer) \in 1..Len(buffer') /\ buffer'[Len(buffer)] = parked[1]
      BY <1>3, <2>2, <2>3
    <3> QED BY <1>5, <2>4, <3>1 DEF Pending
  <2>5. CASE i # 1
    <3>1. i - 1 \in 1..Len(parked') /\ parked'[i - 1] = parked[i]
      BY <2>1, <2>3, <2>5
    <3> QED BY <1>5, <3>1 DEF Pending
  <2> QED BY <2>4, <2>5
<1>6. Pending(s) => Pending(s)'
  <2>1. ASSUME \E g \in Producers : writing[g] # NoJob /\ writing[g].session = s PROVE Pending(s)'
    BY <1>1, <2>1 DEF Pending
  <2>2. ASSUME \E job \in spawned : job.session = s PROVE Pending(s)'
    BY <1>1, <2>2 DEF Pending
  <2> QED BY <1>1, <1>4, <1>5, <2>1, <2>2 DEF Pending
<1> QED BY <1>1, <1>2, <1>6, CoverKept

LEMMA LoadCover ==
  ASSUME LoadFails = FALSE, TypeOK, CoverInv, ~ crashed, LoadSnapshot PROVE CoverInv'
<1> SUFFICES ASSUME NEW s \in Sessions PROVE Covered(s)'
  BY DEF CoverInv
<1>1. /\ UNCHANGED <<text, writing, buffer, parked, spawned, published>> /\ loopAt = "load"
      /\ Covered(s)
  BY DEF LoadSnapshot, CoverInv, prodVars, chanVars
<1>2. CASE hand.session = s
  BY <1>1, <1>2 DEF LoadSnapshot, Snapshot, Analysing, Covered
<1>3. CASE hand.session # s
  <2>1. ~ Analysing(s) /\ ~ Analysing(s)'
    BY <1>1, <1>3 DEF LoadSnapshot, BackToReceive, Analysing
  <2>2. Pending(s) => Pending(s)'
    BY <1>1, <1>3 DEF Pending
  <2>3. NewestPublished(s) => NewestPublished(s)'
    BY <1>1 DEF NewestPublished
  <2> QED BY <1>1, <2>1, <2>2, <2>3 DEF Covered
<1> QED BY <1>2, <1>3

LEMMA PublishCover == ASSUME TypeOK, CoverInv, ~ crashed, Publish PROVE CoverInv'
<1> SUFFICES ASSUME NEW s \in Sessions PROVE Covered(s)'
  BY DEF CoverInv
<1> DEFINE k == Len(published) s0 == hand.session
<1>1. /\ UNCHANGED <<text, writing, buffer, parked, spawned>>
      /\ loopAt = "publish" /\ loopAt' = "receive" /\ Covered(s) /\ k \in Nat
  BY DEF Publish, BackToReceive, CoverInv, prodVars, chanVars, TypeOK
<1>2. /\ Len(published') = k + 1
      /\ \A i \in 1..k : published'[i] = published[i]
      /\ published'[k + 1].session = s0 /\ published'[k + 1].rev = loaded
  <2> DEFINE p == [session |-> hand.session, n |-> hand.n, rev |-> loaded, final |-> hand.final,
                   items |-> drawn.items, summary |-> drawn.summary]
  <2>1. p.session = s0 /\ p.rev = loaded
    OBVIOUS
  <2>2. published' = Append(published, p) /\ published \in Seq(Pairs)
    BY DEF Publish, TypeOK
  <2> HIDE DEF p, s0
  <2> QED BY <2>1, <2>2
<1>3. Pending(s) => Pending(s)'
  BY <1>1 DEF Pending
<1>4. ~ Analysing(s)' /\ (Analysing(s) <=> s0 = s)
  BY <1>1 DEF Analysing
<1> HIDE DEF k, s0
<1>5. CASE s0 = s /\ loaded = text[s]
  <2>1. LastPublished(published', s, k + 1, k + 1) /\ k + 1 \in 1..(k + 1)
    BY <1>1, <1>2, <1>5 DEF LastPublished
  <2>2. NewestPublished(s)'
    BY <1>1, <1>2, <1>5, <2>1 DEF NewestPublished
  <2> QED BY <1>4, <2>2 DEF Covered
<1>6. CASE s0 # s
  <2>1. ASSUME NewestPublished(s) PROVE NewestPublished(s)'
    <3>1. PICK m \in 1..k : LastPublished(published, s, m, k) /\ published[m].rev = text[s]
      BY <2>1 DEF NewestPublished, k
    <3>2. m \in 1..(k + 1) /\ published'[m] = published[m]
          /\ \A j \in (m + 1)..(k + 1) : j = k + 1 \/ (j \in (m + 1)..k /\ published'[j] = published[j])
      BY <1>1, <1>2
    <3>3. LastPublished(published', s, m, k + 1)
      BY <1>2, <1>6, <3>1, <3>2 DEF LastPublished
    <3> QED BY <1>1, <1>2, <3>1, <3>2, <3>3 DEF NewestPublished
  <2> QED BY <1>1, <1>3, <1>4, <1>6, <2>1 DEF Covered
<1> QED BY <1>1, <1>3, <1>4, <1>5, <1>6 DEF Covered

LEMMA CoverStep == ASSUME LoadFails = FALSE, TypeOK, CoverInv, [Next]_vars PROVE CoverInv'
<1>1. CASE UNCHANGED vars
  <2>1. \A s \in Sessions : Analysing(s)' = Analysing(s) /\ (Pending(s) => Pending(s)')
    BY <1>1 DEF vars, prodVars, chanVars, loopVars, Analysing, Pending
  <2> QED BY <1>1, <2>1, CoverKept DEF CoverInv, vars, prodVars, loopVars
<1>2. ASSUME ~ crashed, NEW g \in Producers, Producer(g) PROVE CoverInv'
  BY <1>2, UpsertCover, ScheduleCover DEF Producer
<1>3. ASSUME ~ crashed, Finish \/ Close PROVE CoverInv'
  <2>1. \A s \in Sessions : Analysing(s)' = Analysing(s) /\ (Pending(s) => Pending(s)')
    BY <1>3 DEF Finish, CloseDone, Close, prodVars, chanVars, loopVars, Analysing, Pending
  <2> QED BY <1>3, <2>1, CoverKept DEF CoverInv, Finish, CloseDone, Close, prodVars, loopVars
<1>4. ASSUME ~ crashed, GenerateItems \/ GenerateSummary PROVE CoverInv'
  <2>1. \A s \in Sessions : Analysing(s)' = Analysing(s) /\ (Pending(s) => Pending(s)')
    BY <1>4 DEF GenerateItems, GenerateSummary, prodVars, chanVars, Analysing, Pending
  <2> QED BY <1>4, <2>1, CoverKept DEF CoverInv, GenerateItems, GenerateSummary, prodVars
<1>5. ASSUME ~ crashed, Loop PROVE CoverInv'
  BY <1>3, <1>4, <1>5, ReceiveCover, LoadCover, PublishCover DEF Loop, Working
<1> QED BY <1>1, <1>2, <1>3, <1>5, SenderCover DEF Next, Senders

LEMMA CoverImplies == ASSUME TypeOK, CoverInv PROVE LastTranscriptAnalysed
<1> SUFFICES ASSUME NEW s \in Sessions, Quiet(s), text[s] # 0, ~ crashed
             PROVE  \E i \in 1..Len(published) :
                      /\ published[i].session = s /\ published[i].rev = text[s]
                      /\ \A j \in (i + 1)..Len(published) :
                           published[j].session = s => published[j].rev = text[s]
  BY DEF LastTranscriptAnalysed
<1>1. ~ Pending(s) /\ ~ Analysing(s)
  BY DEF Quiet, Pending, Analysing, TypeOK
<1>2. NewestPublished(s)
  BY <1>1 DEF CoverInv, Covered
<1> QED BY <1>2 DEF NewestPublished, LastPublished

(* When snapshots can be loaded, the analysis a meeting is left with is the *)
(* one of its last transcript: jobs carry no text, so it does not matter    *)
(* which of them the loop takes last.                                       *)
THEOREM LastTranscriptIsAnalysed ==
  ASSUME LoadFails = FALSE PROVE Spec => []LastTranscriptAnalysed
<1>1. Init => CoverInv
  BY CoverInit
<1>2. TypeOK /\ CoverInv /\ [Next]_vars => CoverInv'
  BY CoverStep
<1>3. TypeOK /\ CoverInv => LastTranscriptAnalysed
  BY CoverImplies
<1> QED BY <1>1, <1>2, <1>3, AnalysisTyped, PTL DEF Spec

=============================================================================
