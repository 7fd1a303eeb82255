----------------------- MODULE TranscriptLedgerProofs -----------------------
(* The revision discipline of TranscriptLedger, for every set of sessions. *)
EXTENDS TranscriptLedger, TLAPS

LEMMA LedgerInit == Init => LedgerInv
<1> SUFFICES ASSUME Init PROVE LedgerInv
  OBVIOUS
<1>1. LedgerTypeOK
  BY DEF Init, LedgerTypeOK
<1>2. OpenDistinct /\ IdsDrawn /\ OpenAhead /\ StampsRise
  BY DEF Init, OpenDistinct, IdsDrawn, OpenAhead, StampsRise, Open
<1> QED BY <1>1, <1>2 DEF LedgerInv

\* The entry of a session is its own, and is not behind what was issued of it.
LEMMA EntryFacts ==
  ASSUME LedgerInv, NEW s \in Sessions, Count(s)
  PROVE /\ Entry(s) \in Entries
        /\ opened' \in Nat /\ opened <= opened' /\ Entry(s).id <= opened'
        /\ \A r \in Sessions \ {s} : Open(r) => open[r].id # Entry(s).id
        /\ \A i \in 1..Len(stamps) :
             stamps[i].id = Entry(s).id => stamps[i].rev <= Entry(s).rev /\ ~ stamps[i].final
<1> USE DEF LedgerInv, LedgerTypeOK
<1>1. \A i \in 1..Len(stamps) : stamps[i] \in Stamps
  OBVIOUS
<1>2. CASE open[s] = NoEntry
  <2>1. /\ Entry(s).id = opened + 1 /\ Entry(s).rev = 0 /\ Entry(s) \in Entries
        /\ opened' = opened + 1
    BY <1>2 DEF Entry, Count, Entries
  <2>2. \A r \in Sessions \ {s} : Open(r) => open[r].id # Entry(s).id
    BY <2>1 DEF IdsDrawn, Open, Entries
  <2>3. \A i \in 1..Len(stamps) : stamps[i].id # Entry(s).id
    BY <1>1, <2>1 DEF IdsDrawn, Stamps
  <2> QED BY <2>1, <2>2, <2>3
<1>3. CASE open[s] # NoEntry
  <2>1. Entry(s) = open[s] /\ Entry(s) \in Entries /\ opened' = opened /\ Open(s)
    BY <1>3 DEF Entry, Count, Open
  <2>2. Entry(s).id <= opened'
    BY <2>1 DEF IdsDrawn
  <2>3. \A r \in Sessions \ {s} : Open(r) => open[r].id # Entry(s).id
    BY <2>1 DEF OpenDistinct
  <2>4. \A i \in 1..Len(stamps) :
          stamps[i].id = Entry(s).id => stamps[i].rev <= Entry(s).rev /\ ~ stamps[i].final
    BY <2>1 DEF OpenAhead
  <2> QED BY <2>1, <2>2, <2>3, <2>4
<1> QED BY <1>2, <1>3

LEMMA TouchInv == ASSUME LedgerInv, NEW s \in Sessions, Touch(s) PROVE LedgerInv'
<1>1. /\ Entry(s) \in Entries
      /\ opened' \in Nat /\ opened <= opened' /\ Entry(s).id <= opened'
      /\ \A r \in Sessions \ {s} : Open(r) => open[r].id # Entry(s).id
      /\ \A i \in 1..Len(stamps) :
           stamps[i].id = Entry(s).id => stamps[i].rev <= Entry(s).rev /\ ~ stamps[i].final
  BY EntryFacts DEF Touch
<1>2. /\ open \in [Sessions -> Entries \cup {NoEntry}] /\ opened \in Nat /\ stamps \in Seq(Stamps)
      /\ OpenDistinct /\ IdsDrawn /\ OpenAhead /\ StampsRise
  BY DEF LedgerInv, LedgerTypeOK
<1>3. /\ open' \in [Sessions -> Entries \cup {NoEntry}]
      /\ open'[s] = Entry(s)
      /\ \A r \in Sessions \ {s} : open'[r] = open[r]
      /\ stamps' = stamps
  BY <1>1, <1>2 DEF Touch
<1>4. LedgerTypeOK'
  BY <1>1, <1>2, <1>3 DEF LedgerTypeOK
<1>5. OpenDistinct'
  BY <1>1, <1>2, <1>3 DEF OpenDistinct, Open
<1>6. IdsDrawn'
  <2>1. ASSUME NEW r \in Sessions, Open(r)' PROVE open'[r].id <= opened'
    <3>1. CASE r = s
      BY <1>1, <1>3, <3>1
    <3>2. CASE r # s
      <4>1. open[r] \in Entries /\ open[r].id <= opened
        BY <1>2, <1>3, <2>1, <3>2 DEF IdsDrawn, Open
      <4> QED BY <1>1, <1>2, <1>3, <3>2, <4>1 DEF Entries
    <3> QED BY <3>1, <3>2
  <2>2. \A i \in 1..Len(stamps') : stamps'[i].id <= opened'
    <3>1. \A i \in 1..Len(stamps) : stamps[i] \in Stamps
      BY <1>2
    <3> QED BY <1>1, <1>2, <1>3, <3>1 DEF IdsDrawn, Stamps
  <2> QED BY <2>1, <2>2 DEF IdsDrawn
<1>7. OpenAhead'
  BY <1>1, <1>2, <1>3 DEF OpenAhead, Open
<1>8. StampsRise'
  BY <1>2, <1>3 DEF StampsRise
<1> QED BY <1>4, <1>5, <1>6, <1>7, <1>8 DEF LedgerInv

\* A stamp that carries the next revision of a session's entry.
LEMMA AppendInv == ASSUME LedgerInv, NEW s \in Sessions, Count(s), NEW final \in BOOLEAN,
                          stamps' = Append(stamps, Stamp(Entry(s), final))
                   PROVE /\ stamps' \in Seq(Stamps)
                         /\ Len(stamps') = Len(stamps) + 1
                         /\ \A i \in 1..Len(stamps) : stamps'[i] = stamps[i]
                         /\ stamps'[Len(stamps')] = Stamp(Entry(s), final)
                         /\ \A i \in 1..Len(stamps') : stamps'[i].id <= opened'
                         /\ StampsRise'
<1> DEFINE p == Stamp(Entry(s), final)
<1>1. /\ Entry(s) \in Entries
      /\ opened' \in Nat /\ opened <= opened' /\ Entry(s).id <= opened'
      /\ \A i \in 1..Len(stamps) :
           stamps[i].id = Entry(s).id => stamps[i].rev <= Entry(s).rev /\ ~ stamps[i].final
  BY EntryFacts
<1>2. stamps \in Seq(Stamps) /\ opened \in Nat /\ IdsDrawn /\ StampsRise
  BY DEF LedgerInv, LedgerTypeOK
<1>3. p \in Stamps /\ p.id = Entry(s).id /\ p.rev = Entry(s).rev + 1
  BY <1>1 DEF Stamp, Entries, Stamps
<1> HIDE DEF p
<1>4. stamps' = Append(stamps, p)
  BY DEF p
<1>5. /\ stamps' \in Seq(Stamps)
      /\ Len(stamps') = Len(stamps) + 1 /\ Len(stamps) \in Nat
      /\ \A i \in 1..Len(stamps) : stamps'[i] = stamps[i]
      /\ stamps'[Len(stamps')] = p
  BY <1>2, <1>3, <1>4
<1>6. \A i \in 1..Len(stamps) : stamps[i] \in Stamps
  BY <1>2
<1>7. \A i \in 1..Len(stamps') : i \in 1..Len(stamps) \/ i = Len(stamps')
  BY <1>5
<1>8. ASSUME NEW i \in 1..Len(stamps') PROVE stamps'[i].id <= opened'
  <2>1. CASE i \in 1..Len(stamps)
    BY <1>1, <1>2, <1>5, <1>6, <2>1 DEF IdsDrawn, Stamps
  <2>2. CASE i = Len(stamps')
    BY <1>1, <1>3, <1>5, <2>2
  <2> QED BY <1>7, <2>1, <2>2
<1>9. ASSUME NEW i \in 1..Len(stamps'), NEW j \in 1..Len(stamps'),
             i < j, stamps'[i].id = stamps'[j].id
      PROVE stamps'[i].rev < stamps'[j].rev /\ ~ stamps'[i].final
  <2>1. i \in 1..Len(stamps)
    BY <1>5, <1>9
  <2>2. CASE j \in 1..Len(stamps)
    BY <1>2, <1>5, <1>9, <2>1, <2>2 DEF StampsRise
  <2>3. CASE j = Len(stamps')
    <3>1. stamps[i].rev <= Entry(s).rev /\ ~ stamps[i].final /\ stamps[i].rev \in Nat
      BY <1>1, <1>3, <1>5, <1>6, <1>9, <2>1, <2>3 DEF Stamps
    <3>2. Entry(s).rev \in Nat
      BY <1>1 DEF Entries
    <3> QED BY <1>3, <1>5, <2>1, <2>3, <3>1, <3>2
  <2> QED BY <1>7, <2>2, <2>3
<1> QED BY <1>5, <1>8, <1>9 DEF StampsRise, p

LEMMA DeltaInv == ASSUME LedgerInv, NEW s \in Sessions, Delta(s) PROVE LedgerInv'
<1> DEFINE e == [id |-> Entry(s).id, rev |-> Entry(s).rev + 1]
           p == Stamp(Entry(s), FALSE)
<1>1. /\ Entry(s) \in Entries
      /\ opened' \in Nat /\ opened <= opened' /\ Entry(s).id <= opened'
      /\ \A r \in Sessions \ {s} : Open(r) => open[r].id # Entry(s).id
      /\ \A i \in 1..Len(stamps) :
           stamps[i].id = Entry(s).id => stamps[i].rev <= Entry(s).rev /\ ~ stamps[i].final
  BY EntryFacts DEF Delta
<1>2. /\ open \in [Sessions -> Entries \cup {NoEntry}] /\ opened \in Nat /\ stamps \in Seq(Stamps)
      /\ OpenDistinct /\ IdsDrawn /\ OpenAhead
      /\ \A i \in 1..Len(stamps) : stamps[i] \in Stamps
  BY DEF LedgerInv, LedgerTypeOK
<1>3. /\ stamps' \in Seq(Stamps)
      /\ Len(stamps') = Len(stamps) + 1
      /\ \A i \in 1..Len(stamps) : stamps'[i] = stamps[i]
      /\ stamps'[Len(stamps')] = p
      /\ \A i \in 1..Len(stamps') : stamps'[i].id <= opened'
      /\ StampsRise'
  BY AppendInv DEF Delta
<1>4. e \in Entries /\ e.id = Entry(s).id /\ e.rev = Entry(s).rev + 1
  BY <1>1 DEF Entries
<1>5. p.id = e.id /\ p.rev = e.rev /\ ~ p.final
  BY DEF Stamp
<1> HIDE DEF e, p
<1>6. /\ open' \in [Sessions -> Entries \cup {NoEntry}]
      /\ open'[s] = e
      /\ \A r \in Sessions \ {s} : open'[r] = open[r]
  BY <1>2, <1>4 DEF Delta, e
<1>7. LedgerTypeOK'
  BY <1>1, <1>3, <1>6 DEF LedgerTypeOK
<1>8. OpenDistinct'
  BY <1>1, <1>2, <1>4, <1>6 DEF OpenDistinct, Open
<1>9. IdsDrawn'
  <2>1. ASSUME NEW r \in Sessions, Open(r)' PROVE open'[r].id <= opened'
    <3>1. CASE r = s
      BY <1>1, <1>4, <1>6, <3>1
    <3>2. CASE r # s
      <4>1. open[r] \in Entries /\ open[r].id <= opened
        BY <1>2, <1>6, <2>1, <3>2 DEF IdsDrawn, Open
      <4> QED BY <1>1, <1>2, <1>6, <3>2, <4>1 DEF Entries
    <3> QED BY <3>1, <3>2
  <2> QED BY <1>3, <2>1 DEF IdsDrawn
<1>10. OpenAhead'
  <2>1. ASSUME NEW r \in Sessions, NEW i \in 1..Len(stamps'), Open(r)', stamps'[i].id = open'[r].id
        PROVE stamps'[i].rev <= open'[r].rev /\ ~ stamps'[i].final
    <3>1. i \in 1..Len(stamps) \/ i = Len(stamps')
      BY <1>2, <1>3
    <3>2. CASE i = Len(stamps')
      <4>1. r = s
        BY <1>1, <1>3, <1>4, <1>5, <1>6, <2>1, <3>2 DEF Open
      <4> QED BY <1>1, <1>3, <1>4, <1>5, <1>6, <3>2, <4>1 DEF Entries
    <3>3. CASE i \in 1..Len(stamps) /\ r = s
      <4>1. stamps[i].rev <= Entry(s).rev /\ ~ stamps[i].final /\ stamps[i].rev \in Nat
        BY <1>1, <1>2, <1>3, <1>4, <1>6, <2>1, <3>3 DEF Stamps
      <4>2. Entry(s).rev \in Nat
        BY <1>1 DEF Entries
      <4> QED BY <1>3, <1>4, <1>6, <3>3, <4>1, <4>2
    <3>4. CASE i \in 1..Len(stamps) /\ r # s
      BY <1>2, <1>3, <1>6, <2>1, <3>4 DEF OpenAhead, Open
    <3> QED BY <3>1, <3>2, <3>3, <3>4
  <2> QED BY <2>1 DEF OpenAhead
<1> QED BY <1>3, <1>7, <1>8, <1>9, <1>10 DEF LedgerInv

LEMMA FinalInv == ASSUME LedgerInv, NEW s \in Sessions, Final(s) PROVE LedgerInv'
<1> DEFINE p == Stamp(Entry(s), TRUE)
<1>1. /\ Entry(s) \in Entries
      /\ opened' \in Nat /\ opened <= opened'
      /\ \A r \in Sessions \ {s} : Open(r) => open[r].id # Entry(s).id
  BY EntryFacts DEF Final
<1>2. /\ open \in [Sessions -> Entries \cup {NoEntry}] /\ opened \in Nat /\ stamps \in Seq(Stamps)
      /\ OpenDistinct /\ IdsDrawn /\ OpenAhead
  BY DEF LedgerInv, LedgerTypeOK
<1>3. /\ stamps' \in Seq(Stamps)
      /\ Len(stamps') = Len(stamps) + 1
      /\ \A i \in 1..Len(stamps) : stamps'[i] = stamps[i]
      /\ stamps'[Len(stamps')] = p
      /\ \A i \in 1..Len(stamps') : stamps'[i].id <= opened'
      /\ StampsRise'
  BY AppendInv DEF Final
<1>4. p.id = Entry(s).id
  BY DEF Stamp
<1> HIDE DEF p
<1>5. /\ open' \in [Sessions -> Entries \cup {NoEntry}]
      /\ open'[s] = NoEntry
      /\ \A r \in Sessions \ {s} : open'[r] = open[r]
  BY <1>2 DEF Final
<1>6. LedgerTypeOK'
  BY <1>1, <1>3, <1>5 DEF LedgerTypeOK
<1>7. OpenDistinct'
  BY <1>2, <1>5 DEF OpenDistinct, Open
<1>8. IdsDrawn'
  <2>1. ASSUME NEW r \in Sessions, Open(r)' PROVE open'[r].id <= opened'
    <3>1. r # s /\ Open(r)
      BY <1>5, <2>1 DEF Open
    <3>2. open[r] \in Entries /\ open[r].id <= opened
      BY <1>2, <3>1 DEF IdsDrawn, Open
    <3> QED BY <1>1, <1>2, <1>5, <3>1, <3>2 DEF Entries
  <2> QED BY <1>3, <2>1 DEF IdsDrawn
<1>9. OpenAhead'
  <2>1. ASSUME NEW r \in Sessions, NEW i \in 1..Len(stamps'), Open(r)', stamps'[i].id = open'[r].id
        PROVE stamps'[i].rev <= open'[r].rev /\ ~ stamps'[i].final
    <3>1. r # s /\ Open(r)
      BY <1>5, <2>1 DEF Open
    <3>2. i # Len(stamps')
      BY <1>1, <1>3, <1>4, <1>5, <2>1, <3>1
    <3>3. i \in 1..Len(stamps)
      BY <1>2, <1>3, <3>2
    <3> QED BY <1>2, <1>3, <1>5, <2>1, <3>1, <3>3 DEF OpenAhead
  <2> QED BY <2>1 DEF OpenAhead
<1> QED BY <1>3, <1>6, <1>7, <1>8, <1>9 DEF LedgerInv

LEMMA DropInv == ASSUME LedgerInv, DropAll PROVE LedgerInv'
<1>1. /\ open' = [s \in Sessions |-> NoEntry] /\ UNCHANGED <<opened, stamps>>
      /\ LedgerTypeOK /\ IdsDrawn /\ StampsRise
  BY DEF DropAll, LedgerInv
<1>2. LedgerTypeOK' /\ StampsRise'
  BY <1>1 DEF LedgerTypeOK, StampsRise
<1>3. OpenDistinct' /\ IdsDrawn' /\ OpenAhead'
  BY <1>1 DEF OpenDistinct, IdsDrawn, OpenAhead, Open
<1> QED BY <1>2, <1>3 DEF LedgerInv

LEMMA LedgerNext == ASSUME LedgerInv, [Next]_ledgerVars PROVE LedgerInv'
<1>1. CASE UNCHANGED ledgerVars
  BY <1>1 DEF ledgerVars, LedgerInv, LedgerTypeOK, OpenDistinct, IdsDrawn, OpenAhead, StampsRise, Open
<1>2. CASE Next
  BY <1>2, TouchInv, DeltaInv, FinalInv, DropInv DEF Next
<1> QED BY <1>1, <1>2

(* The ledger keeps the discipline of revisions for every set of sessions.  *)
THEOREM LedgerDisciplined == Spec => [](LedgerTypeOK /\ StampsRise)
<1>1. LedgerInv => LedgerTypeOK /\ StampsRise
  BY DEF LedgerInv
<1> QED BY <1>1, LedgerInit, LedgerNext, PTL DEF Spec

=============================================================================
