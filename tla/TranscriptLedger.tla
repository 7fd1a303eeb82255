-------------------------- MODULE TranscriptLedger --------------------------
(***************************************************************************)
(* What the speech-to-text service promises about revisions, without how   *)
(* it comes to a text: a session has at most one open transcript; a delta  *)
(* carries the next revision of it; a final carries the next revision and  *)
(* ends it; a reconfiguration drops every open transcript.  SttService     *)
(* implements this for its stub and HTTP recognizer providers.             *)
(***************************************************************************)
EXTENDS Naturals, Sequences

CONSTANTS
  Sessions,  \* meeting session identifiers
  NoEntry    \* "no open transcript"

VARIABLES
  open,    \* [Sessions -> [id, rev] or NoEntry]
  opened,  \* transcripts opened so far: the source of their ids
  stamps   \* what was issued, in order: <<[id, rev, final], ...>>

ledgerVars == <<open, opened, stamps>>

\* The transcript of s: the open one, or one that is opened now.
Entry(s) == IF open[s] = NoEntry THEN [id |-> opened + 1, rev |-> 0] ELSE open[s]
Count(s) == opened' = IF open[s] = NoEntry THEN opened + 1 ELSE opened

Stamp(entry, final) == [id |-> entry.id, rev |-> entry.rev + 1, final |-> final]

\* A transcript is opened, or kept open, and nothing is issued.
Touch(s) ==
  /\ open' = [open EXCEPT ![s] = Entry(s)]
  /\ Count(s)
  /\ UNCHANGED stamps

Delta(s) ==
  /\ open' = [open EXCEPT ![s] = [id |-> Entry(s).id, rev |-> Entry(s).rev + 1]]
  /\ Count(s)
  /\ stamps' = Append(stamps, Stamp(Entry(s), FALSE))

Final(s) ==
  /\ open' = [open EXCEPT ![s] = NoEntry]
  /\ Count(s)
  /\ stamps' = Append(stamps, Stamp(Entry(s), TRUE))

DropAll ==
  /\ open' = [s \in Sessions |-> NoEntry]
  /\ UNCHANGED <<opened, stamps>>

Init ==
  /\ open = [s \in Sessions |-> NoEntry]
  /\ opened = 0
  /\ stamps = <<>>

Next == DropAll \/ \E s \in Sessions : Touch(s) \/ Delta(s) \/ Final(s)

Spec == Init /\ [][Next]_ledgerVars

-----------------------------------------------------------------------------
Entries == [id : Nat, rev : Nat]
Stamps == [id : Nat, rev : Nat, final : BOOLEAN]

LedgerTypeOK ==
  /\ open \in [Sessions -> Entries \cup {NoEntry}]
  /\ opened \in Nat
  /\ stamps \in Seq(Stamps)

Open(s) == open[s] # NoEntry

\* Two sessions never share a transcript.
OpenDistinct ==
  \A s, r \in Sessions : Open(s) /\ Open(r) /\ open[s].id = open[r].id => s = r

\* Ids are drawn from opened.
IdsDrawn ==
  /\ \A s \in Sessions : Open(s) => open[s].id <= opened
  /\ \A i \in 1..Len(stamps) : stamps[i].id <= opened

\* An open transcript is not finished and is not behind what was issued of it.
OpenAhead ==
  \A s \in Sessions, i \in 1..Len(stamps) :
    Open(s) /\ stamps[i].id = open[s].id => stamps[i].rev <= open[s].rev /\ ~ stamps[i].final

(* What is issued of one transcript has strictly rising revisions, and      *)
(* nothing follows its final.                                               *)
StampsRise ==
  \A i, j \in 1..Len(stamps) :
    i < j /\ stamps[i].id = stamps[j].id => stamps[i].rev < stamps[j].rev /\ ~ stamps[i].final

\* StampsRise is not inductive: it takes what an open transcript will issue next.
LedgerInv == LedgerTypeOK /\ OpenDistinct /\ IdsDrawn /\ OpenAhead /\ StampsRise

=============================================================================
