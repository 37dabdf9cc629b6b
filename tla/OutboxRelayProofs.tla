--------------------------- MODULE OutboxRelayProofs ---------------------------
(***************************************************************************)
(* Theorems about OutboxRelay, for any number of writers, relays, rows and  *)
(* faults: what a relay hands over was committed, is handed over before it  *)
(* is marked, and never before what caused it.                             *)
(*                                                                         *)
(* What a relay has in hand is a page it once read.  The invariant says of  *)
(* that page what nobody can undo: its rows stay committed, and whatever an *)
(* event of it follows was delivered already or stands before it.          *)
(***************************************************************************)
EXTENDS OutboxRelay, SequenceTheorems, TLAPS

Row == [txn : Txns, kind : Kind, published : BOOLEAN, after : SUBSET Nat]

RelayState == [at : {"loop", "row", "mark", "blocked", "down"}, batch : Seq(Ids),
               stopping : BOOLEAN]

\* An event follows earlier rows only: of transactions that had committed, or its own.
FollowsEarlier ==
    \A i \in Ids : \A j \in rows[i].after :
      j \in Ids /\ j < i /\ (Visible(j) \/ rows[j].txn = rows[i].txn)

Before(r, k, j) == \E m \in 1..(k - 1) : relay[r].batch[m] = j

\* What a relay has in hand: rows that are committed, each with its causes before it.
BatchFollows(r) ==
    LET batch == relay[r].batch
    IN \A k \in DOMAIN batch :
         /\ Visible(batch[k])
         /\ \A j \in rows[batch[k]].after : WasDelivered(j) \/ Before(r, k, j)

\* The row that is about to be marked was handed over.
MarksDelivered(r) == relay[r].at = "mark" => WasDelivered(NextRow(r))

IInv == /\ TypeOK
        /\ FollowsEarlier
        /\ PublishedWasDelivered
        /\ OnlyCommittedDelivered
        /\ CausalOrder
        /\ \A r \in Relays : BatchFollows(r) /\ MarksDelivered(r)

-----------------------------------------------------------------------------
(* Sequences of rows. *)

LEMMA SeqFacts ==
    ASSUME NEW S, NEW s \in Seq(S)
    PROVE  /\ Len(s) \in Nat /\ DOMAIN s = 1..Len(s)
           /\ \A i \in DOMAIN s : s[i] \in S
  BY LenProperties, ElementOfSeq

LEMMA AppendFacts ==
    ASSUME NEW S, NEW s \in Seq(S), NEW x \in S
    PROVE  /\ Append(s, x) \in Seq(S)
           /\ DOMAIN s = 1..Len(s) /\ Len(s) \in Nat
           /\ DOMAIN Append(s, x) = 1..(Len(s) + 1)
           /\ \A i \in 1..Len(s) : Append(s, x)[i] = s[i]
           /\ Append(s, x)[Len(s) + 1] = x
  BY AppendProperties, LenProperties

LEMMA TailFacts ==
    ASSUME NEW S, NEW s \in Seq(S), s # <<>>
    PROVE  /\ Head(s) = s[1] /\ 1 \in DOMAIN s /\ Head(s) \in S
           /\ Tail(s) \in Seq(S)
           /\ DOMAIN s = 1..Len(s) /\ Len(s) \in Nat
           /\ DOMAIN Tail(s) = 1..(Len(s) - 1)
           /\ \A i \in 1..(Len(s) - 1) : Tail(s)[i] = s[i + 1]
  BY HeadTailProperties, LenProperties, EmptySeq

\* A page is a sequence of what it is read from.
LEMMA PageFacts ==
    ASSUME NEW ids, NEW page \in Pages(ids)
    PROVE  page \in Seq(ids) /\ page # <<>> /\ IsPage(page, ids)
<1>1. PICK n \in 1..Limit : page \in [1..n -> ids]
  BY DEF Pages
<1>2. n \in Nat \ {0}
  BY <1>1, LimitAssumption
<1>3. page \in Seq(ids) /\ Len(page) = n
  BY <1>1, <1>2, IsASeq, LenProperties
<1> QED
  BY <1>2, <1>3, EmptySeq DEF Pages

LEMMA IdsFacts == TypeOK => Ids = 1..Len(rows) /\ Len(rows) \in Nat
  BY LenProperties DEF TypeOK, Ids

-----------------------------------------------------------------------------
(* What no step undoes. *)

Onward == /\ \A i \in Ids : /\ i \in DOMAIN rows'
                            /\ rows'[i].after = rows[i].after /\ rows'[i].txn = rows[i].txn
                            /\ Visible(i) => Visible(i)'
          /\ \A i \in Ids : WasDelivered(i) => WasDelivered(i)'

\* A page in hand stays in order while its relay keeps it.
LEMMA BatchStays ==
    ASSUME IInv, Onward, NEW r \in Relays, relay'[r].batch = relay[r].batch
    PROVE  BatchFollows(r)'
<1>1. relay[r].batch \in Seq(Ids) /\ BatchFollows(r)
  BY DEF IInv, TypeOK
<1>2. \A k \in DOMAIN relay[r].batch : relay[r].batch[k] \in Ids
  BY <1>1, SeqFacts
<1>3. \A k, j : Before(r, k, j)' = Before(r, k, j)
  BY DEF Before
<1> QED
  BY <1>1, <1>2, <1>3 DEF BatchFollows, Onward, IInv, FollowsEarlier

LEMMA HandsStay ==
    ASSUME IInv, Onward, NEW r \in Relays,
           \/ relay'[r].batch = <<>> /\ relay'[r].at # "mark"
           \/ relay'[r].batch = relay[r].batch /\ relay'[r].at \in {relay[r].at, "loop", "down"}
    PROVE  BatchFollows(r)' /\ MarksDelivered(r)'
<1>1. CASE relay'[r].batch = <<>> /\ relay'[r].at # "mark"
  BY <1>1, EmptySeq DEF BatchFollows, MarksDelivered
<1>2. CASE relay'[r].batch = relay[r].batch /\ relay'[r].at \in {relay[r].at, "loop", "down"}
  <2>1. relay[r].at = "mark" => NextRow(r) \in Ids /\ NextRow(r)' = NextRow(r)
    BY <1>2, TailFacts DEF IInv, TypeOK, NextRow
  <2> QED
    BY <1>2, <2>1, BatchStays DEF IInv, MarksDelivered, Onward
<1> QED
  BY <1>1, <1>2

\* An event is handed over whose causes were.
LEMMA DeliverKeeps ==
    ASSUME IInv, NEW i \in Ids, Visible(i), \A j \in rows[i].after : WasDelivered(j),
           delivered' = Append(delivered, i), UNCHANGED <<rows, txn>>
    PROVE  /\ delivered' \in Seq(Ids) /\ WasDelivered(i)' /\ Onward
           /\ FollowsEarlier' /\ PublishedWasDelivered' /\ OnlyCommittedDelivered' /\ CausalOrder'
<1> DEFINE n == Len(delivered)
<1>1. /\ delivered' \in Seq(Ids) /\ DOMAIN delivered = 1..n /\ n \in Nat
      /\ DOMAIN delivered' = 1..(n + 1) /\ delivered'[n + 1] = i
      /\ \A p \in 1..n : delivered'[p] = delivered[p]
  BY AppendFacts DEF IInv, TypeOK
<1> HIDE DEF n
<1>2. WasDelivered(i)' /\ \A j \in Ids : WasDelivered(j) => WasDelivered(j)'
  BY <1>1 DEF WasDelivered
<1>3. Onward
  BY <1>2 DEF Onward, Visible, Ids
<1>4. FollowsEarlier' /\ PublishedWasDelivered'
  BY <1>2 DEF IInv, FollowsEarlier, PublishedWasDelivered, Visible, Ids
<1>5. OnlyCommittedDelivered'
  BY <1>1 DEF IInv, OnlyCommittedDelivered, Visible
<1>6. CausalOrder'
  <2>1. ASSUME NEW p \in 1..n, NEW j \in rows[delivered[p]].after
        PROVE  \E q \in 1..(p - 1) : delivered'[q] = j
    BY <1>1, <2>1 DEF IInv, CausalOrder
  <2>2. \A j \in rows[i].after : \E q \in 1..n : delivered'[q] = j
    BY <1>1 DEF WasDelivered
  <2>3. n + 1 - 1 = n
    BY <1>1
  <2> QED
    BY <1>1, <2>1, <2>2, <2>3 DEF CausalOrder
<1> QED
  BY <1>1, <1>2, <1>3, <1>4, <1>5, <1>6

\* The store and the history stay; one relay moves.
LEMMA RelayMoves ==
    ASSUME IInv, NEW r \in Relays, NEW s, Set(r, s), UNCHANGED <<rows, txn>>, TypeOK', Onward,
           FollowsEarlier', PublishedWasDelivered', OnlyCommittedDelivered', CausalOrder',
           BatchFollows(r)', MarksDelivered(r)'
    PROVE  IInv'
<1>1. \A q \in Relays \ {r} : relay'[q] = relay[q]
  BY DEF Set, IInv, TypeOK
<1>2. \A q \in Relays \ {r} : BatchFollows(q)' /\ MarksDelivered(q)'
  BY <1>1, HandsStay
<1> QED
  BY <1>2 DEF IInv

LEMMA InitIInv == Init => IInv
<1> SUFFICES ASSUME Init PROVE IInv
  OBVIOUS
<1>1. \A S : <<>> \in Seq(S)
  BY EmptySeq
<1>2. TypeOK
  BY <1>1 DEF Init, TypeOK, Looping
<1> QED
  BY <1>2, EmptySeq
     DEF Init, IInv, Looping, FollowsEarlier, PublishedWasDelivered, OnlyCommittedDelivered,
         CausalOrder, BatchFollows, MarksDelivered, Ids

\* A row is written behind those there are, open, and after what its writer may know.
LEMMA WriteKeeps == ASSUME IInv, NEW t \in Txns, WriteEvent(t) PROVE IInv'
<1>1. PICK k \in Kinds :
        /\ IF k = "known" THEN UNCHANGED faults ELSE Fault
        /\ rows' = Append(rows, [txn |-> t, kind |-> k, published |-> FALSE,
                                 after |-> {i \in Ids : Visible(i) \/ rows[i].txn = t}])
  BY DEF WriteEvent
<1> DEFINE new == [txn |-> t, kind |-> k, published |-> FALSE,
                   after |-> {i \in Ids : Visible(i) \/ rows[i].txn = t}]
           n == Len(rows)
<1>2. UNCHANGED <<txn, relay, linked, delivered>> /\ txn[t] = "open"
  BY DEF WriteEvent
<1>3. Ids = 1..n /\ n \in Nat
  BY IdsFacts DEF IInv
<1>4. new \in Row
  BY <1>3, KindsAssumption DEF Row
<1>5. /\ rows' \in Seq(Row) /\ DOMAIN rows' = 1..(n + 1) /\ rows'[n + 1] = new
      /\ \A i \in 1..n : rows'[i] = rows[i]
  BY <1>1, <1>4, AppendFacts DEF IInv, TypeOK, Row
<1>6. new.txn = t /\ ~new.published /\ new.after = {i \in Ids : Visible(i) \/ rows[i].txn = t}
  OBVIOUS
<1> HIDE DEF new, n
<1>7. Ids' = 1..(n + 1) /\ Ids \subseteq Ids'
  BY <1>3, <1>5 DEF Ids
<1>8. \A i \in Ids : Visible(i)' = Visible(i) /\ rows'[i] = rows[i]
  BY <1>2, <1>3, <1>5 DEF Visible
<1>9. \A i : WasDelivered(i)' = WasDelivered(i)
  BY <1>2 DEF WasDelivered
<1>10. Onward
  BY <1>7, <1>8, <1>9 DEF Onward, Ids
<1>11. TypeOK'
  <2>1. Seq(Ids) \subseteq Seq(Ids')
    BY <1>7, SeqMonotonic
  <2>2. faults' \in Nat
    BY <1>1 DEF Fault, IInv, TypeOK
  <2>3. /\ txn' = txn /\ relay' = relay /\ linked' = linked /\ delivered' = delivered
        /\ delivered \in Seq(Ids')
        /\ relay \in [Relays -> [at : {"loop", "row", "mark", "blocked", "down"},
                                 batch : Seq(Ids'), stopping : BOOLEAN]]
    BY <1>2, <2>1 DEF IInv, TypeOK
  <2> QED
    BY <1>5, <2>2, <2>3 DEF IInv, TypeOK, Row
<1>12. FollowsEarlier'
  <2>1. ASSUME NEW i \in 1..n PROVE \A j \in rows'[i].after :
          j \in Ids' /\ j < i /\ (Visible(j)' \/ rows'[j].txn = rows'[i].txn)
    BY <1>3, <1>7, <1>8, <2>1 DEF IInv, FollowsEarlier
  <2>2. \A j \in new.after :
          j \in Ids' /\ j < n + 1 /\ (Visible(j)' \/ rows'[j].txn = rows'[n + 1].txn)
    BY <1>3, <1>5, <1>6, <1>7, <1>8
  <2> QED
    BY <1>3, <1>5, <1>7, <2>1, <2>2 DEF FollowsEarlier
<1>13. PublishedWasDelivered'
  BY <1>3, <1>5, <1>6, <1>7, <1>8, <1>9 DEF IInv, PublishedWasDelivered
<1>14. \A p \in DOMAIN delivered : delivered[p] \in Ids
  BY SeqFacts DEF IInv, TypeOK
<1>15. OnlyCommittedDelivered' /\ CausalOrder'
  BY <1>2, <1>8, <1>14 DEF IInv, OnlyCommittedDelivered, CausalOrder
<1>16. \A r \in Relays : BatchFollows(r)' /\ MarksDelivered(r)'
  BY <1>2, <1>10, HandsStay
<1> QED
  BY <1>11, <1>12, <1>13, <1>15, <1>16 DEF IInv

\* What was visible stays visible.
LEMMA EndKeeps ==
    ASSUME IInv, NEW t \in Txns, NEW how \in {"committed", "rolledback"}, EndTxn(t, how)
    PROVE  IInv'
<1>1. /\ txn[t] = "open" /\ txn' = [txn EXCEPT ![t] = how]
      /\ UNCHANGED <<rows, relay, linked, faults, delivered>>
  BY DEF EndTxn
<1>2. \A i \in Ids : Visible(i) => Visible(i)'
  BY <1>1, SeqFacts DEF Visible, IInv, TypeOK, Ids
<1>3. \A i : WasDelivered(i)' = WasDelivered(i)
  BY <1>1 DEF WasDelivered
<1>4. Onward
  BY <1>1, <1>2, <1>3 DEF Onward, Ids
<1>5. TypeOK' /\ Ids' = Ids
  BY <1>1 DEF IInv, TypeOK, Ids
<1>6. \A p \in DOMAIN delivered : delivered[p] \in Ids
  BY SeqFacts DEF IInv, TypeOK
<1>7. FollowsEarlier'
  BY <1>1, <1>2, <1>5 DEF IInv, FollowsEarlier
<1>8. PublishedWasDelivered' /\ OnlyCommittedDelivered' /\ CausalOrder'
  BY <1>1, <1>2, <1>3, <1>5, <1>6
     DEF IInv, PublishedWasDelivered, OnlyCommittedDelivered, CausalOrder
<1>9. \A r \in Relays : BatchFollows(r)' /\ MarksDelivered(r)'
  BY <1>1, <1>4, HandsStay
<1> QED
  BY <1>5, <1>7, <1>8, <1>9 DEF IInv

-----------------------------------------------------------------------------
(* The relays. *)

\* The outbox and the history stay as they are.
LEMMA Quiet ==
    ASSUME IInv, UNCHANGED <<rows, txn, delivered>>
    PROVE  /\ Onward /\ Ids' = Ids
           /\ FollowsEarlier' /\ PublishedWasDelivered' /\ OnlyCommittedDelivered' /\ CausalOrder'
<1>1. /\ \A i : WasDelivered(i)' = WasDelivered(i) /\ Visible(i)' = Visible(i)
      /\ Ids' = Ids
  BY DEF WasDelivered, Visible, Ids
<1>2. Onward
  BY <1>1 DEF Onward, Ids
<1>3. FollowsEarlier' /\ PublishedWasDelivered'
  BY <1>1 DEF IInv, FollowsEarlier, PublishedWasDelivered
<1>4. OnlyCommittedDelivered' /\ CausalOrder'
  BY <1>1 DEF IInv, OnlyCommittedDelivered, CausalOrder
<1> QED
  BY <1>1, <1>2, <1>3, <1>4

\* A relay gives up its batch, or changes nothing about it.
LEMMA LettingGoKeeps ==
    ASSUME IInv, NEW r \in Relays, NEW s, Set(r, s), UNCHANGED <<rows, txn, delivered>>,
           linked' \in [Relays -> BOOLEAN], faults' \in Nat, s \in RelayState,
           \/ s.batch = <<>> /\ s.at \in {"loop", "blocked", "down"}
           \/ s.batch = relay[r].batch /\ s.at = relay[r].at
    PROVE  IInv'
<1>1. relay[r] \in RelayState
  BY DEF IInv, TypeOK, RelayState
<1>2. relay' = [relay EXCEPT ![r] = s] /\ relay'[r] = s
  BY DEF Set, IInv, TypeOK
<1>3. Ids' = Ids /\ Onward
  BY Quiet
<1>4. s.at \in {"row", "mark"} <=> s.batch # <<>>
  BY DEF IInv, TypeOK
<1>5. TypeOK'
  <2>1. relay' \in [Relays -> RelayState']
    BY <1>2, <1>3 DEF IInv, TypeOK, RelayState
  <2>2. \A q \in Relays : relay'[q].at \in {"row", "mark"} <=> relay'[q].batch # <<>>
    BY <1>2, <1>4 DEF IInv, TypeOK
  <2> QED
    BY <1>3, <2>1, <2>2 DEF IInv, TypeOK, RelayState
<1>6. BatchFollows(r)' /\ MarksDelivered(r)'
  BY <1>2, <1>3, HandsStay
<1> QED
  BY <1>3, <1>5, <1>6, Quiet, RelayMoves

\* The rows behind what is marked published were delivered: of a page read now, every
\* event has its causes behind it or before it.
LEMMA FetchKeeps == ASSUME IInv, NEW r \in Relays, Fetch(r) PROVE IInv'
<1>1. PICK page \in Pages(Unpublished) :
        Set(r, [relay[r] EXCEPT !.at = "row", !.batch = page])
  BY DEF Fetch
<1>2. UNCHANGED <<rows, txn, delivered, linked, faults>>
  BY DEF Fetch
<1>3. page \in Seq(Unpublished) /\ page # <<>> /\ IsPage(page, Unpublished)
  BY PageFacts
<1>4. Unpublished \subseteq Ids /\ page \in Seq(Ids)
  BY <1>3, SeqMonotonic DEF Unpublished
<1>5. DOMAIN page = 1..Len(page) /\ \A k \in DOMAIN page : page[k] \in Unpublished
  BY <1>3, SeqFacts
<1>6. /\ relay' = [relay EXCEPT ![r] = [relay[r] EXCEPT !.at = "row", !.batch = page]]
      /\ relay'[r].at = "row" /\ relay'[r].batch = page
  BY <1>1 DEF Set, IInv, TypeOK
<1>7. Onward /\ Ids' = Ids
  BY <1>2, Quiet
<1>8. TypeOK'
  BY <1>2, <1>3, <1>4, <1>6, <1>7 DEF IInv, TypeOK
<1>9. ASSUME NEW k \in DOMAIN page, NEW j \in rows[page[k]].after
      PROVE  WasDelivered(j) \/ \E m \in 1..(k - 1) : page[m] = j
  <2>1. j \in Ids /\ j < page[k] /\ (Visible(j) \/ rows[j].txn = rows[page[k]].txn)
    BY <1>4, <1>5 DEF IInv, FollowsEarlier
  <2>2. Visible(j)
    BY <1>5, <2>1 DEF Unpublished, Visible
  <2>3. CASE rows[j].published
    BY <2>1, <2>3 DEF IInv, PublishedWasDelivered
  <2>4. CASE ~rows[j].published
    <3>1. j \in Unpublished
      BY <2>1, <2>2, <2>4 DEF Unpublished
    <3>2. page[k] \in Nat /\ j \in Nat
      BY <1>4, <1>5, <2>1, IdsFacts DEF IInv
    <3>3. PICK m \in DOMAIN page : page[m] = j
      BY <1>3, <2>1, <3>1, <3>2 DEF IsPage
    <3>4. m < k
      <4>1. k < m => page[k] < page[m]
        BY <1>3 DEF IsPage
      <4> QED
        BY <1>5, <2>1, <3>2, <3>3, <4>1
    <3> QED
      BY <1>5, <3>3, <3>4
  <2> QED
    BY <2>3, <2>4 DEF IInv, TypeOK
<1>10. BatchFollows(r)'
  <2>1. \A k \in DOMAIN page : Visible(page[k])
    BY <1>5 DEF Unpublished
  <2>2. \A i : Visible(i)' = Visible(i) /\ WasDelivered(i)' = WasDelivered(i)
    BY <1>2 DEF Visible, WasDelivered
  <2>3. \A k, j : Before(r, k, j)' = \E m \in 1..(k - 1) : page[m] = j
    BY <1>6 DEF Before
  <2>4. \A k \in DOMAIN page :
           /\ Visible(page[k])'
           /\ \A j \in rows'[page[k]].after : WasDelivered(j)' \/ Before(r, k, j)'
    BY <1>2, <1>9, <2>1, <2>2, <2>3
  <2> QED
    BY <1>6, <2>4 DEF BatchFollows
<1>11. MarksDelivered(r)'
  BY <1>6 DEF MarksDelivered
<1> QED
  BY <1>1, <1>2, <1>7, <1>8, <1>10, <1>11, Quiet, RelayMoves

\* The next row of a relay that is in its batch.
LEMMA InHand ==
    ASSUME IInv, NEW r \in Relays, relay[r].at \in {"row", "mark"}
    PROVE  LET batch == relay[r].batch
           IN /\ batch \in Seq(Ids) /\ batch # <<>> /\ NextRow(r) = batch[1]
              /\ NextRow(r) \in Ids /\ 1 \in DOMAIN batch /\ Visible(NextRow(r))
              /\ \A j \in rows[NextRow(r)].after : WasDelivered(j)
<1> DEFINE batch == relay[r].batch
<1>1. batch \in Seq(Ids) /\ batch # <<>> /\ BatchFollows(r)
  BY DEF IInv, TypeOK
<1>2. NextRow(r) = batch[1] /\ 1 \in DOMAIN batch /\ NextRow(r) \in Ids
  BY <1>1, TailFacts DEF NextRow
<1>3. \A j : ~Before(r, 1, j)
  BY DEF Before
<1> QED
  BY <1>1, <1>2, <1>3 DEF BatchFollows

LEMMA PublishKeeps == ASSUME IInv, NEW r \in Relays, Publish(r) PROVE IInv'
<1>0. PICK i : i = NextRow(r)
  OBVIOUS
<1>1. /\ delivered' = Append(delivered, i) /\ UNCHANGED <<rows, txn, linked, faults>>
      /\ Set(r, [relay[r] EXCEPT !.at = "mark"]) /\ relay[r].at = "row"
  BY <1>0 DEF Publish
<1>2. /\ relay[r].batch # <<>> /\ i \in Ids /\ Visible(i)
      /\ \A j \in rows[i].after : WasDelivered(j)
  BY <1>0, <1>1, InHand
<1>3. /\ delivered' \in Seq(Ids) /\ WasDelivered(i)' /\ Onward
      /\ FollowsEarlier' /\ PublishedWasDelivered' /\ OnlyCommittedDelivered' /\ CausalOrder'
  BY <1>1, <1>2, DeliverKeeps
<1>4. /\ relay' = [relay EXCEPT ![r].at = "mark"]
      /\ relay'[r].at = "mark" /\ relay'[r].batch = relay[r].batch
  BY <1>1 DEF Set, IInv, TypeOK
<1>5. TypeOK'
  BY <1>1, <1>2, <1>3, <1>4 DEF IInv, TypeOK, Ids
<1>6. BatchFollows(r)'
  BY <1>3, <1>4, BatchStays
<1>7. NextRow(r)' = i
  BY <1>0, <1>4 DEF NextRow
<1>8. MarksDelivered(r)'
  BY <1>3, <1>7 DEF MarksDelivered, WasDelivered
<1> QED
  BY <1>1, <1>3, <1>5, <1>6, <1>8, RelayMoves

\* The row is marked that was handed over; what is left of the batch moves up.
LEMMA MarkKeeps == ASSUME IInv, NEW r \in Relays, Mark(r) PROVE IInv'
<1>0. PICK i, batch, rest : i = NextRow(r) /\ batch = relay[r].batch /\ rest = Tail(batch)
  OBVIOUS
<1>1. /\ rows' = [rows EXCEPT ![i].published = TRUE]
      /\ Set(r, Advance(r)) /\ relay[r].at = "mark"
      /\ UNCHANGED <<txn, linked, faults, delivered>>
  BY <1>0 DEF Mark
<1>2. batch \in Seq(Ids) /\ batch # <<>> /\ i \in Ids /\ i = batch[1] /\ WasDelivered(i)
  BY <1>0, <1>1, InHand DEF IInv, MarksDelivered
<1>3. /\ rest \in Seq(Ids) /\ DOMAIN batch = 1..Len(batch) /\ Len(batch) \in Nat
      /\ DOMAIN rest = 1..(Len(batch) - 1)
      /\ \A k \in 1..(Len(batch) - 1) : rest[k] = batch[k + 1]
  BY <1>0, <1>2, TailFacts
<1>4. /\ relay' = [relay EXCEPT ![r] = Advance(r)] /\ relay'[r] = Advance(r)
      /\ Advance(r).batch = rest /\ Advance(r).stopping = relay[r].stopping
      /\ Advance(r).at = IF rest = <<>> THEN "loop" ELSE "row"
      /\ Advance(r) \in [at : {"loop", "row"}, batch : Seq(Ids), stopping : BOOLEAN]
  BY <1>0, <1>1, <1>3 DEF Set, Advance, IInv, TypeOK
<1>5. /\ rows \in Seq(Row) /\ rows' \in Seq(Row) /\ DOMAIN rows' = DOMAIN rows
      /\ \A j \in Ids : /\ rows'[j].after = rows[j].after /\ rows'[j].txn = rows[j].txn
                        /\ rows'[j].published = IF j = i THEN TRUE ELSE rows[j].published
  <2>1. rows \in Seq(Row)
    BY DEF IInv, TypeOK, Row
  <2>2. rows[i] \in Row
    BY <1>2, <2>1, SeqFacts DEF Ids
  <2>3. PICK marked : marked = [rows[i] EXCEPT !.published = TRUE]
    OBVIOUS
  <2>4. /\ marked \in Row /\ marked.published
        /\ marked.after = rows[i].after /\ marked.txn = rows[i].txn
    BY <2>2, <2>3 DEF Row
  <2>5. rows' = [rows EXCEPT ![i] = marked]
    BY <1>1, <2>3
  <2>6. /\ rows' \in Seq(Row) /\ DOMAIN rows' = DOMAIN rows
        /\ \A j \in Ids : rows'[j] = IF j = i THEN marked ELSE rows[j]
    BY <1>2, <2>1, <2>4, <2>5, ExceptSeq, LenProperties DEF Ids
  <2> QED
    BY <2>1, <2>4, <2>6
<1>6. /\ Ids' = Ids /\ \A j : WasDelivered(j)' = WasDelivered(j)
      /\ \A j \in Ids : Visible(j)' = Visible(j)
  BY <1>1, <1>5 DEF Ids, WasDelivered, Visible
<1>7. Onward
  BY <1>5, <1>6 DEF Onward, Ids
<1>8. TypeOK'
  <2>1. relay' \in [Relays -> [at : {"loop", "row", "mark", "blocked", "down"},
                               batch : Seq(Ids'), stopping : BOOLEAN]]
    BY <1>4, <1>6 DEF IInv, TypeOK
  <2>2. \A q \in Relays : relay'[q].at \in {"row", "mark"} <=> relay'[q].batch # <<>>
    BY <1>4 DEF IInv, TypeOK
  <2> QED
    BY <1>1, <1>5, <1>6, <2>1, <2>2 DEF IInv, TypeOK, Row
<1>9. FollowsEarlier' /\ PublishedWasDelivered'
  <2>1. FollowsEarlier'
    <3>1. ASSUME NEW k \in Ids, NEW j \in rows[k].after
          PROVE  j \in Ids /\ j < k /\ (Visible(j)' \/ rows'[j].txn = rows'[k].txn)
      <4>1. j \in Ids /\ j < k /\ (Visible(j) \/ rows[j].txn = rows[k].txn)
        BY DEF IInv, FollowsEarlier
      <4> QED
        BY <1>5, <1>6, <4>1
    <3> QED
      BY <1>5, <1>6, <3>1 DEF FollowsEarlier
  <2>2. PublishedWasDelivered'
    BY <1>2, <1>5, <1>6 DEF IInv, PublishedWasDelivered
  <2> QED
    BY <2>1, <2>2
<1>10. OnlyCommittedDelivered' /\ CausalOrder'
  <2>1. \A p \in DOMAIN delivered : delivered[p] \in Ids
    BY SeqFacts DEF IInv, TypeOK
  <2> QED
    BY <1>1, <1>5, <1>6, <2>1 DEF IInv, OnlyCommittedDelivered, CausalOrder
<1>11. BatchFollows(r)'
  <2>1. ASSUME NEW k \in DOMAIN rest
        PROVE  /\ Visible(rest[k])'
               /\ \A j \in rows'[rest[k]].after : WasDelivered(j)' \/ Before(r, k, j)'
    <3>1. /\ k + 1 \in DOMAIN batch /\ rest[k] = batch[k + 1] /\ batch[k + 1] \in Ids
          /\ k \in Nat /\ k + 1 - 1 = k
      BY <1>2, <1>3, <2>1, SeqFacts
    <3>2. /\ Visible(batch[k + 1])
          /\ \A j \in rows[batch[k + 1]].after : WasDelivered(j) \/ Before(r, k + 1, j)
      BY <1>0, <3>1 DEF IInv, BatchFollows
    <3>3. ASSUME NEW j, Before(r, k + 1, j) PROVE WasDelivered(j) \/ Before(r, k, j)'
      <4>1. PICK m \in 1..k : batch[m] = j
        BY <1>0, <3>1, <3>3 DEF Before
      <4>2. CASE m = 1
        BY <1>2, <4>1, <4>2
      <4>3. CASE m # 1
        <5>1. m - 1 \in 1..(k - 1) /\ rest[m - 1] = j
          BY <1>3, <2>1, <4>1, <4>3
        <5> QED
          BY <1>4, <5>1 DEF Before
      <4> QED
        BY <4>2, <4>3
    <3> QED
      BY <1>5, <1>6, <3>1, <3>2, <3>3
  <2> QED
    BY <1>4, <2>1 DEF BatchFollows
<1>12. MarksDelivered(r)'
  BY <1>4 DEF MarksDelivered
<1>13. \A q \in Relays \ {r} : relay'[q] = relay[q]
  BY <1>4 DEF IInv, TypeOK
<1>14. \A q \in Relays \ {r} : BatchFollows(q)' /\ MarksDelivered(q)'
  BY <1>7, <1>13, HandsStay
<1> QED
  BY <1>8, <1>9, <1>10, <1>11, <1>12, <1>14 DEF IInv

LEMMA PublishFailsKeeps == ASSUME IInv, NEW r \in Relays, PublishFails(r) PROVE IInv'
<1>1. PICK i : i = NextRow(r)
  OBVIOUS
<1>2. /\ Set(r, Back(r)) /\ relay[r].at = "row" /\ UNCHANGED <<rows, txn, linked>>
      /\ faults' = faults + 1
      /\ delivered' = delivered \/ delivered' = Append(delivered, i)
  BY <1>1 DEF PublishFails, Fault
<1>3. i \in Ids /\ Visible(i) /\ \A j \in rows[i].after : WasDelivered(j)
  BY <1>1, <1>2, InHand
<1>4. /\ delivered' \in Seq(Ids) /\ Onward
      /\ FollowsEarlier' /\ PublishedWasDelivered' /\ OnlyCommittedDelivered' /\ CausalOrder'
  <2>1. CASE delivered' = delivered
    BY <1>2, <2>1, Quiet DEF IInv, TypeOK
  <2>2. CASE delivered' = Append(delivered, i)
    BY <1>2, <1>3, <2>2, DeliverKeeps
  <2> QED
    BY <1>2, <2>1, <2>2
<1>5. /\ relay' = [relay EXCEPT ![r] = Back(r)]
      /\ relay'[r].at = "loop" /\ relay'[r].batch = <<>>
      /\ Back(r) \in [at : {"loop"}, batch : {<<>>}, stopping : BOOLEAN]
  BY <1>2 DEF Set, Back, IInv, TypeOK
<1>6. TypeOK'
  <2>1. <<>> \in Seq(Ids)
    BY EmptySeq
  <2>2. relay' \in [Relays -> [at : {"loop", "row", "mark", "blocked", "down"}, batch : Seq(Ids),
                               stopping : BOOLEAN]]
    BY <1>5, <2>1 DEF IInv, TypeOK
  <2>3. \A q \in Relays : relay'[q].at \in {"row", "mark"} <=> relay'[q].batch # <<>>
    BY <1>5 DEF IInv, TypeOK
  <2> QED
    BY <1>2, <1>4, <2>2, <2>3 DEF IInv, TypeOK, Ids
<1>7. BatchFollows(r)' /\ MarksDelivered(r)'
  BY <1>4, <1>5, HandsStay
<1> QED
  BY <1>2, <1>4, <1>6, <1>7, RelayMoves

\* The other failures and their ends: a relay drops its batch, is told to stop, loses its
\* connection or starts afresh.
LEMMA OthersKeep ==
    ASSUME IInv, NEW r \in Relays,
           Block(r) \/ Misread(r) \/ MarkFails(r) \/ Stop(r) \/ Restart(r) \/ Shutdown(r) \/ Crash(r)
    PROVE  IInv'
<1>1. /\ relay[r].stopping \in BOOLEAN
      /\ faults \in Nat /\ linked \in [Relays -> BOOLEAN]
      /\ relay[r].at = "loop" => relay[r].batch = <<>>
  BY DEF IInv, TypeOK
<1>2. UNCHANGED <<rows, txn, delivered>> /\ linked' \in [Relays -> BOOLEAN] /\ faults' \in Nat
  <2>1. UNCHANGED <<rows, txn, delivered>>
    BY DEF Block, Misread, MarkFails, Stop, Restart, Shutdown, Crash
  <2>2. linked' = linked \/ linked' = [linked EXCEPT ![r] = TRUE]
    BY DEF Block, Misread, MarkFails, Stop, Restart, Shutdown, Crash
  <2>3. faults' = faults \/ faults' = faults + 1
    BY DEF Block, Misread, MarkFails, Stop, Restart, Shutdown, Crash, Fault
  <2>4. linked' \in [Relays -> BOOLEAN]
    BY <1>1, <2>2
  <2>5. faults' \in Nat
    BY <1>1, <2>3
  <2> QED
    BY <2>1, <2>4, <2>5
<1>3. relay[r] \in RelayState /\ <<>> \in Seq(Ids)
  BY EmptySeq DEF IInv, TypeOK, RelayState
<1>4. CASE Block(r)
  <2> DEFINE s == [relay[r] EXCEPT !.at = "blocked", !.batch = <<>>]
  <2>1. Set(r, s) /\ s.at = "blocked" /\ s.batch = <<>> /\ s \in RelayState
    BY <1>3, <1>4 DEF Block, RelayState
  <2> QED
    BY <1>2, <2>1, LettingGoKeeps
<1>5. CASE Misread(r) \/ MarkFails(r)
  <2>1. Set(r, Back(r)) /\ Back(r).at = "loop" /\ Back(r).batch = <<>> /\ Back(r) \in RelayState
    BY <1>3, <1>5 DEF Misread, MarkFails, Back, RelayState
  <2> QED
    BY <1>2, <2>1, LettingGoKeeps
<1>6. CASE Stop(r)
  <2> DEFINE s == [relay[r] EXCEPT !.at = "down"]
  <2>1. Set(r, s) /\ s.at = "down" /\ s.batch = <<>> /\ s \in RelayState
    BY <1>1, <1>3, <1>6 DEF Stop, RelayState
  <2> QED
    BY <1>2, <2>1, LettingGoKeeps
<1>7. CASE Crash(r)
  <2> DEFINE s == [Back(r) EXCEPT !.at = "down"]
  <2>1. Set(r, s) /\ s.at = "down" /\ s.batch = <<>> /\ s \in RelayState
    BY <1>3, <1>7 DEF Crash, Back, RelayState
  <2> QED
    BY <1>2, <2>1, LettingGoKeeps
<1>8. CASE Restart(r)
  <2>1. Set(r, Looping) /\ Looping.at = "loop" /\ Looping.batch = <<>> /\ Looping \in RelayState
    BY <1>3, <1>8 DEF Restart, Looping, RelayState
  <2> QED
    BY <1>2, <2>1, LettingGoKeeps
<1>9. CASE Shutdown(r)
  <2> DEFINE s == [relay[r] EXCEPT !.stopping = TRUE]
  <2>1. Set(r, s) /\ s.at = relay[r].at /\ s.batch = relay[r].batch /\ s \in RelayState
    BY <1>3, <1>9 DEF Shutdown, RelayState
  <2> QED
    BY <1>2, <2>1, LettingGoKeeps
<1> QED
  BY <1>4, <1>5, <1>6, <1>7, <1>8, <1>9

LEMMA LoseKeeps == ASSUME IInv, NEW r \in Relays, LoseConnection(r) PROVE IInv'
<1>1. UNCHANGED <<rows, txn, relay, delivered>> /\ linked' \in [Relays -> BOOLEAN] /\ faults' \in Nat
  BY DEF LoseConnection, Fault, IInv, TypeOK
<1>2. TypeOK'
  BY <1>1 DEF IInv, TypeOK, Ids
<1>3. \A q \in Relays : BatchFollows(q)' /\ MarksDelivered(q)'
  BY <1>1, Quiet, HandsStay
<1> QED
  BY <1>1, <1>2, <1>3, Quiet DEF IInv

LEMMA StepIInv == IInv /\ [Next]_vars => IInv'
<1> SUFFICES ASSUME IInv, [Next]_vars PROVE IInv'
  OBVIOUS
<1>1. CASE UNCHANGED vars
  <2>1. UNCHANGED <<rows, txn, relay, linked, faults, delivered>>
    BY <1>1 DEF vars
  <2>2. TypeOK'
    BY <2>1 DEF IInv, TypeOK, Ids
  <2>3. \A q \in Relays : BatchFollows(q)' /\ MarksDelivered(q)'
    BY <2>1, Quiet, HandsStay
  <2> QED
    BY <2>1, <2>2, <2>3, Quiet DEF IInv
<1>2. ASSUME NEW t \in Txns, Writer(t) PROVE IInv'
  BY <1>2, WriteKeeps, EndKeeps DEF Writer
<1>3. ASSUME NEW r \in Relays, Work(r) \/ Stop(r) \/ Restart(r) \/ Failure(r) PROVE IInv'
  BY <1>3, FetchKeeps, PublishKeeps, MarkKeeps, PublishFailsKeeps, OthersKeep, LoseKeeps
     DEF Work, Failure
<1> QED
  BY <1>1, <1>2, <1>3 DEF Next, Drained

-----------------------------------------------------------------------------

LEMMA SpecIInv == Spec => []IInv
  BY InitIInv, StepIInv, PTL DEF Spec

\* Every variable keeps its type, and a relay has rows in hand exactly while it is in its batch.
THEOREM RelayTypes == Spec => []TypeOK
<1>1. IInv => TypeOK
  BY DEF IInv
<1> QED
  BY <1>1, SpecIInv, PTL

\* Delivery is at least once: however relays crash, overlap and lose their connections, no
\* row is marked published that was not handed over (outbox.py: drain publishes, then marks).
THEOREM MarkedWasDelivered == Spec => []PublishedWasDelivered
<1>1. IInv => PublishedWasDelivered
  BY DEF IInv
<1> QED
  BY <1>1, SpecIInv, PTL

\* Nothing is handed over of a transaction that is open or was rolled back (I11).
THEOREM NothingUncommittedLeaves == Spec => []OnlyCommittedDelivered
<1>1. IInv => OnlyCommittedDelivered
  BY DEF IInv
<1> QED
  BY <1>1, SpecIInv, PTL

\* An event never reaches the consumers before what its writer could know of: pages are in
\* id order, and what is missing from one was delivered (outbox.py: ORDER BY id).
THEOREM EventsFollowTheirCauses == Spec => []CausalOrder
<1>1. IInv => CausalOrder
  BY DEF IInv
<1> QED
  BY <1>1, SpecIInv, PTL
=============================================================================
