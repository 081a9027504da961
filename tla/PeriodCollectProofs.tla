------------------------- MODULE PeriodCollectProofs -------------------------
(***************************************************************************)
(* Machine-checked proofs about PeriodCollect, for every set of symbols    *)
(* and quotes and every value of the time constants.                       *)
(***************************************************************************)
EXTENDS PeriodCollect, TLAPS, SequenceTheorems, WellFoundedInduction

-----------------------------------------------------------------------------
(* The loops of detach over a pending list *)

\* A nonempty set of positions has a least element, the one Min chooses.
LEMMA MinOfPositions ==
  ASSUME NEW I \in SUBSET Nat, I # {}
  PROVE  Min(I) \in I
<1> DEFINE Less == {ss \in Nat \X Nat : ss[1] < ss[2]}
<1>1. IsWellFoundedOn(Less, Nat)
  BY NatLessThanWellFounded, Zenon DEF OpToRel
<1>2. PICK i \in I : \A j \in I : ~(<<j, i>> \in Less)
  <2> HIDE DEF Less
  <2> QED BY <1>1, WFMin
<1>3. \A j \in I : i <= j
  <2> TAKE j \in I
  <2>1. <<j, i>> \in Nat \X Nat
    OBVIOUS
  <2>2. ~(j < i)
    BY <1>2, <2>1
  <2> QED BY <2>2
<1> QED BY <1>3 DEF Min

\* FirstMatch finds a position of the list whose quote lies in the period, or 0.
LEMMA FirstMatchPosition ==
  ASSUME NEW pn, NEW pend \in Seq(Quotes)
  PROVE  \/ FirstMatch(pn, pend) = 0
         \/ /\ FirstMatch(pn, pend) \in 1 .. Len(pend)
            /\ InPeriod(pn, pend[FirstMatch(pn, pend)])
<1> DEFINE I == {i \in 1 .. Len(pend) : InPeriod(pn, pend[i])}
<1>1. CASE I = {}
  BY <1>1 DEF FirstMatch, SelectInSeq
<1>2. CASE I # {}
  <2>1. FirstMatch(pn, pend) = Min(I)
    BY <1>2 DEF FirstMatch, SelectInSeq
  <2>2. I \in SUBSET Nat
    OBVIOUS
  <2>3. Min(I) \in I
    <3> HIDE DEF I
    <3> QED BY <1>2, <2>2, MinOfPositions
  <2> QED BY <2>1, <2>3
<1> QED BY <1>1, <1>2

\* Removing an element leaves a sequence of the other elements.
LEMMA RemoveAtElements ==
  ASSUME NEW S, NEW seq \in Seq(S), NEW i \in 1 .. Len(seq)
  PROVE  /\ RemoveAt(seq, i) \in Seq(S)
         /\ \A j \in DOMAIN RemoveAt(seq, i) :
              \E n \in DOMAIN seq : RemoveAt(seq, i)[j] = seq[n]
<1> DEFINE a == SubSeq(seq, 1, i - 1)
           b == SubSeq(seq, i + 1, Len(seq))
<1>1. /\ a \in Seq(S)
      /\ Len(a) = i - 1
      /\ \A j \in 1 .. i - 1 : a[j] = seq[j]
  BY SubSeqProperties, ElementOfSeq, LenProperties
<1>2. /\ b \in Seq(S)
      /\ Len(b) = Len(seq) - i
      /\ \A j \in 1 .. Len(seq) - i : b[j] = seq[i + j]
  BY SubSeqProperties, ElementOfSeq, LenProperties
<1> HIDE DEF a, b
<1>3. /\ a \o b \in Seq(S)
      /\ Len(a \o b) = Len(seq) - 1
      /\ \A j \in 1 .. Len(seq) - 1 :
           (a \o b)[j] = IF j <= i - 1 THEN a[j] ELSE b[j - (i - 1)]
  <2>1. /\ a \o b \in Seq(S)
        /\ Len(a \o b) = Len(a) + Len(b)
        /\ \A j \in 1 .. Len(a) + Len(b) :
             (a \o b)[j] = IF j <= Len(a) THEN a[j] ELSE b[j - Len(a)]
    BY <1>1, <1>2, ConcatProperties
  <2>2. Len(a) + Len(b) = Len(seq) - 1
    BY <1>1, <1>2, LenProperties
  <2> QED BY <2>1, <2>2, <1>1
<1>4. ASSUME NEW j \in 1 .. Len(seq) - 1
      PROVE  \E n \in 1 .. Len(seq) : (a \o b)[j] = seq[n]
  <2>1. Len(seq) \in Nat /\ i \in Int /\ j \in Int
    BY LenProperties
  <2>2. CASE j <= i - 1
    <3>1. (a \o b)[j] = seq[j]
      BY <2>1, <2>2, <1>1, <1>3
    <3> QED BY <2>1, <3>1
  <2>3. CASE ~(j <= i - 1)
    <3>1. (a \o b)[j] = b[j - (i - 1)]
      BY <2>3, <1>3
    <3>2. j - (i - 1) \in 1 .. Len(seq) - i
      BY <2>1, <2>3
    <3>3. b[j - (i - 1)] = seq[i + (j - (i - 1))]
      BY <3>2, <1>2
    <3>4. i + (j - (i - 1)) = j + 1 /\ j + 1 \in 1 .. Len(seq)
      BY <2>1
    <3> QED BY <3>1, <3>3, <3>4
  <2> QED BY <2>2, <2>3
<1>5. RemoveAt(seq, i) = a \o b
  BY DEF RemoveAt, a, b
<1> QED BY <1>3, <1>4, <1>5, LenProperties

\* What a loop of detach leaves in the pending list was there before.
LEMMA SweepPendingElements ==
  ASSUME NEW pn, NEW pend \in Seq(Quotes)
  PROVE  /\ SweepPending(pn, pend) \in Seq(Quotes)
         /\ \A j \in DOMAIN SweepPending(pn, pend) :
              \E n \in DOMAIN pend : SweepPending(pn, pend)[j] = pend[n]
<1>1. CASE \E i \in 1 .. Len(pend) : InPeriod(pn, pend[i])
  <2>1. SweepPending(pn, pend) = RemoveAt(pend, FirstMatch(pn, pend))
    BY <1>1 DEF SweepPending, RemoveFirstMatch, FirstMatch
  <2>2. FirstMatch(pn, pend) \in 1 .. Len(pend)
    <3> DEFINE I == {i \in 1 .. Len(pend) : InPeriod(pn, pend[i])}
    <3>1. I # {} /\ I \in SUBSET Nat
      BY <1>1
    <3>2. FirstMatch(pn, pend) = Min(I)
      BY <3>1 DEF FirstMatch, SelectInSeq
    <3>3. Min(I) \in I
      <4> HIDE DEF I
      <4> QED BY <3>1, MinOfPositions
    <3> QED BY <3>2, <3>3
  <2> QED BY <2>1, <2>2, RemoveAtElements
<1>2. CASE ~\E i \in 1 .. Len(pend) : InPeriod(pn, pend[i])
  <2>1. SweepPending(pn, pend) = pend
    BY <1>2 DEF SweepPending, RemoveFirstMatch
  <2> QED BY <2>1
<1> QED BY <1>1, <1>2

\* Where the elements of a list are once it has grown at its end.
LEMMA AppendPositions ==
  ASSUME NEW S, NEW l \in Seq(S), NEW x \in S
  PROVE  /\ Append(l, x) \in Seq(S)
         /\ Len(Append(l, x)) = Len(l) + 1 /\ Len(l) \in Nat
         /\ DOMAIN Append(l, x) = 1 .. Len(l) + 1 /\ DOMAIN l = 1 .. Len(l)
         /\ \A j \in 1 .. Len(l) : Append(l, x)[j] = l[j]
         /\ Append(l, x)[Len(l) + 1] = x
<1>1. Append(l, x) \in Seq(S)
  OBVIOUS
<1>2. /\ Len(Append(l, x)) = Len(l) + 1 /\ Len(l) \in Nat
      /\ DOMAIN Append(l, x) = 1 .. Len(l) + 1 /\ DOMAIN l = 1 .. Len(l)
  OBVIOUS
<1>3. ASSUME NEW j \in 1 .. Len(l) PROVE Append(l, x)[j] = l[j]
  OBVIOUS
<1>4. Append(l, x)[Len(l) + 1] = x
  OBVIOUS
<1> QED BY <1>1, <1>2, <1>3, <1>4, Zenon

\* An element of a list that grew at its end is an old one or the new one.
LEMMA AppendElements ==
  ASSUME NEW S, NEW l \in Seq(S), NEW x \in S
  PROVE  /\ Append(l, x) \in Seq(S)
         /\ \A j \in DOMAIN Append(l, x) :
              \/ \E n \in DOMAIN l : Append(l, x)[j] = l[n]
              \/ Append(l, x)[j] = x
<1> DEFINE m == Append(l, x)
           N == Len(l)
<1>1. /\ m \in Seq(S) /\ N \in Nat
      /\ DOMAIN m = 1 .. N + 1 /\ DOMAIN l = 1 .. N
      /\ \A j \in 1 .. N : m[j] = l[j]
      /\ m[N + 1] = x
  BY AppendPositions
<1> HIDE DEF m, N
<1>2. \A j \in 1 .. N + 1 : j \in 1 .. N \/ j = N + 1
  BY <1>1
<1>3. /\ m \in Seq(S)
      /\ \A j \in DOMAIN m : (\E n \in DOMAIN l : m[j] = l[n]) \/ m[j] = x
  BY <1>1, <1>2, Zenon
<1> QED BY <1>3 DEF m

\* A loop of detach appends at most one quote, which lies in the period.
LEMMA SweepIndexElements ==
  ASSUME NEW pn \in Nodes, NEW k \in Kinds, NEW pend \in Seq(Quotes)
  PROVE  /\ SweepIndex(pn, k, pend) \in Seq(Quotes)
         /\ \A j \in DOMAIN SweepIndex(pn, k, pend) :
              \/ \E n \in DOMAIN pn.index[k] :
                   SweepIndex(pn, k, pend)[j] = pn.index[k][n]
              \/ \E n \in DOMAIN pend : /\ SweepIndex(pn, k, pend)[j] = pend[n]
                                        /\ InPeriod(pn, pend[n])
<1> DEFINE i == FirstMatch(pn, pend)
<1>1. pn.index[k] \in Seq(Quotes)
  BY DEF Nodes
<1>2. CASE i = 0 \/ GetId(pend[i]) \in pn.ids[k]
  BY <1>1, <1>2 DEF SweepIndex
<1>3. CASE ~(i = 0 \/ GetId(pend[i]) \in pn.ids[k])
  <2>1. i \in 1 .. Len(pend) /\ InPeriod(pn, pend[i])
    BY <1>3, FirstMatchPosition
  <2>2. SweepIndex(pn, k, pend) = Append(pn.index[k], pend[i])
    BY <1>3 DEF SweepIndex
  <2>3. pend[i] \in Quotes
    BY <2>1, ElementOfSeq
  <2>4. Append(pn.index[k], pend[i]) \in Seq(Quotes)
    BY <1>1, <2>3, AppendElements
  <2>5. ASSUME NEW j \in DOMAIN Append(pn.index[k], pend[i])
        PROVE  \/ \E n \in DOMAIN pn.index[k] :
                    Append(pn.index[k], pend[i])[j] = pn.index[k][n]
               \/ Append(pn.index[k], pend[i])[j] = pend[i]
    BY <1>1, <2>3, AppendElements
  <2>6. i \in DOMAIN pend
    BY <2>1
  <2> HIDE DEF i
  <2> QED BY <2>1, <2>2, <2>4, <2>5, <2>6, Zenon
<1> QED BY <1>2, <1>3

-----------------------------------------------------------------------------
(* The types of the operations of SymbolDef *)

\* Adding a quote to a period leaves its borders alone.
LEMMA AddQuoteFields ==
  ASSUME NEW pn \in Nodes, NEW q \in Quotes
  PROVE  /\ AddQuote(pn, q) \in Nodes
         /\ AddQuote(pn, q).start = pn.start
         /\ AddQuote(pn, q).end = pn.end
         /\ AddQuote(pn, q).index = [pn.index EXCEPT ![q.kind] = Append(@, q)]
<1>1. q.kind \in Kinds /\ GetId(q) \in Nat
  BY QuotesAssumption DEF Quote, GetId
<1>2. [pn.ids EXCEPT ![q.kind] = @ \cup {GetId(q)}] \in [Kinds -> SUBSET Nat]
  BY <1>1 DEF Nodes
<1>3. [pn.index EXCEPT ![q.kind] = Append(@, q)] \in [Kinds -> Seq(Quotes)]
  <2>1. Append(pn.index[q.kind], q) \in Seq(Quotes)
    BY <1>1 DEF Nodes
  <2> QED BY <1>1, <2>1 DEF Nodes
<1>4. AddQuote(pn, q) =
        [pn EXCEPT !.ids   = [pn.ids EXCEPT ![q.kind] = @ \cup {GetId(q)}],
                   !.index = [pn.index EXCEPT ![q.kind] = Append(@, q)]]
  BY DEF AddQuote, Nodes
<1> QED BY <1>2, <1>3, <1>4 DEF Nodes

LEMMA AddIfNewType ==
  ASSUME NEW pn \in Nodes, NEW q \in Quotes, NEW m
  PROVE  /\ AddIfNew(pn, q, m) \in Nodes
         /\ AddIfNew(pn, q, m).start = pn.start
         /\ AddIfNew(pn, q, m).end = pn.end
BY AddQuoteFields DEF AddIfNew

LEMMA NewPeriodNodeType ==
  ASSUME NEW t \in Nat
  PROVE  NewPeriodNode(t) \in Nodes
BY PeriodAssumption DEF NewPeriodNode, Nodes

LEMMA UpToTwo == \A n \in Nat : n <= 2 => n \in {0, 1, 2}
OBVIOUS

\* A list of one or of two periods.
LEMMA OneNode ==
  ASSUME NEW a \in Nodes
  PROVE  <<a>> \in Seq(Nodes) /\ Len(<<a>>) = 1 /\ <<a>>[1] = a
OBVIOUS

LEMMA TwoNodeList ==
  ASSUME NEW a \in Nodes, NEW b \in Nodes
  PROVE  /\ <<a, b>> \in Seq(Nodes)
         /\ Len(<<a, b>>) = 2
         /\ <<a, b>>[1] = a
         /\ <<a, b>>[2] = b
OBVIOUS

(***************************************************************************)
(* What put_trade, put_inc and put_snapshot do to a symbol: each period    *)
(* stays what it is or takes in a quote that fits, and a pending list      *)
(* stays what it is or grows by the quote.                                 *)
(***************************************************************************)
LEMMA PutShape ==
  ASSUME NEW d \in Defs, Len(d.linked) <= 2, NEW q \in Quotes, NEW m,
         \A i \in 1 .. Len(d.linked) : d.linked[i].end = d.linked[i].start + PERIOD
  PROVE  /\ Put(d, q, m) \in Defs
         /\ Len(Put(d, q, m).linked) = Len(d.linked)
         /\ \A i \in 1 .. Len(d.linked) :
              \/ Put(d, q, m).linked[i] = d.linked[i]
              \/ /\ Fits(d.linked[i], q)
                 /\ \E mk \in {m, q.kind} : Put(d, q, m).linked[i] = AddIfNew(d.linked[i], q, mk)
         /\ \/ Put(d, q, m).pending = d.pending
            \/ Put(d, q, m).pending = [d.pending EXCEPT ![q.kind] = Append(@, q)]
<1> DEFINE front == d.linked[1]
           back  == d.linked[Len(d.linked)]
<1>1. /\ d.linked \in Seq(Nodes)
      /\ d.pending \in [Kinds -> Seq(Quotes)]
      /\ d = [linked |-> d.linked, pending |-> d.pending]
  BY DEF Defs
<1>2. q.kind \in Kinds /\ q.t \in Nat
  BY QuotesAssumption DEF Quote
<1>3. Len(d.linked) \in {0, 1, 2}
  <2>1. Len(d.linked) \in Nat
    BY <1>1, LenProperties
  <2> QED BY <2>1, UpToTwo
<1>4. CASE Put(d, q, m) = d
  BY <1>1, <1>4
<1>5. CASE /\ Len(d.linked) = 1 /\ InPeriod(back, q)
           /\ Put(d, q, m) = [d EXCEPT !.linked = <<AddIfNew(back, q, q.kind)>>]
  <2>1. back \in Nodes /\ back = d.linked[1]
    BY <1>1, <1>5, ElementOfSeq
  <2>2. Fits(back, q)
    BY <1>2, <1>5, <2>1, PeriodAssumption DEF Fits, InPeriod, Nodes
  <2>3. AddIfNew(back, q, q.kind) \in Nodes
    BY <2>1, AddIfNewType
  <2>4. Put(d, q, m) = [linked |-> <<AddIfNew(back, q, q.kind)>>, pending |-> d.pending]
    BY <1>1, <1>5
  <2>5. /\ Put(d, q, m).linked = <<AddIfNew(back, q, q.kind)>>
        /\ Put(d, q, m).pending = d.pending
    BY <2>4
  <2>6. Put(d, q, m) \in Defs
    BY <1>1, <2>3, <2>4, OneNode DEF Defs
  <2>7. /\ Len(Put(d, q, m).linked) = 1
        /\ Put(d, q, m).linked[1] = AddIfNew(d.linked[1], q, q.kind)
    BY <2>1, <2>3, <2>5, OneNode
  <2>8. ASSUME NEW i \in 1 .. Len(d.linked) PROVE i = 1
    BY <1>5
  <2> HIDE DEF back
  <2> QED BY <1>5, <2>1, <2>2, <2>5, <2>6, <2>7, <2>8
<1>6. CASE /\ Len(d.linked) = 2 /\ Fits(front, q)
           /\ Put(d, q, m) = [d EXCEPT !.linked = <<AddIfNew(front, q, m), back>>]
  <2>1. front \in Nodes /\ back \in Nodes /\ back = d.linked[2]
    BY <1>1, <1>6, ElementOfSeq
  <2>2. AddIfNew(front, q, m) \in Nodes
    BY <2>1, AddIfNewType
  <2>3. Put(d, q, m) = [linked |-> <<AddIfNew(front, q, m), back>>, pending |-> d.pending]
    BY <1>1, <1>6
  <2>6. /\ Put(d, q, m).linked = <<AddIfNew(front, q, m), back>>
        /\ Put(d, q, m).pending = d.pending
    BY <2>3
  <2>7. Put(d, q, m) \in Defs
    BY <1>1, <2>1, <2>3, <2>2, TwoNodeList DEF Defs
  <2>8. /\ Len(Put(d, q, m).linked) = 2
        /\ Put(d, q, m).linked[1] = AddIfNew(front, q, m)
        /\ Put(d, q, m).linked[2] = back
    BY <2>1, <2>2, <2>6, TwoNodeList
  <2>9. ASSUME NEW i \in 1 .. Len(d.linked) PROVE i = 1 \/ i = 2
    BY <1>6
  <2> HIDE DEF front, back
  <2>10. ASSUME NEW i \in 1 .. Len(d.linked)
         PROVE  \/ Put(d, q, m).linked[i] = d.linked[i]
                \/ /\ Fits(d.linked[i], q)
                   /\ \E mk \in {m, q.kind} : Put(d, q, m).linked[i] = AddIfNew(d.linked[i], q, mk)
    BY <1>6, <2>1,  <2>8, <2>9 DEF front
  <2> QED BY <1>6, <2>6, <2>7, <2>8, <2>10
<1>7. CASE /\ Len(d.linked) = 2 /\ InPeriod(back, q)
           /\ Put(d, q, m) = [d EXCEPT !.linked = <<front, AddIfNew(back, q, q.kind)>>]
  <2>1. front \in Nodes /\ back \in Nodes /\ back = d.linked[2]
    BY <1>1, <1>7, ElementOfSeq
  <2>2. Fits(back, q)
    BY <1>2, <1>7, <2>1, PeriodAssumption DEF Fits, InPeriod, Nodes
  <2>3. AddIfNew(back, q, q.kind) \in Nodes
    BY <2>1, AddIfNewType
  <2>4. Put(d, q, m) = [linked |-> <<front, AddIfNew(back, q, q.kind)>>, pending |-> d.pending]
    BY <1>1, <1>7
  <2>6. /\ Put(d, q, m).linked = <<front, AddIfNew(back, q, q.kind)>>
        /\ Put(d, q, m).pending = d.pending
    BY <2>4
  <2>7. Put(d, q, m) \in Defs
    BY <1>1, <2>1, <2>4, <2>3, TwoNodeList DEF Defs
  <2>8. /\ Len(Put(d, q, m).linked) = 2
        /\ Put(d, q, m).linked[1] = front
        /\ Put(d, q, m).linked[2] = AddIfNew(back, q, q.kind)
    BY <2>1, <2>3, <2>6, TwoNodeList
  <2>9. ASSUME NEW i \in 1 .. Len(d.linked) PROVE i = 1 \/ i = 2
    BY <1>7
  <2> HIDE DEF front, back
  <2>10. ASSUME NEW i \in 1 .. Len(d.linked)
         PROVE  \/ Put(d, q, m).linked[i] = d.linked[i]
                \/ /\ Fits(d.linked[i], q)
                   /\ \E mk \in {m, q.kind} : Put(d, q, m).linked[i] = AddIfNew(d.linked[i], q, mk)
    BY <1>7, <2>1, <2>2, <2>8, <2>9 DEF front
  <2> QED BY <1>7, <2>6, <2>7, <2>8, <2>10
<1>8. CASE Put(d, q, m) = [d EXCEPT !.pending[q.kind] = Append(@, q)]
  <2>1. Append(d.pending[q.kind], q) \in Seq(Quotes)
    BY <1>1, <1>2
  <2>2. [d.pending EXCEPT ![q.kind] = Append(@, q)] \in [Kinds -> Seq(Quotes)]
    BY <1>1, <1>2, <2>1
  <2>3. Put(d, q, m) = [linked |-> d.linked, pending |-> [d.pending EXCEPT ![q.kind] = Append(@, q)]]
    BY <1>1, <1>8
  <2> QED BY <1>1, <2>2, <2>3 DEF Defs
<1> QED
  <2>1. CASE Len(d.linked) = 0
    BY <1>4, <2>1 DEF Put
  <2>2. CASE Len(d.linked) = 1
    BY <1>4, <1>5, <2>2 DEF Put
  <2>3. CASE Len(d.linked) = 2
    <3>1. \/ Put(d, q, m) = d
          \/ Fits(front, q) /\ Put(d, q, m) = [d EXCEPT !.linked = <<AddIfNew(front, q, m), back>>]
          \/ InPeriod(back, q) /\ Put(d, q, m) = [d EXCEPT !.linked = <<front, AddIfNew(back, q, q.kind)>>]
          \/ Put(d, q, m) = [d EXCEPT !.pending[q.kind] = Append(@, q)]
      BY <2>3 DEF Put, Fits
    <3> HIDE DEF front, back
    <3> QED BY <1>4, <1>6, <1>7, <1>8, <2>3, <3>1, Zenon
  <2> QED BY <1>3, <2>1, <2>2, <2>3

-----------------------------------------------------------------------------
(* timeItr *)

\* The second period of the list once timeItr has made sure that there is one.
Second(d) == IF Len(d.linked) = 1 THEN NewPeriodNode(d.linked[1].end)
                                  ELSE d.linked[2]

\* A symbol without a period gets its first one.
LEMMA TimeItrBorn ==
  ASSUME NEW d \in Defs, Len(d.linked) = 0, NEW tick, NEW b \in Nat
  PROVE  /\ timeItr(d, tick, b).def \in Defs
         /\ timeItr(d, tick, b).def.linked = <<NewPeriodNode(b)>>
         /\ timeItr(d, tick, b).def.pending = d.pending
         /\ timeItr(d, tick, b).out = <<>>
<1>1. /\ timeItr(d, tick, b).def = [d EXCEPT !.linked = <<NewPeriodNode(b)>>]
      /\ timeItr(d, tick, b).out = <<>>
  BY DEF timeItr
<1>2. <<NewPeriodNode(b)>> \in Seq(Nodes)
  BY NewPeriodNodeType
<1> QED BY <1>1, <1>2 DEF Defs

\* Appending to a list of one element makes a pair.
LEMMA AppendToOne ==
  ASSUME NEW S, NEW l \in Seq(S), NEW x \in S
  PROVE  Len(l) = 1 => Append(l, x) = <<l[1], x>>
<1> DEFINE m == Append(l, x)
           n == Len(l)
<1>1. m \in Seq(S) /\ Len(m) = n + 1 /\ m[n + 1] = x
  BY AppendPositions
<1>2. \A j \in 1 .. n : m[j] = l[j] /\ l[j] \in S
  BY AppendPositions
<1> HIDE DEF m, n
<1>3. ASSUME n = 1 PROVE m = <<l[1], x>>
  <2>1. m[1] = l[1] /\ m[2] = x /\ l[1] \in S /\ Len(m) = 2
    BY <1>1, <1>2, <1>3
  <2>2. <<l[1], x>> \in Seq(S) /\ Len(<<l[1], x>>) = 2
    BY <2>1
  <2>3. ASSUME NEW i \in 1 .. 2 PROVE m[i] = <<l[1], x>>[i]
    BY <2>1
  <2> QED BY <1>1, <2>1, <2>2, <2>3, SeqEqual
<1> QED BY <1>3 DEF m, n

\* The list that timeItr works on.
LEMMA TwoNodesShape ==
  ASSUME NEW d \in Defs, Len(d.linked) \in {1, 2}
  PROVE  /\ Second(d) \in Nodes
         /\ d.linked[1] \in Nodes
         /\ TwoNodes(d.linked) = <<d.linked[1], Second(d)>>
<1>1. d.linked \in Seq(Nodes)
  BY DEF Defs
<1>2. d.linked[1] \in Nodes
  BY <1>1, ElementOfSeq
<1>3. CASE Len(d.linked) = 1
  <2>1. d.linked[1].end \in Nat
    BY <1>2 DEF Nodes
  <2>2. Second(d) \in Nodes
    BY <1>3, <2>1, NewPeriodNodeType DEF Second
  <2>3. TwoNodes(d.linked) = Append(d.linked, Second(d))
    BY <1>3 DEF TwoNodes, Second
  <2>4. Append(d.linked, Second(d)) = <<d.linked[1], Second(d)>>
    BY <1>1, <1>3, <2>2, AppendToOne
  <2> QED BY <1>2, <2>2, <2>3, <2>4
<1>4. CASE Len(d.linked) = 2
  <2>1. Second(d) = d.linked[2] /\ TwoNodes(d.linked) = d.linked
    BY <1>4 DEF Second, TwoNodes
  <2>2. d.linked[2] \in Nodes
    BY <1>1, <1>4, ElementOfSeq
  <2>3. d.linked = <<d.linked[1], d.linked[2]>>
    BY <1>1, <1>2, <1>4, <2>2, TwoNodeList, SeqEqual
  <2> QED BY <1>2, <2>1, <2>2, <2>3
<1> QED BY <1>3, <1>4

\* A front period that is not over yet stays.
LEMMA TimeItrKeep ==
  ASSUME NEW d \in Defs, Len(d.linked) \in {1, 2}, NEW tick \in Nat, NEW b,
         ~(tick > d.linked[1].end + DETACH_TIME)
  PROVE  /\ timeItr(d, tick, b).def \in Defs
         /\ timeItr(d, tick, b).def.linked = <<d.linked[1], Second(d)>>
         /\ timeItr(d, tick, b).def.pending = d.pending
         /\ timeItr(d, tick, b).out = <<>>
<1>1. /\ Second(d) \in Nodes
      /\ d.linked[1] \in Nodes
      /\ TwoNodes(d.linked) = <<d.linked[1], Second(d)>>
  BY TwoNodesShape
<1> DEFINE d2 == [d EXCEPT !.linked = TwoNodes(d.linked)]
<1>2. /\ d2.linked = <<d.linked[1], Second(d)>>
      /\ d2.pending = d.pending
      /\ d2 \in Defs
  <2>1. <<d.linked[1], Second(d)>> \in Seq(Nodes)
    BY <1>1, TwoNodeList
  <2> QED BY <1>1, <2>1 DEF Defs
<1>3. Len(d.linked) # 0
  OBVIOUS
<1>4. d2.linked[1] = d.linked[1]
  BY <1>1, <1>2, TwoNodeList
<1>5. timeItr(d, tick, b) = [def |-> d2, out |-> <<>>]
  BY <1>3, <1>4 DEF timeItr
<1> HIDE DEF d2
<1> QED BY <1>2, <1>5

(***************************************************************************)
(* A front period that is over is detached, with the pending quotes of the *)
(* period that the loops of detach reach; the second period becomes the    *)
(* front one and an empty one follows it.                                  *)
(***************************************************************************)
LEMMA TimeItrDetach ==
  ASSUME NEW d \in Defs, Len(d.linked) \in {1, 2}, NEW tick \in Nat, NEW b,
         tick > d.linked[1].end + DETACH_TIME
  PROVE  /\ timeItr(d, tick, b).def \in Defs
         /\ timeItr(d, tick, b).def.linked =
              <<Second(d), NewPeriodNode(Second(d).end)>>
         /\ timeItr(d, tick, b).def.pending =
              [k \in Kinds |-> SweepPending(d.linked[1], d.pending[k])]
         /\ timeItr(d, tick, b).out =
              <<[d.linked[1] EXCEPT !.index =
                   [k \in Kinds |-> SweepIndex(d.linked[1], k, d.pending[k])]]>>
         /\ timeItr(d, tick, b).out[1] \in Nodes
<1>1. /\ Second(d) \in Nodes
      /\ d.linked[1] \in Nodes
      /\ TwoNodes(d.linked) = <<d.linked[1], Second(d)>>
  BY TwoNodesShape
<1> DEFINE d2 == [d EXCEPT !.linked = TwoNodes(d.linked)]
           pn == d.linked[1]
           pend == [k \in Kinds |-> SweepPending(pn, d.pending[k])]
           idx == [k \in Kinds |-> SweepIndex(pn, k, d.pending[k])]
           lst == <<Second(d), NewPeriodNode(Second(d).end)>>
           res == [pn EXCEPT !.index = idx]
<1>2. /\ d2.linked = <<d.linked[1], Second(d)>>
      /\ d2.pending = d.pending
  BY <1>1 DEF Defs
<1>3. d2.linked[1] = pn /\ d2.linked[2] = Second(d)
  BY <1>1, <1>2, TwoNodeList
<1>4. timeItr(d, tick, b) = detach(d2)
  <2>1. Len(d.linked) # 0
    OBVIOUS
  <2> QED BY <1>3, <2>1 DEF timeItr
<1>5. detach(d2) = [def |-> [linked |-> lst, pending |-> pend], out |-> <<res>>]
  <2> HIDE DEF d2
  <2> QED BY <1>2, <1>3 DEF detach
<1>6. lst \in Seq(Nodes)
  <2>1. Second(d).end \in Nat
    BY <1>1 DEF Nodes
  <2> QED BY <1>1, <2>1, NewPeriodNodeType, TwoNodeList
<1>7. d.pending \in [Kinds -> Seq(Quotes)]
  BY DEF Defs
<1>8. pend \in [Kinds -> Seq(Quotes)]
  BY <1>7, SweepPendingElements
<1>9. idx \in [Kinds -> Seq(Quotes)]
  BY <1>1, <1>7, SweepIndexElements
<1>10. res \in Nodes
  <2> HIDE DEF idx, pn
  <2> QED BY <1>1, <1>9 DEF Nodes, pn
<1> HIDE DEF d2, pend, idx, lst, res
<1>11. [linked |-> lst, pending |-> pend] \in Defs
  BY <1>6, <1>8 DEF Defs
<1>12. <<res>>[1] = res
  OBVIOUS
<1> QED BY <1>4, <1>5, <1>10, <1>11, <1>12 DEF pend, idx, lst, res

-----------------------------------------------------------------------------
(* What the operations of SymbolDef do to DefOK *)

LEMMA QuoteFields ==
  ASSUME NEW q \in Quotes
  PROVE  q.kind \in Kinds /\ q.t \in Nat
BY QuotesAssumption DEF Quote

\* A period stays well formed when it takes in a quote that fits.
LEMMA AddIfNewOK ==
  ASSUME NEW pn \in Nodes, NodeOK(pn), NEW q \in Quotes, NEW m, Fits(pn, q)
  PROVE  NodeOK(AddIfNew(pn, q, m))
<1>1. CASE AddIfNew(pn, q, m) = pn
  BY <1>1
<1>2. CASE AddIfNew(pn, q, m) = AddQuote(pn, q)
  <2> DEFINE pn2 == AddQuote(pn, q)
  <2>1. /\ pn2 \in Nodes /\ pn2.start = pn.start /\ pn2.end = pn.end
        /\ pn2.index = [pn.index EXCEPT ![q.kind] = Append(@, q)]
    BY AddQuoteFields
  <2> HIDE DEF pn2
  <2>2. ASSUME NEW k \in Kinds, NEW j \in DOMAIN pn2.index[k]
        PROVE  pn2.index[k][j].kind = k /\ Fits(pn2, pn2.index[k][j])
    <3>1. pn.index[k] \in Seq(Quotes) /\ pn.index \in [Kinds -> Seq(Quotes)]
      BY DEF Nodes
    <3>2. CASE k # q.kind
      <4>1. pn2.index[k] = pn.index[k]
        BY <2>1, <3>1, <3>2
      <4> QED BY <2>1, <2>2, <4>1 DEF NodeOK, Fits
    <3>3. CASE k = q.kind
      <4>1. pn2.index[k] = Append(pn.index[k], q)
        BY <2>1, <3>1, <3>3
      <4>2. \/ j \in DOMAIN pn.index[k] /\ pn2.index[k][j] = pn.index[k][j]
            \/ pn2.index[k][j] = q
        BY <2>2, <3>1, <4>1
      <4> QED BY <2>1, <3>3, <4>2 DEF NodeOK, Fits
    <3> QED BY <3>2, <3>3
  <2>3. NodeOK(pn2)
    BY <2>1, <2>2 DEF NodeOK
  <2> QED BY <1>2, <2>3 DEF pn2
<1> QED BY <1>1, <1>2 DEF AddIfNew

(***************************************************************************)
(* Receiving a quote leaves the borders of the periods alone and keeps the *)
(* symbol well formed.                                                     *)
(***************************************************************************)
LEMMA PutQuoteOK ==
  ASSUME NEW d \in Defs, Len(d.linked) <= 2, DefOK(d), NEW q \in Quotes
  PROVE  /\ PutQuote(d, q) \in Defs
         /\ Len(PutQuote(d, q).linked) = Len(d.linked)
         /\ DefOK(PutQuote(d, q))
         /\ \A i \in 1 .. Len(d.linked) :
              /\ PutQuote(d, q).linked[i].start = d.linked[i].start
              /\ PutQuote(d, q).linked[i].end = d.linked[i].end
<1>1. q.kind \in Kinds /\ q.t \in Nat
  BY QuoteFields
<1>2. PICK m : PutQuote(d, q) = Put(d, q, m)
  BY <1>1 DEF PutQuote, put_trade, put_inc, put_snapshot, Kinds
<1> DEFINE e == Put(d, q, m)
<1>3. d.linked \in Seq(Nodes) /\ d.pending \in [Kinds -> Seq(Quotes)]
  BY DEF Defs
<1>4. DOMAIN d.linked = 1 .. Len(d.linked)
  BY <1>3
<1>5. \A i \in 1 .. Len(d.linked) : /\ d.linked[i] \in Nodes
                                    /\ NodeOK(d.linked[i])
                                    /\ d.linked[i].end = d.linked[i].start + PERIOD
  BY <1>3, <1>4 DEF DefOK, NodeOK
<1>6. /\ e \in Defs
      /\ Len(e.linked) = Len(d.linked)
      /\ \A i \in 1 .. Len(d.linked) :
           \/ e.linked[i] = d.linked[i]
           \/ /\ Fits(d.linked[i], q)
              /\ \E mk : e.linked[i] = AddIfNew(d.linked[i], q, mk)
      /\ \/ e.pending = d.pending
         \/ e.pending = [d.pending EXCEPT ![q.kind] = Append(@, q)]
  BY <1>5, PutShape
<1> HIDE DEF e
<1>7. ASSUME NEW i \in 1 .. Len(d.linked)
      PROVE  /\ e.linked[i].start = d.linked[i].start
             /\ e.linked[i].end = d.linked[i].end
             /\ NodeOK(e.linked[i])
  BY <1>5, <1>6, AddIfNewType, AddIfNewOK
<1>8. e.linked \in Seq(Nodes) /\ DOMAIN e.linked = 1 .. Len(d.linked)
  BY <1>6 DEF Defs
<1>9. ASSUME NEW k \in Kinds, NEW j \in DOMAIN e.pending[k]
      PROVE  e.pending[k][j].kind = k
  <2>1. \A n \in DOMAIN d.pending[k] : d.pending[k][n].kind = k
    BY DEF DefOK
  <2>2. CASE e.pending[k] = d.pending[k]
    BY <2>1, <2>2, <1>9
  <2>3. CASE k = q.kind /\ e.pending[k] = Append(d.pending[k], q)
    <3>1. \/ j \in DOMAIN d.pending[k] /\ e.pending[k][j] = d.pending[k][j]
          \/ e.pending[k][j] = q
      BY <1>3, <1>9, <2>3
    <3> QED BY <2>1, <2>3, <3>1
  <2> QED BY <1>1, <1>3, <1>6, <2>2, <2>3
<1>10. Len(e.linked) = 2 => e.linked[2].start = e.linked[1].end
  <2>1. SUFFICES ASSUME Len(d.linked) = 2
                 PROVE  e.linked[2].start = e.linked[1].end
    BY <1>6
  <2>2. 1 \in 1 .. Len(d.linked) /\ 2 \in 1 .. Len(d.linked)
    BY <2>1
  <2>3. d.linked[2].start = d.linked[1].end
    BY <2>1 DEF DefOK
  <2> QED BY <1>7, <2>2, <2>3
<1>11. DefOK(e)
  BY <1>7, <1>8, <1>9, <1>10 DEF DefOK
<1> QED BY <1>2, <1>6, <1>7, <1>11 DEF e

\* The grid of multiples of PERIOD.
LEMMA AlignedNext ==
  ASSUME NEW t \in Nat, Aligned(t)
  PROVE  Aligned(t + PERIOD)
<1>1. PICK p \in 0 .. t : t = p * PERIOD
  BY DEF Aligned
<1>2. (p + 1) * PERIOD = t + PERIOD
  BY <1>1, PeriodAssumption
<1>3. p + 1 \in 0 .. (t + PERIOD)
  BY PeriodAssumption
<1> QED BY <1>2, <1>3 DEF Aligned

LEMMA NewPeriodNodeOK ==
  ASSUME NEW t \in Nat, Aligned(t)
  PROVE  /\ NewPeriodNode(t) \in Nodes
         /\ NodeOK(NewPeriodNode(t))
         /\ NewPeriodNode(t).start = t
         /\ NewPeriodNode(t).end = t + PERIOD
<1>1. /\ NewPeriodNode(t).start = t
      /\ NewPeriodNode(t).end = t + PERIOD
      /\ \A k \in Kinds : NewPeriodNode(t).index[k] = <<>>
  BY DEF NewPeriodNode
<1> QED BY <1>1, NewPeriodNodeType DEF NodeOK

LEMMA SecondOK ==
  ASSUME NEW d \in Defs, Len(d.linked) \in {1, 2}, DefOK(d)
  PROVE  /\ Second(d) \in Nodes
         /\ NodeOK(Second(d))
         /\ Second(d).start = d.linked[1].end
         /\ d.linked[1] \in Nodes
         /\ NodeOK(d.linked[1])
<1>1. Second(d) \in Nodes /\ d.linked[1] \in Nodes
  BY TwoNodesShape
<1>2. d.linked \in Seq(Nodes)
  BY DEF Defs
<1>3. NodeOK(d.linked[1])
  <2>1. 1 \in DOMAIN d.linked
    BY <1>2
  <2> QED BY <2>1 DEF DefOK
<1>4. CASE Len(d.linked) = 1
  <2>1. d.linked[1].end \in Nat /\ Aligned(d.linked[1].end)
    BY <1>1, <1>3, AlignedNext DEF NodeOK, Nodes
  <2>2. Second(d) = NewPeriodNode(d.linked[1].end)
    BY <1>4 DEF Second
  <2> QED BY <1>1, <1>3, <2>1, <2>2, NewPeriodNodeOK
<1>5. CASE Len(d.linked) = 2
  <2>1. Second(d) = d.linked[2]
    BY <1>5 DEF Second
  <2>2. 2 \in DOMAIN d.linked
    BY <1>2, <1>5
  <2> QED BY <1>1, <1>3, <1>5, <2>1, <2>2 DEF DefOK
<1> QED BY <1>4, <1>5

\* A list of two adjacent well-formed periods.
LEMMA PairOK ==
  ASSUME NEW a \in Nodes, NEW b \in Nodes, NodeOK(a), NodeOK(b), b.start = a.end,
         NEW d \in Defs, d.linked = <<a, b>>,
         \A k \in Kinds : \A j \in DOMAIN d.pending[k] : d.pending[k][j].kind = k
  PROVE  DefOK(d) /\ Len(d.linked) = 2 /\ d.linked[1] = a /\ d.linked[2] = b
<1>1. Len(d.linked) = 2 /\ d.linked[1] = a /\ d.linked[2] = b
  BY TwoNodeList
<1>2. \A i \in DOMAIN d.linked : i = 1 \/ i = 2
  BY <1>1 DEF Defs
<1> QED BY <1>1, <1>2 DEF DefOK

(***************************************************************************)
(* One call of timeItr: the symbol stays well formed, its periods move on  *)
(* as AfterIter says, and a detached period is the old front one with only *)
(* quotes that fit it.                                                     *)
(***************************************************************************)
LEMMA TimeItrOK ==
  ASSUME NEW d \in Defs, Len(d.linked) <= 2, DefOK(d),
         now \in Nat, bornTs \in Nat, Aligned(bornTs)
  PROVE  /\ timeItr(d, now, bornTs).def \in Defs
         /\ Len(timeItr(d, now, bornTs).def.linked) <= 2
         /\ DefOK(timeItr(d, now, bornTs).def)
         /\ AfterIter(timeItr(d, now, bornTs).def, d)
         /\ ~Due(d) => timeItr(d, now, bornTs).out = <<>>
         /\ Due(d) => /\ timeItr(d, now, bornTs).out # <<>>
                      /\ timeItr(d, now, bornTs).out[1] \in Nodes
                      /\ NodeOK(timeItr(d, now, bornTs).out[1])
                      /\ timeItr(d, now, bornTs).out[1].start = d.linked[1].start
<1> DEFINE r == timeItr(d, now, bornTs)
<1>1. d.linked \in Seq(Nodes) /\ d.pending \in [Kinds -> Seq(Quotes)]
  BY DEF Defs
<1>2. Len(d.linked) \in {0, 1, 2}
  <2>1. Len(d.linked) \in Nat
    BY <1>1
  <2> QED BY <2>1, UpToTwo
<1>3. CASE Len(d.linked) = 0
  <2>1. /\ r.def \in Defs
        /\ r.def.linked = <<NewPeriodNode(bornTs)>>
        /\ r.def.pending = d.pending
        /\ r.out = <<>>
    BY <1>3, TimeItrBorn
  <2> HIDE DEF r
  <2>2. /\ NewPeriodNode(bornTs) \in Nodes
        /\ NodeOK(NewPeriodNode(bornTs))
        /\ NewPeriodNode(bornTs).start = bornTs
    BY NewPeriodNodeOK
  <2>3. Len(r.def.linked) = 1 /\ r.def.linked[1] = NewPeriodNode(bornTs)
    BY <2>1, <2>2, OneNode
  <2>4. \A i \in DOMAIN r.def.linked : i = 1
    BY <2>1, <2>3 DEF Defs
  <2>5. DefOK(r.def)
    BY <2>1, <2>2, <2>3, <2>4 DEF DefOK
  <2>6. ~Due(d)
    BY <1>3 DEF Due
  <2>7. AfterIter(r.def, d)
    BY <1>3, <2>2, <2>3 DEF AfterIter
  <2> QED BY <2>1, <2>3, <2>5, <2>6, <2>7 DEF r
<1>4. CASE Len(d.linked) \in {1, 2} /\ ~(now > d.linked[1].end + DETACH_TIME)
  <2>1. /\ r.def \in Defs
        /\ r.def.linked = <<d.linked[1], Second(d)>>
        /\ r.def.pending = d.pending
        /\ r.out = <<>>
    BY <1>4, TimeItrKeep
  <2> HIDE DEF r
  <2>2. /\ DefOK(r.def) /\ Len(r.def.linked) = 2
        /\ r.def.linked[1] = d.linked[1]
    BY <1>4, <2>1, SecondOK, PairOK DEF DefOK
  <2>3. ~Due(d)
    BY <1>4 DEF Due
  <2>4. AfterIter(r.def, d)
    BY <1>4, <2>2, <2>3 DEF AfterIter
  <2> QED BY <2>1, <2>2, <2>3, <2>4 DEF r
<1>5. CASE Len(d.linked) \in {1, 2} /\ now > d.linked[1].end + DETACH_TIME
  <2> DEFINE pn == d.linked[1]
             idx == [k \in Kinds |-> SweepIndex(pn, k, d.pending[k])]
  <2>1. /\ r.def \in Defs
        /\ r.def.linked = <<Second(d), NewPeriodNode(Second(d).end)>>
        /\ r.def.pending = [k \in Kinds |-> SweepPending(pn, d.pending[k])]
        /\ r.out = <<[pn EXCEPT !.index = idx]>>
        /\ r.out[1] \in Nodes
    BY <1>5, TimeItrDetach
  <2> HIDE DEF r
  <2>2. /\ Second(d) \in Nodes /\ NodeOK(Second(d)) /\ Second(d).start = pn.end
        /\ pn \in Nodes /\ NodeOK(pn)
    BY <1>5, SecondOK
  <2>3. Second(d).end \in Nat /\ Aligned(Second(d).end)
    BY <2>2, AlignedNext DEF NodeOK, Nodes
  <2>4. ASSUME NEW k \in Kinds, NEW j \in DOMAIN r.def.pending[k]
        PROVE  r.def.pending[k][j].kind = k
    <3>1. r.def.pending[k] = SweepPending(pn, d.pending[k])
      BY <2>1
    <3>2. d.pending[k] \in Seq(Quotes)
      BY <1>1
    <3>3. \E n \in DOMAIN d.pending[k] : r.def.pending[k][j] = d.pending[k][n]
      BY <2>4, <3>1, <3>2, SweepPendingElements
    <3> QED BY <3>3 DEF DefOK
  <2>5. /\ DefOK(r.def) /\ Len(r.def.linked) = 2
        /\ r.def.linked[1] = Second(d)
    <3> DEFINE nn == NewPeriodNode(Second(d).end)
    <3>1. nn \in Nodes /\ NodeOK(nn) /\ nn.start = Second(d).end
      BY <2>3, NewPeriodNodeOK
    <3>2. r.def.linked = <<Second(d), nn>>
      BY <2>1
    <3>3. r.def \in Defs
      BY <2>1
    <3>4. \A k \in Kinds : \A j \in DOMAIN r.def.pending[k] : r.def.pending[k][j].kind = k
      BY <2>4
    <3> HIDE DEF nn, pn, idx
    <3> QED BY <2>2, <3>1, <3>2, <3>3, <3>4, PairOK
  <2>6. Due(d)
    BY <1>5 DEF Due
  <2>7. AfterIter(r.def, d)
    BY <1>5, <2>2, <2>5, <2>6 DEF AfterIter
  <2>8. r.out # <<>> /\ r.out[1] = [pn EXCEPT !.index = idx]
    BY <2>1
  <2>9. r.out[1].start = pn.start /\ r.out[1].end = pn.end /\ r.out[1].index = idx
    <3> HIDE DEF idx, pn
    <3> QED BY <2>2, <2>8 DEF Nodes
  <2>10. ASSUME NEW k \in Kinds, NEW j \in DOMAIN r.out[1].index[k]
         PROVE  /\ r.out[1].index[k][j].kind = k
                /\ Fits(pn, r.out[1].index[k][j])
    <3>1. r.out[1].index[k] = SweepIndex(pn, k, d.pending[k])
      BY <2>9
    <3>2. d.pending[k] \in Seq(Quotes)
      BY <1>1
    <3> HIDE DEF pn
    <3>3. \/ \E n \in DOMAIN pn.index[k] : r.out[1].index[k][j] = pn.index[k][n]
          \/ \E n \in DOMAIN d.pending[k] : /\ r.out[1].index[k][j] = d.pending[k][n]
                                           /\ InPeriod(pn, d.pending[k][n])
      BY <2>2, <2>10, <3>1, <3>2, SweepIndexElements
    <3>4. CASE \E n \in DOMAIN pn.index[k] : r.out[1].index[k][j] = pn.index[k][n]
      BY <2>2, <3>4 DEF NodeOK
    <3>5. ASSUME NEW n \in DOMAIN d.pending[k],
                 r.out[1].index[k][j] = d.pending[k][n],
                 InPeriod(pn, d.pending[k][n])
          PROVE  /\ r.out[1].index[k][j].kind = k
                 /\ Fits(pn, r.out[1].index[k][j])
      <4>1. d.pending[k][n] \in Quotes
        BY <3>2
      <4>2. d.pending[k][n].t \in Nat /\ pn.start \in Nat
        BY <2>2, <4>1, QuoteFields DEF Nodes
      <4>3. Fits(pn, d.pending[k][n])
        BY <3>5, <4>2, PeriodAssumption DEF Fits, InPeriod
      <4> QED BY <3>5, <4>3 DEF DefOK
    <3> QED BY <3>3, <3>4, <3>5
  <2>11. NodeOK(r.out[1])
    BY <2>2, <2>9, <2>10 DEF NodeOK, Fits
  <2> QED BY <2>1, <2>5, <2>6, <2>7, <2>8, <2>9, <2>11 DEF r
<1> QED BY <1>2, <1>3, <1>4, <1>5

-----------------------------------------------------------------------------
(* The inductive invariant *)

Inv == TypeOK /\ RoundInv

LEMMA NewSymbolDefOK ==
  /\ NewSymbolDef \in Defs
  /\ Len(NewSymbolDef.linked) = 0
  /\ DefOK(NewSymbolDef)
<1>1. /\ NewSymbolDef.linked = <<>>
      /\ NewSymbolDef \in Defs
      /\ \A k \in Kinds : NewSymbolDef.pending[k] = <<>>
  BY DEF NewSymbolDef, Defs
<1> QED BY <1>1 DEF DefOK

LEMMA InvInit == Init => Inv
<1> SUFFICES ASSUME Init PROVE Inv
  OBVIOUS
<1>1. \A s \in Symbols : sdefs[s] = NewSymbolDef
  BY DEF Init
<1>2. pm.infos = {} /\ pm \in [ts : Nat, infos : SUBSET SymbolInfos]
  BY DEF Init, NoPm
<1>3. TypeOK
  <2>1. sdefs \in [Symbols -> Defs]
    BY NewSymbolDefOK DEF Init
  <2>2. \A s \in Symbols : Len(sdefs[s].linked) <= 2
    BY <1>1, NewSymbolDefOK
  <2>3. delivered \in [Symbols -> [Quotes -> Nat]]
    BY DEF Init
  <2>4. sent \in Seq([period : Int, ts : Nat, infos : SUBSET SymbolInfos])
    BY DEF Init
  <2> QED BY <1>2, <2>1, <2>2, <2>3, <2>4, BoundsAssumption DEF Init, TypeOK
<1>4. RoundInv
  <2>1. \A r, s \in Symbols : SameShape(sdefs[r], sdefs[s])
    BY <1>1, NewSymbolDefOK DEF SameShape
  <2> QED BY <1>1, <1>2, <2>1, NewSymbolDefOK DEF Init, RoundInv, MessageWindow
<1> QED BY <1>3, <1>4 DEF Inv

LEMMA InvTick == Inv /\ Tick => Inv'
<1> SUFFICES ASSUME Inv, Tick PROVE Inv'
  OBVIOUS
<1>1. /\ clock' \in Nat
      /\ UNCHANGED <<sdefs, delivered, accepted, pc, now, period_now, bornTs,
                     todo, pm, sent>>
  BY DEF Tick, Inv, TypeOK, receiver, collector
<1>2. TypeOK'
  BY <1>1 DEF Inv, TypeOK
<1>3. RoundInv'
  BY <1>1 DEF Inv, RoundInv, MessageWindow, PmOK, AfterIter, Due
<1> QED BY <1>2, <1>3 DEF Inv

\* Receiving a quote changes what a symbol holds, not the borders of its periods.
LEMMA InvRecvQuote ==
  ASSUME Inv, NEW s \in Symbols, NEW q \in Quotes, RecvQuote(s, q)
  PROVE  Inv'
<1>1. UNCHANGED <<clock, pc, now, period_now, bornTs, todo, pm, sent>>
  BY DEF RecvQuote, collector
<1>2. sdefs \in [Symbols -> Defs]
  BY DEF Inv, TypeOK
<1>3. /\ sdefs' = [sdefs EXCEPT ![s] = PutQuote(sdefs[s], q)]
      /\ delivered' = [delivered EXCEPT ![s][q] = @ + 1]
      /\ accepted' \subseteq accepted \cup {<<s, q>>}
  BY DEF RecvQuote
<1>4. ASSUME NEW r \in Symbols
      PROVE  /\ sdefs[r] \in Defs /\ Len(sdefs[r].linked) <= 2 /\ DefOK(sdefs[r])
             /\ sdefs'[r] \in Defs /\ DefOK(sdefs'[r])
             /\ Len(sdefs'[r].linked) = Len(sdefs[r].linked)
             /\ \A i \in 1 .. Len(sdefs[r].linked) :
                  /\ sdefs'[r].linked[i].start = sdefs[r].linked[i].start
                  /\ sdefs'[r].linked[i].end = sdefs[r].linked[i].end
  <2>1. sdefs[r] \in Defs /\ Len(sdefs[r].linked) <= 2 /\ DefOK(sdefs[r])
    BY <1>2 DEF Inv, TypeOK, RoundInv
  <2>2. CASE r = s
    <3>1. sdefs'[r] = PutQuote(sdefs[r], q)
      BY <1>2, <1>3, <2>2
    <3> QED BY <2>1, <3>1, PutQuoteOK
  <2>3. CASE r # s
    <3>1. sdefs'[r] = sdefs[r]
      BY <1>2, <1>3, <2>3
    <3> QED BY <2>1, <3>1
  <2> QED BY <2>2, <2>3
<1>5. TypeOK'
  <2>1. sdefs' \in [Symbols -> Defs]
    BY <1>2, <1>3, <1>4
  <2>2. \A r \in Symbols : Len(sdefs'[r].linked) <= 2
    BY <1>4
  <2>3. delivered' \in [Symbols -> [Quotes -> Nat]]
    BY <1>3 DEF Inv, TypeOK
  <2>4. accepted' \subseteq Symbols \X Quotes
    BY <1>3 DEF Inv, TypeOK
  <2> QED BY <1>1, <2>1, <2>2, <2>3, <2>4 DEF Inv, TypeOK
<1>6. ASSUME NEW r \in Symbols
      PROVE  /\ Len(sdefs'[r].linked) = Len(sdefs[r].linked)
             /\ Len(sdefs[r].linked) # 0 =>
                  /\ sdefs'[r].linked[1].start = sdefs[r].linked[1].start
                  /\ sdefs'[r].linked[1].end = sdefs[r].linked[1].end
  <2>1. Len(sdefs[r].linked) # 0 => 1 \in 1 .. Len(sdefs[r].linked)
    BY <1>4 DEF Defs
  <2> QED BY <1>4, <2>1
<1>7. \A r \in Symbols : Due(sdefs[r])' <=> Due(sdefs[r])
  BY <1>1, <1>6 DEF Due
<1>8. \A r, t \in Symbols : SameShape(sdefs[r], sdefs[t]) =>
                             SameShape(sdefs[r], sdefs[t])'
  BY <1>6 DEF SameShape
<1>9. \A r, t \in Symbols : AfterIter(sdefs[r], sdefs[t]) =>
                             AfterIter(sdefs[r], sdefs[t])'
  <2> SUFFICES ASSUME NEW r \in Symbols, NEW t \in Symbols, AfterIter(sdefs[r], sdefs[t])
               PROVE  AfterIter(sdefs[r], sdefs[t])'
    OBVIOUS
  <2>1. Due(sdefs[t])' <=> Due(sdefs[t])
    BY <1>7
  <2>2. CASE Len(sdefs[t].linked) = 0
    BY <1>1, <1>6, <2>2 DEF AfterIter
  <2>3. CASE Len(sdefs[t].linked) # 0
    BY <1>6, <2>1, <2>3 DEF AfterIter
  <2> QED BY <2>2, <2>3
<1>10. todo \subseteq Symbols
  BY DEF Inv, TypeOK
<1>11. PmOK => PmOK'
  BY <1>1, <1>6, <1>7, <1>10 DEF PmOK
<1>12. RoundInv'
  BY <1>1, <1>4, <1>8, <1>9, <1>10, <1>11 DEF Inv, RoundInv, MessageWindow
<1> QED BY <1>5, <1>12 DEF Inv

LEMMA InvCollectBegin == Inv /\ CollectBegin => Inv'
<1> SUFFICES ASSUME Inv, CollectBegin PROVE Inv'
  OBVIOUS
<1>1. /\ pc = "sleep" /\ pc' = "born" /\ now' = clock /\ pm' = NoPm
      /\ UNCHANGED <<clock, sdefs, delivered, accepted, period_now, bornTs, todo, sent>>
  BY DEF CollectBegin, receiver
<1>2. todo = {} /\ todo' = {}
  BY <1>1 DEF Inv, RoundInv
<1>3. TypeOK'
  BY <1>1 DEF Inv, TypeOK, NoPm
<1>4. RoundInv'
  BY <1>1, <1>2 DEF Inv, RoundInv, MessageWindow, NoPm
<1> QED BY <1>3, <1>4 DEF Inv

\* The grid: the start of the period of a clock reading is a multiple of PERIOD.
LEMMA PeriodAtAligned ==
  ASSUME NEW c \in Nat
  PROVE  /\ PeriodAt(c) \in Nat
         /\ PeriodAt(c) * PERIOD \in Nat
         /\ Aligned(PeriodAt(c) * PERIOD)
<1>1. PeriodAt(c) \in Nat
  <2>1. c \div SEC \in Nat
    BY SecAssumption
  <2>2. SEC * (c \div SEC) \in Nat
    BY <2>1, SecAssumption
  <2> DEFINE x == SEC * (c \div SEC)
  <2> HIDE DEF x
  <2>3. x \div PERIOD \in Nat
    BY <2>2, PeriodAssumption DEF x
  <2> QED BY <2>3 DEF PeriodAt, x
<1> DEFINE p == PeriodAt(c)
<1> HIDE DEF p
<1>2. p \in Nat
  BY <1>1 DEF p
<1>3. p * PERIOD \in Nat /\ p <= p * PERIOD
  BY <1>2, PeriodAssumption
<1>4. p \in 0 .. (p * PERIOD)
  BY <1>2, <1>3
<1> QED BY <1>2, <1>3, <1>4 DEF Aligned, p

LEMMA InvCollectBorn == Inv /\ CollectBorn => Inv'
<1> SUFFICES ASSUME Inv, CollectBorn PROVE Inv'
  OBVIOUS
<1>1. /\ pc = "born" /\ pc' = "symbols" /\ todo' = Symbols
      /\ period_now' = PeriodAt(clock)
      /\ UNCHANGED <<clock, sdefs, delivered, accepted, now, pm, sent>>
  BY DEF CollectBorn, receiver
<1>2. todo = {} /\ pm.infos = {} /\ clock \in Nat
  BY <1>1 DEF Inv, RoundInv, TypeOK
<1>3. bornTs' \in Nat /\ Aligned(bornTs')
  <2>1. CASE bornTs' = PeriodAt(clock) * PERIOD
    BY <1>2, <2>1, PeriodAtAligned
  <2>2. ASSUME NEW s \in Symbols, sdefs[s].linked # <<>>,
               bornTs' = sdefs[s].linked[1].start
        PROVE  bornTs' \in Nat /\ Aligned(bornTs')
    <3>1. sdefs[s] \in Defs /\ DefOK(sdefs[s])
      BY DEF Inv, TypeOK, RoundInv
    <3>2. sdefs[s].linked \in Seq(Nodes)
      BY <3>1 DEF Defs
    <3>3. 1 \in DOMAIN sdefs[s].linked /\ sdefs[s].linked[1] \in Nodes
      BY <2>2, <3>2
    <3>4. sdefs[s].linked[1].start \in Nat /\ Aligned(sdefs[s].linked[1].start)
      BY <3>1, <3>3 DEF DefOK, NodeOK, Nodes
    <3> QED BY <2>2, <3>4
  <2> QED BY <2>1, <2>2 DEF CollectBorn
<1>4. TypeOK'
  BY <1>1, <1>2, <1>3, PeriodAtAligned DEF Inv, TypeOK
<1>5. RoundInv'
  <2>1. Aligned(bornTs)'
    BY <1>3 DEF Aligned
  <2>2. \A r, s \in Symbols : SameShape(sdefs[r], sdefs[s])'
    BY <1>1, <1>2 DEF Inv, RoundInv, SameShape
  <2>3. PmOK' /\ InfosFit(pm.ts, pm.infos)'
    BY <1>1, <1>2 DEF PmOK, InfosFit
  <2> QED BY <1>1, <1>2, <2>1, <2>2, <2>3 DEF Inv, RoundInv, MessageWindow
<1> QED BY <1>4, <1>5 DEF Inv

LEMMA InvCollectEmpty == Inv /\ CollectEmpty => Inv'
<1> SUFFICES ASSUME Inv, CollectEmpty PROVE Inv'
  OBVIOUS
<1>1. /\ pc = "publish" /\ pc' = "sleep"
      /\ UNCHANGED <<clock, sdefs, delivered, accepted, now, period_now, bornTs, todo,
                     pm, sent>>
  BY DEF CollectEmpty, receiver
<1>2. TypeOK'
  BY <1>1 DEF Inv, TypeOK
<1>3. RoundInv'
  BY <1>1 DEF Inv, RoundInv, MessageWindow
<1> QED BY <1>2, <1>3 DEF Inv

LEMMA InvCollectPublish == Inv /\ CollectPublish => Inv'
<1> SUFFICES ASSUME Inv, CollectPublish PROVE Inv'
  OBVIOUS
<1> DEFINE m == [period |-> period_now - 1, ts |-> pm.ts, infos |-> pm.infos]
           Msg == [period : Int, ts : Nat, infos : SUBSET SymbolInfos]
<1>1. /\ pc = "publish" /\ pc' = "sleep" /\ sent' = Append(sent, m)
      /\ UNCHANGED <<clock, sdefs, delivered, accepted, now, period_now, bornTs, todo, pm>>
  BY DEF CollectPublish, receiver
<1>2. m \in Msg /\ sent \in Seq(Msg)
  BY DEF Inv, TypeOK
<1>3. m.ts = pm.ts /\ m.infos = pm.infos
  OBVIOUS
<1> HIDE DEF m, Msg
<1>4. sent' \in Seq(Msg)
  BY <1>1, <1>2
<1>5. TypeOK'
  BY <1>1, <1>4 DEF Inv, TypeOK, Msg
<1>6. MessageWindow'
  <2>1. InfosFit(pm.ts, pm.infos)
    BY <1>1 DEF Inv, RoundInv
  <2>2. ASSUME NEW n \in DOMAIN sent'
        PROVE  InfosFit(sent'[n].ts, sent'[n].infos)
    <3>1. \/ n \in DOMAIN sent /\ sent'[n] = sent[n]
          \/ sent'[n] = m
      BY <1>1, <1>2
    <3> QED BY <1>3, <2>1, <3>1 DEF Inv, RoundInv, MessageWindow
  <2> QED BY <2>2 DEF MessageWindow, InfosFit
<1>7. RoundInv'
  BY <1>1, <1>6 DEF Inv, RoundInv
<1> QED BY <1>5, <1>7 DEF Inv

\* A symbol that the round visits knows the shape of its front period.
LEMMA FrontFields ==
  ASSUME NEW d \in Defs, DefOK(d), Len(d.linked) # 0
  PROVE  /\ d.linked[1].start \in Nat
         /\ d.linked[1].end = d.linked[1].start + PERIOD
<1>1. d.linked \in Seq(Nodes)
  BY DEF Defs
<1>2. 1 \in DOMAIN d.linked /\ d.linked[1] \in Nodes
  BY <1>1
<1> QED BY <1>2 DEF DefOK, NodeOK, Nodes

\* Symbols of the same shape are due together and leave timeItr alike.
LEMMA SameShapeDue ==
  ASSUME NEW d \in Defs, NEW e \in Defs, DefOK(d), DefOK(e), SameShape(d, e)
  PROVE  /\ Due(d) <=> Due(e)
         /\ Len(d.linked) # 0 => /\ d.linked[1].start = e.linked[1].start
                                 /\ d.linked[1].end = e.linked[1].end
BY FrontFields DEF SameShape, Due

\* The message after a due symbol: its period, and quotes that fit it.
LEMMA AddInfoOK ==
  ASSUME pm \in [ts : Nat, infos : SUBSET SymbolInfos],
         InfosFit(pm.ts, pm.infos),
         NEW s \in Symbols, NEW out, out # <<>>, out[1] \in Nodes, NodeOK(out[1]),
         pm.infos # {} => pm.ts = out[1].start
  PROVE  /\ AddInfo(s, out) \in [ts : Nat, infos : SUBSET SymbolInfos]
         /\ AddInfo(s, out).ts = out[1].start
         /\ InfosFit(AddInfo(s, out).ts, AddInfo(s, out).infos)
<1> DEFINE x == MarshallPb(s, out[1])
           ts == out[1].start
<1>1. x \in SymbolInfos /\ x.index = out[1].index
  BY DEF MarshallPb, SymbolInfos, Nodes
<1>2. ts \in Nat /\ out[1].end = ts + PERIOD
  BY DEF Nodes, NodeOK
<1>3. InfosFit(ts, {x})
  <2> HIDE DEF x
  <2> QED BY <1>1, <1>2 DEF InfosFit, NodeOK, Fits
<1>4. InfosFit(ts, pm.infos)
  <2>1. CASE pm.infos = {}
    BY <2>1 DEF InfosFit
  <2>2. CASE pm.infos # {}
    BY <2>2
  <2> QED BY <2>1, <2>2
<1>5. InfosFit(ts, pm.infos \cup {x})
  <2> HIDE DEF x, ts
  <2> QED BY <1>3, <1>4 DEF InfosFit
<1>6. \/ AddInfo(s, out) = [ts |-> ts, infos |-> pm.infos]
      \/ AddInfo(s, out) = [ts |-> ts, infos |-> pm.infos \cup {x}]
  BY DEF AddInfo
<1> HIDE DEF x, ts
<1>7. AddInfo(s, out) \in [ts : Nat, infos : SUBSET SymbolInfos] /\ AddInfo(s, out).ts = ts
  BY <1>1, <1>2, <1>6
<1>8. InfosFit(AddInfo(s, out).ts, AddInfo(s, out).infos)
  <2>1. AddInfo(s, out).infos \in {pm.infos, pm.infos \cup {x}}
    BY <1>6
  <2> QED BY <1>4, <1>5, <1>7, <2>1
<1> QED BY <1>7, <1>8 DEF ts

(***************************************************************************)
(* The visit of a symbol: the ones visited before and after it in the      *)
(* round agree with it on the periods, whatever order the loop takes.      *)
(***************************************************************************)
LEMMA InvCollectSymbol ==
  ASSUME Inv, NEW s \in Symbols, CollectSymbol(s)
  PROVE  Inv'
<1> DEFINE d == sdefs[s]
           r == timeItr(d, now, bornTs)
<1>1. /\ pc = "symbols" /\ s \in todo /\ todo' = todo \ {s}
      /\ pc' = IF todo' = {} THEN "publish" ELSE "symbols"
      /\ sdefs' = [sdefs EXCEPT ![s] = r.def]
      /\ pm' = AddInfo(s, r.out)
      /\ UNCHANGED <<clock, delivered, accepted, now, period_now, bornTs, sent>>
  BY DEF CollectSymbol, receiver
<1>2. /\ sdefs \in [Symbols -> Defs] /\ todo \subseteq Symbols
      /\ now \in Nat /\ bornTs \in Nat /\ Aligned(bornTs)
      /\ pm \in [ts : Nat, infos : SUBSET SymbolInfos]
      /\ PmOK /\ InfosFit(pm.ts, pm.infos)
  BY <1>1 DEF Inv, TypeOK, RoundInv
<1>3. \A x \in Symbols : sdefs[x] \in Defs /\ Len(sdefs[x].linked) <= 2 /\ DefOK(sdefs[x])
  BY <1>2 DEF Inv, TypeOK, RoundInv
<1>4. /\ r.def \in Defs /\ Len(r.def.linked) <= 2 /\ DefOK(r.def)
      /\ AfterIter(r.def, d)
      /\ ~Due(d) => r.out = <<>>
      /\ Due(d) => /\ r.out # <<>> /\ r.out[1] \in Nodes /\ NodeOK(r.out[1])
                   /\ r.out[1].start = d.linked[1].start
  BY <1>2, <1>3, TimeItrOK
<1> HIDE DEF r
<1>5. /\ sdefs'[s] = r.def
      /\ \A x \in Symbols : x # s => sdefs'[x] = sdefs[x]
      /\ sdefs' \in [Symbols -> Defs]
  BY <1>1, <1>2, <1>4
<1>6. \A x \in Symbols : Len(sdefs'[x].linked) <= 2 /\ DefOK(sdefs'[x])
  BY <1>3, <1>4, <1>5
<1>7. \A x, y \in Symbols :
        (x \in todo <=> y \in todo) => SameShape(sdefs[x], sdefs[y])
  BY DEF Inv, RoundInv
<1>8. \A x \in Symbols \ todo : AfterIter(sdefs[x], d)
  BY <1>1 DEF Inv, RoundInv
<1>9. \A x \in Symbols \ todo' :
        AfterIter(sdefs'[x], d)
  BY <1>1, <1>4, <1>5, <1>8
<1>10. \A x, y \in Symbols :
         (x \in todo' <=> y \in todo') => SameShape(sdefs'[x], sdefs'[y])
  <2> TAKE x, y \in Symbols
  <2>1. CASE x \in todo' /\ y \in todo'
    BY <1>1, <1>5, <1>7, <2>1
  <2>2. CASE x \notin todo' /\ y \notin todo'
    BY <1>9, <2>2 DEF AfterIter, SameShape
  <2> QED BY <2>1, <2>2
<1>11. ASSUME NEW y \in todo'
       PROVE  /\ y \in Symbols /\ sdefs'[y] = sdefs[y]
              /\ SameShape(d, sdefs[y])
              /\ Due(d) <=> Due(sdefs[y])
              /\ Len(d.linked) # 0 => /\ d.linked[1].start = sdefs[y].linked[1].start
                                      /\ d.linked[1].end = sdefs[y].linked[1].end
  <2>1. y \in Symbols /\ y \in todo /\ y # s
    BY <1>1, <1>2
  <2>2. SameShape(d, sdefs[y])
    BY <1>1, <1>7, <2>1
  <2> HIDE DEF d
  <2>3. d \in Defs /\ DefOK(d)
    BY <1>3 DEF d
  <2> QED BY <1>3, <1>5, <2>1, <2>2, <2>3, SameShapeDue
<1>12. \A x \in Symbols \ todo', y \in todo' : AfterIter(sdefs'[x], sdefs'[y])
  BY <1>9, <1>11 DEF AfterIter, SameShape
<1>13. /\ pm' \in [ts : Nat, infos : SUBSET SymbolInfos]
       /\ InfosFit(pm'.ts, pm'.infos)
       /\ pm'.infos # {} =>
            /\ \A x \in Symbols \ todo' : Len(sdefs'[x].linked) = 2
                                        /\ sdefs'[x].linked[1].start = pm'.ts + PERIOD
            /\ \A y \in todo' : Due(sdefs'[y]) /\ sdefs'[y].linked[1].start = pm'.ts
  <2>1. CASE ~Due(d)
    <3>1. pm' = pm
      BY <1>1, <1>4, <2>1 DEF AddInfo
    <3>2. pm.infos = {}
      BY <1>1, <1>2, <2>1 DEF PmOK
    <3> QED BY <1>2, <3>1, <3>2
  <2>2. CASE Due(d)
    <3>1. Len(d.linked) # 0
      BY <2>2 DEF Due
    <3>2. d.linked[1].end = d.linked[1].start + PERIOD
      BY <1>3, <3>1, FrontFields
    <3>3. pm.infos # {} => pm.ts = d.linked[1].start
      BY <1>1, <1>2 DEF PmOK
    <3>4. /\ pm' \in [ts : Nat, infos : SUBSET SymbolInfos]
          /\ pm'.ts = d.linked[1].start
          /\ InfosFit(pm'.ts, pm'.infos)
      BY <1>1, <1>2, <1>4, <2>2, <3>3, AddInfoOK
    <3>5. \A x \in Symbols \ todo' : Len(sdefs'[x].linked) = 2
                                  /\ sdefs'[x].linked[1].start = d.linked[1].end
      BY <1>9, <2>2, <3>1 DEF AfterIter
    <3>6. \A y \in todo' : Due(sdefs'[y]) /\ sdefs'[y].linked[1].start = d.linked[1].start
      BY <1>11, <2>2, <3>1
    <3> QED BY <3>2, <3>4, <3>5, <3>6
  <2> QED BY <2>1, <2>2
<1>14. TypeOK'
  BY <1>1, <1>2, <1>5, <1>6, <1>13 DEF Inv, TypeOK
<1>15. RoundInv'
  <2>1. /\ \A x \in Symbols : DefOK(sdefs[x])'
        /\ \A x, y \in Symbols :
             (x \in todo' <=> y \in todo') => SameShape(sdefs[x], sdefs[y])'
    BY <1>6, <1>10
  <2>2. \A x \in Symbols \ todo', y \in todo' : AfterIter(sdefs[x], sdefs[y])'
    BY <1>1, <1>12 DEF AfterIter, Due
  <2>3. PmOK'
    BY <1>1, <1>13 DEF PmOK, Due
  <2>4. InfosFit(pm.ts, pm.infos)' /\ Aligned(bornTs)' /\ MessageWindow'
    BY <1>1, <1>2, <1>13 DEF Inv, RoundInv, MessageWindow
  <2>5. (pc' # "symbols" => todo' = {}) /\ pc' # "born"
    BY <1>1
  <2> QED BY <2>1, <2>2, <2>3, <2>4, <2>5 DEF RoundInv
<1> QED BY <1>14, <1>15 DEF Inv

-----------------------------------------------------------------------------
(* Theorems *)

LEMMA InvNext == Inv /\ [Next]_vars => Inv'
<1> SUFFICES ASSUME Inv, [Next]_vars PROVE Inv'
  OBVIOUS
<1>1. CASE Tick
  BY <1>1, InvTick
<1>2. CASE \E s \in Symbols, q \in Quotes : RecvQuote(s, q)
  BY <1>2, InvRecvQuote
<1>3. CASE Collect
  BY <1>3, InvCollectBegin, InvCollectBorn, InvCollectSymbol, InvCollectEmpty,
     InvCollectPublish DEF Collect
<1>4. CASE UNCHANGED vars
  <2>1. UNCHANGED <<clock, sdefs, delivered, accepted, pc, now, period_now, bornTs, todo,
                   pm, sent>>
    BY <1>4 DEF vars, receiver, collector
  <2>2. TypeOK'
    BY <2>1 DEF Inv, TypeOK
  <2>3. RoundInv'
    BY <2>1 DEF Inv, RoundInv, MessageWindow, PmOK, AfterIter, Due
  <2> QED BY <2>2, <2>3 DEF Inv
<1> QED BY <1>1, <1>2, <1>3, <1>4 DEF Next

\* The inductive invariant holds in every reachable state.
THEOREM InvHolds == Spec => []Inv
BY InvInit, InvNext, PTL DEF Spec

(***************************************************************************)
(* Type correctness: whatever arrives and whenever the collector runs, the *)
(* variables keep their types and a symbol holds at most two periods.      *)
(***************************************************************************)
THEOREM TypeCorrect == Spec => []TypeOK
<1>1. Inv => TypeOK
  BY DEF Inv
<1> QED BY <1>1, InvHolds, PTL

(***************************************************************************)
(* The periods of every symbol are adjacent and on the grid, for any       *)
(* PERIOD, any number of symbols and any lag of the collector.             *)
(***************************************************************************)
THEOREM PeriodsOnGrid == Spec => []OnGrid
<1>1. Inv => OnGrid
  BY DEF Inv, RoundInv, DefOK, NodeOK, OnGrid
<1> QED BY <1>1, InvHolds, PTL

(***************************************************************************)
(* A message of the period that starts at ts carries only quotes of that   *)
(* period and of the one before it, in the list of their kind.             *)
(***************************************************************************)
THEOREM MessagesInWindow == Spec => []MessageWindow
<1>1. Inv => MessageWindow
  BY DEF Inv, RoundInv
<1> QED BY <1>1, InvHolds, PTL

(***************************************************************************)
(* The symbols of a round advance together, in whatever order it visits    *)
(* them and whatever happens between two visits.                           *)
(***************************************************************************)
THEOREM SymbolsInLockstep == Spec => []Lockstep
<1>1. ASSUME Inv PROVE Lockstep
  <2> SUFFICES ASSUME NEW r \in Symbols, NEW s \in Symbols, r \in todo <=> s \in todo
               PROVE  Starts(r) = Starts(s)
    BY DEF Lockstep
  <2> DEFINE d == sdefs[r]
             e == sdefs[s]
  <2>1. /\ d \in Defs /\ e \in Defs /\ DefOK(d) /\ DefOK(e)
        /\ SameShape(d, e) /\ Len(d.linked) <= 2
    BY <1>1 DEF Inv, TypeOK, RoundInv
  <2>2. Starts(r) = [i \in DOMAIN d.linked |-> d.linked[i].start]
    BY DEF Starts
  <2>3. Starts(s) = [i \in DOMAIN e.linked |-> e.linked[i].start]
    BY DEF Starts
  <2> HIDE DEF d, e
  <2>4. /\ d.linked \in Seq(Nodes) /\ e.linked \in Seq(Nodes)
        /\ Len(d.linked) = Len(e.linked) /\ Len(d.linked) \in Nat
    BY <2>1 DEF Defs, SameShape
  <2>5. DOMAIN d.linked = DOMAIN e.linked /\ DOMAIN d.linked = 1 .. Len(d.linked)
    BY <2>4
  <2>6. ASSUME NEW i \in DOMAIN d.linked
        PROVE  d.linked[i].start = e.linked[i].start
    <3>1. Len(d.linked) \in {0, 1, 2}
      BY <2>1, <2>4, UpToTwo
    <3>2. Len(d.linked) # 0 /\ (i = 1 \/ (i = 2 /\ Len(d.linked) = 2))
      <4> DEFINE n == Len(d.linked)
      <4>1. n \in {0, 1, 2} /\ i \in 1 .. n
        BY <2>5, <3>1
      <4> HIDE DEF n
      <4>2. n # 0 /\ (i = 1 \/ (i = 2 /\ n = 2))
        BY <4>1
      <4> QED BY <4>2 DEF n
    <3>3. CASE i = 1
      BY <2>1, <3>2, <3>3 DEF SameShape
    <3>4. CASE i = 2 /\ Len(d.linked) = 2
      <4>1. d.linked[1].end = e.linked[1].end
        BY <2>1, <3>2, SameShapeDue
      <4>2. Len(e.linked) = 2
        BY <2>4, <3>4
      <4> QED BY <2>1, <3>4, <4>1, <4>2 DEF DefOK
    <3> QED BY <3>2, <3>3, <3>4
  <2> QED BY <2>2, <2>3, <2>5, <2>6
<1> QED BY <1>1, InvHolds, PTL
=============================================================================
