--------------------------- MODULE PeriodFeedProofs ---------------------------
(***************************************************************************)
(* Machine-checked proofs of what the aggregator promises to the reader of *)
(* its messages: nothing that was taken in is lost, nothing is made up or  *)
(* sent twice, the periods follow each other and have their number, and    *)
(* PeriodCollect implements PeriodFeed. They build on the inductive        *)
(* invariant Inv of PeriodCollectProofs.                                   *)
(***************************************************************************)
EXTENDS PeriodCollectProofs

-----------------------------------------------------------------------------
(* The keys of a period *)

\* No key comes twice.
OnceKeys(seq) == \A i, j \in DOMAIN seq : GetId(seq[i]) = GetId(seq[j]) => i = j

(***************************************************************************)
(* The map of a kind has the keys of the slice of that kind. A trade and   *)
(* an increment are looked up in the map of their own kind, so the slice   *)
(* has no key twice; a snapshot of the front period is not.                *)
(***************************************************************************)
NodeKeys(pn) ==
  \A k \in Kinds :
    /\ \A j \in DOMAIN pn.index[k] : GetId(pn.index[k][j]) \in pn.ids[k]
    /\ \A id \in pn.ids[k] : \E j \in DOMAIN pn.index[k] : GetId(pn.index[k][j]) = id
    /\ k # "snap" => OnceKeys(pn.index[k])

LEMMA NewPeriodNodeKeys ==
  ASSUME NEW t \in Nat
  PROVE  /\ NodeKeys(NewPeriodNode(t))
         /\ \A k \in Kinds : NewPeriodNode(t).index[k] = <<>>
BY DEF NodeKeys, NewPeriodNode, OnceKeys

\* A slice that grows by a quote with a new key.
LEMMA AppendOnce ==
  ASSUME NEW l \in Seq(Quotes), OnceKeys(l), NEW q \in Quotes,
         \A j \in DOMAIN l : GetId(l[j]) # GetId(q)
  PROVE  OnceKeys(Append(l, q))
<1> DEFINE m == Append(l, q)
           n == Len(l)
<1>1. /\ n \in Nat /\ DOMAIN m = 1 .. n + 1 /\ DOMAIN l = 1 .. n
      /\ \A j \in 1 .. n : m[j] = l[j]
      /\ m[n + 1] = q
  BY AppendPositions
<1> HIDE DEF m, n
<1>2. \A j \in 1 .. n + 1 : j \in 1 .. n \/ j = n + 1
  BY <1>1
<1>3. OnceKeys(m)
  BY <1>1, <1>2, Zenon DEF OnceKeys
<1> QED BY <1>3 DEF m

\* The elements of a list that grew at its end.
LEMMA AppendSet ==
  ASSUME NEW S, NEW l \in Seq(S), NEW x \in S
  PROVE  ToSet(Append(l, x)) = ToSet(l) \cup {x}
<1> DEFINE m == Append(l, x)
           n == Len(l)
<1>1. /\ n \in Nat /\ DOMAIN m = 1 .. n + 1 /\ DOMAIN l = 1 .. n
      /\ \A j \in 1 .. n : m[j] = l[j]
      /\ m[n + 1] = x
  BY AppendPositions
<1> HIDE DEF m, n
<1>2. \A j \in 1 .. n + 1 : j \in 1 .. n \/ j = n + 1
  BY <1>1
<1>3. n + 1 \in 1 .. n + 1 /\ \A j \in 1 .. n : j \in 1 .. n + 1
  BY <1>1
<1>4. ToSet(m) = ToSet(l) \cup {x}
  BY <1>1, <1>2, <1>3 DEF ToSet
<1> QED BY <1>4 DEF m

\* What a period holds and which keys it has after AddIfNew.
LEMMA AddIfNewKeys ==
  ASSUME NEW pn \in Nodes, NodeKeys(pn), NEW q \in Quotes, NEW m,
         q.kind # "snap" => m = q.kind
  PROVE  /\ NodeKeys(AddIfNew(pn, q, m))
         /\ \A k \in Kinds : k # q.kind => AddIfNew(pn, q, m).index[k] = pn.index[k]
         /\ \/ AddIfNew(pn, q, m) = pn
            \/ ToSet(AddIfNew(pn, q, m).index[q.kind]) = ToSet(pn.index[q.kind]) \cup {q}
<1>1. CASE GetId(q) \in pn.ids[m]
  BY <1>1 DEF AddIfNew
<1>2. CASE GetId(q) \notin pn.ids[m]
  <2> DEFINE pn2 == AddQuote(pn, q)
             id  == GetId(q)
  <2>1. AddIfNew(pn, q, m) = pn2
    BY <1>2 DEF AddIfNew
  <2>2. /\ pn2.index = [pn.index EXCEPT ![q.kind] = Append(@, q)]
        /\ pn2.ids = [pn.ids EXCEPT ![q.kind] = @ \cup {id}]
        /\ pn.index \in [Kinds -> Seq(Quotes)] /\ pn.ids \in [Kinds -> SUBSET Nat]
        /\ q.kind \in Kinds
    BY AddQuoteFields, QuoteFields DEF AddQuote, Nodes
  <2>3. ASSUME NEW k \in Kinds, k # q.kind
        PROVE  pn2.index[k] = pn.index[k] /\ pn2.ids[k] = pn.ids[k]
    BY <2>2, <2>3
  <2> DEFINE l == pn.index[q.kind]
             l2 == pn2.index[q.kind]
  <2>4. l \in Seq(Quotes) /\ l2 = Append(l, q) /\ pn2.ids[q.kind] = pn.ids[q.kind] \cup {id}
    BY <2>2
  <2>5. /\ Len(l) \in Nat /\ DOMAIN l2 = 1 .. Len(l) + 1 /\ DOMAIN l = 1 .. Len(l)
        /\ \A j \in 1 .. Len(l) : l2[j] = l[j]
        /\ l2[Len(l) + 1] = q
    BY <2>4, AppendPositions
  <2>6. /\ \A j \in DOMAIN l : GetId(l[j]) \in pn.ids[q.kind]
        /\ \A i \in pn.ids[q.kind] : \E j \in DOMAIN l : GetId(l[j]) = i
        /\ q.kind # "snap" => OnceKeys(l)
    BY <2>2 DEF NodeKeys
  <2>7. q.kind # "snap" => OnceKeys(l2)
    <3> SUFFICES ASSUME q.kind # "snap" PROVE OnceKeys(l2)
      OBVIOUS
    <3>1. \A j \in DOMAIN l : GetId(l[j]) # GetId(q)
      BY <1>2, <2>6
    <3> HIDE DEF l, l2
    <3> QED BY <2>4, <2>6, <3>1, AppendOnce
  <2>8. ToSet(l2) = ToSet(l) \cup {q}
    BY <2>4, AppendSet
  <2> DEFINE ids  == pn.ids[q.kind]
             ids2 == pn2.ids[q.kind]
             n == Len(l)
  <2>9. ids2 = ids \cup {id} /\ id = GetId(q) /\ n \in Nat
    BY <2>4, <2>5
  <2>12. /\ DOMAIN l2 = 1 .. n + 1 /\ DOMAIN l = 1 .. n
         /\ \A j \in 1 .. n : l2[j] = l[j]
         /\ l2[n + 1] = q
    BY <2>5
  <2> HIDE DEF l, l2, ids, ids2, id, n
  <2>10. \A j \in 1 .. n + 1 : j \in 1 .. n \/ j = n + 1
    BY <2>9
  <2>13. n + 1 \in 1 .. n + 1 /\ \A j \in 1 .. n : j \in 1 .. n + 1
    BY <2>9
  <2>11. /\ \A j \in DOMAIN l2 : GetId(l2[j]) \in ids2
         /\ \A i \in ids2 : \E j \in DOMAIN l2 : GetId(l2[j]) = i
    <3>1. \A j \in DOMAIN l2 : GetId(l2[j]) \in ids2
      BY <2>6, <2>9, <2>10, <2>12, Zenon DEF ids
    <3>2. \A i \in ids : \E j \in DOMAIN l2 : GetId(l2[j]) = i
      BY <2>6, <2>12, <2>13, Zenon DEF ids
    <3>3. GetId(l2[n + 1]) = id
      BY <2>9, <2>12
    <3> QED BY <2>9, <2>12, <2>13, <3>1, <3>2, <3>3
  <2> HIDE DEF pn2
  <2>14. NodeKeys(pn2)
    <3> SUFFICES ASSUME NEW k \in Kinds
                 PROVE  /\ \A j \in DOMAIN pn2.index[k] : GetId(pn2.index[k][j]) \in pn2.ids[k]
                        /\ \A i \in pn2.ids[k] :
                             \E j \in DOMAIN pn2.index[k] : GetId(pn2.index[k][j]) = i
                        /\ k # "snap" => OnceKeys(pn2.index[k])
      BY DEF NodeKeys
    <3>1. CASE k = q.kind
      BY <2>7, <2>11, <3>1 DEF l2, ids2
    <3>2. CASE k # q.kind
      BY <2>3, <3>2 DEF NodeKeys
    <3> QED BY <3>1, <3>2
  <2> QED BY <2>1, <2>3, <2>8, <2>14 DEF l, l2
<1> QED BY <1>1, <1>2

-----------------------------------------------------------------------------
(* What a symbol holds *)

\* The quotes of kind k in the periods and the pending list of a symbol.
Content(d, k) ==
  {q \in Quotes : \/ \E i \in DOMAIN d.linked : q \in ToSet(d.linked[i].index[k])
                  \/ q \in ToSet(d.pending[k])}

\* The keys of all periods of a symbol.
DefKeys(d) == \A i \in DOMAIN d.linked : NodeKeys(d.linked[i])

\* Receiving a quote changes nothing, or adds the quote and nothing else.
LEMMA PutContent ==
  ASSUME NEW d \in Defs, Len(d.linked) <= 2, DefOK(d), DefKeys(d), NEW q \in Quotes
  PROVE  /\ DefKeys(PutQuote(d, q))
         /\ \A k \in Kinds : k # q.kind => Content(PutQuote(d, q), k) = Content(d, k)
         /\ \/ PutQuote(d, q) = d
            \/ Content(PutQuote(d, q), q.kind) = Content(d, q.kind) \cup {q}
<1>1. q.kind \in Kinds
  BY QuoteFields
<1>2. PICK m : PutQuote(d, q) = Put(d, q, m) /\ (q.kind # "snap" => m = q.kind)
  BY <1>1 DEF PutQuote, put_trade, put_inc, put_snapshot, Kinds
<1> DEFINE e == Put(d, q, m)
<1>3. /\ d.linked \in Seq(Nodes) /\ d.pending \in [Kinds -> Seq(Quotes)]
      /\ DOMAIN d.linked = 1 .. Len(d.linked)
  BY DEF Defs
<1>4. \A i \in 1 .. Len(d.linked) : /\ d.linked[i] \in Nodes
                                    /\ NodeKeys(d.linked[i])
                                    /\ d.linked[i].end = d.linked[i].start + PERIOD
  BY <1>3 DEF DefOK, NodeOK, DefKeys
<1>5. /\ e \in Defs
      /\ Len(e.linked) = Len(d.linked)
      /\ \A i \in 1 .. Len(d.linked) :
           \/ e.linked[i] = d.linked[i]
           \/ \E mk \in {m, q.kind} : e.linked[i] = AddIfNew(d.linked[i], q, mk)
      /\ \/ e.pending = d.pending
         \/ e.pending = [d.pending EXCEPT ![q.kind] = Append(@, q)]
  BY <1>4, PutShape
<1> HIDE DEF e
<1>6. /\ e.linked \in Seq(Nodes) /\ DOMAIN e.linked = DOMAIN d.linked
      /\ e = [linked |-> e.linked, pending |-> e.pending]
      /\ d = [linked |-> d.linked, pending |-> d.pending]
  BY <1>3, <1>5 DEF Defs
<1>7. ASSUME NEW i \in DOMAIN d.linked
      PROVE  /\ NodeKeys(e.linked[i])
             /\ \A k \in Kinds : k # q.kind => e.linked[i].index[k] = d.linked[i].index[k]
             /\ \/ e.linked[i] = d.linked[i]
                \/ ToSet(e.linked[i].index[q.kind]) = ToSet(d.linked[i].index[q.kind]) \cup {q}
  <2>1. CASE e.linked[i] = d.linked[i]
    BY <1>3, <1>4, <2>1
  <2>2. ASSUME NEW mk \in {m, q.kind}, e.linked[i] = AddIfNew(d.linked[i], q, mk)
        PROVE  /\ NodeKeys(e.linked[i])
               /\ \A k \in Kinds : k # q.kind => e.linked[i].index[k] = d.linked[i].index[k]
               /\ \/ e.linked[i] = d.linked[i]
                  \/ ToSet(e.linked[i].index[q.kind]) = ToSet(d.linked[i].index[q.kind]) \cup {q}
    <3>1. d.linked[i] \in Nodes /\ NodeKeys(d.linked[i]) /\ (q.kind # "snap" => mk = q.kind)
      BY <1>2, <1>3, <1>4
    <3> DEFINE pn == d.linked[i]
               pn2 == AddIfNew(pn, q, mk)
    <3>2. pn \in Nodes /\ NodeKeys(pn) /\ (q.kind # "snap" => mk = q.kind) /\ e.linked[i] = pn2
      BY <2>2, <3>1
    <3> HIDE DEF pn
    <3>3. /\ NodeKeys(pn2)
          /\ \A k \in Kinds : k # q.kind => pn2.index[k] = pn.index[k]
          /\ pn2 = pn \/ ToSet(pn2.index[q.kind]) = ToSet(pn.index[q.kind]) \cup {q}
      BY <3>2, AddIfNewKeys
    <3> HIDE DEF pn2
    <3> QED BY <3>2, <3>3 DEF pn
  <2>3. e.linked[i] = d.linked[i] \/ \E mk \in {m, q.kind} : e.linked[i] = AddIfNew(d.linked[i], q, mk)
    BY <1>3, <1>5
  <2> QED BY <2>1, <2>2, <2>3
<1>8. /\ \A k \in Kinds : k # q.kind => e.pending[k] = d.pending[k]
      /\ \/ e.pending = d.pending
         \/ ToSet(e.pending[q.kind]) = ToSet(d.pending[q.kind]) \cup {q}
  <2>1. CASE e.pending = d.pending
    BY <2>1
  <2>2. CASE e.pending = [d.pending EXCEPT ![q.kind] = Append(@, q)]
    <3>1. /\ e.pending[q.kind] = Append(d.pending[q.kind], q) /\ d.pending[q.kind] \in Seq(Quotes)
          /\ \A k \in Kinds : k # q.kind => e.pending[k] = d.pending[k]
      BY <1>1, <1>3, <2>2
    <3> QED BY <3>1, AppendSet
  <2> QED BY <1>5, <2>1, <2>2
<1>9. DefKeys(e)
  BY <1>6, <1>7 DEF DefKeys
<1>10. ASSUME NEW k \in Kinds, k # q.kind PROVE Content(e, k) = Content(d, k)
  BY <1>6, <1>7, <1>8, <1>10 DEF Content
<1>11. ASSUME e # d PROVE Content(e, q.kind) = Content(d, q.kind) \cup {q}
  <2>1. CASE \A i \in DOMAIN d.linked : e.linked[i] = d.linked[i]
    <3>1. e.linked = d.linked
      BY <1>3, <1>5, <1>6, <2>1, SeqEqual
    <3>2. ToSet(e.pending[q.kind]) = ToSet(d.pending[q.kind]) \cup {q}
      BY <1>6, <1>8, <1>11, <3>1
    <3> QED BY <3>1, <3>2 DEF Content
  <2>2. ASSUME NEW i \in DOMAIN d.linked, e.linked[i] # d.linked[i]
        PROVE  Content(e, q.kind) = Content(d, q.kind) \cup {q}
    <3>1. ToSet(e.linked[i].index[q.kind]) = ToSet(d.linked[i].index[q.kind]) \cup {q}
      BY <1>7, <2>2
    <3>2. \A j \in DOMAIN d.linked :
            \/ ToSet(e.linked[j].index[q.kind]) = ToSet(d.linked[j].index[q.kind])
            \/ ToSet(e.linked[j].index[q.kind]) = ToSet(d.linked[j].index[q.kind]) \cup {q}
      BY <1>7
    <3>3. \/ ToSet(e.pending[q.kind]) = ToSet(d.pending[q.kind])
          \/ ToSet(e.pending[q.kind]) = ToSet(d.pending[q.kind]) \cup {q}
      BY <1>8
    <3> QED BY <1>6, <3>1, <3>2, <3>3 DEF Content
  <2> QED BY <2>1, <2>2
<1> QED BY <1>2, <1>9, <1>10, <1>11 DEF e

-----------------------------------------------------------------------------
(* What detach moves *)

\* Removing an element leaves all the others.
LEMMA RemoveAtKeeps ==
  ASSUME NEW S, NEW seq \in Seq(S), NEW i \in 1 .. Len(seq),
         NEW n \in DOMAIN seq, n # i
  PROVE  \E j \in DOMAIN RemoveAt(seq, i) : RemoveAt(seq, i)[j] = seq[n]
<1> DEFINE a == SubSeq(seq, 1, i - 1)
           b == SubSeq(seq, i + 1, Len(seq))
           N == Len(seq)
<1>0. N \in Nat /\ DOMAIN seq = 1 .. N /\ i \in 1 .. N /\ n \in 1 .. N
  BY LenProperties
<1>1. /\ a \in Seq(S)
      /\ Len(a) = i - 1
      /\ \A j \in 1 .. i - 1 : a[j] = seq[j]
  BY SubSeqProperties, ElementOfSeq, LenProperties
<1>2. /\ b \in Seq(S)
      /\ Len(b) = Len(seq) - i
      /\ \A j \in 1 .. Len(seq) - i : b[j] = seq[i + j]
  BY SubSeqProperties, ElementOfSeq, LenProperties
<1>3. RemoveAt(seq, i) = a \o b
  BY DEF RemoveAt
<1> HIDE DEF a, b, N
<1>4. /\ DOMAIN (a \o b) = 1 .. Len(a) + Len(b)
      /\ \A j \in 1 .. Len(a) + Len(b) :
           (a \o b)[j] = IF j <= Len(a) THEN a[j] ELSE b[j - Len(a)]
  <2>1. /\ a \o b \in Seq(S)
        /\ Len(a \o b) = Len(a) + Len(b)
        /\ \A j \in 1 .. Len(a) + Len(b) :
             (a \o b)[j] = IF j <= Len(a) THEN a[j] ELSE b[j - Len(a)]
    BY <1>1, <1>2, ConcatProperties
  <2>2. DOMAIN (a \o b) = 1 .. Len(a \o b)
    BY <2>1, LenProperties
  <2> QED BY <2>1, <2>2
<1>5. Len(b) = N - i /\ \A j \in 1 .. N - i : b[j] = seq[i + j]
  BY <1>2 DEF N
<1>6. CASE n < i
  <2>1. n \in 1 .. i - 1 /\ n \in 1 .. Len(a) + Len(b)
    BY <1>0, <1>1, <1>5, <1>6
  <2>2. (a \o b)[n] = a[n] /\ a[n] = seq[n]
    BY <1>0, <1>1, <1>4, <1>6, <2>1
  <2> QED BY <1>3, <1>4, <2>1, <2>2
<1>7. CASE n > i
  <2>1. /\ n - 1 \in 1 .. Len(a) + Len(b) /\ ~(n - 1 <= Len(a))
        /\ n - 1 - Len(a) = n - i /\ n - i \in 1 .. N - i
    BY <1>0, <1>1, <1>5, <1>7
  <2>2. (a \o b)[n - 1] = b[n - i]
    BY <1>4, <2>1
  <2>3. b[n - i] = seq[i + (n - i)] /\ i + (n - i) = n
    BY <1>0, <1>5, <2>1
  <2> QED BY <1>3, <1>4, <2>1, <2>2, <2>3
<1> QED BY <1>0, <1>6, <1>7

(***************************************************************************)
(* One loop of detach: a pending quote stays in the list or its key is in  *)
(* the slice of the period that leaves, and no key is in that slice twice. *)
(***************************************************************************)
LEMMA SweepKeeps ==
  ASSUME NEW pn \in Nodes, NodeKeys(pn), NEW k \in Kinds, NEW pend \in Seq(Quotes)
  PROVE  /\ \A n \in DOMAIN pend :
              \/ pend[n] \in ToSet(SweepPending(pn, pend))
              \/ Holds(SweepIndex(pn, k, pend), pend[n])
         /\ ToSet(pn.index[k]) \subseteq ToSet(SweepIndex(pn, k, pend))
         /\ k # "snap" => OnceKeys(SweepIndex(pn, k, pend))
<1> DEFINE i == FirstMatch(pn, pend)
           l == pn.index[k]
<1>1. l \in Seq(Quotes)
  BY DEF Nodes
<1>2. /\ \A id \in pn.ids[k] : \E j \in DOMAIN l : GetId(l[j]) = id
      /\ \A j \in DOMAIN l : GetId(l[j]) \in pn.ids[k]
      /\ k # "snap" => OnceKeys(l)
  BY DEF NodeKeys
<1>3. CASE i = 0
  <2>1. ~\E n \in 1 .. Len(pend) : InPeriod(pn, pend[n])
    <3> DEFINE I == {n \in 1 .. Len(pend) : InPeriod(pn, pend[n])}
    <3>1. SUFFICES ASSUME I # {} PROVE FALSE
      OBVIOUS
    <3>2. FirstMatch(pn, pend) = Min(I)
      BY <3>1 DEF FirstMatch, SelectInSeq
    <3>3. I \in SUBSET Nat /\ 0 \notin I
      OBVIOUS
    <3>4. Min(I) \in I
      <4> HIDE DEF I
      <4> QED BY <3>1, <3>3, MinOfPositions
    <3> HIDE DEF I
    <3> QED BY <1>3, <3>2, <3>3, <3>4
  <2>2. SweepPending(pn, pend) = pend
    BY <2>1 DEF SweepPending, RemoveFirstMatch
  <2>3. SweepIndex(pn, k, pend) = l
    BY <1>3 DEF SweepIndex
  <2> QED BY <1>2, <2>2, <2>3 DEF ToSet
<1>4. CASE i # 0
  <2>1. i \in 1 .. Len(pend) /\ InPeriod(pn, pend[i]) /\ pend[i] \in Quotes
    BY <1>4, FirstMatchPosition, ElementOfSeq
  <2>2. SweepPending(pn, pend) = RemoveAt(pend, i)
    BY <2>1 DEF SweepPending, RemoveFirstMatch, FirstMatch
  <2>3. SweepIndex(pn, k, pend) = IF GetId(pend[i]) \in pn.ids[k] THEN l ELSE Append(l, pend[i])
    BY <1>4 DEF SweepIndex
  <2> HIDE DEF i, l
  <2>4. ASSUME NEW n \in DOMAIN pend, n # i PROVE pend[n] \in ToSet(SweepPending(pn, pend))
    BY <2>1, <2>2, <2>4, RemoveAtKeeps DEF ToSet
  <2>5. CASE GetId(pend[i]) \in pn.ids[k]
    <3>1. SweepIndex(pn, k, pend) = l
      BY <2>3, <2>5
    <3>2. Holds(l, pend[i])
      BY <1>2, <2>5 DEF Holds
    <3> QED BY <1>2, <2>4, <3>1, <3>2 DEF l
  <2>6. CASE GetId(pend[i]) \notin pn.ids[k]
    <3>1. SweepIndex(pn, k, pend) = Append(l, pend[i])
      BY <2>3, <2>6
    <3>2. ToSet(Append(l, pend[i])) = ToSet(l) \cup {pend[i]}
      BY <1>1, <2>1, AppendSet
    <3>3. Holds(Append(l, pend[i]), pend[i])
      <4>1. pend[i] \in ToSet(Append(l, pend[i]))
        BY <3>2
      <4> QED BY <4>1 DEF ToSet, Holds
    <3>4. k # "snap" => OnceKeys(Append(l, pend[i]))
      BY <1>1, <1>2, <2>1, <2>6, AppendOnce
    <3> QED BY <2>4, <3>1, <3>2, <3>3, <3>4 DEF l
  <2> QED BY <2>5, <2>6
<1> QED BY <1>3, <1>4

\* The quotes of two periods and a pending list.
Held(a, b, pend, k) ==
  {q \in Quotes : q \in ToSet(a.index[k]) \/ q \in ToSet(b.index[k]) \/ q \in ToSet(pend[k])}

LEMMA PairContent ==
  ASSUME NEW a \in Nodes, NEW b \in Nodes, NEW d \in Defs, d.linked = <<a, b>>
  PROVE  /\ \A k \in Kinds : Content(d, k) = Held(a, b, d.pending, k)
         /\ NodeKeys(a) /\ NodeKeys(b) => DefKeys(d)
<1>1. /\ d.linked[1] = a /\ d.linked[2] = b
      /\ DOMAIN d.linked = {1, 2}
  <2>1. DOMAIN d.linked = 1 .. 2
    BY TwoNodeList
  <2>2. 1 .. 2 = {1, 2}
    OBVIOUS
  <2> QED BY <2>1, <2>2, TwoNodeList
<1> QED BY <1>1 DEF Content, Held, DefKeys

\* A symbol that has a period, seen as timeItr sees it.
LEMMA FrontContent ==
  ASSUME NEW d \in Defs, Len(d.linked) \in {1, 2}, DefKeys(d)
  PROVE  /\ \A k \in Kinds : Content(d, k) = Held(d.linked[1], Second(d), d.pending, k)
         /\ NodeKeys(d.linked[1]) /\ NodeKeys(Second(d))
         /\ d.linked[1] \in Nodes /\ Second(d) \in Nodes
<1>1. /\ Second(d) \in Nodes /\ d.linked[1] \in Nodes
      /\ TwoNodes(d.linked) = <<d.linked[1], Second(d)>>
  BY TwoNodesShape
<1>2. d.linked \in Seq(Nodes) /\ DOMAIN d.linked = 1 .. Len(d.linked)
  BY DEF Defs
<1>3. CASE Len(d.linked) = 1
  <2>1. DOMAIN d.linked = {1}
    BY <1>2, <1>3
  <2>2. Second(d) = NewPeriodNode(d.linked[1].end) /\ d.linked[1].end \in Nat
    BY <1>1, <1>3 DEF Second, Nodes
  <2>3. NodeKeys(Second(d)) /\ \A k \in Kinds : Second(d).index[k] = <<>>
    BY <2>2, NewPeriodNodeKeys
  <2>4. \A k \in Kinds : ToSet(Second(d).index[k]) = {}
    BY <2>3 DEF ToSet
  <2> QED BY <1>1, <2>1, <2>3, <2>4 DEF Content, Held, DefKeys
<1>4. CASE Len(d.linked) = 2
  <2>1. DOMAIN d.linked = {1, 2}
    <3>1. 1 .. 2 = {1, 2}
      OBVIOUS
    <3> QED BY <1>2, <1>4, <3>1
  <2>2. Second(d) = d.linked[2]
    BY <1>4 DEF Second
  <2> QED BY <1>1, <2>1, <2>2 DEF Content, Held, DefKeys
<1> QED BY <1>3, <1>4

(***************************************************************************)
(* One call of timeItr neither loses nor invents a quote: what the symbol  *)
(* held it still holds, or its key is in the period that left.             *)
(***************************************************************************)
LEMMA TimeItrContent ==
  ASSUME NEW d \in Defs, Len(d.linked) <= 2, DefKeys(d), now \in Nat, bornTs \in Nat
  PROVE  /\ DefKeys(timeItr(d, now, bornTs).def)
         /\ ~Due(d) => \A k \in Kinds : Content(timeItr(d, now, bornTs).def, k) = Content(d, k)
         /\ Due(d) => \A k \in Kinds :
              LET idx == timeItr(d, now, bornTs).out[1].index[k]
              IN  /\ Content(timeItr(d, now, bornTs).def, k) \subseteq Content(d, k)
                  /\ ToSet(idx) \subseteq Content(d, k)
                  /\ \A q \in Content(d, k) :
                       q \in Content(timeItr(d, now, bornTs).def, k) \/ Holds(idx, q)
                  /\ k # "snap" => OnceKeys(idx)
<1> DEFINE r == timeItr(d, now, bornTs)
<1>1. d.linked \in Seq(Nodes) /\ d.pending \in [Kinds -> Seq(Quotes)]
  BY DEF Defs
<1>2. Len(d.linked) \in {0, 1, 2}
  <2>1. Len(d.linked) \in Nat
    BY <1>1
  <2> QED BY <2>1, UpToTwo
<1>3. CASE Len(d.linked) = 0
  <2>1. /\ r.def \in Defs /\ r.def.linked = <<NewPeriodNode(bornTs)>> /\ r.def.pending = d.pending
    BY <1>3, TimeItrBorn
  <2>2. DOMAIN d.linked = {} /\ ~Due(d)
    BY <1>1, <1>3 DEF Due
  <2>3. /\ NewPeriodNode(bornTs) \in Nodes /\ NodeKeys(NewPeriodNode(bornTs))
        /\ \A k \in Kinds : ToSet(NewPeriodNode(bornTs).index[k]) = {}
    BY NewPeriodNodeKeys, NewPeriodNodeType DEF ToSet
  <2>4. DOMAIN r.def.linked = {1} /\ r.def.linked[1] = NewPeriodNode(bornTs)
    BY <2>1, <2>3, OneNode
  <2> HIDE DEF r
  <2>5. DefKeys(r.def) /\ \A k \in Kinds : Content(r.def, k) = Content(d, k)
    BY <2>1, <2>2, <2>3, <2>4 DEF DefKeys, Content
  <2> QED BY <2>2, <2>5 DEF r
<1>4. CASE Len(d.linked) \in {1, 2} /\ ~(now > d.linked[1].end + DETACH_TIME)
  <2>1. /\ r.def \in Defs /\ r.def.linked = <<d.linked[1], Second(d)>> /\ r.def.pending = d.pending
    BY <1>4, TimeItrKeep
  <2>2. ~Due(d)
    BY <1>4 DEF Due
  <2>3. /\ \A k \in Kinds : Content(d, k) = Held(d.linked[1], Second(d), d.pending, k)
        /\ NodeKeys(d.linked[1]) /\ NodeKeys(Second(d))
        /\ d.linked[1] \in Nodes /\ Second(d) \in Nodes
    BY <1>4, FrontContent
  <2> HIDE DEF r
  <2>4. DefKeys(r.def) /\ \A k \in Kinds : Content(r.def, k) = Content(d, k)
    BY <2>1, <2>3, PairContent
  <2> QED BY <2>2, <2>4 DEF r
<1>5. CASE Len(d.linked) \in {1, 2} /\ now > d.linked[1].end + DETACH_TIME
  <2> DEFINE pn == d.linked[1]
             nw == NewPeriodNode(Second(d).end)
  <2>1. /\ r.def \in Defs /\ r.def.linked = <<Second(d), nw>>
        /\ r.def.pending = [k \in Kinds |-> SweepPending(pn, d.pending[k])]
        /\ r.out = <<[pn EXCEPT !.index = [k \in Kinds |-> SweepIndex(pn, k, d.pending[k])]]>>
    BY <1>5, TimeItrDetach
  <2>2. Due(d)
    BY <1>5 DEF Due
  <2>3. /\ \A k \in Kinds : Content(d, k) = Held(pn, Second(d), d.pending, k)
        /\ NodeKeys(pn) /\ NodeKeys(Second(d)) /\ pn \in Nodes /\ Second(d) \in Nodes
    BY <1>5, FrontContent
  <2>4. \A k \in Kinds : r.out[1].index[k] = SweepIndex(pn, k, d.pending[k])
    <3>1. r.out[1] = [pn EXCEPT !.index = [k \in Kinds |-> SweepIndex(pn, k, d.pending[k])]]
      BY <2>1
    <3> HIDE DEF r, pn
    <3> QED BY <2>3, <3>1 DEF Nodes
  <2>5. /\ nw \in Nodes /\ NodeKeys(nw) /\ \A k \in Kinds : ToSet(nw.index[k]) = {}
    <3>1. Second(d).end \in Nat
      BY <2>3 DEF Nodes
    <3> QED BY <3>1, NewPeriodNodeKeys, NewPeriodNodeType DEF ToSet
  <2> HIDE DEF r, pn, nw
  <2>6. /\ DefKeys(r.def)
        /\ \A k \in Kinds : Content(r.def, k) = Held(Second(d), nw, r.def.pending, k)
    BY <2>1, <2>3, <2>5, PairContent
  <2>7. ASSUME NEW k \in Kinds
        PROVE  /\ Content(r.def, k) \subseteq Content(d, k)
               /\ ToSet(r.out[1].index[k]) \subseteq Content(d, k)
               /\ \A q \in Content(d, k) : q \in Content(r.def, k) \/ Holds(r.out[1].index[k], q)
               /\ k # "snap" => OnceKeys(r.out[1].index[k])
    <3> DEFINE pend == d.pending[k]
               idx  == SweepIndex(pn, k, pend)
               rest == SweepPending(pn, pend)
    <3>1. pend \in Seq(Quotes) /\ r.def.pending[k] = rest /\ r.out[1].index[k] = idx
      BY <1>1, <2>1, <2>4
    <3>2. /\ rest \in Seq(Quotes) /\ idx \in Seq(Quotes)
          /\ \A j \in DOMAIN rest : \E n \in DOMAIN pend : rest[j] = pend[n]
          /\ \A j \in DOMAIN idx : \/ \E n \in DOMAIN pn.index[k] : idx[j] = pn.index[k][n]
                                   \/ \E n \in DOMAIN pend : idx[j] = pend[n]
      <4>1. /\ rest \in Seq(Quotes)
            /\ \A j \in DOMAIN rest : \E n \in DOMAIN pend : rest[j] = pend[n]
        BY <2>3, <3>1, SweepPendingElements
      <4>2. /\ idx \in Seq(Quotes)
            /\ \A j \in DOMAIN idx : \/ \E n \in DOMAIN pn.index[k] : idx[j] = pn.index[k][n]
                                     \/ \E n \in DOMAIN pend : idx[j] = pend[n]
        <5> HIDE DEF pend
        <5> QED BY <2>3, <3>1, SweepIndexElements
      <4> QED BY <4>1, <4>2
    <3>3. /\ \A n \in DOMAIN pend : pend[n] \in ToSet(rest) \/ Holds(idx, pend[n])
          /\ ToSet(pn.index[k]) \subseteq ToSet(idx)
          /\ k # "snap" => OnceKeys(idx)
      BY <2>3, <3>1, SweepKeeps
    <3> HIDE DEF pend, idx, rest
    <3>4. ToSet(rest) \subseteq ToSet(pend)
      BY <3>2 DEF ToSet
    <3>5. ToSet(idx) \subseteq ToSet(pn.index[k]) \cup ToSet(pend)
      BY <3>2 DEF ToSet
    <3>6. \A q \in ToSet(pend) : q \in ToSet(rest) \/ Holds(idx, q)
      BY <3>3 DEF ToSet
    <3>7. \A q \in ToSet(idx) : Holds(idx, q)
      BY DEF ToSet, Holds
    <3>8. \A q \in ToSet(idx) : q \in Quotes
      BY <3>2, ElementOfSeq DEF ToSet
    <3>9. Content(d, k) = {q \in Quotes : q \in ToSet(pn.index[k]) \/ q \in ToSet(Second(d).index[k])
                                          \/ q \in ToSet(pend)}
      BY <2>3 DEF Held, pend
    <3>10. Content(r.def, k) = {q \in Quotes : q \in ToSet(Second(d).index[k]) \/ q \in ToSet(rest)}
      BY <2>5, <2>6, <3>1 DEF Held
    <3>11. Content(r.def, k) \subseteq Content(d, k)
      BY <3>4, <3>9, <3>10
    <3>12. ToSet(idx) \subseteq Content(d, k)
      BY <3>5, <3>8, <3>9
    <3>13. \A q \in Content(d, k) : q \in Content(r.def, k) \/ Holds(idx, q)
      BY <3>3, <3>6, <3>7, <3>9, <3>10
    <3> QED BY <3>1, <3>3, <3>11, <3>12, <3>13
  <2> QED BY <2>2, <2>6, <2>7 DEF r
<1> QED BY <1>2, <1>3, <1>4, <1>5

-----------------------------------------------------------------------------
(* Nothing lost, nothing made up, nothing twice *)

\* Part x of a message carries quotes that were taken in, none of them twice.
InfoOK(x) ==
  \A k \in Kinds : /\ \A i \in DOMAIN x.index[k] : <<x.symbol, x.index[k][i]>> \in accepted
                   /\ k # "snap" => OnceKeys(x.index[k])

\* A quote with the key of q is still held for s, or has left.
Kept(s, q) ==
  \/ \E p \in Content(sdefs[s], q.kind) : GetId(p) = GetId(q)
  \/ InInfos(pm.infos, s, q)
  \/ Published(s, q)

(***************************************************************************)
(* The message under construction is the critical one: it has a part for   *)
(* no symbol that the round has still to visit, and it may be cleared by   *)
(* the next round because it has been sent, or has no part.                *)
(***************************************************************************)
FeedInv ==
  /\ \A s \in Symbols : DefKeys(sdefs[s])
  /\ \A s \in Symbols, k \in Kinds : \A q \in Content(sdefs[s], k) : <<s, q>> \in accepted
  /\ \A x \in pm.infos : InfoOK(x)
  /\ \A x, y \in pm.infos : x.symbol = y.symbol => x = y
  /\ pc = "symbols" => \A x \in pm.infos : x.symbol \notin todo
  /\ pc = "sleep" => pm.infos = {} \/ \E n \in DOMAIN sent : sent[n].infos = pm.infos
  /\ \A s \in Symbols, q \in Quotes : <<s, q>> \in accepted => Kept(s, q)
  /\ MergedOnce

\* Before the first quote nothing is held and nothing was sent.
LEMMA FeedInit == Init => FeedInv
<1> SUFFICES ASSUME Init PROVE FeedInv
  OBVIOUS
<1>1. \A s \in Symbols : sdefs[s] = NewSymbolDef
  BY DEF Init
<1>2. /\ DefKeys(NewSymbolDef)
      /\ \A k \in Kinds : Content(NewSymbolDef, k) = {}
  BY DEF NewSymbolDef, DefKeys, Content, ToSet
<1>3. pm.infos = {} /\ sent = <<>> /\ accepted = {}
  BY DEF Init, NoPm
<1> QED BY <1>1, <1>2, <1>3 DEF FeedInv, MergedOnce, Init

\* Steps that touch neither the symbols nor the messages.
LEMMA FeedQuiet ==
  ASSUME FeedInv, UNCHANGED <<sdefs, accepted, pm, sent>>,
         pc' = "symbols" => pm.infos = {} \/ (pc = "symbols" /\ todo' = todo),
         pc' = "sleep" => pc = "sleep" \/ pm.infos = {}
  PROVE  FeedInv'
<1>1. \A x : InfoOK(x)' <=> InfoOK(x)
  BY DEF InfoOK
<1>2. \A s, q : Kept(s, q)' <=> Kept(s, q)
  BY DEF Kept, Published
<1>3. MergedOnce'
  BY DEF FeedInv, MergedOnce
<1> QED BY <1>1, <1>2, <1>3 DEF FeedInv

\* A quote that changes its symbol is taken in and held.
LEMMA FeedRecvQuote ==
  ASSUME Inv, FeedInv, NEW s \in Symbols, NEW q \in Quotes, RecvQuote(s, q)
  PROVE  FeedInv'
<1> DEFINE d == sdefs[s]
           e == PutQuote(d, q)
<1>1. /\ UNCHANGED <<pc, todo, pm, sent>>
      /\ sdefs' = [sdefs EXCEPT ![s] = e]
      /\ accepted' = IF e = d THEN accepted ELSE accepted \cup {<<s, q>>}
  BY DEF RecvQuote, collector
<1>2. sdefs \in [Symbols -> Defs]
  BY DEF Inv, TypeOK
<1>3. /\ d \in Defs /\ Len(d.linked) <= 2 /\ DefOK(d) /\ DefKeys(d)
  BY <1>2 DEF Inv, TypeOK, RoundInv, FeedInv
<1>4. /\ DefKeys(e)
      /\ \A k \in Kinds : k # q.kind => Content(e, k) = Content(d, k)
      /\ e = d \/ Content(e, q.kind) = Content(d, q.kind) \cup {q}
  BY <1>3, PutContent
<1>5. /\ sdefs'[s] = e /\ \A r \in Symbols : r # s => sdefs'[r] = sdefs[r]
      /\ accepted \subseteq accepted'
  BY <1>1, <1>2
<1>6. \A r \in Symbols : DefKeys(sdefs'[r])
  BY <1>4, <1>5 DEF FeedInv
<1>7. ASSUME NEW r \in Symbols, NEW k \in Kinds, NEW p \in Content(sdefs'[r], k)
      PROVE  <<r, p>> \in accepted'
  <2>1. CASE r # s \/ p \in Content(d, k)
    BY <1>5, <1>7, <2>1 DEF FeedInv
  <2>2. CASE r = s /\ p \notin Content(d, k)
    <3>1. e # d /\ p = q
      BY <1>4, <1>5, <1>7, <2>2
    <3> QED BY <1>1, <2>2, <3>1
  <2> QED BY <2>1, <2>2
<1>8. \A r \in Symbols, k \in Kinds : Content(sdefs[r], k) \subseteq Content(sdefs'[r], k)
  BY <1>4, <1>5
<1>9. ASSUME NEW r \in Symbols, NEW p \in Quotes, <<r, p>> \in accepted'
      PROVE  Kept(r, p)'
  <2>1. p.kind \in Kinds
    BY QuoteFields
  <2>2. CASE <<r, p>> \in accepted
    <3>1. Kept(r, p)
      BY <2>2 DEF FeedInv
    <3> QED BY <1>1, <1>8, <2>1, <3>1 DEF Kept, Published
  <2>3. CASE <<r, p>> \notin accepted
    <3>1. r = s /\ p = q /\ e # d
      BY <1>1, <1>9, <2>3
    <3>2. q \in Content(e, q.kind)
      BY <1>4, <3>1
    <3> QED BY <1>5, <3>1, <3>2 DEF Kept
  <2> QED BY <2>2, <2>3
<1>10. \A x \in pm'.infos : InfoOK(x)'
  BY <1>1, <1>5 DEF FeedInv, InfoOK
<1>11. MergedOnce'
  BY <1>1 DEF FeedInv, MergedOnce
<1> HIDE DEF d, e
<1> QED BY <1>1, <1>6, <1>7, <1>9, <1>10, <1>11 DEF FeedInv

\* The parts of the message after symbol s.
LEMMA AddInfoParts ==
  ASSUME NEW s \in Symbols, NEW out, out # <<>>
  PROVE  \E x : /\ x.symbol = s /\ x.index = out[1].index
                /\ AddInfo(s, out).infos = IF SkipEmptyQuote /\ EmptyInfo(x)
                                           THEN pm.infos ELSE pm.infos \cup {x}
<1> DEFINE x == MarshallPb(s, out[1])
<1>1. x.symbol = s /\ x.index = out[1].index
  BY DEF MarshallPb
<1>2. AddInfo(s, out).infos = IF SkipEmptyQuote /\ EmptyInfo(x)
                              THEN pm.infos ELSE pm.infos \cup {x}
  BY DEF AddInfo
<1> HIDE DEF x
<1> QED BY <1>1, <1>2

\* The visit of a symbol moves quotes from it to the message.
LEMMA FeedCollectSymbol ==
  ASSUME Inv, FeedInv, NEW s \in Symbols, CollectSymbol(s)
  PROVE  FeedInv'
<1> DEFINE d == sdefs[s]
           r == timeItr(d, now, bornTs)
<1>1. /\ pc = "symbols" /\ s \in todo /\ todo' = todo \ {s}
      /\ pc' = IF todo' = {} THEN "publish" ELSE "symbols"
      /\ sdefs' = [sdefs EXCEPT ![s] = r.def]
      /\ pm' = AddInfo(s, r.out)
      /\ UNCHANGED <<accepted, sent>>
  BY DEF CollectSymbol, receiver
<1>2. /\ sdefs \in [Symbols -> Defs] /\ now \in Nat /\ bornTs \in Nat /\ Aligned(bornTs)
  BY <1>1 DEF Inv, TypeOK, RoundInv
<1>3. d \in Defs /\ Len(d.linked) <= 2 /\ DefOK(d) /\ DefKeys(d)
  BY <1>2 DEF Inv, TypeOK, RoundInv, FeedInv
<1>4. /\ ~Due(d) => r.out = <<>>
      /\ Due(d) => r.out # <<>> /\ r.out[1] \in Nodes
  BY <1>2, <1>3, TimeItrOK
<1>5. /\ DefKeys(r.def)
      /\ ~Due(d) => \A k \in Kinds : Content(r.def, k) = Content(d, k)
      /\ Due(d) => \A k \in Kinds :
           /\ Content(r.def, k) \subseteq Content(d, k)
           /\ ToSet(r.out[1].index[k]) \subseteq Content(d, k)
           /\ \A q \in Content(d, k) : q \in Content(r.def, k) \/ Holds(r.out[1].index[k], q)
           /\ k # "snap" => OnceKeys(r.out[1].index[k])
  BY <1>2, <1>3, TimeItrContent
<1> HIDE DEF r
<1>6. sdefs'[s] = r.def /\ \A x \in Symbols : x # s => sdefs'[x] = sdefs[x]
  BY <1>1, <1>2
<1>7. \A x \in Symbols : DefKeys(sdefs'[x])
  BY <1>5, <1>6 DEF FeedInv
<1>8. ASSUME NEW t \in Symbols, NEW k \in Kinds, NEW q \in Content(sdefs'[t], k)
      PROVE  <<t, q>> \in accepted
  <2>1. q \in Content(sdefs[t], k)
    BY <1>5, <1>6, <1>8
  <2> QED BY <2>1 DEF FeedInv
<1>9. MergedOnce'
  BY <1>1 DEF FeedInv, MergedOnce
<1>10. CASE ~Due(d)
  <2>1. pm' = pm
    BY <1>1, <1>4, <1>10 DEF AddInfo
  <2>2. \A t \in Symbols, k \in Kinds : Content(sdefs'[t], k) = Content(sdefs[t], k)
    BY <1>5, <1>6, <1>10
  <2>3. \A t \in Symbols, q \in Quotes : Kept(t, q)' <=> Kept(t, q)
    <3>1. \A q \in Quotes : q.kind \in Kinds
      BY QuoteFields
    <3> QED BY <1>1, <2>1, <2>2, <3>1 DEF Kept, Published
  <2>4. \A x : InfoOK(x)' <=> InfoOK(x)
    BY <1>1 DEF InfoOK
  <2> HIDE DEF d
  <2> QED BY <1>1, <1>7, <1>8, <1>9, <2>1, <2>3, <2>4 DEF FeedInv
<1>11. CASE Due(d)
  <2>1. PICK x : /\ x.symbol = s /\ x.index = r.out[1].index
                 /\ pm'.infos = IF SkipEmptyQuote /\ EmptyInfo(x)
                                THEN pm.infos ELSE pm.infos \cup {x}
    BY <1>1, <1>4, <1>11, AddInfoParts
  <2>2. InfoOK(x)
    <3> SUFFICES ASSUME NEW k \in Kinds
                 PROVE  /\ \A i \in DOMAIN x.index[k] : <<x.symbol, x.index[k][i]>> \in accepted
                        /\ k # "snap" => OnceKeys(x.index[k])
      BY DEF InfoOK
    <3>1. \A i \in DOMAIN x.index[k] : x.index[k][i] \in Content(d, k)
      BY <1>5, <1>11, <2>1 DEF ToSet
    <3> QED BY <1>5, <1>11, <2>1, <3>1 DEF FeedInv
  <2>3. \A y \in pm.infos : y.symbol # s /\ InfoOK(y)
    BY <1>1 DEF FeedInv
  <2>4. \A y \in pm'.infos : y \in pm.infos \/ y = x
    BY <2>1
  <2>5. \A y \in pm'.infos : InfoOK(y)'
    <3>1. \A y : InfoOK(y)' <=> InfoOK(y)
      BY <1>1 DEF InfoOK
    <3> QED BY <2>2, <2>3, <2>4, <3>1
  <2>6. \A y, z \in pm'.infos : y.symbol = z.symbol => y = z
    BY <2>1, <2>3, <2>4 DEF FeedInv
  <2>7. \A y \in pm'.infos : y.symbol \notin todo'
    BY <1>1, <2>1, <2>4 DEF FeedInv
  <2>8. ASSUME NEW t \in Symbols, NEW q \in Quotes, <<t, q>> \in accepted
        PROVE  Kept(t, q)'
    <3>0. q.kind \in Kinds
      BY QuoteFields
    <3>1. Kept(t, q)
      BY <2>8 DEF FeedInv
    <3>2. pm.infos \subseteq pm'.infos
      BY <2>1
    <3>3. CASE InInfos(pm.infos, t, q) \/ Published(t, q)
      BY <1>1, <3>2, <3>3 DEF Kept, InInfos, Published
    <3>4. ASSUME NEW p \in Content(sdefs[t], q.kind), GetId(p) = GetId(q) PROVE Kept(t, q)'
      <4>1. CASE p \in Content(sdefs'[t], q.kind)
        BY <3>4, <4>1 DEF Kept
      <4>2. CASE p \notin Content(sdefs'[t], q.kind)
        <5>1. t = s /\ Holds(x.index[q.kind], p)
          BY <1>5, <1>6, <1>11, <2>1, <3>0, <3>4, <4>2
        <5>2. Holds(x.index[q.kind], q)
          BY <3>4, <5>1 DEF Holds
        <5>3. x \in pm'.infos
          <6>1. ~EmptyInfo(x)
            BY <3>0, <5>2 DEF EmptyInfo, Holds
          <6> QED BY <2>1, <6>1
        <5>4. InInfos(pm'.infos, t, q)
          BY <2>1, <5>1, <5>2, <5>3 DEF InInfos
        <5> QED BY <5>4 DEF Kept
      <4> QED BY <4>1, <4>2
    <3> QED BY <3>1, <3>3, <3>4 DEF Kept
  <2> HIDE DEF d
  <2> QED BY <1>1, <1>7, <1>8, <1>9, <2>5, <2>6, <2>7, <2>8 DEF FeedInv
<1> QED BY <1>10, <1>11

\* The messages after one more was sent.
LEMMA SentGrows ==
  ASSUME TypeOK, CollectPublish
  PROVE  /\ Len(sent) \in Nat /\ Len(sent') = Len(sent) + 1
         /\ DOMAIN sent = 1 .. Len(sent) /\ DOMAIN sent' = 1 .. Len(sent) + 1
         /\ \A n \in 1 .. Len(sent) : sent'[n] = sent[n]
         /\ sent'[Len(sent) + 1].ts = pm.ts
         /\ sent'[Len(sent) + 1].infos = pm.infos
         /\ sent'[Len(sent) + 1].period = period_now - 1
<1> DEFINE m == [period |-> period_now - 1, ts |-> pm.ts, infos |-> pm.infos]
           Msg == [period : Int, ts : Nat, infos : SUBSET SymbolInfos]
<1>1. sent' = Append(sent, m)
  BY DEF CollectPublish
<1>2. m \in Msg /\ sent \in Seq(Msg)
  BY DEF TypeOK
<1>3. m.ts = pm.ts /\ m.infos = pm.infos /\ m.period = period_now - 1
  OBVIOUS
<1> HIDE DEF m, Msg
<1>4. /\ Len(sent') = Len(sent) + 1 /\ Len(sent) \in Nat
      /\ DOMAIN sent' = 1 .. Len(sent) + 1 /\ DOMAIN sent = 1 .. Len(sent)
      /\ \A n \in 1 .. Len(sent) : sent'[n] = sent[n]
      /\ sent'[Len(sent) + 1] = m
  BY <1>1, <1>2, AppendPositions
<1> QED BY <1>3, <1>4

\* A position after the messages grew by one.
LEMMA Grown == \A n \in Nat : /\ n + 1 \in 1 .. n + 1
                              /\ \A i \in 1 .. n : i \in 1 .. n + 1
                              /\ \A i \in 1 .. n + 1 : i \in 1 .. n \/ i = n + 1
OBVIOUS

LEMMA FeedCollectPublish ==
  ASSUME Inv, FeedInv, CollectPublish PROVE FeedInv'
<1>1. /\ pc = "publish" /\ pc' = "sleep"
      /\ UNCHANGED <<sdefs, accepted, pm, todo>>
  BY DEF CollectPublish, receiver
<1> DEFINE n == Len(sent)
<1>2. /\ n \in Nat /\ DOMAIN sent = 1 .. n /\ DOMAIN sent' = 1 .. n + 1
      /\ \A i \in 1 .. n : sent'[i] = sent[i]
      /\ sent'[n + 1].infos = pm.infos
  BY SentGrows DEF Inv
<1> HIDE DEF n
<1>3. /\ n + 1 \in DOMAIN sent'
      /\ \A i \in DOMAIN sent : i \in DOMAIN sent'
      /\ \A i \in DOMAIN sent' : i \in DOMAIN sent \/ i = n + 1
  BY <1>2, Grown
<1>4. MergedOnce'
  <2> SUFFICES ASSUME NEW i \in DOMAIN sent', NEW x \in sent'[i].infos, NEW k \in {"trade", "inc"}
               PROVE  \A a, b \in DOMAIN x.index[k] :
                        GetId(x.index[k][a]) = GetId(x.index[k][b]) => a = b
    BY DEF MergedOnce
  <2>1. CASE i \in DOMAIN sent
    BY <1>2, <2>1 DEF FeedInv, MergedOnce
  <2>2. CASE i = n + 1
    <3>1. InfoOK(x) /\ k \in Kinds /\ k # "snap"
      BY <1>2, <2>2 DEF FeedInv, Kinds
    <3>2. OnceKeys(x.index[k])
      BY <3>1 DEF InfoOK
    <3> QED BY <3>2 DEF OnceKeys
  <2> QED BY <1>3, <2>1, <2>2
<1>5. ASSUME NEW s \in Symbols, NEW q \in Quotes, Kept(s, q) PROVE Kept(s, q)'
  BY <1>1, <1>2, <1>3, <1>5 DEF Kept, Published
<1>6. \A x : InfoOK(x)' <=> InfoOK(x)
  BY <1>1 DEF InfoOK
<1> QED BY <1>1, <1>2, <1>3, <1>4, <1>5, <1>6 DEF FeedInv

\* The next round may clear the message: what it carried has been sent.
LEMMA FeedCollectBegin ==
  ASSUME Inv, FeedInv, CollectBegin PROVE FeedInv'
<1>1. /\ pc = "sleep" /\ pc' = "born" /\ pm' = NoPm
      /\ UNCHANGED <<sdefs, accepted, sent, todo>>
  BY DEF CollectBegin, receiver
<1>2. pm'.infos = {}
  BY <1>1 DEF NoPm
<1>3. ASSUME NEW s \in Symbols, NEW q \in Quotes, Kept(s, q) PROVE Kept(s, q)'
  <2>1. InInfos(pm.infos, s, q) => Published(s, q)
    BY <1>1 DEF FeedInv, InInfos, Published
  <2> QED BY <1>1, <1>3, <2>1 DEF Kept, Published
<1>4. MergedOnce'
  BY <1>1 DEF FeedInv, MergedOnce
<1> QED BY <1>1, <1>2, <1>3, <1>4 DEF FeedInv

LEMMA FeedNext == Inv /\ FeedInv /\ [Next]_vars => FeedInv'
<1> SUFFICES ASSUME Inv, FeedInv, [Next]_vars PROVE FeedInv'
  OBVIOUS
<1>1. CASE Tick \/ UNCHANGED vars
  <2>1. UNCHANGED <<sdefs, accepted, pm, sent, pc, todo>>
    BY <1>1 DEF Tick, vars, collector, receiver
  <2> QED BY <2>1, FeedQuiet
<1>2. CASE CollectBorn \/ CollectEmpty
  <2>1. UNCHANGED <<sdefs, accepted, pm, sent>> /\ pm.infos = {}
    BY <1>2 DEF CollectBorn, CollectEmpty, receiver, Inv, RoundInv
  <2> QED BY <2>1, FeedQuiet
<1> QED BY <1>1, <1>2, FeedRecvQuote, FeedCollectSymbol, FeedCollectPublish, FeedCollectBegin
        DEF Next, Collect

LEMMA FeedHolds == Spec => []FeedInv
BY FeedInit, FeedNext, InvHolds, PTL DEF Spec

(***************************************************************************)
(* A message carries a trade or an increment once per symbol, however many *)
(* feeds deliver it and whichever way (front, back or pending list) each   *)
(* copy took, for every set of symbols and quotes.                         *)
(***************************************************************************)
THEOREM FeedsMergedOnce == Spec => []MergedOnce
<1>1. FeedInv => MergedOnce
  BY DEF FeedInv
<1> QED BY <1>1, FeedHolds, PTL

(***************************************************************************)
(* Nothing that a SymbolDef took in disappears before it is sent.          *)
(***************************************************************************)
THEOREM QuotesNotLost == Spec => []NothingLost
<1>1. ASSUME Inv, FeedInv PROVE NothingLost
  <2> SUFFICES ASSUME NEW a \in accepted
               PROVE  \/ \E i \in DOMAIN sdefs[a[1]].linked :
                           Holds(sdefs[a[1]].linked[i].index[a[2].kind], a[2])
                      \/ Holds(sdefs[a[1]].pending[a[2].kind], a[2])
                      \/ InInfos(pm.infos, a[1], a[2])
                      \/ Published(a[1], a[2])
    BY DEF NothingLost
  <2>1. a \in Symbols \X Quotes
    BY <1>1 DEF Inv, TypeOK
  <2>2. PICK s \in Symbols, q \in Quotes : a = <<s, q>>
    BY <2>1
  <2>3. Kept(s, q) /\ a[1] = s /\ a[2] = q
    BY <1>1, <2>2 DEF FeedInv
  <2>4. ASSUME NEW p \in Content(sdefs[s], q.kind), GetId(p) = GetId(q)
        PROVE  \/ \E i \in DOMAIN sdefs[s].linked : Holds(sdefs[s].linked[i].index[q.kind], q)
               \/ Holds(sdefs[s].pending[q.kind], q)
    BY <2>4 DEF Content, Holds, ToSet
  <2> QED BY <2>3, <2>4 DEF Kept
<1> QED BY <1>1, InvHolds, FeedHolds, PTL

-----------------------------------------------------------------------------
(* The order of the periods *)

(***************************************************************************)
(* What the symbols and the message under construction owe to the message  *)
(* of the period that starts at T, the last one that was sent.             *)
(***************************************************************************)
After(T) ==
  /\ \A s \in Symbols : Len(sdefs[s].linked) = 2 /\ T + PERIOD <= sdefs[s].linked[1].start
  /\ ~SkipEmptyQuote /\ (pc = "sleep" \/ pm.infos = {}) =>
       \A s \in Symbols : sdefs[s].linked[1].start = T + PERIOD
  /\ pc \in {"symbols", "publish"} /\ pm.infos # {} =>
       T + PERIOD <= pm.ts /\ (~SkipEmptyQuote => pm.ts = T + PERIOD)

OrderInv ==
  /\ \A n \in DOMAIN sent : Aligned(sent[n].ts)
  /\ \A n, m \in DOMAIN sent : n < m => sent[n].ts + PERIOD <= sent[m].ts
  /\ ~SkipEmptyQuote =>
       \A n, m \in DOMAIN sent : m = n + 1 => sent[m].ts = sent[n].ts + PERIOD
  /\ pc \in {"symbols", "publish"} /\ pm.infos # {} => Aligned(pm.ts)
  /\ Len(sent) # 0 => After(sent[Len(sent)].ts)

\* Receiving a quote leaves the front periods where they are.
LEMMA RecvQuoteFronts ==
  ASSUME Inv, NEW s \in Symbols, NEW q \in Quotes, RecvQuote(s, q), NEW r \in Symbols
  PROVE  /\ Len(sdefs'[r].linked) = Len(sdefs[r].linked)
         /\ Len(sdefs[r].linked) # 0 =>
              /\ sdefs'[r].linked[1].start = sdefs[r].linked[1].start
              /\ sdefs'[r].linked[1].end = sdefs[r].linked[1].end
<1>1. sdefs' = [sdefs EXCEPT ![s] = PutQuote(sdefs[s], q)]
  BY DEF RecvQuote
<1>2. /\ sdefs \in [Symbols -> Defs]
      /\ sdefs[r] \in Defs /\ Len(sdefs[r].linked) <= 2 /\ DefOK(sdefs[r])
  BY DEF Inv, TypeOK, RoundInv
<1>3. Len(sdefs[r].linked) # 0 => 1 \in 1 .. Len(sdefs[r].linked)
  BY <1>2 DEF Defs
<1>4. CASE r = s
  <2>1. sdefs'[r] = PutQuote(sdefs[r], q)
    BY <1>1, <1>2, <1>4
  <2> QED BY <1>2, <1>3, <2>1, PutQuoteOK
<1>5. CASE r # s
  BY <1>1, <1>2, <1>5
<1> QED BY <1>4, <1>5

\* The messages of the history.
LEMMA SentFields ==
  ASSUME TypeOK
  PROVE  /\ Len(sent) \in Nat /\ DOMAIN sent = 1 .. Len(sent)
         /\ Len(sent) # 0 => Len(sent) \in 1 .. Len(sent)
         /\ \A i \in 1 .. Len(sent) : sent[i].ts \in Nat
<1> DEFINE Msg == [period : Int, ts : Nat, infos : SUBSET SymbolInfos]
<1>1. sent \in Seq(Msg)
  BY DEF TypeOK
<1>2. \A m \in Msg : m.ts \in Nat
  OBVIOUS
<1> HIDE DEF Msg
<1> QED BY <1>1, <1>2

\* Steps that move no front period and send nothing.
LEMMA OrderQuiet ==
  ASSUME OrderInv, sent' = sent,
         \A s \in Symbols : /\ Len(sdefs'[s].linked) = Len(sdefs[s].linked)
                            /\ Len(sdefs[s].linked) # 0 =>
                                 sdefs'[s].linked[1].start = sdefs[s].linked[1].start,
         \/ pm' = pm /\ pc' = pc
         \/ pm'.infos = {} /\ (pc = "sleep" \/ pm.infos = {})
  PROVE  OrderInv'
<1>1. ASSUME NEW T, After(T) PROVE After(T)'
  <2>1. \A s \in Symbols : /\ Len(sdefs'[s].linked) = 2
                           /\ sdefs'[s].linked[1].start = sdefs[s].linked[1].start
    BY <1>1 DEF After
  <2> QED BY <1>1, <2>1 DEF After
<1>2. Len(sent) # 0 => After(sent[Len(sent)].ts)'
  <2> DEFINE T == sent[Len(sent)].ts
  <2>1. Len(sent) # 0 => After(T)
    BY DEF OrderInv
  <2>2. T' = T
    OBVIOUS
  <2> HIDE DEF T
  <2>3. Len(sent) # 0 => After(T)'
    BY <1>1, <2>1, <2>2 DEF After
  <2> QED BY <2>3 DEF T
<1> QED BY <1>2 DEF OrderInv

\* What the visit of symbol s does to the front periods and to the message.
LEMMA VisitFronts ==
  ASSUME Inv, NEW s \in Symbols, CollectSymbol(s)
  PROVE  /\ \A x \in Symbols : x # s => sdefs'[x] = sdefs[x]
         /\ AfterIter(sdefs'[s], sdefs[s])
         /\ ~Due(sdefs[s]) => pm' = pm
         /\ Due(sdefs[s]) => /\ pm'.ts = sdefs[s].linked[1].start
                             /\ ~SkipEmptyQuote => pm'.infos # {}
                             /\ pm.infos # {} => pm.ts = sdefs[s].linked[1].start
                             /\ Aligned(pm'.ts)
<1> DEFINE d == sdefs[s]
           r == timeItr(d, now, bornTs)
<1>1. /\ pc = "symbols" /\ s \in todo
      /\ sdefs' = [sdefs EXCEPT ![s] = r.def]
      /\ pm' = AddInfo(s, r.out)
  BY DEF CollectSymbol
<1>2. /\ sdefs \in [Symbols -> Defs] /\ now \in Nat /\ bornTs \in Nat /\ Aligned(bornTs)
      /\ d \in Defs /\ Len(d.linked) <= 2 /\ DefOK(d) /\ PmOK
  BY <1>1 DEF Inv, TypeOK, RoundInv
<1>3. /\ AfterIter(r.def, d)
      /\ ~Due(d) => r.out = <<>>
      /\ Due(d) => /\ r.out # <<>> /\ NodeOK(r.out[1])
                   /\ r.out[1].start = d.linked[1].start
  BY <1>2, TimeItrOK
<1> HIDE DEF r
<1>4. sdefs'[s] = r.def /\ \A x \in Symbols : x # s => sdefs'[x] = sdefs[x]
  BY <1>1, <1>2
<1>5. ~Due(d) => pm' = pm
  BY <1>1, <1>3 DEF AddInfo
<1>6. ASSUME Due(d)
      PROVE  /\ pm'.ts = d.linked[1].start
             /\ ~SkipEmptyQuote => pm'.infos # {}
             /\ pm.infos # {} => pm.ts = d.linked[1].start
             /\ Aligned(pm'.ts)
  <2>1. pm'.ts = r.out[1].start
    BY <1>1, <1>3, <1>6 DEF AddInfo
  <2>2. ~SkipEmptyQuote => pm'.infos # {}
    <3>1. r.out # <<>>
      BY <1>3, <1>6
    <3>2. \E x : pm'.infos = IF SkipEmptyQuote /\ EmptyInfo(x) THEN pm.infos ELSE pm.infos \cup {x}
      BY <1>1, <3>1, AddInfoParts
    <3> QED BY <3>2
  <2>3. Aligned(r.out[1].start)
    BY <1>3, <1>6 DEF NodeOK
  <2>4. pm.infos # {} => pm.ts = d.linked[1].start
    BY <1>1, <1>2 DEF PmOK
  <2> QED BY <1>3, <1>6, <2>1, <2>2, <2>3, <2>4
<1> HIDE DEF d
<1>7. AfterIter(sdefs'[s], d)
  BY <1>3, <1>4
<1> QED BY <1>4, <1>5, <1>6, <1>7 DEF d

LEMMA OrderCollectSymbol ==
  ASSUME Inv, OrderInv, NEW s \in Symbols, CollectSymbol(s)
  PROVE  OrderInv'
<1> DEFINE d == sdefs[s]
           T == sent[Len(sent)].ts
<1>1. /\ pc = "symbols" /\ pc' \in {"symbols", "publish"}
      /\ sent' = sent
  BY DEF CollectSymbol
<1>2. /\ \A x \in Symbols : x # s => sdefs'[x] = sdefs[x]
      /\ AfterIter(sdefs'[s], d)
      /\ ~Due(d) => pm' = pm
      /\ Due(d) => /\ pm'.ts = d.linked[1].start
                   /\ ~SkipEmptyQuote => pm'.infos # {}
                   /\ pm.infos # {} => pm.ts = d.linked[1].start
                   /\ Aligned(pm'.ts)
  BY VisitFronts
<1>3. d \in Defs /\ DefOK(d)
  BY DEF Inv, TypeOK, RoundInv
<1>4. T' = T
  BY <1>1
<1>5. pm'.infos # {} => Aligned(pm'.ts)
  BY <1>1, <1>2 DEF OrderInv
<1>6. ASSUME Len(sent) # 0 PROVE After(T)'
  <2>1. T \in Nat
    BY <1>6, SentFields DEF Inv
  <2>2. After(T)
    BY <1>6 DEF OrderInv
  <2> HIDE DEF T
  <2>3. Len(d.linked) = 2 /\ T + PERIOD <= d.linked[1].start
    BY <2>2 DEF After
  <2>4. d.linked[1].start \in Nat /\ d.linked[1].end = d.linked[1].start + PERIOD
    BY <1>3, <2>3, FrontFields
  <2>5. /\ Len(sdefs'[s].linked) = 2
        /\ Due(d) => sdefs'[s].linked[1].start = d.linked[1].start + PERIOD
        /\ ~Due(d) => sdefs'[s].linked[1].start = d.linked[1].start
    BY <1>2, <2>3, <2>4 DEF AfterIter
  <2>6. T + PERIOD <= sdefs'[s].linked[1].start
    BY <2>1, <2>3, <2>4, <2>5, PeriodAssumption
  <2>7. \A x \in Symbols : /\ Len(sdefs'[x].linked) = 2
                           /\ T + PERIOD <= sdefs'[x].linked[1].start
    BY <1>2, <2>2, <2>5, <2>6 DEF After
  <2>8. CASE Due(d)
    <3>1. ~SkipEmptyQuote => d.linked[1].start = T + PERIOD
      BY <1>1, <1>2, <2>2, <2>8 DEF After
    <3>2. T + PERIOD <= pm'.ts /\ (~SkipEmptyQuote => pm'.ts = T + PERIOD)
      BY <1>2, <2>3, <2>8, <3>1
    <3>3. ~SkipEmptyQuote => pm'.infos # {} /\ pc' # "sleep"
      BY <1>1, <1>2, <2>8
    <3> QED BY <1>4, <2>7, <3>2, <3>3 DEF After
  <2>9. CASE ~Due(d)
    <3>1. \A x \in Symbols : sdefs'[x].linked[1].start = sdefs[x].linked[1].start
      BY <1>2, <2>5, <2>9
    <3>2. pm' = pm
      BY <1>2, <2>9
    <3> QED BY <1>1, <1>4, <2>2, <2>7, <3>1, <3>2 DEF After
  <2> QED BY <2>8, <2>9
<1>7. Len(sent') # 0 => After(sent[Len(sent)].ts)'
  BY <1>1, <1>6
<1> HIDE DEF d, T
<1> QED BY <1>1, <1>5, <1>7 DEF OrderInv

LEMMA OrderCollectPublish ==
  ASSUME Inv, OrderInv, CollectPublish PROVE OrderInv'
<1> DEFINE n == Len(sent)
           T == pm.ts
<1>1. /\ pc = "publish" /\ pc' = "sleep" /\ pm.infos # {} /\ UNCHANGED <<sdefs, pm>>
  BY DEF CollectPublish
<1>2. /\ n \in Nat /\ Len(sent') = n + 1
      /\ DOMAIN sent = 1 .. n /\ DOMAIN sent' = 1 .. n + 1
      /\ \A i \in 1 .. n : sent'[i] = sent[i]
      /\ sent'[n + 1].ts = T
  BY SentGrows DEF Inv
<1>3. /\ todo = {} /\ T \in Nat /\ Aligned(T)
      /\ \A s \in Symbols : /\ Len(sdefs[s].linked) = 2
                            /\ sdefs[s].linked[1].start = T + PERIOD
  BY <1>1 DEF Inv, TypeOK, RoundInv, PmOK, OrderInv
<1>4. \A i \in 1 .. n : sent[i].ts \in Nat
  BY SentFields DEF Inv
<1>5. n # 0 => n \in 1 .. n /\ sent[n].ts + PERIOD <= T /\ (~SkipEmptyQuote => T = sent[n].ts + PERIOD)
  BY <1>1, <1>2 DEF OrderInv, After
<1> HIDE DEF T, n
<1>6. ASSUME NEW i \in 1 .. n PROVE sent[i].ts + PERIOD <= T
  <2>1. n # 0 /\ (i = n \/ i < n)
    BY <1>2
  <2>2. i < n => sent[i].ts + PERIOD <= sent[n].ts
    BY <1>2, <1>5, <2>1 DEF OrderInv
  <2> QED BY <1>3, <1>4, <1>5, <2>1, <2>2, PeriodAssumption
<1>7. ASSUME NEW i \in 1 .. n + 1, NEW j \in 1 .. n + 1, i < j
      PROVE  /\ sent'[i].ts + PERIOD <= sent'[j].ts
             /\ ~SkipEmptyQuote /\ j = i + 1 => sent'[j].ts = sent'[i].ts + PERIOD
  <2>1. i \in 1 .. n /\ (j \in 1 .. n \/ j = n + 1)
    BY <1>2, <1>7
  <2>2. CASE j \in 1 .. n
    BY <1>2, <1>7, <2>1, <2>2 DEF OrderInv
  <2>3. CASE j = n + 1
    <3>1. j = i + 1 => i = n
      BY <1>2, <2>1, <2>3
    <3>2. n # 0
      BY <1>2, <2>1
    <3> QED BY <1>2, <1>5, <1>6, <2>1, <2>3, <3>1, <3>2
  <2> QED BY <2>1, <2>2, <2>3
<1>8. \A i \in 1 .. n + 1 : Aligned(sent'[i].ts)
  BY <1>2, <1>3, Grown DEF OrderInv
<1>9. After(sent[Len(sent)].ts)'
  <2>1. After(sent[Len(sent)].ts)' <=> 
        /\ \A s \in Symbols : Len(sdefs'[s].linked) = 2 /\ T + PERIOD <= sdefs'[s].linked[1].start
        /\ ~SkipEmptyQuote /\ (pc' = "sleep" \/ pm'.infos = {}) =>
             \A s \in Symbols : sdefs'[s].linked[1].start = T + PERIOD
        /\ pc' \in {"symbols", "publish"} /\ pm'.infos # {} =>
             T + PERIOD <= pm'.ts /\ (~SkipEmptyQuote => pm'.ts = T + PERIOD)
    BY <1>2 DEF After
  <2> QED BY <1>1, <1>3, <2>1, PeriodAssumption
<1>10. \A i, j \in DOMAIN sent' : j = i + 1 => i < j
  BY <1>2
<1> QED BY <1>1, <1>2, <1>7, <1>8, <1>9, <1>10 DEF OrderInv

LEMMA OrderNext == Inv /\ OrderInv /\ [Next]_vars => OrderInv'
<1> SUFFICES ASSUME Inv, OrderInv, [Next]_vars PROVE OrderInv'
  OBVIOUS
<1>1. CASE Tick \/ UNCHANGED vars
  <2>1. UNCHANGED <<sdefs, pm, sent, pc>>
    BY <1>1 DEF Tick, vars, collector
  <2> QED BY <2>1, OrderQuiet
<1>2. CASE CollectBegin \/ CollectBorn \/ CollectEmpty
  <2>1. /\ UNCHANGED <<sdefs, sent>>
        /\ pm'.infos = {} /\ (pc = "sleep" \/ pm.infos = {})
    BY <1>2 DEF CollectBegin, CollectBorn, CollectEmpty, NoPm, Inv, RoundInv
  <2> QED BY <2>1, OrderQuiet
<1>3. ASSUME NEW s \in Symbols, NEW q \in Quotes, RecvQuote(s, q) PROVE OrderInv'
  <2>1. UNCHANGED <<pm, sent, pc>>
    BY <1>3 DEF RecvQuote, collector
  <2> QED BY <1>3, <2>1, RecvQuoteFronts, OrderQuiet
<1> QED BY <1>1, <1>2, <1>3, OrderCollectSymbol, OrderCollectPublish DEF Next, Collect

LEMMA OrderHolds == Spec => []OrderInv
<1>1. Init => OrderInv
  BY DEF Init, OrderInv, NoPm
<1> QED BY <1>1, OrderNext, InvHolds, PTL DEF Spec

(***************************************************************************)
(* Messages leave in the order of their periods, none twice, and without   *)
(* SkipEmptyQuote none is left out: for every number of symbols, every lag *)
(* of the collector and every order in which its rounds visit the symbols. *)
(***************************************************************************)
THEOREM PeriodsFollow == Spec => []PeriodsInOrder
<1>1. ASSUME Inv, OrderInv PROVE PeriodsInOrder
  <2> SUFFICES ASSUME NEW n \in 1 .. Len(sent) - 1
               PROVE  /\ sent[n + 1].ts > sent[n].ts
                      /\ ~SkipEmptyQuote => sent[n + 1].ts = sent[n].ts + PERIOD
    BY DEF PeriodsInOrder
  <2>1. /\ Len(sent) \in Nat /\ DOMAIN sent = 1 .. Len(sent)
        /\ \A i \in DOMAIN sent : sent[i].ts \in Nat
    BY <1>1, SentFields DEF Inv
  <2>2. n \in DOMAIN sent /\ n + 1 \in DOMAIN sent /\ n < n + 1
    BY <2>1
  <2>3. /\ sent[n].ts + PERIOD <= sent[n + 1].ts
        /\ ~SkipEmptyQuote => sent[n + 1].ts = sent[n].ts + PERIOD
    BY <1>1, <2>2 DEF OrderInv
  <2> QED BY <2>1, <2>2, <2>3, PeriodAssumption
<1> QED BY <1>1, InvHolds, OrderHolds, PTL

-----------------------------------------------------------------------------
(* The consumer's view *)

\* Multiples of PERIOD keep the order of their factors.
LEMMA Multiples ==
  ASSUME NEW a \in Nat, NEW b \in Nat, a <= b
  PROVE  a * PERIOD <= b * PERIOD
<1>1. PICK k \in Nat : b = a + k
  <2>1. b - a \in Nat /\ b = a + (b - a)
    OBVIOUS
  <2> QED BY <2>1
<1>2. b * PERIOD = a * PERIOD + k * PERIOD
  BY <1>1, PeriodAssumption
<1>3. k * PERIOD \in Nat /\ a * PERIOD \in Nat
  BY PeriodAssumption
<1> QED BY <1>2, <1>3

\* The only point of the grid in the period after the one that starts at a.
LEMMA NextOnGrid ==
  ASSUME NEW a \in Nat, NEW b \in Nat, Aligned(a), Aligned(b),
         a + PERIOD <= b, b < a + PERIOD + PERIOD
  PROVE  b = a + PERIOD
<1>1. PICK i \in 0 .. a : a = i * PERIOD
  BY DEF Aligned
<1>2. PICK j \in 0 .. b : b = j * PERIOD
  BY DEF Aligned
<1>3. i \in Nat /\ j \in Nat /\ (i + 1) * PERIOD = a + PERIOD
      /\ (i + 2) * PERIOD = a + PERIOD + PERIOD
  BY <1>1, <1>2, PeriodAssumption
<1>4. ~(j <= i)
  <2>1. j <= i => b <= a
    BY <1>1, <1>2, <1>3, Multiples
  <2> QED BY <2>1, PeriodAssumption
<1>5. ~(i + 2 <= j)
  <2>1. i + 2 <= j => a + PERIOD + PERIOD <= b
    BY <1>1, <1>2, <1>3, Multiples
  <2> QED BY <2>1, PeriodAssumption
<1>6. j = i + 1
  BY <1>3, <1>4, <1>5
<1> QED BY <1>2, <1>3, <1>6

\* A message that carries a quote is of its period or of the one after it.
LEMMA CarriedInWindow ==
  ASSUME NEW m, InfosFit(m.ts, m.infos), NEW s \in Symbols, NEW q \in Quotes,
         Feed!Carries(m, s, q)
  PROVE  m.ts - PERIOD <= q.t /\ q.t < m.ts + PERIOD
<1>1. q.kind \in Kinds
  BY QuoteFields
<1>2. PICK x \in m.infos : \E i \in DOMAIN x.index[q.kind] : x.index[q.kind][i] = q
  BY DEF Feed!Carries
<1> QED BY <1>1, <1>2 DEF InfosFit

\* A message that leaves is one that the consumer's view allows.
LEMMA PublishAllowed ==
  ASSUME Inv, FeedInv, OrderInv, CollectPublish
  PROVE  Feed!Publish
<1> DEFINE n == Len(sent)
           m == sent'[Len(sent')]
<1>1. pc = "publish" /\ pm.infos # {} /\ accepted' = accepted
  BY DEF CollectPublish, receiver
<1>2. /\ n \in Nat /\ Len(sent') = n + 1 /\ DOMAIN sent = 1 .. n
      /\ \A i \in 1 .. n : sent'[i] = sent[i]
      /\ m.ts = pm.ts /\ m.infos = pm.infos
      /\ n # 0 => n \in 1 .. n
      /\ \A i \in 1 .. n : sent[i].ts \in Nat
  BY SentGrows, SentFields DEF Inv
<1>3. SubSeq(sent', 1, n) = sent
  <2> DEFINE Msg == [period : Int, ts : Nat, infos : SUBSET SymbolInfos]
  <2>1. sent \in Seq(Msg) /\ sent' \in Seq(Msg)
    <3>1. Inv'
      BY InvCollectPublish
    <3> QED BY <3>1 DEF Inv, TypeOK
  <2> HIDE DEF Msg
  <2>2. SubSeq(sent', 1, n) \in Seq(Msg) /\ Len(SubSeq(sent', 1, n)) = n
        /\ \A i \in 1 .. n : SubSeq(sent', 1, n)[i] = sent'[i]
    BY <1>2, <2>1
  <2> QED BY <1>2, <2>1, <2>2
<1>4. /\ pm.ts \in Nat /\ Aligned(pm.ts) /\ InfosFit(pm.ts, pm.infos)
      /\ \A i \in 1 .. n : Aligned(sent[i].ts) /\ InfosFit(sent[i].ts, sent[i].infos)
  BY <1>1, <1>2 DEF Inv, TypeOK, RoundInv, OrderInv, MessageWindow
<1>5. n # 0 => /\ sent[n].ts + PERIOD <= pm.ts
               /\ ~SkipEmptyQuote => pm.ts = sent[n].ts + PERIOD
  BY <1>1 DEF OrderInv, After
<1>6. sent # <<>> => n # 0
  BY <1>2
<1> HIDE DEF n, m
<1>7. Feed!Follows(m)
  <2>1. n # 0 => m.ts > sent[n].ts
    BY <1>2, <1>4, <1>5, PeriodAssumption
  <2> QED BY <1>2, <1>5, <1>6, <2>1 DEF Feed!Follows, n
<1>8. Feed!Genuine(m)
  BY <1>2 DEF Feed!Genuine, FeedInv, InfoOK, Kinds, Feed!Kinds
<1>9. Feed!Once(m)
  <2>1. \A x \in pm.infos : \A k \in {"trade", "inc"} : OnceKeys(x.index[k])
    BY DEF FeedInv, InfoOK, Kinds
  <2> QED BY <1>2, <2>1 DEF Feed!Once, FeedInv, OnceKeys, GetId, Feed!GetId
<1>10. ASSUME NEW i \in 1 .. n PROVE sent[i].ts + PERIOD <= pm.ts
  <2>1. n # 0 /\ n \in 1 .. n /\ (i = n \/ i < n)
    BY <1>2
  <2>2. i < n => sent[i].ts + PERIOD <= sent[n].ts
    BY <1>2, <2>1 DEF OrderInv
  <2> QED BY <1>2, <1>4, <1>5, <2>1, <2>2, PeriodAssumption
<1>11. Feed!Repeats(m)
  <2> SUFFICES ASSUME NEW i \in 1 .. n, NEW s \in Symbols, NEW q \in Quotes,
                      Feed!Carries(m, s, q), Feed!Carries(sent[i], s, q)
               PROVE  sent[i].ts + PERIOD = m.ts /\ q.t < m.ts
    BY <1>2 DEF Feed!Repeats
  <2>1. m.ts - PERIOD <= q.t /\ q.t < m.ts + PERIOD
    BY <1>2, <1>4, CarriedInWindow
  <2>2. sent[i].ts - PERIOD <= q.t /\ q.t < sent[i].ts + PERIOD
    BY <1>4, CarriedInWindow
  <2>3. q.t \in Nat
    BY QuoteFields
  <2>4. pm.ts < sent[i].ts + PERIOD + PERIOD /\ q.t < pm.ts
    BY <1>2, <1>4, <1>10, <2>1, <2>2, <2>3, PeriodAssumption
  <2>5. pm.ts = sent[i].ts + PERIOD
    BY <1>2, <1>4, <1>10, <2>4, NextOnGrid
  <2> QED BY <1>2, <2>4, <2>5
<1> QED BY <1>1, <1>2, <1>3, <1>7, <1>8, <1>9, <1>11 DEF Feed!Publish, m, n

LEMMA FeedStep ==
  ASSUME Inv, FeedInv, OrderInv, [Next]_vars
  PROVE  [Feed!Next]_(Feed!feed)
<1>1. ASSUME NEW s \in Symbols, NEW q \in Quotes, RecvQuote(s, q)
      PROVE  Feed!Take \/ UNCHANGED <<accepted, sent>>
  BY <1>1 DEF RecvQuote, Feed!Take
<1>2. CASE Collect
  <2>1. ASSUME NEW s \in Symbols, CollectSymbol(s) PROVE UNCHANGED <<accepted, sent>>
    BY <2>1 DEF CollectSymbol, receiver
  <2>2. CollectBegin \/ CollectBorn \/ CollectEmpty => UNCHANGED <<accepted, sent>>
    BY DEF CollectBegin, CollectBorn, CollectEmpty, receiver
  <2> QED BY <1>2, <2>1, <2>2, PublishAllowed DEF Collect, Feed!Next, Feed!feed
<1>3. CASE Tick \/ UNCHANGED vars
  BY <1>3 DEF Tick, vars, receiver, Feed!feed
<1> QED BY <1>1, <1>2, <1>3 DEF Next, Feed!Next, Feed!feed

(***************************************************************************)
(* Refinement: the two goroutines with their buffers, locks and clock      *)
(* readings implement what PeriodFeed promises to a consumer.              *)
(***************************************************************************)
THEOREM FeedRefined == Spec => ConsumerView
<1>1. Init => Feed!Init
  BY DEF Init, Feed!Init
<1>2. Inv /\ FeedInv /\ OrderInv /\ [Next]_vars => [Feed!Next]_(Feed!feed)
  BY FeedStep
<1> QED BY <1>1, <1>2, InvHolds, FeedHolds, OrderHolds, PTL DEF Spec, ConsumerView, Feed!Spec

-----------------------------------------------------------------------------
(* The number of the period *)

\* Division with a remainder, as the code's integer division does it.
LEMMA DivBounds ==
  ASSUME NEW a \in Nat, NEW b \in Nat \ {0}
  PROVE  /\ a \div b \in Nat
         /\ b * (a \div b) <= a
         /\ a < b * (a \div b) + b
OBVIOUS

\* Multiples of SEC that differ, differ by SEC.
LEMMA Seconds ==
  ASSUME NEW y \in Nat, NEW z \in Nat, SEC * y < SEC * z
  PROVE  SEC * y + SEC <= SEC * z
<1>1. ~(z <= y)
  <2>1. ASSUME z <= y PROVE SEC * z <= SEC * y
    <3>1. y - z \in Nat /\ y = z + (y - z)
      BY <2>1
    <3>2. PICK k \in Nat : y = z + k
      BY <3>1
    <3>3. SEC * y = SEC * z + SEC * k /\ SEC * k \in Nat /\ SEC * z \in Nat
      BY <3>2, SecAssumption
    <3> QED BY <3>3
  <2>2. SEC * y \in Nat /\ SEC * z \in Nat
    BY SecAssumption
  <2> QED BY <2>1, <2>2
<1>2. y + 1 <= z /\ z - (y + 1) \in Nat
  BY <1>1
<1>3. PICK k \in Nat : z = y + 1 + k
  <2>1. z = y + 1 + (z - (y + 1))
    OBVIOUS
  <2> QED BY <1>2, <2>1
<1>4. SEC * z = SEC * y + SEC + SEC * k /\ SEC * k \in Nat /\ SEC * y \in Nat
  BY <1>3, SecAssumption
<1> QED BY <1>4, SecAssumption

(***************************************************************************)
(* The period of a clock reading contains it, although the fraction of the *)
(* second is dropped first: periods are whole seconds.                     *)
(***************************************************************************)
LEMMA PeriodAtBounds ==
  ASSUME PERIOD % SEC = 0, NEW c \in Nat
  PROVE  /\ PeriodAt(c) \in Nat
         /\ PeriodAt(c) * PERIOD <= c
         /\ c < PeriodAt(c) * PERIOD + PERIOD
<1> DEFINE y == c \div SEC
           x == SEC * y
           p == x \div PERIOD
<1>1. y \in Nat /\ x <= c /\ c < x + SEC /\ x \in Nat
  BY SecAssumption, DivBounds
<1>2. p \in Nat /\ PERIOD * p <= x /\ x < PERIOD * p + PERIOD
  <2> HIDE DEF x
  <2> QED BY <1>1, PeriodAssumption, DivBounds
<1>3. PICK k \in Nat : PERIOD = SEC * k
  <2>1. PERIOD = SEC * (PERIOD \div SEC) /\ PERIOD \div SEC \in Nat
    BY SecAssumption, PeriodAssumption
  <2> QED BY <2>1
<1>4. PeriodAt(c) = p
  BY DEF PeriodAt
<1> HIDE DEF p
<1>5. PERIOD * p + PERIOD = SEC * (k * (p + 1)) /\ k * (p + 1) \in Nat
  BY <1>2, <1>3, SecAssumption
<1>6. PERIOD * p = p * PERIOD /\ PERIOD * p \in Nat
  BY <1>2, PeriodAssumption
<1> DEFINE z == k * (p + 1)
<1>7. SEC * y < SEC * z
  BY <1>2, <1>5
<1> HIDE DEF z, y
<1>8. SEC * y + SEC <= SEC * z
  BY <1>1, <1>5, <1>7, Seconds DEF z
<1>9. c < PERIOD * p + PERIOD
  <2>1. SEC * z = PERIOD * p + PERIOD
    BY <1>5 DEF z
  <2> HIDE DEF x
  <2>2. x + SEC <= PERIOD * p + PERIOD
    BY <1>8, <2>1 DEF x
  <2> QED BY <1>1, <1>6, <2>2, PeriodAssumption, SecAssumption
<1>10. PERIOD * p <= c
  <2> HIDE DEF x
  <2> QED BY <1>1, <1>2, <1>6
<1> QED BY <1>2, <1>4, <1>6, <1>9, <1>10

\* A clock reading in the period that starts at e.
LEMMA PeriodAtIs ==
  ASSUME PERIOD % SEC = 0, NEW c \in Nat, NEW e \in Nat, Aligned(e), e <= c, c < e + PERIOD
  PROVE  PeriodAt(c) * PERIOD = e
<1>1. PICK j \in 0 .. e : e = j * PERIOD
  BY DEF Aligned
<1> DEFINE p == PeriodAt(c)
<1>2. p \in Nat /\ p * PERIOD <= c /\ c < p * PERIOD + PERIOD
  BY PeriodAtBounds
<1> HIDE DEF p
<1>3. j \in Nat /\ j * PERIOD \in Nat /\ p * PERIOD \in Nat
      /\ (p + 1) * PERIOD = p * PERIOD + PERIOD /\ (j + 1) * PERIOD = j * PERIOD + PERIOD
  BY <1>1, <1>2, PeriodAssumption
<1>4. ~(p + 1 <= j)
  <2>1. p + 1 <= j => p * PERIOD + PERIOD <= j * PERIOD
    BY <1>2, <1>3, Multiples
  <2> QED BY <1>1, <1>2, <1>3, <2>1, PeriodAssumption
<1>5. ~(j + 1 <= p)
  <2>1. j + 1 <= p => j * PERIOD + PERIOD <= p * PERIOD
    BY <1>2, <1>3, Multiples
  <2> QED BY <1>1, <1>2, <1>3, <2>1, PeriodAssumption
<1>6. p = j
  BY <1>2, <1>3, <1>4, <1>5
<1> QED BY <1>1, <1>6 DEF p

\* How far a round that has not visited s may be behind the end of its front period.
Lag(s) == IF pc = "born" \/ s \in todo THEN MaxLag ELSE 0

(***************************************************************************)
(* The front period of a symbol never lags behind the collector's clock by *)
(* more than the grace time and one round, so both readings of a round     *)
(* that detaches a period lie in the period after it.                      *)
(***************************************************************************)
StampInv ==
  /\ now <= clock /\ clock <= now + MaxLag
  /\ \A s \in Symbols : Len(sdefs[s].linked) # 0 =>
       now <= sdefs[s].linked[1].end + DETACH_TIME + Lag(s)
  /\ pc \in {"symbols", "publish"} =>
       /\ \E c \in Nat : now <= c /\ c <= now + MaxLag /\ period_now = PeriodAt(c)
       /\ \A s \in todo : Len(sdefs[s].linked) = 0 => bornTs = period_now * PERIOD
       /\ pm.infos # {} => period_now * PERIOD = pm.ts + PERIOD
  /\ PeriodStamp

\* Steps that read no clock, move no front period and send nothing.
LEMMA StampQuiet ==
  ASSUME StampInv, UNCHANGED <<now, period_now, bornTs, todo, pm, sent>>,
         now <= clock' /\ clock' <= now + MaxLag,
         \A s \in Symbols : /\ Len(sdefs'[s].linked) = Len(sdefs[s].linked)
                            /\ Len(sdefs[s].linked) # 0 =>
                                 sdefs'[s].linked[1].end = sdefs[s].linked[1].end,
         todo \subseteq Symbols,
         pc' = pc \/ (pc' = "sleep" /\ pc = "publish")
  PROVE  StampInv'
<1>1. \A s \in Symbols : Lag(s)' = Lag(s)
  BY DEF Lag
<1>2. \A s \in Symbols : Len(sdefs'[s].linked) # 0 =>
        now <= sdefs'[s].linked[1].end + DETACH_TIME + Lag(s)'
  BY <1>1 DEF StampInv
<1>3. PeriodStamp'
  BY DEF StampInv, PeriodStamp
<1> QED BY <1>2, <1>3 DEF StampInv

LEMMA StampCollectBegin ==
  ASSUME Inv, StampInv, CollectBegin PROVE StampInv'
<1>1. /\ pc = "sleep" /\ pc' = "born" /\ now' = clock
      /\ UNCHANGED <<clock, sdefs, sent, todo>>
  BY DEF CollectBegin
<1>2. /\ todo = {} /\ now \in Nat /\ clock \in Nat
  BY <1>1 DEF Inv, TypeOK, RoundInv
<1>3. ASSUME NEW s \in Symbols, Len(sdefs'[s].linked) # 0
      PROVE  now' <= sdefs'[s].linked[1].end + DETACH_TIME + Lag(s)'
  <2> DEFINE end == sdefs[s].linked[1].end
  <2>1. end \in Nat
    <3>1. sdefs[s] \in Defs /\ DefOK(sdefs[s]) /\ Len(sdefs[s].linked) # 0
      BY <1>1, <1>3 DEF Inv, TypeOK, RoundInv
    <3> QED BY <3>1, FrontFields, PeriodAssumption
  <2>2. now <= end + DETACH_TIME + 0
    BY <1>1, <1>2, <1>3 DEF StampInv, Lag
  <2>3. clock <= now + MaxLag
    BY DEF StampInv
  <2>4. Lag(s)' = MaxLag /\ sdefs'[s].linked[1].end = end
    BY <1>1 DEF Lag
  <2> HIDE DEF end
  <2> QED BY <1>1, <1>2, <2>1, <2>2, <2>3, <2>4, DetachAssumption, BoundsAssumption
<1>4. PeriodStamp'
  BY <1>1 DEF StampInv, PeriodStamp
<1>5. now' <= clock' /\ clock' <= now' + MaxLag
  BY <1>1, <1>2, BoundsAssumption
<1> QED BY <1>1, <1>3, <1>4, <1>5 DEF StampInv

\* The first period of all symbols is that of the second clock reading.
LEMMA StampCollectBorn ==
  ASSUME Inv, StampInv, CollectBorn PROVE StampInv'
<1>1. /\ pc = "born" /\ pc' = "symbols" /\ todo' = Symbols
      /\ period_now' = PeriodAt(clock)
      /\ UNCHANGED <<clock, sdefs, now, pm, sent>>
  BY DEF CollectBorn
<1>2. todo = {} /\ pm.infos = {} /\ clock \in Nat
  BY <1>1 DEF Inv, TypeOK, RoundInv
<1>3. \A s \in Symbols : Lag(s)' = Lag(s)
  BY <1>1 DEF Lag
<1>4. ASSUME NEW s \in Symbols, Len(sdefs[s].linked) = 0
      PROVE  bornTs' = period_now' * PERIOD
  <2>1. \A r \in Symbols : SameShape(sdefs[r], sdefs[s])
    BY <1>2 DEF Inv, RoundInv
  <2>2. \A r \in Symbols : sdefs[r].linked = <<>>
    BY <1>4, <2>1 DEF SameShape, Inv, TypeOK, Defs
  <2>3. {r \in Symbols : sdefs[r].linked # <<>>} = {}
    BY <2>2
  <2> QED BY <1>1, <2>3 DEF CollectBorn
<1>5. \E c \in Nat : now' <= c /\ c <= now' + MaxLag /\ period_now' = PeriodAt(c)
  BY <1>1, <1>2 DEF StampInv
<1>6. PeriodStamp'
  BY <1>1 DEF StampInv, PeriodStamp
<1> QED BY <1>1, <1>2, <1>3, <1>4, <1>5, <1>6 DEF StampInv

LEMMA StampCollectPublish ==
  ASSUME Inv, StampInv, CollectPublish PROVE StampInv'
<1> DEFINE n == Len(sent)
<1>1. /\ pc = "publish" /\ pc' = "sleep" /\ pm.infos # {}
      /\ UNCHANGED <<clock, sdefs, now, period_now, bornTs, todo, pm>>
  BY DEF CollectPublish
<1>2. /\ n \in Nat /\ DOMAIN sent = 1 .. n /\ DOMAIN sent' = 1 .. n + 1
      /\ \A i \in 1 .. n : sent'[i] = sent[i]
      /\ sent'[n + 1].ts = pm.ts
      /\ sent'[n + 1].period = period_now - 1
  BY SentGrows DEF Inv
<1>3. period_now * PERIOD = pm.ts + PERIOD /\ period_now \in Nat /\ pm.ts \in Nat
  BY <1>1 DEF StampInv, Inv, TypeOK
<1> DEFINE T == pm.ts
           p == period_now
<1> HIDE DEF n, T, p
<1>4. (p - 1) * PERIOD = T
  <2>1. p \in Nat /\ T \in Nat /\ p * PERIOD = T + PERIOD
    BY <1>3 DEF p, T
  <2>2. (p - 1) * PERIOD = p * PERIOD - PERIOD
    BY <2>1, PeriodAssumption
  <2> QED BY <2>1, <2>2, PeriodAssumption
<1>5. PeriodStamp'
  <2>1. ASSUME NEW i \in 1 .. n + 1 PROVE sent'[i].period * PERIOD = sent'[i].ts
    <3>1. CASE i \in 1 .. n
      BY <1>2, <3>1 DEF StampInv, PeriodStamp
    <3>2. CASE i = n + 1
      BY <1>2, <1>4, <3>2 DEF p, T
    <3> QED BY <1>2, <3>1, <3>2, Grown
  <2> QED BY <1>2, <2>1 DEF PeriodStamp
<1>6. \A s \in Symbols : Lag(s)' = Lag(s)
  BY <1>1 DEF Lag
<1> QED BY <1>1, <1>5, <1>6 DEF StampInv

(***************************************************************************)
(* A visit that detaches a period: both readings of the round lie after    *)
(* its end and before the end of the next period.                          *)
(***************************************************************************)
LEMMA StampCollectSymbol ==
  ASSUME PERIOD % SEC = 0, DETACH_TIME + MaxLag + MaxLag < PERIOD,
         Inv, StampInv, NEW s \in Symbols, CollectSymbol(s)
  PROVE  StampInv'
<1> DEFINE d == sdefs[s]
<1>1. /\ pc = "symbols" /\ s \in todo /\ todo' = todo \ {s}
      /\ pc' \in {"symbols", "publish"}
      /\ UNCHANGED <<clock, now, period_now, bornTs, sent>>
  BY DEF CollectSymbol
<1>2. /\ \A x \in Symbols : x # s => sdefs'[x] = sdefs[x]
      /\ AfterIter(sdefs'[s], d)
      /\ ~Due(d) => pm' = pm
      /\ Due(d) => pm'.ts = d.linked[1].start
  BY VisitFronts
<1>3. /\ d \in Defs /\ DefOK(d) /\ now \in Nat /\ bornTs \in Nat
      /\ sdefs'[s] \in Defs /\ DefOK(sdefs'[s])
  <2>1. Inv'
    BY InvCollectSymbol
  <2>2. sdefs \in [Symbols -> Defs] /\ sdefs' \in [Symbols -> Defs]
    BY <2>1 DEF Inv, TypeOK
  <2> QED BY <2>1, <2>2 DEF Inv, TypeOK, RoundInv
<1>4. PICK c \in Nat : now <= c /\ c <= now + MaxLag /\ period_now = PeriodAt(c)
  BY <1>1 DEF StampInv
<1>5. Len(sdefs'[s].linked) # 0
  BY <1>2 DEF AfterIter
<1> DEFINE start2 == sdefs'[s].linked[1].start
           end2 == sdefs'[s].linked[1].end
           start == d.linked[1].start
           end == d.linked[1].end
<1>6. start2 \in Nat /\ end2 = start2 + PERIOD
  BY <1>3, <1>5, FrontFields
<1>7. Len(d.linked) # 0 => start \in Nat /\ end = start + PERIOD /\ now <= end + DETACH_TIME + MaxLag
  <2>1. Lag(s) = MaxLag
    BY <1>1 DEF Lag
  <2>2. Len(d.linked) # 0 => now <= end + DETACH_TIME + MaxLag
    BY <2>1 DEF StampInv
  <2> QED BY <1>3, <2>2, FrontFields
<1>8. /\ Len(d.linked) = 0 => start2 = period_now * PERIOD
      /\ Len(d.linked) # 0 /\ ~Due(d) => start2 = start /\ now <= end + DETACH_TIME
      /\ Due(d) => Len(d.linked) # 0 /\ start2 = end /\ end + DETACH_TIME < now
  <2>1. Len(d.linked) = 0 => start2 = period_now * PERIOD
    BY <1>1, <1>2 DEF StampInv, AfterIter
  <2>2. Len(d.linked) # 0 => start2 = IF Due(d) THEN end ELSE start
    BY <1>2 DEF AfterIter
  <2>3. Due(d) <=> Len(d.linked) # 0 /\ now > end + DETACH_TIME
    BY DEF Due
  <2>4. Len(d.linked) # 0 => end \in Nat
    BY <1>7, PeriodAssumption
  <2> HIDE DEF d, start, end, start2
  <2>5. Len(d.linked) # 0 => (now > end + DETACH_TIME <=> end + DETACH_TIME < now)
                          /\ (~(now > end + DETACH_TIME) => now <= end + DETACH_TIME)
    BY <1>3, <2>4, DetachAssumption
  <2> QED BY <2>1, <2>2, <2>3, <2>5
<1> HIDE DEF d, start, end, start2, end2
<1>9. now <= end2 + DETACH_TIME
  <2>1. CASE Len(d.linked) = 0
    <3>1. c < period_now * PERIOD + PERIOD
      BY <1>4, PeriodAtBounds
    <3> QED BY <1>3, <1>4, <1>6, <1>8, <2>1, <3>1, DetachAssumption, PeriodAssumption
  <2>2. CASE Len(d.linked) # 0 /\ ~Due(d)
    BY <1>6, <1>7, <1>8, <2>2
  <2>3. CASE Due(d)
    BY <1>3, <1>6, <1>7, <1>8, <2>3, DetachAssumption, PeriodAssumption, BoundsAssumption
  <2> QED BY <2>1, <2>2, <2>3
<1>10. Due(d) => period_now * PERIOD = start + PERIOD
  <2> SUFFICES ASSUME Due(d) PROVE period_now * PERIOD = end
    BY <1>7, <1>8
  <2>1. end \in Nat /\ end <= c /\ c < end + PERIOD
    BY <1>3, <1>4, <1>7, <1>8, DetachAssumption, PeriodAssumption, BoundsAssumption
  <2>2. Aligned(end)
    <3>1. DOMAIN sdefs'[s].linked = 1 .. Len(sdefs'[s].linked) /\ Len(sdefs'[s].linked) \in Nat
      BY <1>3 DEF Defs
    <3>2. 1 \in DOMAIN sdefs'[s].linked
      BY <1>5, <3>1
    <3>3. Aligned(start2)
      BY <1>3, <3>2 DEF DefOK, NodeOK, start2
    <3> QED BY <1>8, <3>3
  <2> QED BY <1>4, <2>1, <2>2, PeriodAtIs
<1>11. \A x \in Symbols : Len(sdefs'[x].linked) # 0 =>
         now' <= sdefs'[x].linked[1].end + DETACH_TIME + Lag(x)'
  <2> TAKE x \in Symbols
  <2>1. CASE x = s
    <3>1. Lag(x)' = 0
      BY <1>1, <2>1 DEF Lag
    <3>2. now <= end2 + DETACH_TIME + 0
      BY <1>3, <1>6, <1>9, DetachAssumption, PeriodAssumption
    <3> QED BY <1>1, <2>1, <3>1, <3>2 DEF end2
  <2>2. CASE x # s
    <3>1. sdefs'[x] = sdefs[x] /\ Lag(x)' = Lag(x)
      BY <1>1, <1>2, <2>2 DEF Lag
    <3> QED BY <1>1, <3>1 DEF StampInv
  <2> QED BY <2>1, <2>2
<1>12. pm'.infos # {} => period_now * PERIOD = pm'.ts + PERIOD
  <2>1. CASE Due(d)
    BY <1>2, <1>10, <2>1 DEF start
  <2>2. CASE ~Due(d)
    BY <1>1, <1>2, <2>2 DEF StampInv
  <2> QED BY <2>1, <2>2
<1>13. \A x \in todo' : Len(sdefs'[x].linked) = 0 => bornTs = period_now * PERIOD
  <2>1. todo \subseteq Symbols
    BY DEF Inv, TypeOK
  <2> QED BY <1>1, <1>2, <2>1 DEF StampInv
<1>14. PeriodStamp'
  BY <1>1 DEF StampInv, PeriodStamp
<1>15. \E b \in Nat : now' <= b /\ b <= now' + MaxLag /\ period_now' = PeriodAt(b)
  BY <1>1, <1>4
<1>16. now' <= clock' /\ clock' <= now' + MaxLag
  BY <1>1 DEF StampInv
<1> QED BY <1>1, <1>11, <1>12, <1>13, <1>14, <1>15, <1>16 DEF StampInv

LEMMA StampNext ==
  ASSUME PERIOD % SEC = 0, DETACH_TIME + MaxLag + MaxLag < PERIOD
  PROVE  Inv /\ StampInv /\ [Next]_vars => StampInv'
<1> SUFFICES ASSUME Inv, StampInv, [Next]_vars PROVE StampInv'
  OBVIOUS
<1>1. /\ clock \in Nat /\ now \in Nat /\ todo \subseteq Symbols
      /\ now <= clock /\ clock <= now + MaxLag
  BY DEF Inv, TypeOK, StampInv
<1>2. CASE Tick
  <2>1. /\ UNCHANGED <<sdefs, now, period_now, bornTs, todo, pm, sent, pc>>
        /\ clock' = clock + 1 /\ clock - now < MaxLag
    BY <1>2 DEF Tick, collector
  <2>2. now <= clock' /\ clock' <= now + MaxLag
    BY <1>1, <2>1, BoundsAssumption
  <2> QED BY <1>1, <2>1, <2>2, StampQuiet
<1>3. CASE CollectEmpty \/ UNCHANGED vars
  <2>1. /\ UNCHANGED <<clock, sdefs, now, period_now, bornTs, todo, pm, sent>>
        /\ pc' = pc \/ (pc' = "sleep" /\ pc = "publish")
    BY <1>3 DEF CollectEmpty, vars, collector
  <2> QED BY <1>1, <2>1, StampQuiet
<1>4. ASSUME NEW s \in Symbols, NEW q \in Quotes, RecvQuote(s, q) PROVE StampInv'
  <2>1. UNCHANGED <<clock, now, period_now, bornTs, todo, pm, sent, pc>>
    BY <1>4 DEF RecvQuote, collector
  <2> QED BY <1>1, <1>4, <2>1, RecvQuoteFronts, StampQuiet
<1> QED BY <1>2, <1>3, <1>4, StampCollectBegin, StampCollectBorn, StampCollectSymbol,
           StampCollectPublish DEF Next, Collect

(***************************************************************************)
(* The number of a message, taken from the second clock reading of the     *)
(* round, is that of the period its data belongs to, provided periods are  *)
(* whole seconds and the grace time and two delays of the collector fit    *)
(* into one (settings.toml: 1800 ms of 3000 ms, a round every 200 ms).     *)
(***************************************************************************)
THEOREM StampOfPeriod ==
  ASSUME PERIOD % SEC = 0, DETACH_TIME + MaxLag + MaxLag < PERIOD
  PROVE  Spec => []PeriodStamp
<1>1. Init => StampInv
  <2>1. ASSUME Init, NEW s \in Symbols PROVE Len(sdefs[s].linked) = 0
    BY <2>1 DEF Init, NewSymbolDef
  <2>2. Init => now <= clock /\ clock <= now + MaxLag
    BY BoundsAssumption DEF Init
  <2> QED BY <2>1, <2>2 DEF Init, StampInv, PeriodStamp
<1>2. Inv /\ StampInv /\ [Next]_vars => StampInv'
  BY StampNext
<1>3. StampInv => PeriodStamp
  BY DEF StampInv
<1> QED BY <1>1, <1>2, <1>3, InvHolds, PTL DEF Spec
=============================================================================
