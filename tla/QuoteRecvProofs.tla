--------------------------- MODULE QuoteRecvProofs ---------------------------
(***************************************************************************)
(* Machine-checked proofs about QuoteRecv, for any number of symbols,      *)
(* streams, services, events and reconnects.                               *)
(***************************************************************************)
EXTENDS QuoteRecv, TLAPS, FiniteSetTheorems, SequenceTheorems

-----------------------------------------------------------------------------
(* The invariants *)

\* The kind under which messages of a type leave.
KindOf(type) == IF DataEncodeType = "PB" THEN Topic[type] ELSE type

Senders == (Services \X Nat) \cup {Snapper}
Entries == [by : Senders, msg : Messages]
Events  == [stream : Streams, symbol : Symbols, n : Nat]
Frames  == [by : Services \X Nat, event : Events]

\* The services of every stream are those of some order of the symbols.
Opened == services \in [Streams -> {Open(order) : order \in SetToSeqs(Symbols)}]

\* No two services of a stream share a symbol.
Split ==
  \A s, t \in Services : s[1] = t[1] /\ SymbolsOf(s) \cap SymbolsOf(t) # {} => s = t

\* The snapshot manager has no request while its last answer waits.
Unlocked == task # NoTask => ~Blocked(Snapper)

(***************************************************************************)
(* TypeOK is not inductive: the reader that waits for the channel is the   *)
(* only one of its connection, and the snapshot manager takes no request   *)
(* while its last answer waits.                                            *)
(***************************************************************************)
TypeInv ==
  /\ TypeOK
  /\ Opened
  /\ wire \in [Services -> Seq(Events)]
  /\ \A s \in Services : \A i \in DOMAIN wire[s] : wire[s][i].symbol \in SymbolsOf(s)
  /\ late \subseteq Frames
  /\ msgCh \in Seq(Entries)
  /\ Unlocked

\* Message m is one of stream st and symbol sym.
Of(m, st, sym) == m.type = QuoteType[st] /\ m.symbol = sym

\* The kind under which the events of stream st leave.
Kind(st) == KindOf(QuoteType[st])

\* What left is in order, and the exchange has published it.
OutOrder(st, sym) ==
  /\ \A i, j \in DOMAIN out[Kind(st)][sym] :
       i < j => InOrder(via[st][sym], out[Kind(st)][sym][i], out[Kind(st)][sym][j])
  /\ \A i \in DOMAIN out[Kind(st)][sym] : out[Kind(st)][sym][i] \in 1 .. events[st][sym]

\* What is in the channel is in order, also with respect to what left.
QueueOrder(st, sym) ==
  /\ \A i, j \in DOMAIN msgCh :
       i < j /\ Of(msgCh[i].msg, st, sym) /\ Of(msgCh[j].msg, st, sym)
       => InOrder(via[st][sym], msgCh[i].msg.id, msgCh[j].msg.id)
  /\ \A j \in DOMAIN msgCh : Of(msgCh[j].msg, st, sym) =>
       /\ msgCh[j].msg.id \in 1 .. events[st][sym]
       /\ \A i \in DOMAIN out[Kind(st)][sym] :
            InOrder(via[st][sym], out[Kind(st)][sym][i], msgCh[j].msg.id)

\* Number n of stream st and symbol sym may follow what is in the channel and
\* what left, and the exchange has published it.
Newer(gone, queue, newest, sent, st, sym, n) ==
  /\ \A i \in DOMAIN queue :
       Of(queue[i].msg, st, sym) => InOrder(sent[st][sym], queue[i].msg.id, n)
  /\ \A i \in DOMAIN gone[Kind(st)][sym] : InOrder(sent[st][sym], gone[Kind(st)][sym][i], n)
  /\ n \in 1 .. newest[st][sym]

\* What is on a connection was sent on it, is in order, and may follow the rest.
WireOrder(s) ==
  \A j \in DOMAIN wire[s] :
    /\ Newer(out, msgCh, events, via, s[1], wire[s][j].symbol, wire[s][j].n)
    /\ via[s[1]][wire[s][j].symbol][wire[s][j].n] = conn[s]
    /\ \A i \in DOMAIN wire[s] :
         i < j /\ wire[s][i].symbol = wire[s][j].symbol
         => InOrder(via[s[1]][wire[s][j].symbol], wire[s][i].n, wire[s][j].n)

\* So is a frame x in the buffer of a closed connection's reader.
LateOrder(x) ==
  /\ Newer(out, msgCh, events, via, x.event.stream, x.event.symbol, x.event.n)
  /\ via[x.event.stream][x.event.symbol][x.event.n] = x.by[2]
  /\ x.by[2] < conn[x.by[1]]

(***************************************************************************)
(* The events of a connection are in order along the whole way: what left, *)
(* then the channel, then the connection of the one service that has the   *)
(* symbol, or the buffer of its reader once it is closed.                  *)
(***************************************************************************)
OrderInv ==
  /\ \A st \in Streams, sym \in Symbols : OutOrder(st, sym) /\ QueueOrder(st, sym)
  /\ \A s \in Services : WireOrder(s)
  /\ \A x \in late : LateOrder(x)
  /\ \A st \in Streams, sym \in Symbols : Len(via[st][sym]) = events[st][sym]

\* A snapshot of sym that is not older than the connection of its service.
Fresh(sym) == \E id \in base[sym] .. events["inc"][sym] : Passed(SnapShotMessage(sym, id))

\* The request that the manager works on will give a fresh snapshot, or fail.
Coming(sym) ==
  /\ task.symbol = sym
  /\ \/ task.step = "request"
     \/ task.step = "response" /\ base[sym] <= task.id

\* The request of the last connect is under way, was served or failed.
Served(sym) == sym \in failed \/ asked[sym] > 0 \/ Coming(sym) \/ Fresh(sym)

\* Every increment of sym since the last connect is on the connection of
\* service s or in the fan-out.
Kept(s, sym) ==
  \A n \in base[sym] + 1 .. events["inc"][sym] :
    \/ Event("inc", sym, n) \in ToSet(wire[s])
    \/ Passed(QuoteMessage(Event("inc", sym, n)))

(***************************************************************************)
(* BookRebuildable speaks of the moments when no request is under way; the *)
(* invariant follows the request from doSnapShot to the channel.           *)
(***************************************************************************)
BookInv ==
  /\ \A sym \in Symbols : base[sym] <= events["inc"][sym]
  /\ task.step = "response" => task.id <= events["inc"][task.symbol]
  /\ \A s \in Services : \A sym \in SymbolsOf(s) :
       s[1] = "inc" /\ alive[s] => Served(sym) /\ Kept(s, sym)

-----------------------------------------------------------------------------
(* Names of streams, types and topics *)

LEMMA QuoteTypes ==
  \A st \in Streams :
    \/ st = "trade" /\ QuoteType[st] = "Trade"
    \/ st = "depth" /\ QuoteType[st] = "Depth"
    \/ st = "inc" /\ QuoteType[st] = "OrderIncrement"
    \/ st = "kline" /\ QuoteType[st] = "Kline"
    \/ st = "aggtrade" /\ QuoteType[st] = "AggTrade"
<1>1. /\ QuoteType["trade"] = "Trade" /\ QuoteType["depth"] = "Depth"
      /\ QuoteType["inc"] = "OrderIncrement" /\ QuoteType["kline"] = "Kline"
      /\ QuoteType["aggtrade"] = "AggTrade"
  BY DEF QuoteType
<1> QED BY <1>1, StreamsAssumption

LEMMA Topics ==
  /\ Topic["Trade"] = "trade" /\ Topic["Depth"] = "depth" /\ Topic["OrderIncrement"] = "inc"
  /\ Topic["Kline"] = "kline" /\ Topic["AggTrade"] = "aggtrade" /\ Topic["SnapShot"] = "snapshot"
BY DEF Topic

\* The parts of an encoded message, and the kinds there are.
LEMMA EncodedParts ==
  /\ \A m : /\ Encoded(m).kind = KindOf(m.type)
            /\ Encoded(m).symbol = m.symbol
            /\ Encoded(m).id = m.id
  /\ Kinds = {KindOf("SnapShot")} \cup {KindOf(QuoteType[st]) : st \in Streams}
<1>1. \A m : /\ Encoded(m).kind = KindOf(m.type)
             /\ Encoded(m).symbol = m.symbol
             /\ Encoded(m).id = m.id
  BY DEF Encoded, encodePb, encodeGob, KindOf
<1>2. Encoded(SnapShotMessage("none", 0)).kind = KindOf("SnapShot")
  BY <1>1 DEF SnapShotMessage
<1>3. \A st \in Streams :
        Encoded(QuoteMessage(Event(st, "none", 0))).kind = KindOf(QuoteType[st])
  BY <1>1 DEF QuoteMessage, Event
<1> QED BY <1>1, <1>2, <1>3 DEF Kinds

\* Different streams have different types and leave under different kinds.
LEMMA Names ==
  /\ \A st \in Streams : /\ QuoteType[st] \in Types /\ QuoteType[st] # "SnapShot"
                         /\ KindOf(QuoteType[st]) \in Kinds
  /\ \A st, su \in Streams : QuoteType[st] = QuoteType[su] => st = su
  /\ "SnapShot" \in Types
  /\ \A x \in Types : KindOf(x) \in Kinds
  /\ \A x, y \in Types : KindOf(x) = KindOf(y) => x = y
  /\ \A kind \in Kinds \ {"SnapShot", "snapshot"} :
       \E st \in Streams : kind = KindOf(QuoteType[st])
<1>1. \A x \in Types : x \in {"Trade", "Depth", "OrderIncrement", "Kline", "AggTrade", "SnapShot"}
  BY QuoteTypes DEF Types
<1>2. \A x, y \in Types : KindOf(x) = KindOf(y) => x = y
  BY <1>1, Topics DEF KindOf
<1>3. /\ \A st \in Streams : QuoteType[st] # "SnapShot"
      /\ \A st, su \in Streams : QuoteType[st] = QuoteType[su] => st = su
  BY QuoteTypes
<1>4. /\ "SnapShot" \in Types /\ \A st \in Streams : QuoteType[st] \in Types
      /\ \A x \in Types : x = "SnapShot" \/ \E st \in Streams : x = QuoteType[st]
  BY DEF Types
<1>5. \A x \in Types : KindOf(x) \in Kinds
  BY <1>4, EncodedParts
<1>6. KindOf("SnapShot") \in {"SnapShot", "snapshot"}
  BY Topics DEF KindOf
<1>7. \A kind \in Kinds \ {"SnapShot", "snapshot"} :
        \E st \in Streams : kind = KindOf(QuoteType[st])
  BY <1>6, EncodedParts
<1> QED BY <1>2, <1>3, <1>4, <1>5, <1>7

\* A message of a stream, and a snapshot.
LEMMA MessageParts ==
  /\ \A e : /\ QuoteMessage(e).type = QuoteType[e.stream]
            /\ QuoteMessage(e).symbol = e.symbol
            /\ QuoteMessage(e).id = e.n
  /\ \A sym, id : /\ SnapShotMessage(sym, id).type = "SnapShot"
                  /\ SnapShotMessage(sym, id).symbol = sym
                  /\ SnapShotMessage(sym, id).id = id
  /\ \A e \in Events : QuoteMessage(e) \in Messages
  /\ \A sym \in Symbols, id \in Nat : SnapShotMessage(sym, id) \in Messages
<1>1. \A e \in Events : e.stream \in Streams /\ e.symbol \in Symbols /\ e.n \in Nat
  BY DEF Events
<1> QED BY <1>1, Names DEF QuoteMessage, SnapShotMessage, Messages

-----------------------------------------------------------------------------
(* Positions in a sequence that grows at its end or shrinks at its front *)

LEMMA AppendPositions ==
  ASSUME NEW S, NEW seq \in Seq(S), NEW x \in S
  PROVE  /\ Append(seq, x) \in Seq(S)
         /\ Len(seq) \in Nat /\ Len(Append(seq, x)) = Len(seq) + 1
         /\ DOMAIN seq = 1 .. Len(seq) /\ DOMAIN Append(seq, x) = 1 .. Len(seq) + 1
         /\ \A i \in 1 .. Len(seq) : Append(seq, x)[i] = seq[i]
         /\ Append(seq, x)[Len(seq) + 1] = x
OBVIOUS

LEMMA TailPositions ==
  ASSUME NEW S, NEW seq \in Seq(S), seq # <<>>
  PROVE  /\ Tail(seq) \in Seq(S) /\ Head(seq) \in S /\ Head(seq) = seq[1]
         /\ Len(seq) \in Nat \ {0} /\ Len(Tail(seq)) = Len(seq) - 1
         /\ DOMAIN seq = 1 .. Len(seq) /\ DOMAIN Tail(seq) = 1 .. Len(seq) - 1
         /\ \A i \in 1 .. Len(seq) - 1 : Tail(seq)[i] = seq[i + 1]
         /\ 1 \in DOMAIN seq
         /\ \A i \in DOMAIN Tail(seq) : i + 1 \in DOMAIN seq /\ i < i + 1
OBVIOUS

\* A position after one more was added.
LEMMA Grown == \A n \in Nat : /\ n + 1 \in 1 .. n + 1
                              /\ \A i \in 1 .. n : i \in 1 .. n + 1 /\ i < n + 1
                              /\ \A i \in 1 .. n + 1 : i \in 1 .. n \/ i = n + 1
OBVIOUS

-----------------------------------------------------------------------------
(* The symbols of the services *)

Width == MaxSymbolNumPerConn

\* Place j of a list is in slice n, if slices have w places.
Within(w, j, n) == (n - 1) * w < j /\ j <= n * w

\* Place j of the list of symbols is in slice n.
InSlice(j, n) == Within(Width, j, n)

LEMMA Multiples ==
  ASSUME NEW w \in Nat \ {0}, NEW a \in Nat, NEW b \in Nat, a <= b
  PROVE  a * w <= b * w
<1>1. PICK k \in Nat : b = a + k
  <2>1. b - a \in Nat /\ b = a + (b - a)
    OBVIOUS
  <2> QED BY <2>1
<1>2. b * w = a * w + k * w
  BY <1>1
<1>3. k * w \in Nat /\ a * w \in Nat
  OBVIOUS
<1> QED BY <1>2, <1>3

\* Rounding up: the slices reach the end of a list of c places.
LEMMA RoundedUp ==
  ASSUME NEW c \in Nat, NEW w \in Nat \ {0}
  PROVE  (c + w - 1) \div w \in Nat /\ c <= ((c + w - 1) \div w) * w
<1> DEFINE x == c + w - 1
           q == x \div w
<1>1. x \in Nat
  OBVIOUS
<1> HIDE DEF x
<1>2. q \in Nat /\ x < q * w + w
  BY <1>1
<1> HIDE DEF q
<1>3. q * w \in Nat
  BY <1>2
<1>4. c <= q * w
  BY <1>2, <1>3 DEF x
<1> QED BY <1>2, <1>4 DEF q, x

\* A place that the slices reach is in exactly one of them.
LEMMA WithinOne ==
  ASSUME NEW w \in Nat \ {0}, NEW q \in Nat, NEW j \in Nat \ {0}, j <= q * w
  PROVE  /\ \E n \in 1 .. q : Within(w, j, n)
         /\ \A m, n \in 1 .. q : Within(w, j, m) /\ Within(w, j, n) => m = n
<1> DEFINE y == j - 1
           p == y \div w
<1>1. y \in Nat
  OBVIOUS
<1>2. p \in Nat /\ p * w <= y /\ y < p * w + w
  BY <1>1
<1> HIDE DEF p
<1>3. p * w \in Nat /\ (p + 1) * w = p * w + w
  BY <1>2
<1>4. Within(w, j, p + 1)
  <2>1. (p + 1) - 1 = p
    BY <1>2
  <2>2. p * w < j /\ j <= p * w + w
    BY <1>2, <1>3
  <2> QED BY <1>3, <2>1, <2>2 DEF Within
<1>5. p + 1 \in 1 .. q
  <2>1. ~(q <= p)
    <3>1. q <= p => q * w <= p * w
      BY <1>2, Multiples
    <3>2. q * w \in Nat
      OBVIOUS
    <3> QED BY <1>2, <1>3, <3>1, <3>2
  <2> QED BY <1>2, <2>1
<1>6. ASSUME NEW m \in 1 .. q, NEW n \in 1 .. q, m < n
      PROVE  ~(Within(w, j, m) /\ Within(w, j, n))
  <2>1. m \in Nat /\ n - 1 \in Nat /\ m <= n - 1
    BY <1>6
  <2>2. m * w <= (n - 1) * w
    BY <2>1, Multiples
  <2>3. m * w \in Nat /\ (n - 1) * w \in Nat
    BY <2>1
  <2> QED BY <2>2, <2>3 DEF Within
<1>7. \A m, n \in 1 .. q : Within(w, j, m) /\ Within(w, j, n) => m = n
  BY <1>6
<1> QED BY <1>4, <1>5, <1>7

LEMMA SlicesReach ==
  /\ Cardinality(Symbols) \in Nat
  /\ NServices \in Nat
  /\ Cardinality(Symbols) <= NServices * Width
<1>1. Cardinality(Symbols) \in Nat /\ Width \in Nat \ {0}
  BY SymbolsAssumption, SplitAssumption, FS_CardinalityType DEF Width
<1>2. NServices = (Cardinality(Symbols) + Width - 1) \div Width
  BY DEF NServices, Width
<1> HIDE DEF Width
<1> QED BY <1>1, <1>2, RoundedUp

\* Every place is in exactly one slice.
LEMMA SliceOf ==
  ASSUME NEW j \in 1 .. Cardinality(Symbols)
  PROVE  /\ \E n \in 1 .. NServices : InSlice(j, n)
         /\ \A m, n \in 1 .. NServices : InSlice(j, m) /\ InSlice(j, n) => m = n
<1>1. /\ Width \in Nat \ {0} /\ NServices \in Nat
      /\ j \in Nat \ {0} /\ j <= NServices * Width
  <2>1. Width \in Nat \ {0} /\ j \in Nat \ {0} /\ j <= Cardinality(Symbols)
    BY SlicesReach, SplitAssumption DEF Width
  <2>2. NServices * Width \in Nat
    BY <2>1, SlicesReach
  <2> QED BY <2>1, <2>2, SlicesReach
<1> HIDE DEF Width
<1> QED BY <1>1, WithinOne DEF InSlice

LEMMA SubSeqSet ==
  ASSUME NEW S, NEW seq \in Seq(S), NEW a \in Nat \ {0}, NEW b \in Nat, b <= Len(seq)
  PROVE  ToSet(SubSeq(seq, a, b)) = {seq[j] : j \in a .. b}
<1> DEFINE sub == SubSeq(seq, a, b)
<1>1. /\ \A i \in DOMAIN sub : a + i - 1 \in a .. b /\ sub[i] = seq[a + i - 1]
      /\ \A j \in a .. b : j - a + 1 \in DOMAIN sub /\ sub[j - a + 1] = seq[j]
  <2>1. CASE a <= b
    <3>1. /\ DOMAIN sub = 1 .. b - a + 1
          /\ \A i \in 1 .. b - a + 1 : sub[i] = seq[a + i - 1]
      BY <2>1
    <3> QED BY <3>1
  <2>2. CASE b < a
    <3>1. DOMAIN sub = {} /\ a .. b = {}
      BY <2>2
    <3> QED BY <3>1
  <2> QED BY <2>1, <2>2
<1> HIDE DEF sub
<1>2. ToSet(sub) = {seq[j] : j \in a .. b}
  <2> DEFINE I == a .. b
  <2>1. /\ \A i \in DOMAIN sub : \E j \in I : sub[i] = seq[j]
        /\ \A j \in I : \E i \in DOMAIN sub : sub[i] = seq[j]
    BY <1>1
  <2> HIDE DEF I
  <2>2. {sub[i] : i \in DOMAIN sub} = {seq[j] : j \in I}
    BY <2>1
  <2> QED BY <2>2 DEF ToSet, I
<1> QED BY <1>2 DEF sub

\* Every list is cut well, whatever its length and the size of the slices.
LEMMA EveryListCut ==
  ASSUME NEW n \in Nat, NEW size \in Nat \ {0}
  PROVE  CutsWell(n, size)
<1> DEFINE list   == [x \in 1 .. n |-> x]
           slices == splitArrayBySliceSize(list, size)
           q      == (n + size - 1) \div size
<1>1. list \in Seq(1 .. n) /\ Len(list) = n /\ \A x \in 1 .. n : list[x] = x
  OBVIOUS
<1>2. q \in Nat /\ n <= q * size
  BY RoundedUp
<1>3. DOMAIN slices = 1 .. q
  BY <1>1 DEF splitArrayBySliceSize
<1>4. ASSUME NEW i \in 1 .. q
      PROVE  /\ \A x \in 1 .. n : x \in ToSet(slices[i]) <=> Within(size, x, i)
             /\ Len(slices[i]) <= size
  <2> DEFINE lo == (i - 1) * size
             hi == i * size
             b  == IF hi > n THEN n ELSE hi
  <2>1. slices[i] = SubSeq(list, lo + 1, b)
    BY <1>1, <1>3 DEF splitArrayBySliceSize
  <2>2. lo \in Nat /\ hi \in Nat /\ hi = lo + size
    <3>1. i \in Nat /\ i - 1 \in Nat
      BY <1>2
    <3> QED BY <3>1
  <2>3. \A x : Within(size, x, i) <=> lo < x /\ x <= hi
    BY DEF Within
  <2> HIDE DEF lo, hi, list, slices
  <2>4. lo + 1 \in Nat \ {0} /\ b \in Nat /\ b <= n /\ b <= lo + size
    BY <2>2
  <2>5. ToSet(slices[i]) = {list[x] : x \in lo + 1 .. b}
    <3> DEFINE a == lo + 1
    <3>1. a \in Nat \ {0} /\ b \in Nat /\ b <= Len(list)
      BY <1>1, <2>4
    <3> HIDE DEF a, b
    <3>2. ToSet(SubSeq(list, a, b)) = {list[x] : x \in a .. b}
      BY <1>1, <3>1, SubSeqSet
    <3> QED BY <2>1, <3>2 DEF a
  <2>6. ASSUME NEW x \in 1 .. n PROVE x \in ToSet(slices[i]) <=> lo < x /\ x <= hi
    <3>1. x \in lo + 1 .. b <=> lo < x /\ x <= hi
      BY <2>2, <2>4
    <3>2. \A y \in lo + 1 .. b : y \in 1 .. n
      BY <2>2, <2>4
    <3> HIDE DEF b
    <3>3. x \in ToSet(slices[i]) <=> x \in lo + 1 .. b
      BY <1>1, <2>5, <3>2
    <3> QED BY <3>1, <3>3
  <2>7. Len(slices[i]) <= size
    <3> HIDE DEF b
    <3>1. CASE lo + 1 <= b
      <4>1. Len(SubSeq(list, lo + 1, b)) = b - (lo + 1) + 1
        BY <1>1, <2>4, <3>1
      <4> QED BY <2>1, <2>2, <2>4, <4>1
    <3>2. CASE b < lo + 1
      <4>1. Len(SubSeq(list, lo + 1, b)) = 0
        BY <1>1, <2>4, <3>2
      <4>2. Len(slices[i]) = 0
        BY <2>1, <4>1
      <4> QED BY <4>2
    <3> QED BY <2>2, <2>4, <3>1, <3>2
  <2> QED BY <2>3, <2>6, <2>7
<1> HIDE DEF slices, q
<1>5. ASSUME NEW x \in 1 .. n
      PROVE  \E i \in DOMAIN slices : {j \in DOMAIN slices : x \in ToSet(slices[j])} = {i}
  <2>1. x \in Nat \ {0} /\ x <= q * size
    <3>1. q * size \in Nat
      BY <1>2
    <3> QED BY <1>2, <3>1
  <2>2. PICK i \in 1 .. q : Within(size, x, i)
    BY <1>2, <2>1, WithinOne
  <2>3. \A j \in 1 .. q : Within(size, x, j) => j = i
    BY <1>2, <2>1, <2>2, WithinOne
  <2> QED BY <1>3, <1>4, <2>2, <2>3
<1> QED BY <1>3, <1>4, <1>5 DEF CutsWell, slices

\* The list that a manager gets from the keys of a map.
LEMMA OrderFacts ==
  ASSUME NEW order \in SetToSeqs(Symbols)
  PROVE  /\ order \in Seq(Symbols) /\ Len(order) = Cardinality(Symbols)
         /\ \A i, j \in 1 .. Cardinality(Symbols) : order[i] = order[j] => i = j
         /\ \A sym \in Symbols : \E j \in 1 .. Cardinality(Symbols) : order[j] = sym
<1> DEFINE D == 1 .. Cardinality(Symbols)
<1>1. order \in [D -> Symbols] /\ \A i, j \in D : i # j => order[i] # order[j]
  <2>1. SetToSeqs(Symbols) = {f \in [D -> Symbols] : \A i, j \in D : i # j => f[i] # f[j]}
    BY DEF SetToSeqs
  <2> HIDE DEF D
  <2> QED BY <2>1
<1>2. Cardinality(Symbols) \in Nat
  BY SlicesReach
<1>3. order \in Seq(Symbols) /\ Len(order) = Cardinality(Symbols)
  BY <1>1, <1>2
<1>4. order \in Injection(D, Symbols)
  <2> HIDE DEF D
  <2> QED BY <1>1 DEF Injection, IsInjective
<1>5. Cardinality(D) = Cardinality(Symbols)
  BY <1>2, FS_Interval
<1>6. order \in Surjection(D, Symbols)
  BY <1>4, <1>5, SymbolsAssumption, FS_Injection
<1>7. \A sym \in Symbols : \E j \in D : order[j] = sym
  <2> HIDE DEF D
  <2> QED BY <1>6 DEF Surjection
<1> QED BY <1>1, <1>3, <1>7

\* The symbols of service n of a manager.
LEMMA OpenSlices ==
  ASSUME NEW order \in SetToSeqs(Symbols)
  PROVE  /\ Open(order) \in Seq(SUBSET Symbols)
         /\ \A n \in 1 .. NServices : \A sym :
              sym \in Open(order)[n] <=>
                \E j \in 1 .. Cardinality(Symbols) : order[j] = sym /\ InSlice(j, n)
         /\ \A n \in 1 .. NServices : Cardinality(Open(order)[n]) <= Width
<1> DEFINE C == Cardinality(Symbols)
<1>1. order \in Seq(Symbols) /\ Len(order) = C /\ C \in Nat /\ Width \in Nat \ {0}
      /\ NServices \in Nat /\ NServices = (C + Width - 1) \div Width
  BY OrderFacts, SlicesReach, SplitAssumption DEF NServices, Width
<1> HIDE DEF C
<1>2. ASSUME NEW n \in 1 .. NServices
      PROVE  /\ Open(order)[n] \in SUBSET Symbols
             /\ \A sym : sym \in Open(order)[n] <=> \E j \in 1 .. C : order[j] = sym /\ InSlice(j, n)
             /\ Cardinality(Open(order)[n]) <= Width
  <2> DEFINE a == (n - 1) * Width + 1
             b == IF n * Width > Len(order) THEN Len(order) ELSE n * Width
             I == a .. b
  <2>1. Open(order)[n] = ToSet(SubSeq(order, a, b))
    <3>1. splitArrayBySliceSize(order, Width)[n] = SubSeq(order, a, b)
      BY <1>1 DEF splitArrayBySliceSize
    <3> QED BY <3>1 DEF Open, Width
  <2>2. (n - 1) * Width \in Nat /\ n * Width \in Nat /\ n * Width = (n - 1) * Width + Width
    <3> HIDE DEF Width
    <3>1. n \in Nat /\ n - 1 \in Nat
      BY <1>1
    <3> QED BY <1>1, <3>1
  <2>3. /\ a \in Nat \ {0} /\ b \in Nat /\ b <= Len(order) /\ b <= n * Width
        /\ a = (n - 1) * Width + 1 /\ (b = C \/ b = n * Width)
    <3> HIDE DEF Width
    <3> QED BY <1>1, <2>2
  <2>4. Open(order)[n] = {order[j] : j \in I}
    <3> HIDE DEF a, b
    <3>1. ToSet(SubSeq(order, a, b)) = {order[j] : j \in a .. b}
      BY <1>1, <2>3, SubSeqSet
    <3> QED BY <2>1, <3>1
  <2>5. \A j \in Int : j \in I <=> j \in 1 .. C /\ InSlice(j, n)
    <3> DEFINE lo == (n - 1) * Width
               hi == n * Width
    <3>1. /\ lo \in Nat /\ hi \in Nat /\ a = lo + 1 /\ b \in Nat
          /\ b = IF hi > C THEN C ELSE hi
          /\ \A j : InSlice(j, n) <=> lo < j /\ j <= hi
      BY <1>1, <2>2 DEF InSlice, Within
    <3> HIDE DEF a, b, lo, hi
    <3>2. \A j \in Int : j \in a .. b <=> j \in 1 .. C /\ lo < j /\ j <= hi
      BY <1>1, <3>1
    <3> QED BY <3>1, <3>2
  <2>6. I \subseteq 1 .. C /\ I \subseteq Int /\ IsFiniteSet(I) /\ Cardinality(I) <= Width
    <3> HIDE DEF a, b
    <3>0. a \in Int /\ b \in Int
      BY <2>3
    <3>1. I \subseteq Int /\ IsFiniteSet(I) /\ Cardinality(I) = IF a > b THEN 0 ELSE b - a + 1
      <4>1. IsFiniteSet(I) /\ Cardinality(I) = IF a > b THEN 0 ELSE b - a + 1
        BY <3>0, FS_Interval
      <4>2. I \subseteq Int
        BY <3>0
      <4> QED BY <4>1, <4>2
    <3>2. I \subseteq 1 .. C
      BY <2>5, <3>1
    <3>3. (IF a > b THEN 0 ELSE b - a + 1) <= Width
      <4> DEFINE lo == (n - 1) * Width
                 hi == n * Width
      <4>1. lo \in Nat /\ hi = lo + Width /\ a = lo + 1 /\ b <= hi
        BY <2>2, <2>3
      <4> HIDE DEF lo, hi
      <4> QED BY <1>1, <2>3, <4>1
    <3> QED BY <3>1, <3>2, <3>3
  <2> HIDE DEF I
  <2>7. \A j \in I : order[j] \in Symbols
    BY <1>1, <2>6
  <2>8. Cardinality({order[j] : j \in I}) <= Cardinality(I)
    <3> DEFINE T == {order[j] : j \in I}
               f == [j \in I |-> order[j]]
    <3>1. f \in Surjection(I, T)
      BY DEF Surjection
    <3> HIDE DEF f, T
    <3>2. Cardinality(T) <= Cardinality(I)
      BY <2>6, <3>1, FS_Surjection
    <3> QED BY <3>2 DEF T
  <2>9. Cardinality(Open(order)[n]) <= Width
    <3>1. Cardinality(I) \in Nat /\ Cardinality({order[j] : j \in I}) \in Nat
      <4>1. IsFiniteSet({order[j] : j \in I})
        <5>1. {order[j] : j \in I} \in SUBSET Symbols
          BY <2>7
        <5> QED BY <5>1, SymbolsAssumption, FS_Subset
      <4> QED BY <2>6, <4>1, FS_CardinalityType
    <3> QED BY <1>1, <2>4, <2>6, <2>8, <3>1
  <2>10. \A sym : sym \in Open(order)[n] <=> \E j \in 1 .. C : order[j] = sym /\ InSlice(j, n)
    BY <2>4, <2>5, <2>6
  <2> QED BY <2>4, <2>7, <2>9, <2>10
<1>3. Open(order) \in [1 .. NServices -> SUBSET Symbols]
  <2>1. Open(order) = [n \in 1 .. NServices |-> Open(order)[n]]
    BY DEF Open
  <2> QED BY <1>2, <2>1
<1>4. Open(order) \in Seq(SUBSET Symbols)
  BY <1>1, <1>3
<1> QED BY <1>2, <1>4 DEF C

\* What the split of the symbols gives to each stream.
LEMMA OpenedStream ==
  ASSUME Opened, NEW st \in Streams
  PROVE  /\ services[st] \in Seq(SUBSET Symbols)
         /\ \A n \in 1 .. NServices : /\ services[st][n] \subseteq Symbols
                                      /\ Cardinality(services[st][n]) <= Width
         /\ \A sym \in Symbols : \E n \in 1 .. NServices : sym \in services[st][n]
         /\ \A m, n \in 1 .. NServices : \A sym :
              sym \in services[st][m] /\ sym \in services[st][n] => m = n
<1>1. PICK order \in SetToSeqs(Symbols) : services[st] = Open(order)
  <2>1. services[st] \in {Open(order) : order \in SetToSeqs(Symbols)}
    BY DEF Opened
  <2> QED BY <2>1
<1> DEFINE C == Cardinality(Symbols)
           list == Open(order)
<1>2. /\ list \in Seq(SUBSET Symbols)
      /\ \A n \in 1 .. NServices : \A sym :
           sym \in list[n] <=> \E j \in 1 .. C : order[j] = sym /\ InSlice(j, n)
      /\ \A n \in 1 .. NServices : Cardinality(list[n]) <= Width
  BY OpenSlices
<1>3. /\ order \in Seq(Symbols) /\ Len(order) = C
      /\ \A i, j \in 1 .. C : order[i] = order[j] => i = j
      /\ \A sym \in Symbols : \E j \in 1 .. C : order[j] = sym
  BY OrderFacts
<1>4. /\ \A j \in 1 .. C : \E n \in 1 .. NServices : InSlice(j, n)
      /\ \A j \in 1 .. C : \A m, n \in 1 .. NServices : InSlice(j, m) /\ InSlice(j, n) => m = n
  BY SliceOf
<1>5. \A j \in 1 .. C : order[j] \in Symbols
  BY <1>3
<1> HIDE DEF C, list
<1>6. \A n \in 1 .. NServices : list[n] \subseteq Symbols
  BY <1>2, <1>5
<1>7. \A sym \in Symbols : \E n \in 1 .. NServices : sym \in list[n]
  BY <1>2, <1>3, <1>4
<1>8. \A m, n \in 1 .. NServices : \A sym : sym \in list[m] /\ sym \in list[n] => m = n
  BY <1>2, <1>3, <1>4
<1> QED BY <1>1, <1>2, <1>6, <1>7, <1>8 DEF list

LEMMA OpenedFacts ==
  ASSUME Opened
  PROVE  /\ services \in [Streams -> Seq(SUBSET Symbols)]
         /\ \A s \in Services : SymbolsOf(s) \subseteq Symbols
         /\ Split
<1>1. services \in [Streams -> Seq(SUBSET Symbols)]
  <2>1. services = [st \in Streams |-> services[st]]
    BY DEF Opened
  <2>2. \A st \in Streams : services[st] \in Seq(SUBSET Symbols)
    BY OpenedStream
  <2> QED BY <2>1, <2>2
<1>2. ASSUME NEW s \in Services
      PROVE  /\ s[1] \in Streams /\ s[2] \in 1 .. NServices /\ s = <<s[1], s[2]>>
             /\ SymbolsOf(s) = services[s[1]][s[2]]
  BY DEF Services, SymbolsOf
<1>3. \A s \in Services : SymbolsOf(s) \subseteq Symbols
  BY <1>2, OpenedStream
<1>4. ASSUME NEW s \in Services, NEW t \in Services, s[1] = t[1], NEW sym \in SymbolsOf(s),
             sym \in SymbolsOf(t)
      PROVE  s = t
  <2>1. s[2] = t[2]
    BY <1>2, <1>4, OpenedStream
  <2> QED BY <1>2, <1>4, <2>1
<1>5. Split
  BY <1>4 DEF Split
<1> QED BY <1>1, <1>3, <1>5

\* The services are opened once: no step changes them.
LEMMA OpenedHolds == Spec => []Opened
<1>1. Init => Opened
  BY DEF Init, Opened
<1>2. Opened /\ [Next]_vars => Opened'
  <2> SUFFICES ASSUME Opened, [Next]_vars PROVE services' = services
    BY DEF Opened
  <2>1. ASSUME NEW s \in Services, Service(s) \/ Lost(s) \/ \E sym \in Symbols : Publish(s, sym)
        PROVE  services' = services
    BY <2>1 DEF Service, Connect, ConnectInc, Reconnect, Handler, Lost, Publish
  <2>2. CASE FanOut
    BY <2>2 DEF FanOut, services_
  <2>3. CASE Snapshot
    BY <2>3 DEF Snapshot, SnapTimer, SnapLock, SnapTask, SnapResponse, SnapError, SnapSend, services_
  <2>4. CASE UNCHANGED vars
    BY <2>4 DEF vars, services_
  <2>5. ASSUME NEW x \in late, LateHandler(x) PROVE services' = services
    BY <2>5 DEF LateHandler
  <2> QED BY <2>1, <2>2, <2>3, <2>4, <2>5 DEF Next
<1> QED BY <1>1, <1>2, PTL DEF Spec

(***************************************************************************)
(* splitArrayBySliceSize and the managers give every symbol of every       *)
(* stream to exactly one service, and no service more symbols than a       *)
(* connection may carry, for every list of symbols and every slice size.   *)
(***************************************************************************)
THEOREM EverySymbolSubscribed == Spec => []Subscribed
<1>1. ASSUME Opened PROVE Subscribed
  <2>0. SplitsWell
    <3>1. \A size \in 1 .. MaxList : size \in Nat \ {0}
      BY RecvAssumption
    <3>2. \A n \in 0 .. MaxList : n \in Nat
      BY RecvAssumption
    <3> QED BY <3>1, <3>2, EveryListCut DEF SplitsWell
  <2> SUFFICES ASSUME NEW st \in Streams
               PROVE  /\ \A sym \in Symbols : \E i \in 1 .. NServices :
                           {j \in 1 .. NServices : sym \in SymbolsOf(<<st, j>>)} = {i}
                      /\ \A i \in 1 .. NServices : Cardinality(services[st][i]) <= MaxSymbolNumPerConn
    BY <2>0 DEF Subscribed
  <2>1. \A j : SymbolsOf(<<st, j>>) = services[st][j]
    BY DEF SymbolsOf
  <2>2. \A i \in 1 .. NServices : Cardinality(services[st][i]) <= MaxSymbolNumPerConn
    BY <1>1, OpenedStream DEF Width
  <2>3. ASSUME NEW sym \in Symbols
        PROVE  \E i \in 1 .. NServices :
                 {j \in 1 .. NServices : sym \in SymbolsOf(<<st, j>>)} = {i}
    <3>1. PICK i \in 1 .. NServices : sym \in services[st][i]
      BY <1>1, OpenedStream
    <3>2. \A j \in 1 .. NServices : sym \in services[st][j] => j = i
      BY <1>1, <3>1, OpenedStream
    <3> QED BY <2>1, <3>1, <3>2
  <2> QED BY <2>2, <2>3
<1> QED BY <1>1, OpenedHolds, PTL

-----------------------------------------------------------------------------
(* The channel and what leaves *)

LEMMA SnapperApart == /\ Snapper \in Senders
                      /\ \A s \in Services, n \in Nat : <<s, n>> \in Senders /\ <<s, n>> # Snapper
<1>1. ASSUME NEW s \in Services PROVE s # <<"snapshot", 0>>
  <2>1. s[1] \in Streams
    BY DEF Services
  <2>2. s[1] # "snapshot"
    BY <2>1, StreamsAssumption
  <2> QED BY <2>2
<1> QED BY <1>1 DEF Snapper, Senders

\* One more message: its sender is the only one that may be blocked now.
LEMMA ChannelAppend ==
  ASSUME msgCh \in Seq(Entries), NEW e \in Entries, msgCh' = Append(msgCh, e), ~Blocked(e.by),
         \A i, j \in ChanCap + 1 .. Len(msgCh) : msgCh[i].by = msgCh[j].by => i = j
  PROVE  /\ msgCh' \in Seq(Entries)
         /\ \A i, j \in ChanCap + 1 .. Len(msgCh') : msgCh'[i].by = msgCh'[j].by => i = j
         /\ \A by : Blocked(by)' => Blocked(by) \/ by = e.by
<1> DEFINE n == Len(msgCh)
           I == ChanCap + 1 .. n
<1>1. /\ msgCh' \in Seq(Entries) /\ n \in Nat /\ Len(msgCh') = n + 1
      /\ \A i \in 1 .. n : msgCh'[i] = msgCh[i]
      /\ msgCh'[n + 1] = e
  BY AppendPositions
<1>2. \A i \in I : msgCh'[i] = msgCh[i] /\ msgCh[i].by # e.by
  <2>1. \A i \in I : i \in 1 .. n
    BY <1>1, ChanAssumption
  <2> QED BY <1>1, <2>1 DEF Blocked
<1>3. \A i \in ChanCap + 1 .. n + 1 : i \in I \/ i = n + 1
  BY <1>1, ChanAssumption
<1> HIDE DEF n
<1>4. ASSUME NEW i \in ChanCap + 1 .. n + 1, NEW j \in ChanCap + 1 .. n + 1,
             msgCh'[i].by = msgCh'[j].by
      PROVE  i = j
  <2>1. CASE i \in I /\ j \in I
    BY <1>2, <1>4, <2>1 DEF n
  <2>2. CASE i = n + 1 /\ j \in I
    BY <1>1, <1>2, <1>4, <2>2
  <2>3. CASE i \in I /\ j = n + 1
    BY <1>1, <1>2, <1>4, <2>3
  <2> QED BY <1>3, <2>1, <2>2, <2>3
<1>5. ASSUME NEW by, Blocked(by)' PROVE Blocked(by) \/ by = e.by
  <2>1. PICK i \in ChanCap + 1 .. n + 1 : msgCh'[i].by = by
    BY <1>1, <1>5 DEF Blocked
  <2> QED BY <1>1, <1>2, <1>3, <2>1 DEF Blocked, n
<1> QED BY <1>1, <1>4, <1>5

\* One message less: nobody is blocked who was not.
LEMMA ChannelTail ==
  ASSUME msgCh \in Seq(Entries), msgCh # <<>>, msgCh' = Tail(msgCh),
         \A i, j \in ChanCap + 1 .. Len(msgCh) : msgCh[i].by = msgCh[j].by => i = j
  PROVE  /\ msgCh' \in Seq(Entries)
         /\ \A i, j \in ChanCap + 1 .. Len(msgCh') : msgCh'[i].by = msgCh'[j].by => i = j
         /\ \A by : Blocked(by)' => Blocked(by)
<1> DEFINE n == Len(msgCh)
           I == ChanCap + 1 .. n
           J == ChanCap + 1 .. n - 1
<1>1. /\ msgCh' \in Seq(Entries) /\ n \in Nat \ {0} /\ Len(msgCh') = n - 1
      /\ \A i \in 1 .. n - 1 : msgCh'[i] = msgCh[i + 1]
  BY TailPositions
<1>2. \A i \in J : i \in 1 .. n - 1 /\ i + 1 \in I /\ i \in Int
  BY <1>1, ChanAssumption
<1> HIDE DEF n
<1>3. \A i \in J : msgCh'[i] = msgCh[i + 1]
  BY <1>1, <1>2
<1>4. ASSUME NEW i \in J, NEW j \in J, msgCh'[i].by = msgCh'[j].by PROVE i = j
  <2>1. i + 1 = j + 1
    BY <1>2, <1>3, <1>4 DEF n
  <2> QED BY <1>2, <2>1
<1>5. ASSUME NEW by, Blocked(by)' PROVE Blocked(by)
  <2>1. PICK i \in J : msgCh'[i].by = by
    BY <1>1, <1>5 DEF Blocked
  <2> QED BY <1>2, <1>3, <2>1 DEF Blocked, n
<1> QED BY <1>1, <1>4, <1>5

\* What leaves with a message.
LEMMA FanoutParts ==
  ASSUME out \in [Kinds -> [Symbols -> Seq(Nat)]], NEW m \in Messages
  PROVE  /\ fanout(m) \in [Kinds -> [Symbols -> Seq(Nat)]]
         /\ \A x \in Types, sym \in Symbols :
              fanout(m)[KindOf(x)][sym] =
                IF DataEncodeType \in {"GOB", "PB"} /\ x = m.type /\ sym = m.symbol
                THEN Append(out[KindOf(x)][sym], m.id) ELSE out[KindOf(x)][sym]
<1> DEFINE k == KindOf(m.type)
<1>1. m.type \in Types /\ m.symbol \in Symbols /\ m.id \in Nat
  BY DEF Messages
<1>2. k \in Kinds /\ \A x \in Types : KindOf(x) \in Kinds /\ (KindOf(x) = k <=> x = m.type)
  BY <1>1, Names
<1>3. fanout(m) = IF DataEncodeType \in {"GOB", "PB"}
                  THEN [out EXCEPT ![k][m.symbol] = Append(@, m.id)] ELSE out
  BY EncodedParts DEF fanout
<1>4. out[k][m.symbol] \in Seq(Nat) /\ Append(out[k][m.symbol], m.id) \in Seq(Nat)
  BY <1>1, <1>2
<1> HIDE DEF k
<1> QED BY <1>1, <1>2, <1>3, <1>4

-----------------------------------------------------------------------------
(* Types *)

\* The parts of TypeInv that most steps leave alone.
ServiceType ==
  /\ Opened
  /\ services \in [Streams -> Seq(SUBSET Symbols)]
  /\ events \in [Streams -> [Symbols -> Nat]]
  /\ alive \in [Services -> BOOLEAN]
  /\ conn \in [Services -> Nat]
  /\ wire \in [Services -> Seq(Events)]
  /\ \A s \in Services : \A i \in DOMAIN wire[s] :
       wire[s][i].stream = s[1] /\ wire[s][i].symbol \in SymbolsOf(s)

LateType ==
  /\ late \subseteq Frames
  /\ \A x \in late : /\ x.event.stream = x.by[1][1]
                     /\ x.event.symbol \in SymbolsOf(x.by[1])
  /\ via \in [Streams -> [Symbols -> Seq(Nat)]]

ChannelType ==
  /\ msgCh \in Seq(Entries)
  /\ \A i, j \in ChanCap + 1 .. Len(msgCh) : msgCh[i].by = msgCh[j].by => i = j
  /\ out \in [Kinds -> [Symbols -> Seq(Nat)]]

SnapType ==
  /\ asked \in [Symbols -> Nat]
  /\ task \in [step : {"request", "response"}, symbol : Symbols, id : Nat] \cup {NoTask}
  /\ timers \in Nat
  /\ base \in [Symbols -> Nat]
  /\ failed \subseteq Symbols

LEMMA TypeParts ==
  TypeInv <=> ServiceType /\ LateType /\ ChannelType /\ SnapType /\ Unlocked
<1>1. msgCh \in Seq(Entries) => \A i \in DOMAIN msgCh : msgCh[i].msg \in Messages
  <2>1. \A e \in Entries : e.msg \in Messages
    BY DEF Entries
  <2>2. msgCh \in Seq(Entries) => \A i \in DOMAIN msgCh : msgCh[i] \in Entries
    OBVIOUS
  <2> QED BY <2>1, <2>2
<1>2. \A x \in Frames : x.by[1] \in Services /\ x.by[2] \in Nat
  BY DEF Frames
<1>3. TypeInv => ServiceType /\ LateType /\ ChannelType /\ SnapType /\ Unlocked
  BY DEF TypeInv, TypeOK, ServiceType, LateType, ChannelType, SnapType
<1>4. ServiceType /\ LateType /\ ChannelType /\ SnapType /\ Unlocked => TypeInv
  BY <1>1, <1>2 DEF TypeInv, TypeOK, ServiceType, LateType, ChannelType, SnapType
<1> QED BY <1>3, <1>4

\* Most steps leave the frames of closed connections alone.
LEMMA LateSame ==
  ASSUME TypeInv, UNCHANGED <<services, late, via>> PROVE LateType'
<1>1. LateType
  BY TypeParts
<1> QED BY <1>1 DEF LateType, SymbolsOf

LEMMA TypeInit == Init => TypeInv
<1> SUFFICES ASSUME Init PROVE TypeInv
  OBVIOUS
<1>1. Opened
  BY DEF Init, Opened
<1>2. ServiceType
  BY <1>1, OpenedFacts DEF Init, ServiceType
<1>3. ChannelType
  BY ChanAssumption DEF Init, ChannelType
<1>4. SnapType
  BY DEF Init, SnapType
<1>5. Unlocked
  BY DEF Init, Unlocked
<1>6. LateType
  BY DEF Init, LateType
<1> QED BY <1>2, <1>3, <1>4, <1>5, <1>6, TypeParts

\* A service is a stream and a number.
LEMMA ServiceParts ==
  \A s \in Services : s[1] \in Streams /\ s[2] \in 1 .. NServices
BY DEF Services

LEMMA IncStream == "inc" \in Streams
BY StreamsAssumption

\* A connection with one more event, or with none.
LEMMA WireChange ==
  ASSUME ServiceType, services' = services, NEW s \in Services, NEW seq \in Seq(Events),
         wire' = [wire EXCEPT ![s] = seq],
         \A i \in DOMAIN seq : seq[i].stream = s[1] /\ seq[i].symbol \in SymbolsOf(s)
  PROVE  /\ wire' \in [Services -> Seq(Events)]
         /\ \A t \in Services : \A i \in DOMAIN wire'[t] :
              wire'[t][i].stream = t[1] /\ wire'[t][i].symbol \in SymbolsOf(t)'
<1>1. wire \in [Services -> Seq(Events)]
  BY DEF ServiceType
<1>2. wire' \in [Services -> Seq(Events)]
  BY <1>1
<1>3. ASSUME NEW t \in Services, NEW i \in DOMAIN wire'[t]
      PROVE  wire'[t][i].stream = t[1] /\ wire'[t][i].symbol \in SymbolsOf(t)'
  <2>0. SymbolsOf(t)' = SymbolsOf(t)
    BY DEF SymbolsOf
  <2>1. CASE t = s
    BY <1>1, <1>3, <2>0, <2>1
  <2>2. CASE t # s
    <3>1. wire'[t] = wire[t]
      BY <1>1, <2>2
    <3> QED BY <1>3, <2>0, <3>1 DEF ServiceType
  <2> QED BY <2>1, <2>2
<1> QED BY <1>2, <1>3

LEMMA TypePublish ==
  ASSUME TypeInv, NEW s \in Services, NEW sym \in Symbols, Publish(s, sym)
  PROVE  TypeInv'
<1>1. ServiceType /\ LateType /\ ChannelType /\ SnapType /\ Unlocked
  BY TypeParts
<1>2. /\ sym \in SymbolsOf(s)
      /\ events' = [events EXCEPT ![s[1]][sym] = @ + 1]
      /\ via' = [via EXCEPT ![s[1]][sym] = Append(@, conn[s])]
      /\ UNCHANGED <<services, alive, conn, late, msgCh, out, asked, task, timers, failed, base>>
  BY DEF Publish, snapshots
<1> DEFINE e == Event(s[1], sym, events[s[1]][sym] + 1)
<1>3. e \in Events /\ e.stream = s[1] /\ e.symbol = sym
  BY <1>1, ServiceParts DEF ServiceType, Event, Events
<1>4. events' \in [Streams -> [Symbols -> Nat]]
  <2>1. s[1] \in Streams /\ events \in [Streams -> [Symbols -> Nat]]
    BY <1>1, ServiceParts DEF ServiceType
  <2>2. events[s[1]][sym] + 1 \in Nat
    BY <2>1
  <2> QED BY <1>2, <2>1, <2>2
<1> HIDE DEF e
<1>5. /\ wire' \in [Services -> Seq(Events)]
      /\ \A t \in Services : \A i \in DOMAIN wire'[t] :
           wire'[t][i].stream = t[1] /\ wire'[t][i].symbol \in SymbolsOf(t)'
  <2>1. CASE alive[s]
    <3> DEFINE old == wire[s]
               seq == Append(old, e)
    <3>1. old \in Seq(Events)
      BY <1>1 DEF ServiceType
    <3>2. wire' = [wire EXCEPT ![s] = seq]
      BY <2>1 DEF Publish, e
    <3>3. \A i \in DOMAIN old : old[i].stream = s[1] /\ old[i].symbol \in SymbolsOf(s)
      BY <1>1 DEF ServiceType
    <3> HIDE DEF old
    <3>4. seq \in Seq(Events) /\ \A i \in DOMAIN seq : (i \in DOMAIN old /\ seq[i] = old[i]) \/ seq[i] = e
      BY <1>3, <3>1, AppendPositions, Grown
    <3> HIDE DEF seq
    <3>5. \A i \in DOMAIN seq : seq[i].stream = s[1] /\ seq[i].symbol \in SymbolsOf(s)
      BY <1>2, <1>3, <3>3, <3>4
    <3> QED BY <1>1, <1>2, <3>2, <3>4, <3>5, WireChange
  <2>2. CASE ~alive[s]
    <3>1. wire' = wire
      BY <2>2 DEF Publish
    <3> QED BY <1>1, <1>2, <3>1 DEF ServiceType, SymbolsOf
  <2> QED BY <2>1, <2>2
<1>6. ServiceType'
  BY <1>1, <1>2, <1>4, <1>5 DEF ServiceType, Opened
<1>7. ChannelType' /\ SnapType' /\ Unlocked'
  BY <1>1, <1>2 DEF ChannelType, SnapType, Unlocked, Blocked
<1>8. LateType'
  <2>1. via' \in [Streams -> [Symbols -> Seq(Nat)]]
    <3> DEFINE v == Append(via[s[1]][sym], conn[s])
    <3>1. s[1] \in Streams /\ via \in [Streams -> [Symbols -> Seq(Nat)]] /\ conn[s] \in Nat
      BY <1>1, ServiceParts DEF ServiceType, LateType
    <3>2. v \in Seq(Nat) /\ via' = [via EXCEPT ![s[1]][sym] = v]
      BY <1>2, <3>1
    <3> HIDE DEF v
    <3> QED BY <3>1, <3>2
  <2> QED BY <1>1, <1>2, <2>1 DEF LateType, SymbolsOf
<1> QED BY <1>6, <1>7, <1>8, TypeParts, PTL

LEMMA TypeLost ==
  ASSUME TypeInv, NEW s \in Services, Lost(s)
  PROVE  TypeInv'
<1>1. ServiceType /\ LateType /\ ChannelType /\ SnapType /\ Unlocked
  BY TypeParts
<1>2. /\ alive' = [alive EXCEPT ![s] = FALSE] /\ wire' = [wire EXCEPT ![s] = <<>>]
      /\ UNCHANGED <<services, conn, late, via, events, msgCh, out, asked, task, timers, failed, base>>
  BY DEF Lost, snapshots
<1>3. /\ wire' \in [Services -> Seq(Events)]
      /\ \A t \in Services : \A i \in DOMAIN wire'[t] :
           wire'[t][i].stream = t[1] /\ wire'[t][i].symbol \in SymbolsOf(t)'
  <2> DEFINE seq == <<>>
  <2>1. seq \in Seq(Events) /\ DOMAIN seq = {} /\ wire' = [wire EXCEPT ![s] = seq]
    BY <1>2
  <2> HIDE DEF seq
  <2> QED BY <1>1, <1>2, <2>1, WireChange
<1>4. ServiceType'
  BY <1>1, <1>2, <1>3 DEF ServiceType, Opened
<1>5. ChannelType' /\ SnapType' /\ Unlocked'
  BY <1>1, <1>2 DEF ChannelType, SnapType, Unlocked, Blocked
<1>l. LateType'
  BY <1>2, LateSame
<1> QED BY <1>l, <1>4, <1>5, TypeParts, PTL

\* The part of a reconnect that all streams share.
LEMMA TypeReconnect ==
  ASSUME TypeInv, NEW s \in Services, Reconnect(s)
  PROVE  ServiceType' /\ LateType' /\ ChannelType' /\ msgCh' = msgCh
<1>1. ServiceType /\ LateType /\ ChannelType /\ SnapType /\ Unlocked
  BY TypeParts
<1>2. /\ alive' = [alive EXCEPT ![s] = TRUE] /\ conn' = [conn EXCEPT ![s] = @ + 1]
      /\ wire' = [wire EXCEPT ![s] = <<>>]
      /\ UNCHANGED <<services, via, events, msgCh, out>>
  BY DEF Reconnect
<1>3. /\ wire' \in [Services -> Seq(Events)]
      /\ \A t \in Services : \A i \in DOMAIN wire'[t] :
           wire'[t][i].stream = t[1] /\ wire'[t][i].symbol \in SymbolsOf(t)'
  <2> DEFINE seq == <<>>
  <2>1. seq \in Seq(Events) /\ DOMAIN seq = {} /\ wire' = [wire EXCEPT ![s] = seq]
    BY <1>2
  <2> HIDE DEF seq
  <2> QED BY <1>1, <1>2, <2>1, WireChange
<1>4. conn' \in [Services -> Nat] /\ alive' \in [Services -> BOOLEAN]
  BY <1>1, <1>2 DEF ServiceType
<1>5. ServiceType'
  BY <1>1, <1>2, <1>3, <1>4 DEF ServiceType, Opened
<1>6. ChannelType'
  BY <1>1, <1>2 DEF ChannelType
<1>7. LateType'
  <2>1. PICK n \in 0 .. Len(wire[s]) :
          late' = late \cup {[by |-> <<s, conn[s]>>, event |-> wire[s][i]] : i \in 1 .. n}
    BY DEF Reconnect
  <2>2. ASSUME NEW x \in late'
        PROVE  /\ x \in Frames /\ x.event.stream = x.by[1][1]
               /\ x.event.symbol \in SymbolsOf(x.by[1])
    <3>1. CASE x \in late
      BY <1>1, <3>1 DEF LateType
    <3>2. CASE x \notin late
      <4>1. PICK i \in 1 .. n : x = [by |-> <<s, conn[s]>>, event |-> wire[s][i]]
        BY <2>1, <2>2, <3>2
      <4>2. wire[s] \in Seq(Events) /\ conn[s] \in Nat
        BY <1>1 DEF ServiceType
      <4>3. i \in DOMAIN wire[s]
        BY <4>2
      <4>4. wire[s][i] \in Events /\ wire[s][i].stream = s[1] /\ wire[s][i].symbol \in SymbolsOf(s)
        BY <1>1, <4>2, <4>3 DEF ServiceType
      <4> QED BY <4>1, <4>2, <4>4 DEF Frames
    <3> QED BY <3>1, <3>2
  <2> QED BY <1>1, <1>2, <2>2 DEF LateType, SymbolsOf
<1> QED BY <1>2, <1>5, <1>6, <1>7

LEMMA TypeConnect ==
  ASSUME TypeInv, NEW s \in Services, Connect(s)
  PROVE  TypeInv'
<1>1. SnapType /\ Unlocked
  BY TypeParts
<1>2. Reconnect(s) /\ UNCHANGED <<asked, task, timers, failed, base>>
  BY DEF Connect, snapshots
<1>3. ServiceType' /\ LateType' /\ ChannelType' /\ msgCh' = msgCh
  BY <1>2, TypeReconnect
<1>4. SnapType' /\ Unlocked'
  BY <1>1, <1>2, <1>3 DEF SnapType, Unlocked, Blocked
<1> QED BY <1>3, <1>4, TypeParts, PTL

LEMMA PlusType ==
  ASSUME NEW f \in [Symbols -> Nat], NEW syms
  PROVE  /\ Plus(f, syms) \in [Symbols -> Nat]
         /\ \A sym \in Symbols : Plus(f, syms)[sym] >= f[sym]
         /\ \A sym \in Symbols \cap syms : Plus(f, syms)[sym] > 0
BY DEF Plus

LEMMA TypeConnectInc ==
  ASSUME TypeInv, NEW s \in Services, ConnectInc(s)
  PROVE  TypeInv'
<1>1. SnapType /\ ServiceType /\ Unlocked
  BY TypeParts
<1>2. /\ Reconnect(s) /\ asked' = Plus(asked, SymbolsOf(s))
      /\ base' = [sym \in Symbols |-> IF sym \in SymbolsOf(s) THEN events["inc"][sym] ELSE base[sym]]
      /\ failed' = failed \ SymbolsOf(s)
      /\ UNCHANGED <<task, timers>>
  BY DEF ConnectInc
<1>3. ServiceType' /\ LateType' /\ ChannelType' /\ msgCh' = msgCh
  BY <1>2, TypeReconnect
<1>4. asked' \in [Symbols -> Nat]
  BY <1>1, <1>2, PlusType DEF SnapType
<1>5. base' \in [Symbols -> Nat]
  <2>1. events["inc"] \in [Symbols -> Nat] /\ base \in [Symbols -> Nat]
    BY <1>1, IncStream DEF SnapType, ServiceType
  <2> QED BY <1>2, <2>1
<1>6. SnapType' /\ Unlocked'
  BY <1>1, <1>2, <1>3, <1>4, <1>5 DEF SnapType, Unlocked, Blocked
<1> QED BY <1>3, <1>6, TypeParts, PTL

LEMMA TypeHandler ==
  ASSUME TypeInv, NEW s \in Services, Handler(s)
  PROVE  TypeInv'
<1>1. ServiceType /\ LateType /\ ChannelType /\ SnapType /\ Unlocked
  BY TypeParts
<1> DEFINE old == wire[s]
           seq == Tail(old)
           by == <<s, conn[s]>>
           m == QuoteMessage(Head(old))
           e == [by |-> by, msg |-> m]
<1>2. /\ old # <<>> /\ ~Blocked(by)
      /\ wire' = [wire EXCEPT ![s] = seq] /\ msgCh' = Append(msgCh, e)
      /\ UNCHANGED <<services, alive, conn, late, via, events, out, asked, task, timers, failed, base>>
  BY DEF Handler, snapshots
<1>3. old \in Seq(Events) /\ conn[s] \in Nat
  BY <1>1 DEF ServiceType
<1>4. \A i \in DOMAIN old : old[i].stream = s[1] /\ old[i].symbol \in SymbolsOf(s)
  BY <1>1 DEF ServiceType
<1> HIDE DEF old
<1>5. /\ seq \in Seq(Events) /\ Head(old) \in Events
      /\ \A i \in DOMAIN seq : i + 1 \in DOMAIN old /\ seq[i] = old[i + 1]
  BY <1>2, <1>3, TailPositions
<1> HIDE DEF seq
<1>6. /\ wire' \in [Services -> Seq(Events)]
      /\ \A t \in Services : \A i \in DOMAIN wire'[t] :
           wire'[t][i].stream = t[1] /\ wire'[t][i].symbol \in SymbolsOf(t)'
  <2>1. \A i \in DOMAIN seq : seq[i].stream = s[1] /\ seq[i].symbol \in SymbolsOf(s)
    BY <1>4, <1>5
  <2> QED BY <1>1, <1>2, <1>5, <2>1, WireChange
<1>7. m \in Messages /\ by \in Senders /\ by # Snapper
  BY <1>3, <1>5, MessageParts, SnapperApart
<1> HIDE DEF m, by
<1>8. e \in Entries /\ e.by = by
  BY <1>7 DEF Entries
<1> HIDE DEF e
<1>9. /\ msgCh' \in Seq(Entries)
      /\ \A i, j \in ChanCap + 1 .. Len(msgCh') : msgCh'[i].by = msgCh'[j].by => i = j
      /\ \A x : Blocked(x)' => Blocked(x) \/ x = by
  BY <1>1, <1>2, <1>8, ChannelAppend DEF ChannelType
<1>10. ServiceType'
  BY <1>1, <1>2, <1>6 DEF ServiceType, Opened
<1>11. ChannelType'
  BY <1>1, <1>2, <1>9 DEF ChannelType
<1>12. SnapType'
  BY <1>1, <1>2 DEF SnapType
<1>13. Unlocked'
  <2>1. Blocked(Snapper)' => Blocked(Snapper)
    BY <1>7, <1>9
  <2>2. task' = task
    BY <1>2
  <2> QED BY <1>1, <2>1, <2>2 DEF Unlocked
<1>l. LateType'
  BY <1>2, LateSame
<1> QED BY <1>l, <1>10, <1>11, <1>12, <1>13, TypeParts, PTL

LEMMA TypeLateHandler ==
  ASSUME TypeInv, NEW x \in late, LateHandler(x)
  PROVE  TypeInv'
<1>1. ServiceType /\ LateType /\ ChannelType /\ SnapType /\ Unlocked
  BY TypeParts
<1> DEFINE m == QuoteMessage(x.event)
           e == [by |-> x.by, msg |-> m]
<1>2. /\ ~Blocked(x.by) /\ late' = late \ {x} /\ msgCh' = Append(msgCh, e)
      /\ UNCHANGED <<services, alive, conn, wire, via, events, out, asked, task, timers, failed, base>>
  BY DEF LateHandler, snapshots
<1>3. x.event \in Events /\ x.by \in Services \X Nat
  BY <1>1 DEF LateType, Frames
<1>4. m \in Messages /\ x.by \in Senders /\ x.by # Snapper
  <2>1. PICK s \in Services, n \in Nat : x.by = <<s, n>>
    BY <1>3
  <2> QED BY <1>3, <2>1, MessageParts, SnapperApart
<1> HIDE DEF m
<1>5. e \in Entries /\ e.by = x.by
  BY <1>4 DEF Entries
<1> HIDE DEF e
<1>6. /\ msgCh' \in Seq(Entries)
      /\ \A i, j \in ChanCap + 1 .. Len(msgCh') : msgCh'[i].by = msgCh'[j].by => i = j
      /\ \A y : Blocked(y)' => Blocked(y) \/ y = x.by
  BY <1>1, <1>2, <1>5, ChannelAppend DEF ChannelType
<1>7. ServiceType'
  BY <1>1, <1>2 DEF ServiceType, Opened, SymbolsOf
<1>8. ChannelType'
  BY <1>1, <1>2, <1>6 DEF ChannelType
<1>9. SnapType'
  BY <1>1, <1>2 DEF SnapType
<1>10. Unlocked'
  <2>1. Blocked(Snapper)' => Blocked(Snapper)
    BY <1>4, <1>6
  <2>2. task' = task
    BY <1>2
  <2> QED BY <1>1, <2>1, <2>2 DEF Unlocked
<1>11. LateType'
  BY <1>1, <1>2 DEF LateType, SymbolsOf
<1> QED BY <1>7, <1>8, <1>9, <1>10, <1>11, TypeParts, PTL

\* The message at the head of the channel leaves.
LEMMA TypeFanOut ==
  ASSUME TypeInv, FanOut
  PROVE  TypeInv'
<1>1. ServiceType /\ LateType /\ ChannelType /\ SnapType /\ Unlocked
  BY TypeParts
<1>2. /\ msgCh # <<>> /\ out' = fanout(Head(msgCh).msg) /\ msgCh' = Tail(msgCh)
      /\ UNCHANGED <<services, alive, conn, wire, late, via, events, asked, task, timers, failed, base>>
  BY DEF FanOut, snapshots, services_
<1>3. /\ msgCh' \in Seq(Entries)
      /\ \A i, j \in ChanCap + 1 .. Len(msgCh') : msgCh'[i].by = msgCh'[j].by => i = j
      /\ \A x : Blocked(x)' => Blocked(x)
  BY <1>1, <1>2, ChannelTail DEF ChannelType
<1>4. out' \in [Kinds -> [Symbols -> Seq(Nat)]]
  <2>1. Head(msgCh) \in Entries
    BY <1>1, <1>2, TailPositions DEF ChannelType
  <2>2. Head(msgCh).msg \in Messages
    BY <2>1 DEF Entries
  <2> QED BY <1>1, <1>2, <2>2, FanoutParts DEF ChannelType
<1>5. ServiceType'
  BY <1>1, <1>2 DEF ServiceType, Opened, SymbolsOf
<1>6. ChannelType'
  BY <1>3, <1>4 DEF ChannelType
<1>7. SnapType'
  BY <1>1, <1>2 DEF SnapType
<1>8. Unlocked'
  <2>1. task' = task
    BY <1>2
  <2> QED BY <1>1, <1>3, <2>1 DEF Unlocked
<1>l. LateType'
  BY <1>2, LateSame
<1> QED BY <1>l, <1>5, <1>6, <1>7, <1>8, TypeParts, PTL

\* The manager at work: it has a symbol, and with an answer a number.
LEMMA TaskParts ==
  ASSUME SnapType
  PROVE  /\ task # NoTask => task.symbol \in Symbols
         /\ task.step \in {"request", "response"} => task # NoTask
         /\ task \in [step : {"request", "response", "free"}, symbol : Symbols \cup {"none"}, id : Nat]
BY DEF SnapType, NoTask

\* The steps of the manager that leave the services and the channel alone.
LEMMA TypeSnapshot ==
  ASSUME TypeInv, SnapTimer \/ (\E sym \in Symbols : SnapLock(sym)) \/ SnapResponse \/ SnapError
  PROVE  TypeInv'
<1>1. ServiceType /\ LateType /\ ChannelType /\ SnapType /\ Unlocked
  BY TypeParts
<1>2. UNCHANGED <<services, alive, conn, wire, late, via, events, msgCh, out, base>>
  BY DEF SnapTimer, SnapLock, SnapResponse, SnapError, services_
<1>3. SnapType' /\ Unlocked'
  <2>1. CASE SnapTimer
    <3>1. asked' = Plus(asked, Symbols) /\ timers' = timers + 1 /\ UNCHANGED <<task, failed>>
      BY <2>1 DEF SnapTimer
    <3>2. asked' \in [Symbols -> Nat]
      BY <1>1, <3>1, PlusType DEF SnapType
    <3> QED BY <1>1, <1>2, <3>1, <3>2 DEF SnapType, Unlocked, Blocked
  <2>2. ASSUME NEW sym \in Symbols, SnapLock(sym) PROVE SnapType' /\ Unlocked'
    <3>1. /\ asked[sym] > 0 /\ ~Blocked(Snapper) /\ asked' = [asked EXCEPT ![sym] = @ - 1]
          /\ task' = [step |-> "request", symbol |-> sym, id |-> 0]
          /\ UNCHANGED <<timers, failed>>
      BY <2>2 DEF SnapLock
    <3>2. asked' \in [Symbols -> Nat]
      BY <1>1, <3>1 DEF SnapType
    <3>3. task' \in [step : {"request", "response"}, symbol : Symbols, id : Nat]
      BY <3>1
    <3> QED BY <1>1, <1>2, <3>1, <3>2, <3>3 DEF SnapType, Unlocked, Blocked
  <2>3. CASE SnapResponse
    <3>1. /\ task.step = "request" /\ UNCHANGED <<asked, timers, failed>>
          /\ task' = [task EXCEPT !.step = "response", !.id = events["inc"][task.symbol]]
      BY <2>3 DEF SnapResponse
    <3>2. task # NoTask /\ task.symbol \in Symbols
      BY <1>1, <3>1, TaskParts
    <3>3. events["inc"][task.symbol] \in Nat
      BY <1>1, <3>2, IncStream DEF ServiceType
    <3>4. task' \in [step : {"request", "response"}, symbol : Symbols, id : Nat]
      BY <1>1, <3>1, <3>2, <3>3 DEF SnapType
    <3> QED BY <1>1, <1>2, <3>1, <3>2, <3>4 DEF SnapType, Unlocked, Blocked
  <2>4. CASE SnapError
    <3>1. /\ task.step = "request" /\ UNCHANGED <<asked, timers>>
          /\ task' = NoTask /\ failed' = failed \cup {task.symbol}
      BY <2>4 DEF SnapError
    <3>2. task # NoTask /\ task.symbol \in Symbols
      BY <1>1, <3>1, TaskParts
    <3> QED BY <1>1, <1>2, <3>1, <3>2 DEF SnapType, Unlocked
  <2> QED BY <2>1, <2>2, <2>3, <2>4
<1>4. ServiceType' /\ ChannelType'
  BY <1>1, <1>2 DEF ServiceType, Opened, SymbolsOf, ChannelType
<1>l. LateType'
  BY <1>2, LateSame
<1> QED BY <1>l, <1>3, <1>4, TypeParts, PTL

LEMMA TypeSnapSend ==
  ASSUME TypeInv, SnapSend
  PROVE  TypeInv'
<1>1. ServiceType /\ LateType /\ ChannelType /\ SnapType /\ Unlocked
  BY TypeParts
<1> DEFINE m == SnapShotMessage(task.symbol, task.id)
           e == [by |-> Snapper, msg |-> m]
<1>2. /\ task.step = "response" /\ task' = NoTask /\ msgCh' = Append(msgCh, e)
      /\ UNCHANGED <<services, alive, conn, wire, late, via, events, out, asked, timers, failed, base>>
  BY DEF SnapSend, services_
<1>3. task # NoTask /\ task.symbol \in Symbols /\ task.id \in Nat
  BY <1>1, <1>2, TaskParts
<1>4. m \in Messages /\ Snapper \in Senders
  BY <1>3, MessageParts, SnapperApart
<1>5. ~Blocked(Snapper)
  BY <1>1, <1>3 DEF Unlocked
<1> HIDE DEF m
<1>6. e \in Entries /\ e.by = Snapper
  BY <1>4 DEF Entries
<1> HIDE DEF e
<1>7. /\ msgCh' \in Seq(Entries)
      /\ \A i, j \in ChanCap + 1 .. Len(msgCh') : msgCh'[i].by = msgCh'[j].by => i = j
  BY <1>1, <1>2, <1>5, <1>6, ChannelAppend DEF ChannelType
<1>8. ServiceType'
  BY <1>1, <1>2 DEF ServiceType, Opened, SymbolsOf
<1>9. ChannelType'
  BY <1>1, <1>2, <1>7 DEF ChannelType
<1>10. SnapType' /\ Unlocked'
  BY <1>1, <1>2 DEF SnapType, Unlocked
<1>l. LateType'
  BY <1>2, LateSame
<1> QED BY <1>l, <1>8, <1>9, <1>10, TypeParts, PTL

LEMMA TypeStep == TypeInv /\ [Next]_vars => TypeInv'
<1> SUFFICES ASSUME TypeInv, [Next]_vars PROVE TypeInv'
  OBVIOUS
<1>1. ASSUME NEW s \in Services, Service(s) \/ Lost(s) \/ \E sym \in Symbols : Publish(s, sym)
      PROVE  TypeInv'
  BY <1>1, TypeConnect, TypeConnectInc, TypeHandler, TypeLost, TypePublish DEF Service
<1>2. CASE FanOut
  BY <1>2, TypeFanOut
<1>3. CASE Snapshot
  BY <1>3, TypeSnapshot, TypeSnapSend DEF Snapshot, SnapTask
<1>4. CASE UNCHANGED vars
  <2>1. UNCHANGED <<services, alive, conn, wire, late, via, events, msgCh, out, asked, task, timers, failed, base>>
    BY <1>4 DEF vars, services_, snapshots
  <2>2. ServiceType /\ LateType /\ ChannelType /\ SnapType /\ Unlocked
    BY TypeParts
  <2>3. ServiceType' /\ ChannelType'
    BY <2>1, <2>2 DEF ServiceType, Opened, SymbolsOf, ChannelType
  <2>4. SnapType' /\ Unlocked'
    BY <2>1, <2>2 DEF SnapType, Unlocked, Blocked
  <2>l. LateType'
    BY <2>1, LateSame
  <2> QED BY <2>l, <2>3, <2>4, TypeParts, PTL
<1>5. ASSUME NEW x \in late, LateHandler(x) PROVE TypeInv'
  BY <1>5, TypeLateHandler
<1> QED BY <1>1, <1>2, <1>3, <1>4, <1>5 DEF Next

LEMMA TypeHolds == Spec => []TypeInv
BY TypeInit, TypeStep, PTL DEF Spec

(***************************************************************************)
(* The variables of the receiver keep their types, and every goroutine has *)
(* at most one message that msgCh has not taken: a reader does not read on *)
(* while handler waits, and the snapshot manager holds its mutex.          *)
(***************************************************************************)
THEOREM TypeCorrect == Spec => []TypeOK
<1>1. TypeInv => TypeOK
  BY DEF TypeInv
<1> QED BY <1>1, TypeHolds, PTL

-----------------------------------------------------------------------------
(* Order *)

\* The types that the proofs about the order use.
LEMMA OrderTypes ==
  ASSUME TypeInv
  PROVE  /\ \A st \in Streams, sym \in Symbols : events[st][sym] \in Nat /\ out[Kind(st)][sym] \in Seq(Nat)
         /\ \A i \in DOMAIN msgCh : /\ msgCh[i].msg \in Messages /\ msgCh[i].msg.id \in Nat
                                    /\ msgCh[i].msg.type \in Types /\ msgCh[i].msg.symbol \in Symbols
         /\ \A s \in Services : wire[s] \in Seq(Events)
         /\ \A s \in Services : \A j \in DOMAIN wire[s] :
              /\ wire[s][j] \in Events /\ wire[s][j].n \in Nat /\ wire[s][j].stream = s[1]
              /\ wire[s][j].symbol \in SymbolsOf(s) /\ wire[s][j].symbol \in Symbols
<1>1. ServiceType /\ ChannelType
  BY TypeParts
<1>2. \A st \in Streams, sym \in Symbols : events[st][sym] \in Nat /\ out[Kind(st)][sym] \in Seq(Nat)
  BY <1>1, Names DEF ServiceType, ChannelType, Kind
<1>3. \A i \in DOMAIN msgCh : msgCh[i].msg \in Messages
  BY DEF TypeInv, TypeOK
<1>4. \A m \in Messages : m.id \in Nat /\ m.type \in Types /\ m.symbol \in Symbols
  BY DEF Messages
<1>5. \A s \in Services : wire[s] \in Seq(Events)
  BY <1>1 DEF ServiceType
<1>6. \A s \in Services : \A j \in DOMAIN wire[s] : wire[s][j] \in Events
  BY <1>5
<1>7. \A e \in Events : e.n \in Nat /\ e.symbol \in Symbols
  BY DEF Events
<1>8. \A s \in Services : \A j \in DOMAIN wire[s] :
         wire[s][j].stream = s[1] /\ wire[s][j].symbol \in SymbolsOf(s)
  BY <1>1 DEF ServiceType
<1> QED BY <1>2, <1>3, <1>4, <1>5, <1>6, <1>7, <1>8

\* Frames of closed connections.
LEMMA LateTypes ==
  ASSUME TypeInv, NEW x \in late
  PROVE  /\ x.event \in Events /\ x.event.stream \in Streams /\ x.event.symbol \in Symbols
         /\ x.event.n \in Nat /\ x.by[1] \in Services /\ x.by[2] \in Nat
         /\ x.by = <<x.by[1], x.by[2]>>
         /\ x.event.stream = x.by[1][1] /\ x.event.symbol \in SymbolsOf(x.by[1])
<1>1. LateType
  BY TypeParts
<1>2. x \in Frames /\ x.event.stream = x.by[1][1] /\ x.event.symbol \in SymbolsOf(x.by[1])
  BY <1>1 DEF LateType
<1>3. x.event \in Events /\ x.by \in Services \X Nat
  BY <1>2 DEF Frames
<1>4. x.event.stream \in Streams /\ x.event.symbol \in Symbols /\ x.event.n \in Nat
  BY <1>3 DEF Events
<1> QED BY <1>2, <1>3, <1>4

\* Steps that touch neither the channel nor what left, nor events.
LEMMA OrderSame ==
  ASSUME TypeInv, OrderInv, UNCHANGED <<msgCh, out, events, via, conn>>, late' = late,
         \A s \in Services : wire'[s] = wire[s] \/ wire'[s] = <<>>
  PROVE  OrderInv'
<1>1. ASSUME NEW st \in Streams, NEW sym \in Symbols
      PROVE  (OutOrder(st, sym) /\ QueueOrder(st, sym))'
  <2>1. OutOrder(st, sym) /\ QueueOrder(st, sym)
    BY DEF OrderInv
  <2>2. OutOrder(st, sym)'
    BY <2>1 DEF OutOrder
  <2>3. QueueOrder(st, sym)'
    BY <2>1 DEF QueueOrder
  <2> QED BY <2>2, <2>3
<1>2. ASSUME NEW s \in Services PROVE WireOrder(s)'
  <2>1. CASE wire'[s] = wire[s]
    BY <2>1 DEF OrderInv, WireOrder
  <2>2. CASE wire'[s] = <<>>
    BY <2>2 DEF WireOrder
  <2> QED BY <2>1, <2>2
<1>3. ASSUME NEW x \in late' PROVE LateOrder(x)'
  <2>1. LateOrder(x)
    BY <1>3 DEF OrderInv
  <2> QED BY <2>1 DEF LateOrder
<1>4. \A st \in Streams, sym \in Symbols : (Len(via[st][sym]) = events[st][sym])'
  BY DEF OrderInv
<1> QED BY <1>1, <1>2, <1>3, <1>4 DEF OrderInv

\* A connection is closed and another one dialled.
LEMMA OrderReconnect ==
  ASSUME TypeInv, OrderInv, NEW s \in Services, Reconnect(s)
  PROVE  OrderInv'
<1>1. /\ wire' = [wire EXCEPT ![s] = <<>>] /\ conn' = [conn EXCEPT ![s] = @ + 1]
      /\ UNCHANGED <<msgCh, out, events, via>>
  BY DEF Reconnect
<1>2. wire \in [Services -> Seq(Events)] /\ conn \in [Services -> Nat]
  BY TypeParts DEF ServiceType
<1>3. /\ wire'[s] = <<>> /\ conn[s] < conn'[s]
      /\ \A t \in Services : t # s => wire'[t] = wire[t] /\ conn'[t] = conn[t]
      /\ \A t \in Services : conn[t] \in Nat /\ conn'[t] \in Nat /\ conn[t] <= conn'[t]
  BY <1>1, <1>2
<1>4. PICK n \in 0 .. Len(wire[s]) :
        late' = late \cup {[by |-> <<s, conn[s]>>, event |-> wire[s][i]] : i \in 1 .. n}
  BY DEF Reconnect
<1>5. ASSUME NEW st \in Streams, NEW sym \in Symbols
      PROVE  (OutOrder(st, sym) /\ QueueOrder(st, sym))'
  <2>1. OutOrder(st, sym) /\ QueueOrder(st, sym)
    BY DEF OrderInv
  <2>2. OutOrder(st, sym)'
    BY <1>1, <2>1 DEF OutOrder
  <2>3. QueueOrder(st, sym)'
    BY <1>1, <2>1 DEF QueueOrder
  <2> QED BY <2>2, <2>3
<1>6. ASSUME NEW t \in Services PROVE WireOrder(t)'
  <2>1. CASE t = s
    BY <1>3, <2>1 DEF WireOrder
  <2>2. CASE t # s
    <3>1. WireOrder(t)
      BY DEF OrderInv
    <3> QED BY <1>1, <1>3, <2>2, <3>1 DEF WireOrder
  <2> QED BY <2>1, <2>2
<1>7. ASSUME NEW x \in late' PROVE LateOrder(x)'
  <2>1. CASE x \in late
    <3>1. LateOrder(x) /\ x.by[1] \in Services /\ x.by[2] \in Nat
      BY <2>1, LateTypes DEF OrderInv
    <3>2. x.by[2] < conn[x.by[1]]
      BY <3>1 DEF LateOrder
    <3>3. x.by[2] < conn'[x.by[1]]
      BY <1>3, <3>1, <3>2
    <3> QED BY <1>1, <3>1, <3>3 DEF LateOrder
  <2>2. CASE x \notin late
    <3>1. PICK i \in 1 .. n : x = [by |-> <<s, conn[s]>>, event |-> wire[s][i]]
      BY <1>4, <1>7, <2>2
    <3>2. i \in DOMAIN wire[s]
      BY <1>2
    <3> DEFINE e == wire[s][i]
    <3>3. x.event = e /\ x.by[1] = s /\ x.by[2] = conn[s]
      BY <3>1
    <3>4. e.stream = s[1]
      BY <3>2, OrderTypes
    <3>5. WireOrder(s)
      BY DEF OrderInv
    <3>6. /\ Newer(out, msgCh, events, via, s[1], e.symbol, e.n)
          /\ via[s[1]][e.symbol][e.n] = conn[s]
      BY <3>2, <3>5 DEF WireOrder
    <3> HIDE DEF e
    <3> QED BY <1>1, <1>3, <3>3, <3>4, <3>6 DEF LateOrder
  <2> QED BY <2>1, <2>2
<1>8. \A st \in Streams, sym \in Symbols : (Len(via[st][sym]) = events[st][sym])'
  BY <1>1 DEF OrderInv
<1> QED BY <1>5, <1>6, <1>7, <1>8 DEF OrderInv

\* What is in the order of the connections stays so when an event is added.
LEMMA InOrderGrows ==
  ASSUME NEW v \in Seq(Nat), NEW c \in Nat
  PROVE  /\ Append(v, c) \in Seq(Nat) /\ Len(Append(v, c)) = Len(v) + 1
         /\ Append(v, c)[Len(v) + 1] = c
         /\ \A a \in 1 .. Len(v) : Append(v, c)[a] = v[a]
         /\ \A a, b \in 1 .. Len(v) : InOrder(v, a, b) => InOrder(Append(v, c), a, b)
         /\ \A a \in 1 .. Len(v) : InOrder(Append(v, c), a, Len(v) + 1)
<1> DEFINE w == Append(v, c)
           n == Len(v)
<1>1. /\ n \in Nat /\ w \in Seq(Nat) /\ Len(w) = n + 1 /\ w[n + 1] = c
      /\ \A a \in 1 .. n : w[a] = v[a]
  BY AppendPositions
<1>2. \A a \in 1 .. n : a < n + 1 /\ a # n + 1
  BY <1>1
<1> HIDE DEF w, n
<1>3. /\ \A a, b \in 1 .. n : InOrder(v, a, b) => InOrder(w, a, b)
      /\ \A a \in 1 .. n : InOrder(w, a, n + 1)
  BY <1>1, <1>2 DEF InOrder
<1> QED BY <1>1, <1>3 DEF w, n

LEMMA OrderPublish ==
  ASSUME TypeInv, OrderInv, NEW s \in Services, NEW sym \in Symbols, Publish(s, sym)
  PROVE  OrderInv'
<1> DEFINE new == events[s[1]][sym] + 1
           e == Event(s[1], sym, new)
           old == wire[s]
           v == via[s[1]][sym]
<1>1. /\ events' = [events EXCEPT ![s[1]][sym] = new]
      /\ wire' = IF alive[s] THEN [wire EXCEPT ![s] = Append(old, e)] ELSE wire
      /\ via' = [via EXCEPT ![s[1]][sym] = Append(v, conn[s])]
      /\ UNCHANGED <<msgCh, out, conn, late>>
  BY DEF Publish
<1>2. s[1] \in Streams /\ conn[s] \in Nat
  BY ServiceParts, TypeParts DEF ServiceType
<1>3. \A st \in Streams, sy \in Symbols :
        /\ events'[st][sy] = IF st = s[1] /\ sy = sym THEN new ELSE events[st][sy]
        /\ via'[st][sy] = IF st = s[1] /\ sy = sym THEN Append(v, conn[s]) ELSE via[st][sy]
  <2> DEFINE w == Append(v, conn[s])
  <2>1. events \in [Streams -> [Symbols -> Nat]] /\ via \in [Streams -> [Symbols -> Seq(Nat)]]
    BY TypeParts DEF ServiceType, LateType
  <2>2. via' = [via EXCEPT ![s[1]][sym] = w]
    BY <1>1
  <2>3. events' = [events EXCEPT ![s[1]][sym] = new]
    BY <1>1
  <2> HIDE DEF new, w, v
  <2>4. \A st \in Streams, sy \in Symbols :
          events'[st][sy] = IF st = s[1] /\ sy = sym THEN new ELSE events[st][sy]
    BY <1>2, <2>1, <2>3
  <2>5. \A st \in Streams, sy \in Symbols :
          via'[st][sy] = IF st = s[1] /\ sy = sym THEN w ELSE via[st][sy]
    BY <1>2, <2>1, <2>2
  <2> QED BY <2>4, <2>5 DEF w
<1>4. v \in Seq(Nat) /\ Len(v) = events[s[1]][sym] /\ events[s[1]][sym] \in Nat
  BY <1>2, TypeParts, OrderTypes DEF LateType, OrderInv
<1>5. /\ new \in Nat /\ new = Len(v) + 1 /\ events'[s[1]][sym] = new /\ via'[s[1]][sym][new] = conn[s]
      /\ Len(via'[s[1]][sym]) = new
      /\ \A a \in 1 .. events[s[1]][sym] : InOrder(via'[s[1]][sym], a, new)
  <2>1. new \in Nat /\ new = Len(v) + 1
    BY <1>4
  <2>2. events'[s[1]][sym] = new /\ via'[s[1]][sym] = Append(v, conn[s])
    BY <1>2, <1>3
  <2> HIDE DEF new, v
  <2>3. /\ Len(Append(v, conn[s])) = new /\ Append(v, conn[s])[new] = conn[s]
        /\ \A a \in 1 .. Len(v) : InOrder(Append(v, conn[s]), a, new)
    BY <1>2, <1>4, <2>1, InOrderGrows
  <2> QED BY <1>4, <2>1, <2>2, <2>3
<1>6. ASSUME NEW st \in Streams, NEW sy \in Symbols
      PROVE  /\ 1 .. events[st][sy] \subseteq 1 .. events'[st][sy]
             /\ Len(via'[st][sy]) = events'[st][sy]
             /\ \A a \in 1 .. events[st][sy] : via'[st][sy][a] = via[st][sy][a]
             /\ \A a, b \in 1 .. events[st][sy] :
                  InOrder(via[st][sy], a, b) => InOrder(via'[st][sy], a, b)
  <2>1. CASE st = s[1] /\ sy = sym
    <3>1. 1 .. events[s[1]][sym] \subseteq 1 .. events'[s[1]][sym]
      <4> DEFINE n == events[s[1]][sym]
      <4>1. n \in Nat /\ events'[s[1]][sym] = n + 1
        BY <1>4, <1>5
      <4> HIDE DEF n
      <4> QED BY <4>1 DEF n
    <3>2. /\ \A a \in 1 .. Len(v) : Append(v, conn[s])[a] = v[a]
          /\ \A a, b \in 1 .. Len(v) : InOrder(v, a, b) => InOrder(Append(v, conn[s]), a, b)
      BY <1>2, <1>4, InOrderGrows
    <3>3. via'[st][sy] = Append(v, conn[s])
      BY <1>3, <2>1
    <3> QED BY <1>4, <1>5, <2>1, <3>1, <3>2, <3>3
  <2>2. CASE ~(st = s[1] /\ sy = sym)
    <3>1. events'[st][sy] = events[st][sy] /\ via'[st][sy] = via[st][sy]
      BY <1>3, <2>2
    <3> QED BY <3>1 DEF OrderInv
  <2> QED BY <2>1, <2>2
<1>8. e.n = new /\ e.symbol = sym /\ e \in Events
  BY <1>2, <1>5 DEF Event, Events
<1>t. /\ \A t \in Services : \A j \in DOMAIN wire[t] : wire[t][j].n \in Nat /\ wire[t][j].symbol \in Symbols
      /\ old \in Seq(Events)
  BY OrderTypes
<1>w. /\ wire'[s] = IF alive[s] THEN Append(old, e) ELSE old
      /\ \A t \in Services : t # s => wire'[t] = wire[t]
  <2>1. wire \in [Services -> Seq(Events)]
    BY TypeParts DEF ServiceType
  <2> HIDE DEF e
  <2> QED BY <1>1, <2>1
<1> HIDE DEF new, e, v
<1>9. ASSUME NEW st \in Streams, NEW sy \in Symbols
      PROVE  (OutOrder(st, sy) /\ QueueOrder(st, sy))'
  <2>1. OutOrder(st, sy) /\ QueueOrder(st, sy)
    BY DEF OrderInv
  <2>2. OutOrder(st, sy)'
    BY <1>1, <1>6, <2>1 DEF OutOrder
  <2>3. QueueOrder(st, sy)'
    <3>1. \A j \in DOMAIN msgCh : Of(msgCh[j].msg, st, sy) => msgCh[j].msg.id \in 1 .. events[st][sy]
      BY <2>1 DEF QueueOrder
    <3>2. \A j \in DOMAIN out[Kind(st)][sy] : out[Kind(st)][sy][j] \in 1 .. events[st][sy]
      BY <2>1 DEF OutOrder
    <3> QED BY <1>1, <1>6, <2>1, <3>1, <3>2 DEF QueueOrder
  <2> QED BY <2>2, <2>3
<1>10. ASSUME NEW st \in Streams, NEW sy \in Symbols, NEW n,
              Newer(out, msgCh, events, via, st, sy, n)
       PROVE  Newer(out', msgCh', events', via', st, sy, n)
  <2>1. \A j \in DOMAIN msgCh : Of(msgCh[j].msg, st, sy) => msgCh[j].msg.id \in 1 .. events[st][sy]
    BY DEF OrderInv, QueueOrder
  <2>2. \A j \in DOMAIN out[Kind(st)][sy] : out[Kind(st)][sy][j] \in 1 .. events[st][sy]
    BY DEF OrderInv, OutOrder
  <2> QED BY <1>1, <1>6, <1>10, <2>1, <2>2 DEF Newer
<1>11. Newer(out', msgCh', events', via', s[1], sym, new)
  <2>1. \A j \in DOMAIN msgCh :
          Of(msgCh[j].msg, s[1], sym) => msgCh[j].msg.id \in 1 .. events[s[1]][sym]
    BY <1>2 DEF OrderInv, QueueOrder
  <2>2. \A j \in DOMAIN out[Kind(s[1])][sym] : out[Kind(s[1])][sym][j] \in 1 .. events[s[1]][sym]
    BY <1>2 DEF OrderInv, OutOrder
  <2>3. new \in 1 .. events'[s[1]][sym]
    BY <1>4, <1>5
  <2> QED BY <1>1, <1>5, <2>1, <2>2, <2>3 DEF Newer
<1>12. ASSUME NEW t \in Services, wire'[t] = wire[t] PROVE WireOrder(t)'
  <2>1. WireOrder(t) /\ t[1] \in Streams
    BY ServiceParts DEF OrderInv
  <2>2. ASSUME NEW j \in DOMAIN wire[t]
        PROVE  /\ wire[t][j].n \in 1 .. events[t[1]][wire[t][j].symbol]
               /\ wire[t][j].symbol \in Symbols
    BY <1>t, <2>1 DEF WireOrder, Newer
  <2>3. ASSUME NEW j \in DOMAIN wire[t]
        PROVE  /\ Newer(out', msgCh', events', via', t[1], wire[t][j].symbol, wire[t][j].n)
               /\ via'[t[1]][wire[t][j].symbol][wire[t][j].n] = conn[t]
               /\ \A i \in DOMAIN wire[t] :
                    i < j /\ wire[t][i].symbol = wire[t][j].symbol
                    => InOrder(via'[t[1]][wire[t][j].symbol], wire[t][i].n, wire[t][j].n)
    <3> DEFINE sy == wire[t][j].symbol
    <3>3. /\ Newer(out, msgCh, events, via, t[1], sy, wire[t][j].n)
          /\ via[t[1]][sy][wire[t][j].n] = conn[t]
          /\ \A i \in DOMAIN wire[t] : i < j /\ wire[t][i].symbol = sy
                                        => InOrder(via[t[1]][sy], wire[t][i].n, wire[t][j].n)
      BY <2>1 DEF WireOrder
    <3>4. sy \in Symbols /\ wire[t][j].n \in 1 .. events[t[1]][sy]
          /\ \A i \in DOMAIN wire[t] : wire[t][i].symbol = sy => wire[t][i].n \in 1 .. events[t[1]][sy]
      BY <2>2
    <3> HIDE DEF sy
    <3>5. Newer(out', msgCh', events', via', t[1], sy, wire[t][j].n)
      BY <1>10, <2>1, <3>3, <3>4
    <3> QED BY <1>6, <2>1, <3>3, <3>4, <3>5 DEF sy
  <2>4. conn' = conn
    BY <1>1
  <2> QED BY <1>12, <2>3, <2>4 DEF WireOrder
<1>13. ASSUME wire'[s] = Append(old, e) PROVE WireOrder(s)'
  <2> DEFINE w == wire'[s]
             n == Len(old)
             u(sy) == via'[s[1]][sy]
  <2>1. /\ n \in Nat /\ DOMAIN old = 1 .. n /\ DOMAIN w = 1 .. n + 1
        /\ \A i \in 1 .. n : w[i] = old[i]
        /\ w[n + 1] = e
    BY <1>8, <1>13, <1>t, AppendPositions
  <2>2. ASSUME NEW j \in DOMAIN old
        PROVE  /\ Newer(out', msgCh', events', via', s[1], old[j].symbol, old[j].n)
               /\ u(old[j].symbol)[old[j].n] = conn[s]
               /\ old[j].symbol = sym => InOrder(u(sym), old[j].n, new)
               /\ \A i \in DOMAIN old :
                    i < j /\ old[i].symbol = old[j].symbol => InOrder(u(old[j].symbol), old[i].n, old[j].n)
    <3>1. WireOrder(s)
      BY DEF OrderInv
    <3>2. /\ old[j].symbol \in Symbols
          /\ Newer(out, msgCh, events, via, s[1], old[j].symbol, old[j].n)
          /\ via[s[1]][old[j].symbol][old[j].n] = conn[s]
          /\ \A i \in DOMAIN old : i < j /\ old[i].symbol = old[j].symbol
                                   => InOrder(via[s[1]][old[j].symbol], old[i].n, old[j].n)
      BY <1>t, <2>2, <3>1 DEF WireOrder
    <3>3. \A i \in DOMAIN old : old[i].n \in 1 .. events[s[1]][old[i].symbol]
      BY <3>1 DEF WireOrder, Newer
    <3>4. old[j].symbol = sym => InOrder(u(sym), old[j].n, new)
      BY <1>5, <2>2, <3>3
    <3>5. \A i \in DOMAIN old :
            i < j /\ old[i].symbol = old[j].symbol => InOrder(u(old[j].symbol), old[i].n, old[j].n)
      BY <1>2, <1>6, <2>2, <3>2, <3>3
    <3>6. u(old[j].symbol)[old[j].n] = conn[s]
      BY <1>2, <1>6, <2>2, <3>2, <3>3
    <3> QED BY <1>2, <1>10, <3>2, <3>4, <3>5, <3>6
  <2> HIDE DEF w, old, n
  <2>3. ASSUME NEW j \in DOMAIN w
        PROVE  /\ Newer(out', msgCh', events', via', s[1], w[j].symbol, w[j].n)
               /\ u(w[j].symbol)[w[j].n] = conn[s]
               /\ \A i \in DOMAIN w :
                    i < j /\ w[i].symbol = w[j].symbol => InOrder(u(w[j].symbol), w[i].n, w[j].n)
    <3>1. \A i \in DOMAIN w : i < j => i \in DOMAIN old /\ w[i] = old[i]
      BY <2>1, <2>3
    <3> HIDE DEF u
    <3>2. CASE j = n + 1
      <4>1. w[j].symbol = sym /\ w[j].n = new /\ u(sym)[new] = conn[s]
        BY <1>5, <1>8, <2>1, <3>2 DEF u
      <4> QED BY <1>11, <2>2, <3>1, <4>1
    <3>3. CASE j \in DOMAIN old
      BY <2>1, <2>2, <3>1, <3>3
    <3> QED BY <2>1, <2>3, <3>2, <3>3
  <2>4. conn' = conn
    BY <1>1
  <2> QED BY <2>3, <2>4 DEF WireOrder, w
<1>14. ASSUME NEW x \in late' PROVE LateOrder(x)'
  <2>1. x \in late
    BY <1>1, <1>14
  <2>2. LateOrder(x) /\ x.event.stream \in Streams /\ x.event.symbol \in Symbols
    BY <2>1, LateTypes DEF OrderInv
  <2>3. x.event.n \in 1 .. events[x.event.stream][x.event.symbol]
    BY <2>2 DEF LateOrder, Newer
  <2> DEFINE st == x.event.stream
             sy == x.event.symbol
             n == x.event.n
  <2>4. /\ Newer(out, msgCh, events, via, st, sy, n)
        /\ via[st][sy][n] = x.by[2] /\ x.by[2] < conn[x.by[1]]
    BY <2>2 DEF LateOrder
  <2> HIDE DEF st, sy, n
  <2>5. st \in Streams /\ sy \in Symbols /\ n \in 1 .. events[st][sy]
    BY <2>2, <2>3 DEF st, sy, n
  <2>6. Newer(out', msgCh', events', via', st, sy, n) /\ via'[st][sy][n] = x.by[2]
    BY <1>6, <1>10, <2>4, <2>5
  <2> QED BY <1>1, <2>4, <2>6 DEF LateOrder, st, sy, n
<1>15. \A st \in Streams, sy \in Symbols : (Len(via[st][sy]) = events[st][sy])'
  BY <1>6
<1> QED BY <1>9, <1>12, <1>13, <1>14, <1>15, <1>w DEF OrderInv

\* A message that may follow the rest joins the channel.
LEMMA QueueAppend ==
  ASSUME TypeInv, OrderInv, NEW x \in Entries, msgCh' = Append(msgCh, x), UNCHANGED <<out, events, via>>,
         \A st \in Streams, sym \in Symbols :
           Of(x.msg, st, sym) => Newer(out, msgCh, events, via, st, sym, x.msg.id)
  PROVE  /\ \A st \in Streams, sym \in Symbols : (OutOrder(st, sym) /\ QueueOrder(st, sym))'
         /\ \A st \in Streams, sym \in Symbols, n \in Nat :
              Newer(out, msgCh, events, via, st, sym, n)
              /\ (Of(x.msg, st, sym) => InOrder(via[st][sym], x.msg.id, n))
              => Newer(out', msgCh', events', via', st, sym, n)
         /\ \A st \in Streams, sym \in Symbols : (Len(via[st][sym]) = events[st][sym])'
<1> DEFINE l == Len(msgCh)
           q == msgCh'
<1>1. /\ l \in Nat /\ DOMAIN msgCh = 1 .. l /\ DOMAIN q = 1 .. l + 1
      /\ \A i \in 1 .. l : q[i] = msgCh[i]
      /\ q[l + 1] = x
  <2>1. msgCh \in Seq(Entries)
    BY TypeParts DEF ChannelType
  <2> QED BY <2>1, AppendPositions
<1> HIDE DEF l, q
<1>2. /\ \A i \in DOMAIN q : (i \in DOMAIN msgCh /\ q[i] = msgCh[i]) \/ (i = l + 1 /\ q[i] = x)
      /\ \A i, j \in DOMAIN q : i < j => i \in DOMAIN msgCh /\ q[i] = msgCh[i]
  BY <1>1
<1>3. ASSUME NEW st \in Streams, NEW sym \in Symbols
      PROVE  (OutOrder(st, sym) /\ QueueOrder(st, sym))'
  <2>1. OutOrder(st, sym) /\ QueueOrder(st, sym)
    BY DEF OrderInv
  <2>2. OutOrder(st, sym)'
    BY <2>1 DEF OutOrder
  <2>3. ASSUME NEW j \in DOMAIN q, Of(q[j].msg, st, sym)
        PROVE  /\ q[j].msg.id \in 1 .. events[st][sym]
               /\ \A i \in DOMAIN out[Kind(st)][sym] :
                    InOrder(via[st][sym], out[Kind(st)][sym][i], q[j].msg.id)
               /\ \A i \in DOMAIN msgCh : i < j /\ Of(msgCh[i].msg, st, sym)
                                          => InOrder(via[st][sym], msgCh[i].msg.id, q[j].msg.id)
    <3>1. CASE j \in DOMAIN msgCh /\ q[j] = msgCh[j]
      BY <2>1, <2>3, <3>1 DEF QueueOrder
    <3>2. CASE q[j] = x
      BY <2>3, <3>2 DEF Newer
    <3> QED BY <1>2, <2>3, <3>1, <3>2
  <2>4. QueueOrder(st, sym)'
    BY <1>2, <2>3 DEF QueueOrder, q
  <2> QED BY <2>2, <2>4
<1>4. ASSUME NEW st \in Streams, NEW sym \in Symbols, NEW n \in Nat,
             Newer(out, msgCh, events, via, st, sym, n),
             Of(x.msg, st, sym) => InOrder(via[st][sym], x.msg.id, n)
      PROVE  Newer(out', msgCh', events', via', st, sym, n)
  BY <1>2, <1>4 DEF Newer, q
<1>5. \A st \in Streams, sym \in Symbols : (Len(via[st][sym]) = events[st][sym])'
  BY DEF OrderInv
<1> QED BY <1>3, <1>4, <1>5

\* A message of an event is of the event's stream and symbol only.
LEMMA OfQuote ==
  ASSUME NEW e \in Events, NEW st \in Streams, NEW sym
  PROVE  Of(QuoteMessage(e), st, sym) <=> st = e.stream /\ sym = e.symbol
<1>1. e.stream \in Streams
  BY DEF Events
<1> QED BY <1>1, MessageParts, Names DEF Of

LEMMA OrderHandler ==
  ASSUME TypeInv, OrderInv, NEW s \in Services, Handler(s)
  PROVE  OrderInv'
<1> DEFINE old == wire[s]
           w == Tail(old)
           e == Head(old)
           x == [by |-> <<s, conn[s]>>, msg |-> QuoteMessage(e)]
<1>1. /\ old # <<>> /\ wire' = [wire EXCEPT ![s] = w] /\ msgCh' = Append(msgCh, x)
      /\ UNCHANGED <<out, events, services, conn, late, via>>
  BY DEF Handler
<1>2. s[1] \in Streams /\ WireOrder(s)
  BY ServiceParts DEF OrderInv
<1>3. old \in Seq(Events) /\ wire \in [Services -> Seq(Events)] /\ conn[s] \in Nat
  BY TypeParts DEF ServiceType
<1>4. /\ e \in Events /\ e = old[1] /\ 1 \in DOMAIN old /\ w \in Seq(Events)
      /\ \A i \in DOMAIN w : i + 1 \in DOMAIN old /\ w[i] = old[i + 1] /\ 1 < i + 1 /\ i \in Int
  BY <1>1, <1>3, TailPositions
<1>5. x \in Entries /\ x.msg = QuoteMessage(e) /\ x.msg.id = e.n
  <2>1. QuoteMessage(e) \in Messages /\ <<s, conn[s]>> \in Senders /\ QuoteMessage(e).id = e.n
    BY <1>3, <1>4, MessageParts, SnapperApart
  <2> HIDE DEF e
  <2> QED BY <2>1 DEF Entries
<1>6. /\ wire'[s] = w
      /\ \A t \in Services : t # s => wire'[t] = wire[t]
  <2> HIDE DEF w
  <2> QED BY <1>1, <1>3
<1>7. /\ e.stream = s[1] /\ e.symbol \in Symbols /\ e.symbol \in SymbolsOf(s)
      /\ Newer(out, msgCh, events, via, s[1], e.symbol, e.n)
      /\ via[s[1]][e.symbol][e.n] = conn[s]
  BY <1>2, <1>4, OrderTypes DEF WireOrder
<1>8. \A t \in Services : \A j \in DOMAIN wire[t] :
        /\ wire[t][j].n \in Nat /\ wire[t][j].symbol \in Symbols
        /\ wire[t][j].symbol \in SymbolsOf(t)
  BY OrderTypes
<1> HIDE DEF x, e, w
<1>9. \A st \in Streams : \A sym : Of(x.msg, st, sym) <=> st = s[1] /\ sym = e.symbol
  BY <1>4, <1>5, <1>7, OfQuote
<1>10. /\ \A st \in Streams, sym \in Symbols : (OutOrder(st, sym) /\ QueueOrder(st, sym))'
       /\ \A st \in Streams, sym \in Symbols, n \in Nat :
            Newer(out, msgCh, events, via, st, sym, n)
            /\ (Of(x.msg, st, sym) => InOrder(via[st][sym], x.msg.id, n))
            => Newer(out', msgCh', events', via', st, sym, n)
       /\ \A st \in Streams, sym \in Symbols : (Len(via[st][sym]) = events[st][sym])'
  BY <1>1, <1>5, <1>7, <1>9, QueueAppend
<1>11. ASSUME NEW t \in Services, t # s PROVE WireOrder(t)'
  <2>1. t[1] \in Streams /\ WireOrder(t)
    BY ServiceParts DEF OrderInv
  <2>2. \A j \in DOMAIN wire[t] : ~Of(x.msg, t[1], wire[t][j].symbol)
    <3>1. Split
      BY OpenedFacts DEF TypeInv
    <3>2. ASSUME NEW j \in DOMAIN wire[t], t[1] = s[1], wire[t][j].symbol = e.symbol PROVE FALSE
      <4>1. e.symbol \in SymbolsOf(t) \cap SymbolsOf(s)
        BY <1>7, <1>8, <3>2
      <4> QED BY <1>11, <3>1, <3>2, <4>1 DEF Split
    <3> QED BY <1>9, <2>1, <3>2
  <2> QED BY <1>1, <1>6, <1>8, <1>10, <1>11, <2>1, <2>2 DEF WireOrder
<1>12. WireOrder(s)'
  <2>1. \A i, j \in DOMAIN w : i < j => i + 1 < j + 1
    BY <1>4
  <2>2. ASSUME NEW j \in DOMAIN w
        PROVE  /\ Newer(out', msgCh', events', via', s[1], w[j].symbol, w[j].n)
               /\ via[s[1]][w[j].symbol][w[j].n] = conn[s]
               /\ \A i \in DOMAIN w : i < j /\ w[i].symbol = w[j].symbol
                                      => InOrder(via[s[1]][w[j].symbol], w[i].n, w[j].n)
    <3> DEFINE k == j + 1
    <3>1. k \in DOMAIN old /\ w[j] = old[k] /\ 1 < k
      BY <1>4, <2>2
    <3> HIDE DEF k
    <3>2. /\ Newer(out, msgCh, events, via, s[1], old[k].symbol, old[k].n)
          /\ via[s[1]][old[k].symbol][old[k].n] = conn[s]
          /\ \A i \in DOMAIN old : i < k /\ old[i].symbol = old[k].symbol
                                   => InOrder(via[s[1]][old[k].symbol], old[i].n, old[k].n)
          /\ old[k].symbol \in Symbols /\ old[k].n \in Nat
      BY <1>2, <1>8, <3>1 DEF WireOrder
    <3>3. old[k].symbol = e.symbol => InOrder(via[s[1]][old[k].symbol], e.n, old[k].n)
      BY <1>4, <3>1, <3>2
    <3> HIDE DEF old
    <3>4. Newer(out', msgCh', events', via', s[1], old[k].symbol, old[k].n)
      BY <1>2, <1>5, <1>9, <1>10, <3>2, <3>3
    <3>5. \A i \in DOMAIN w : i < j => i + 1 \in DOMAIN old /\ w[i] = old[i + 1] /\ i + 1 < k
      BY <1>4, <2>1 DEF k
    <3> QED BY <3>1, <3>2, <3>4, <3>5
  <2> QED BY <1>1, <1>6, <2>2 DEF WireOrder
<1>13. ASSUME NEW y \in late' PROVE LateOrder(y)'
  <2> DEFINE f == y.event
  <2>1. y \in late
    BY <1>1, <1>13
  <2>2. /\ LateOrder(y) /\ f.stream \in Streams /\ f.symbol \in Symbols /\ f.n \in Nat
        /\ y.by[1] \in Services /\ y.by[2] \in Nat
        /\ f.stream = y.by[1][1] /\ f.symbol \in SymbolsOf(y.by[1])
    BY <2>1, LateTypes DEF OrderInv
  <2>3. /\ Newer(out, msgCh, events, via, f.stream, f.symbol, f.n)
        /\ via[f.stream][f.symbol][f.n] = y.by[2] /\ y.by[2] < conn[y.by[1]]
    BY <2>2 DEF LateOrder
  <2>4. Of(x.msg, f.stream, f.symbol) => InOrder(via[f.stream][f.symbol], x.msg.id, f.n)
    <3> SUFFICES ASSUME Of(x.msg, f.stream, f.symbol)
                 PROVE  InOrder(via[f.stream][f.symbol], x.msg.id, f.n)
      OBVIOUS
    <3>1. f.stream = s[1] /\ f.symbol = e.symbol
      BY <1>9, <2>2
    <3>2. y.by[1] = s
      <4>1. Split
        BY OpenedFacts DEF TypeInv
      <4> QED BY <1>7, <2>2, <3>1, <4>1 DEF Split
    <3>3. via[f.stream][f.symbol][f.n] # via[f.stream][f.symbol][e.n]
      <4>1. via[f.stream][f.symbol][e.n] = conn[s] /\ via[f.stream][f.symbol][f.n] = y.by[2]
        BY <1>7, <2>3, <3>1
      <4>2. y.by[2] < conn[s] /\ y.by[2] \in Nat /\ conn[s] \in Nat
        BY <1>3, <2>2, <2>3, <3>2
      <4> QED BY <4>1, <4>2
    <3> QED BY <1>5, <3>3 DEF InOrder
  <2>5. Newer(out', msgCh', events', via', f.stream, f.symbol, f.n)
    BY <1>10, <2>2, <2>3, <2>4
  <2> QED BY <1>1, <2>3, <2>5 DEF LateOrder
<1> QED BY <1>10, <1>11, <1>12, <1>13 DEF OrderInv

\* The reader of a closed connection takes the oldest frame of a symbol.
LEMMA OrderLateHandler ==
  ASSUME TypeInv, OrderInv, NEW z \in late, LateHandler(z)
  PROVE  OrderInv'
<1> DEFINE e == z.event
           s == z.by[1]
           x == [by |-> z.by, msg |-> QuoteMessage(e)]
<1>1. /\ late' = late \ {z} /\ msgCh' = Append(msgCh, x)
      /\ \A y \in late : y.by = z.by /\ y.event.symbol = e.symbol => e.n <= y.event.n
      /\ UNCHANGED <<out, events, services, conn, wire, via>>
  BY DEF LateHandler
<1>2. /\ e \in Events /\ e.stream \in Streams /\ e.symbol \in Symbols /\ e.n \in Nat
      /\ s \in Services /\ z.by[2] \in Nat /\ z.by = <<s, z.by[2]>>
      /\ e.stream = s[1] /\ e.symbol \in SymbolsOf(s)
  BY LateTypes
<1>3. LateOrder(z)
  BY DEF OrderInv
<1>4. /\ Newer(out, msgCh, events, via, e.stream, e.symbol, e.n)
      /\ via[e.stream][e.symbol][e.n] = z.by[2] /\ z.by[2] < conn[s]
  BY <1>3 DEF LateOrder
<1>5. x \in Entries /\ x.msg = QuoteMessage(e) /\ x.msg.id = e.n
  <2>1. QuoteMessage(e) \in Messages /\ z.by \in Senders /\ QuoteMessage(e).id = e.n
    BY <1>2, MessageParts, SnapperApart
  <2> HIDE DEF e
  <2> QED BY <2>1 DEF Entries
<1>6. Split
  BY OpenedFacts DEF TypeInv
<1>7. conn[s] \in Nat /\ \A t \in Services : \A j \in DOMAIN wire[t] :
        /\ wire[t][j].n \in Nat /\ wire[t][j].symbol \in Symbols
        /\ wire[t][j].symbol \in SymbolsOf(t)
  BY <1>2, OrderTypes, TypeParts DEF ServiceType
<1> HIDE DEF x, e, s
<1>8. \A st \in Streams : \A sym : Of(x.msg, st, sym) <=> st = e.stream /\ sym = e.symbol
  BY <1>2, <1>5, OfQuote
<1>9. /\ \A st \in Streams, sym \in Symbols : (OutOrder(st, sym) /\ QueueOrder(st, sym))'
      /\ \A st \in Streams, sym \in Symbols, n \in Nat :
           Newer(out, msgCh, events, via, st, sym, n)
           /\ (Of(x.msg, st, sym) => InOrder(via[st][sym], x.msg.id, n))
           => Newer(out', msgCh', events', via', st, sym, n)
      /\ \A st \in Streams, sym \in Symbols : (Len(via[st][sym]) = events[st][sym])'
  BY <1>1, <1>4, <1>5, <1>8, QueueAppend
<1>10. ASSUME NEW t \in Services PROVE WireOrder(t)'
  <2>1. t[1] \in Streams /\ WireOrder(t)
    BY ServiceParts DEF OrderInv
  <2>2. ASSUME NEW j \in DOMAIN wire[t], Of(x.msg, t[1], wire[t][j].symbol)
        PROVE  InOrder(via[t[1]][wire[t][j].symbol], x.msg.id, wire[t][j].n)
    <3>1. t[1] = e.stream /\ wire[t][j].symbol = e.symbol
      BY <1>8, <2>1, <2>2
    <3>2. t = s
      BY <1>2, <1>6, <1>7, <3>1 DEF Split
    <3>3. via[e.stream][e.symbol][wire[t][j].n] = conn[s]
      BY <2>1, <3>1, <3>2 DEF WireOrder
    <3>4. via[e.stream][e.symbol][e.n] # via[e.stream][e.symbol][wire[t][j].n]
      BY <1>2, <1>4, <1>7, <3>3
    <3> QED BY <1>5, <3>1, <3>4 DEF InOrder
  <2> QED BY <1>1, <1>7, <1>9, <2>1, <2>2 DEF WireOrder
<1>11. ASSUME NEW y \in late' PROVE LateOrder(y)'
  <2> DEFINE f == y.event
  <2>1. y \in late /\ y # z
    BY <1>1, <1>11
  <2>2. /\ LateOrder(y) /\ f \in Events /\ f.stream \in Streams /\ f.symbol \in Symbols /\ f.n \in Nat
        /\ y.by[1] \in Services /\ y.by[2] \in Nat /\ y.by = <<y.by[1], y.by[2]>>
        /\ f.stream = y.by[1][1] /\ f.symbol \in SymbolsOf(y.by[1])
    BY <2>1, LateTypes DEF OrderInv
  <2>3. /\ Newer(out, msgCh, events, via, f.stream, f.symbol, f.n)
        /\ via[f.stream][f.symbol][f.n] = y.by[2] /\ y.by[2] < conn[y.by[1]]
    BY <2>2 DEF LateOrder
  <2>4. Of(x.msg, f.stream, f.symbol) => InOrder(via[f.stream][f.symbol], x.msg.id, f.n)
    <3> SUFFICES ASSUME Of(x.msg, f.stream, f.symbol)
                 PROVE  InOrder(via[f.stream][f.symbol], e.n, f.n)
      BY <1>5
    <3>1. f.stream = e.stream /\ f.symbol = e.symbol
      BY <1>8, <2>2
    <3>2. y.by[1] = s
      BY <1>2, <1>6, <2>2, <3>1 DEF Split
    <3>3. via[f.stream][f.symbol][e.n] = z.by[2] /\ via[f.stream][f.symbol][f.n] = y.by[2]
      BY <1>4, <2>3, <3>1
    <3>4. y.by[2] = z.by[2] => y.by = z.by
      BY <1>2, <2>2, <3>2
    <3>5. y.by = z.by => e.n <= f.n
      BY <1>1, <2>1, <3>1
    <3>6. y.by = z.by => e.n # f.n
      <4> SUFFICES ASSUME y.by = z.by, e.n = f.n PROVE FALSE
        OBVIOUS
      <4>1. e = f
        BY <1>2, <2>2, <3>1 DEF Events
      <4>2. y \in Frames /\ z \in Frames
        BY <2>1, TypeParts DEF LateType
      <4>3. y = z
        BY <4>1, <4>2 DEF Frames, e
      <4> QED BY <2>1, <4>3
    <3>7. e.n # f.n
      BY <3>3, <3>4, <3>6
    <3>8. via[f.stream][f.symbol][e.n] = via[f.stream][f.symbol][f.n] => e.n < f.n
      BY <1>2, <2>2, <3>3, <3>4, <3>5, <3>7
    <3> QED BY <3>7, <3>8 DEF InOrder
  <2>5. Newer(out', msgCh', events', via', f.stream, f.symbol, f.n)
    BY <1>9, <2>2, <2>3, <2>4
  <2> QED BY <1>1, <2>3, <2>5 DEF LateOrder
<1> QED BY <1>9, <1>10, <1>11 DEF OrderInv

LEMMA OrderSnapSend ==
  ASSUME TypeInv, OrderInv, SnapSend
  PROVE  OrderInv'
<1> DEFINE x == [by |-> Snapper, msg |-> SnapShotMessage(task.symbol, task.id)]
<1>1. task.step = "response" /\ msgCh' = Append(msgCh, x)
      /\ UNCHANGED <<out, events, wire, conn, late, via>>
  BY DEF SnapSend, services_
<1>2. x \in Entries /\ x.msg.type = "SnapShot"
  <2>1. task.symbol \in Symbols /\ task.id \in Nat
    BY <1>1, TypeParts, TaskParts
  <2>2. /\ SnapShotMessage(task.symbol, task.id) \in Messages
        /\ SnapShotMessage(task.symbol, task.id).type = "SnapShot" /\ Snapper \in Senders
    BY <2>1, MessageParts, SnapperApart
  <2> QED BY <2>2 DEF Entries
<1> HIDE DEF x
<1>3. \A st \in Streams : \A sym : ~Of(x.msg, st, sym)
  BY <1>2, Names DEF Of
<1>4. /\ \A st \in Streams, sym \in Symbols : (OutOrder(st, sym) /\ QueueOrder(st, sym))'
      /\ \A st \in Streams, sym \in Symbols, n \in Nat :
           Newer(out, msgCh, events, via, st, sym, n) => Newer(out', msgCh', events', via', st, sym, n)
      /\ \A st \in Streams, sym \in Symbols : (Len(via[st][sym]) = events[st][sym])'
  BY <1>1, <1>2, <1>3, QueueAppend
<1>5. ASSUME NEW t \in Services PROVE WireOrder(t)'
  <2>1. t[1] \in Streams /\ WireOrder(t)
    BY ServiceParts DEF OrderInv
  <2>2. \A j \in DOMAIN wire[t] : wire[t][j].n \in Nat /\ wire[t][j].symbol \in Symbols
    BY OrderTypes
  <2> QED BY <1>1, <1>4, <2>1, <2>2 DEF WireOrder
<1>6. ASSUME NEW y \in late' PROVE LateOrder(y)'
  <2>1. y \in late
    BY <1>1, <1>6
  <2>2. LateOrder(y) /\ y.event.stream \in Streams /\ y.event.symbol \in Symbols /\ y.event.n \in Nat
    BY <2>1, LateTypes DEF OrderInv
  <2> QED BY <1>1, <1>4, <2>2 DEF LateOrder
<1> QED BY <1>4, <1>5, <1>6 DEF OrderInv

LEMMA OrderFanOut ==
  ASSUME TypeInv, OrderInv, FanOut
  PROVE  OrderInv'
<1> DEFINE q == Tail(msgCh)
           h == Head(msgCh).msg
<1>1. /\ msgCh # <<>> /\ out' = fanout(h) /\ msgCh' = q
      /\ UNCHANGED <<events, wire, conn, late, via>>
  BY DEF FanOut, services_
<1>2. msgCh \in Seq(Entries) /\ out \in [Kinds -> [Symbols -> Seq(Nat)]]
  BY TypeParts DEF ChannelType
<1>3. /\ h = msgCh[1].msg /\ 1 \in DOMAIN msgCh
      /\ \A i \in DOMAIN q : i + 1 \in DOMAIN msgCh /\ q[i] = msgCh[i + 1] /\ 1 < i + 1 /\ i \in Int
  BY <1>1, <1>2, TailPositions
<1>4. \A i, j \in DOMAIN q : i < j => i + 1 < j + 1
  BY <1>3
<1>5. h \in Messages /\ h.id \in Nat
  BY <1>3, OrderTypes
<1>6. ASSUME NEW st \in Streams, NEW sym \in Symbols
      PROVE  out'[Kind(st)][sym] = out[Kind(st)][sym]
             \/ (Of(h, st, sym) /\ out'[Kind(st)][sym] = Append(out[Kind(st)][sym], h.id))
  <2> DEFINE ty == QuoteType[st]
  <2>1. ty \in Types
    BY Names
  <2> HIDE DEF h, ty
  <2>2. fanout(h)[KindOf(ty)][sym] =
          IF DataEncodeType \in {"GOB", "PB"} /\ ty = h.type /\ sym = h.symbol
          THEN Append(out[KindOf(ty)][sym], h.id) ELSE out[KindOf(ty)][sym]
    BY <1>2, <1>5, <2>1, FanoutParts
  <2>3. Kind(st) = KindOf(ty) /\ (Of(h, st, sym) <=> h.type = ty /\ h.symbol = sym)
    BY DEF Kind, Of, ty
  <2> QED BY <1>1, <2>2, <2>3
<1> HIDE DEF q, h
<1>7. ASSUME NEW st \in Streams, NEW sym \in Symbols
      PROVE  /\ \A i, j \in DOMAIN q :
                  i < j /\ Of(q[i].msg, st, sym) /\ Of(q[j].msg, st, sym)
                  => InOrder(via[st][sym], q[i].msg.id, q[j].msg.id)
             /\ \A i \in DOMAIN q : Of(q[i].msg, st, sym) =>
                  /\ q[i].msg.id \in 1 .. events[st][sym]
                  /\ Of(h, st, sym) => InOrder(via[st][sym], h.id, q[i].msg.id)
                  /\ \A j \in DOMAIN out[Kind(st)][sym] :
                       InOrder(via[st][sym], out[Kind(st)][sym][j], q[i].msg.id)
  <2>1. QueueOrder(st, sym)
    BY DEF OrderInv
  <2>2. \A i, j \in DOMAIN q :
          i < j /\ Of(q[i].msg, st, sym) /\ Of(q[j].msg, st, sym)
          => InOrder(via[st][sym], q[i].msg.id, q[j].msg.id)
    BY <1>3, <1>4, <2>1 DEF QueueOrder
  <2>3. ASSUME NEW i \in DOMAIN q, Of(q[i].msg, st, sym)
        PROVE  /\ q[i].msg.id \in 1 .. events[st][sym]
               /\ Of(h, st, sym) => InOrder(via[st][sym], h.id, q[i].msg.id)
               /\ \A j \in DOMAIN out[Kind(st)][sym] :
                    InOrder(via[st][sym], out[Kind(st)][sym][j], q[i].msg.id)
    BY <1>3, <2>1, <2>3 DEF QueueOrder
  <2> QED BY <2>2, <2>3
<1>8. ASSUME NEW st \in Streams, NEW sym \in Symbols
      PROVE  /\ (OutOrder(st, sym) /\ QueueOrder(st, sym))'
             /\ \A n : Newer(out, msgCh, events, via, st, sym, n) => Newer(out', msgCh', events', via', st, sym, n)
  <2> DEFINE L == out[Kind(st)][sym]
             M == out'[Kind(st)][sym]
             v == via[st][sym]
  <2>1. L \in Seq(Nat)
    BY OrderTypes
  <2>2. /\ \A i \in DOMAIN M : (i \in DOMAIN L /\ M[i] = L[i]) \/ (Of(h, st, sym) /\ M[i] = h.id)
        /\ \A i, j \in DOMAIN M : i < j => i \in DOMAIN L /\ M[i] = L[i]
    <3>1. CASE M = L
      <4>1. DOMAIN L = 1 .. Len(L) /\ Len(L) \in Nat
        BY <2>1
      <4> HIDE DEF L, M
      <4> QED BY <3>1, <4>1
    <3>2. CASE Of(h, st, sym) /\ M = Append(L, h.id)
      <4>1. /\ Len(L) \in Nat /\ DOMAIN L = 1 .. Len(L) /\ DOMAIN M = 1 .. Len(L) + 1
            /\ \A i \in 1 .. Len(L) : M[i] = L[i]
            /\ M[Len(L) + 1] = h.id
        BY <1>5, <2>1, <3>2, AppendPositions
      <4> HIDE DEF L, M
      <4> QED BY <3>2, <4>1
    <3> QED BY <1>6, <3>1, <3>2
  <2>3. /\ \A i, j \in DOMAIN L : i < j => InOrder(v, L[i], L[j])
        /\ \A i \in DOMAIN L : L[i] \in 1 .. events[st][sym]
        /\ Of(h, st, sym) => h.id \in 1 .. events[st][sym] /\ \A i \in DOMAIN L : InOrder(v, L[i], h.id)
    BY <1>3 DEF OrderInv, OutOrder, QueueOrder
  <2>4. \A i \in DOMAIN q : Of(q[i].msg, st, sym) =>
          /\ \A j \in DOMAIN L : InOrder(v, L[j], q[i].msg.id)
          /\ Of(h, st, sym) => InOrder(v, h.id, q[i].msg.id)
    BY <1>7
  <2>5. \A n : Newer(out, msgCh, events, via, st, sym, n) =>
          /\ \A i \in DOMAIN q : Of(q[i].msg, st, sym) => InOrder(v, q[i].msg.id, n)
          /\ Of(h, st, sym) => InOrder(v, h.id, n)
          /\ \A i \in DOMAIN L : InOrder(v, L[i], n)
          /\ n \in 1 .. events[st][sym]
    BY <1>3 DEF Newer
  <2> HIDE DEF L, M, v
  <2>6. /\ \A i, j \in DOMAIN M : i < j => InOrder(v, M[i], M[j])
        /\ \A i \in DOMAIN M : M[i] \in 1 .. events[st][sym]
    BY <2>2, <2>3
  <2>7. \A i \in DOMAIN q : Of(q[i].msg, st, sym) => \A j \in DOMAIN M : InOrder(v, M[j], q[i].msg.id)
    BY <2>2, <2>4
  <2>8. ASSUME NEW n, Newer(out, msgCh, events, via, st, sym, n)
        PROVE  Newer(out', msgCh', events', via', st, sym, n)
    <3>1. \A i \in DOMAIN M : InOrder(v, M[i], n)
      BY <2>2, <2>5, <2>8
    <3> QED BY <1>1, <2>5, <2>8, <3>1 DEF Newer, M, v
  <2>9. OutOrder(st, sym)'
    BY <1>1, <2>6 DEF OutOrder, M, v
  <2>10. QueueOrder(st, sym)'
    BY <1>1, <1>7, <2>7 DEF QueueOrder, M, v
  <2> QED BY <2>8, <2>9, <2>10
<1>9. ASSUME NEW t \in Services PROVE WireOrder(t)'
  <2>1. t[1] \in Streams /\ WireOrder(t)
    BY ServiceParts DEF OrderInv
  <2>2. \A j \in DOMAIN wire[t] : wire[t][j].symbol \in Symbols
    BY OrderTypes
  <2>3. \A sym \in Symbols : \A n :
          Newer(out, msgCh, events, via, t[1], sym, n) => Newer(out', msgCh', events', via', t[1], sym, n)
    BY <1>8, <2>1
  <2> QED BY <1>1, <2>1, <2>2, <2>3 DEF WireOrder
<1>10. ASSUME NEW y \in late' PROVE LateOrder(y)'
  <2>1. y \in late
    BY <1>1, <1>10
  <2>2. LateOrder(y) /\ y.event.stream \in Streams /\ y.event.symbol \in Symbols /\ y.event.n \in Nat
    BY <2>1, LateTypes DEF OrderInv
  <2> QED BY <1>1, <1>8, <2>2 DEF LateOrder
<1>11. \A st \in Streams, sym \in Symbols : (Len(via[st][sym]) = events[st][sym])'
  BY <1>1 DEF OrderInv
<1> QED BY <1>8, <1>9, <1>10, <1>11 DEF OrderInv

LEMMA OrderInit == Init => OrderInv
<1> SUFFICES ASSUME Init PROVE OrderInv
  OBVIOUS
<1>1. msgCh = <<>> /\ out = [kind \in Kinds |-> [sym \in Symbols |-> <<>>]]
      /\ wire = [s \in Services |-> <<>>] /\ late = {}
      /\ \A st \in Streams, sym \in Symbols : via[st][sym] = <<>> /\ events[st][sym] = 0
  BY DEF Init
<1>2. \A st \in Streams, sym \in Symbols : out[Kind(st)][sym] = <<>>
  BY <1>1, Names DEF Kind
<1>3. DOMAIN msgCh = {} /\ \A s \in Services : DOMAIN wire[s] = {}
  BY <1>1
<1>4. \A st \in Streams, sym \in Symbols : DOMAIN out[Kind(st)][sym] = {}
  BY <1>2
<1>5. \A st \in Streams, sym \in Symbols : Len(via[st][sym]) = events[st][sym]
  BY <1>1
<1> QED BY <1>1, <1>3, <1>4, <1>5 DEF OrderInv, OutOrder, QueueOrder, WireOrder

\* The connection of a service is dropped with what was not read.
LEMMA OrderLost ==
  ASSUME TypeInv, OrderInv, NEW s \in Services, Lost(s)
  PROVE  OrderInv'
<1>1. wire' = [wire EXCEPT ![s] = <<>>] /\ UNCHANGED <<msgCh, out, events, via, conn, late>>
  BY DEF Lost
<1>2. wire \in [Services -> Seq(Events)]
  BY TypeParts DEF ServiceType
<1>3. \A t \in Services : wire'[t] = wire[t] \/ wire'[t] = <<>>
  BY <1>1, <1>2
<1> QED BY <1>1, <1>3, OrderSame

LEMMA OrderStep == TypeInv /\ OrderInv /\ [Next]_vars => OrderInv'
<1> SUFFICES ASSUME TypeInv, OrderInv, [Next]_vars PROVE OrderInv'
  OBVIOUS
<1>1. ASSUME NEW s \in Services, Service(s) \/ Lost(s) \/ \E sym \in Symbols : Publish(s, sym)
      PROVE  OrderInv'
  <2>1. ASSUME Connect(s) \/ ConnectInc(s) PROVE Reconnect(s)
    BY <2>1 DEF Connect, ConnectInc
  <2> QED BY <1>1, <2>1, OrderLost, OrderReconnect, OrderHandler, OrderPublish DEF Service
<1>2. CASE FanOut
  BY <1>2, OrderFanOut
<1>3. CASE Snapshot
  <2>1. CASE SnapSend
    BY <2>1, OrderSnapSend
  <2>2. CASE SnapTimer \/ (\E sym \in Symbols : SnapLock(sym)) \/ SnapResponse \/ SnapError
    <3>1. UNCHANGED <<msgCh, out, events, wire, via, conn, late>>
      BY <2>2 DEF SnapTimer, SnapLock, SnapResponse, SnapError, services_
    <3> QED BY <3>1, OrderSame
  <2> QED BY <1>3, <2>1, <2>2 DEF Snapshot, SnapTask
<1>4. CASE UNCHANGED vars
  <2>1. UNCHANGED <<msgCh, out, events, wire, via, conn, late>>
    BY <1>4 DEF vars, services_
  <2> QED BY <2>1, OrderSame
<1>5. ASSUME NEW x \in late, LateHandler(x) PROVE OrderInv'
  BY <1>5, OrderLateHandler
<1> QED BY <1>1, <1>2, <1>3, <1>4, <1>5 DEF Next

LEMMA OrderHolds == Spec => []OrderInv
<1>1. Spec => []TypeInv
  BY TypeHolds
<1> QED BY <1>1, OrderInit, OrderStep, PTL DEF Spec

(***************************************************************************)
(* No event of a stream and symbol leaves the receiver twice, and those    *)
(* sent on one connection leave in the order of the exchange, for any      *)
(* number of services, lost connections and readers of closed connections  *)
(* that still have frames: in that order they are on the connection or in  *)
(* the reader's buffer, in the channel and among what left.                *)
(***************************************************************************)
THEOREM StreamsLeaveInOrder == Spec => []StreamInOrder
<1>1. TypeInv /\ OrderInv => StreamInOrder
  <2> SUFFICES ASSUME TypeInv, OrderInv, NEW st \in Streams, NEW sym \in Symbols
               PROVE  \A i, j \in DOMAIN Left(st, sym) :
                        i < j => InOrder(via[st][sym], Left(st, sym)[i], Left(st, sym)[j])
    BY DEF StreamInOrder
  <2>1. Left(st, sym) = out[Kind(st)][sym]
    BY EncodedParts DEF Left, Kind, QuoteMessage, Event
  <2>2. OutOrder(st, sym)
    BY DEF OrderInv
  <2> QED BY <2>1, <2>2 DEF OutOrder
<1> QED BY <1>1, TypeHolds, OrderHolds, PTL

-----------------------------------------------------------------------------
(* The order book *)

\* Passed in terms of the kinds.
LEMMA PassedParts ==
  \A m : Passed(m) <=> \/ \E i \in DOMAIN msgCh : msgCh[i].msg = m
                       \/ m.id \in ToSet(out[KindOf(m.type)][m.symbol])
BY EncodedParts DEF Passed

\* What joins the channel is in the fan-out, and nothing else is dropped.
LEMMA PassedAppend ==
  ASSUME TypeInv, NEW x \in Entries, msgCh' = Append(msgCh, x), out' = out
  PROVE  \A m : m = x.msg \/ Passed(m) => Passed(m)'
<1>1. msgCh \in Seq(Entries)
  BY TypeParts DEF ChannelType
<1>2. /\ \A i \in DOMAIN msgCh : i \in DOMAIN msgCh' /\ msgCh'[i] = msgCh[i]
      /\ \E i \in DOMAIN msgCh' : msgCh'[i] = x
  BY <1>1, AppendPositions, Grown
<1>3. ASSUME NEW m, m = x.msg PROVE Passed(m)'
  BY <1>2, <1>3 DEF Passed
<1>4. ASSUME NEW m, Passed(m) PROVE Passed(m)'
  BY <1>2, <1>4 DEF Passed
<1> QED BY <1>3, <1>4

\* With a known encoding a message that leaves the channel is sent.
LEMMA PassedFanOut ==
  ASSUME TypeInv, FanOut, DataEncodeType \in {"GOB", "PB"}, NEW m \in Messages, Passed(m)
  PROVE  Passed(m)'
<1> DEFINE q == Tail(msgCh)
           h == Head(msgCh).msg
           k == KindOf(m.type)
<1>1. msgCh # <<>> /\ out' = fanout(h) /\ msgCh' = q
  BY DEF FanOut
<1>2. msgCh \in Seq(Entries) /\ out \in [Kinds -> [Symbols -> Seq(Nat)]]
  BY TypeParts DEF ChannelType
<1>3. /\ h = msgCh[1].msg /\ 1 \in DOMAIN msgCh
      /\ \A i \in DOMAIN msgCh : i = 1 \/ (i - 1 \in DOMAIN q /\ q[i - 1] = msgCh[i])
  BY <1>1, <1>2, TailPositions
<1>4. h \in Messages /\ h.id \in Nat
  BY <1>3, OrderTypes
<1>5. m.type \in Types /\ m.symbol \in Symbols /\ m.id \in Nat
  BY DEF Messages
<1> HIDE DEF h, q
<1>6. out'[k][m.symbol] = IF m.type = h.type /\ m.symbol = h.symbol
                          THEN Append(out[k][m.symbol], h.id) ELSE out[k][m.symbol]
  BY <1>1, <1>2, <1>4, <1>5, FanoutParts
<1>7. out[k][m.symbol] \in Seq(Nat)
  BY <1>2, <1>5, Names
<1> HIDE DEF k
<1>8. /\ ToSet(out[k][m.symbol]) \subseteq ToSet(out'[k][m.symbol])
      /\ h = m => m.id \in ToSet(out'[k][m.symbol])
  <2> DEFINE L == out[k][m.symbol]
             M == Append(L, h.id)
  <2>1. /\ \A i \in DOMAIN L : i \in DOMAIN M /\ M[i] = L[i]
        /\ \E i \in DOMAIN M : M[i] = h.id
    <3> HIDE DEF L
    <3>1. L \in Seq(Nat)
      BY <1>7 DEF L
    <3> QED BY <1>4, <3>1, AppendPositions, Grown
  <2> HIDE DEF M, L
  <2>2. ToSet(L) \subseteq ToSet(M) /\ h.id \in ToSet(M)
    BY <2>1 DEF ToSet
  <2> QED BY <1>6, <2>2 DEF L, M
<1>9. CASE \E i \in DOMAIN msgCh : msgCh[i].msg = m
  <2>1. PICK i \in DOMAIN msgCh : msgCh[i].msg = m
    BY <1>9
  <2>2. h = m \/ \E j \in DOMAIN q : q[j].msg = m
    BY <1>3, <2>1
  <2> QED BY <1>1, <1>8, <2>2, EncodedParts DEF Passed, k
<1>10. CASE m.id \in ToSet(out[k][m.symbol])
  BY <1>8, <1>10, EncodedParts DEF Passed, k
<1> QED BY <1>9, <1>10, PassedParts DEF k

LEMMA PassedSame ==
  ASSUME UNCHANGED <<msgCh, out>>
  PROVE  \A m : Passed(m) => Passed(m)'
BY DEF Passed

\* A message that is in the fan-out, or has been, stays there.
LEMMA PassedStays ==
  ASSUME TypeInv, [Next]_vars, DataEncodeType \in {"GOB", "PB"}, NEW m \in Messages, Passed(m)
  PROVE  Passed(m)'
<1>1. ASSUME NEW s \in Services, Service(s) \/ Lost(s) \/ \E sym \in Symbols : Publish(s, sym)
      PROVE  Passed(m)'
  <2>1. CASE Handler(s)
    <3> DEFINE e == Head(wire[s])
               x == [by |-> <<s, conn[s]>>, msg |-> QuoteMessage(e)]
    <3>1. wire[s] # <<>> /\ msgCh' = Append(msgCh, x) /\ out' = out
      BY <2>1 DEF Handler
    <3>2. wire[s] \in Seq(Events) /\ conn[s] \in Nat
      BY TypeParts DEF ServiceType
    <3>3. e \in Events
      BY <3>1, <3>2, TailPositions
    <3> HIDE DEF e
    <3>4. x \in Entries
      BY <3>2, <3>3, MessageParts, SnapperApart DEF Entries
    <3> HIDE DEF x
    <3> QED BY <3>1, <3>4, PassedAppend
  <2>2. CASE Connect(s) \/ ConnectInc(s) \/ Lost(s) \/ \E sym \in Symbols : Publish(s, sym)
    <3>1. UNCHANGED <<msgCh, out>>
      BY <2>2 DEF Connect, ConnectInc, Reconnect, Lost, Publish
    <3> QED BY <3>1, PassedSame
  <2> QED BY <1>1, <2>1, <2>2 DEF Service
<1>2. CASE FanOut
  BY <1>2, PassedFanOut
<1>3. CASE Snapshot
  <2>1. CASE SnapSend
    <3> DEFINE x == [by |-> Snapper, msg |-> SnapShotMessage(task.symbol, task.id)]
    <3>1. task.step = "response" /\ msgCh' = Append(msgCh, x) /\ out' = out
      BY <2>1 DEF SnapSend
    <3>2. task.symbol \in Symbols /\ task.id \in Nat
      BY <3>1, TypeParts, TaskParts
    <3>3. x \in Entries
      BY <3>2, MessageParts, SnapperApart DEF Entries
    <3> HIDE DEF x
    <3> QED BY <3>1, <3>3, PassedAppend
  <2>2. CASE SnapTimer \/ (\E sym \in Symbols : SnapLock(sym)) \/ SnapResponse \/ SnapError
    <3>1. UNCHANGED <<msgCh, out>>
      BY <2>2 DEF SnapTimer, SnapLock, SnapResponse, SnapError
    <3> QED BY <3>1, PassedSame
  <2> QED BY <1>3, <2>1, <2>2 DEF Snapshot, SnapTask
<1>4. CASE UNCHANGED vars
  BY <1>4, PassedSame DEF vars
<1>5. ASSUME NEW y \in late, LateHandler(y) PROVE Passed(m)'
  <2> DEFINE x == [by |-> y.by, msg |-> QuoteMessage(y.event)]
  <2>1. msgCh' = Append(msgCh, x) /\ out' = out
    BY <1>5 DEF LateHandler
  <2>2. y.event \in Events /\ y.by \in Senders
    BY LateTypes, SnapperApart
  <2>3. x \in Entries
    BY <2>2, MessageParts DEF Entries
  <2> HIDE DEF x
  <2> QED BY <2>1, <2>3, PassedAppend
<1> QED BY <1>1, <1>2, <1>3, <1>4, <1>5 DEF Next

\* The numbers of a symbol.
LEMMA BookTypes ==
  ASSUME TypeInv
  PROVE  /\ \A sym \in Symbols : events["inc"][sym] \in Nat /\ base[sym] \in Nat /\ asked[sym] \in Nat
         /\ \A s \in Services : SymbolsOf(s) \subseteq Symbols
<1>1. ServiceType /\ SnapType
  BY TypeParts
<1>2. \A s \in Services : SymbolsOf(s) \subseteq Symbols
  BY OpenedFacts DEF TypeInv
<1> QED BY <1>1, <1>2, IncStream DEF ServiceType, SnapType

LEMMA FreshStays ==
  ASSUME TypeInv, [Next]_vars, DataEncodeType \in {"GOB", "PB"}, NEW sym \in Symbols,
         base'[sym] = base[sym], events'["inc"][sym] \in Nat,
         events["inc"][sym] <= events'["inc"][sym], Fresh(sym)
  PROVE  Fresh(sym)'
<1>1. PICK id \in base[sym] .. events["inc"][sym] : Passed(SnapShotMessage(sym, id))
  BY DEF Fresh
<1>2. id \in Nat /\ id \in base'[sym] .. events'["inc"][sym]
  <2> DEFINE b == base[sym]
             u == events["inc"][sym]
             v == events'["inc"][sym]
  <2>1. b \in Nat /\ u \in Nat /\ v \in Nat /\ u <= v /\ id \in b .. u /\ base'[sym] = b
    BY BookTypes
  <2> HIDE DEF b, u, v
  <2>2. id \in Nat /\ id \in b .. v
    BY <2>1
  <2> QED BY <2>1, <2>2 DEF v
<1>3. Passed(SnapShotMessage(sym, id))'
  <2> DEFINE m == SnapShotMessage(sym, id)
  <2>1. m \in Messages /\ Passed(m)
    BY <1>1, <1>2, MessageParts
  <2> HIDE DEF m
  <2>2. Passed(m)'
    BY <2>1, PassedStays
  <2> QED BY <2>2 DEF m
<1> QED BY <1>2, <1>3 DEF Fresh

\* An increment of a symbol.
LEMMA Increment ==
  \A sym \in Symbols, n \in Nat :
    /\ Event("inc", sym, n) \in Events
    /\ QuoteMessage(Event("inc", sym, n)) \in Messages
<1>1. \A sym \in Symbols, n \in Nat : Event("inc", sym, n) \in Events
  BY IncStream DEF Event, Events
<1> QED BY <1>1, MessageParts

\* No new increment, and none is lost from the connection unless it is passed on.
LEMMA KeptStays ==
  ASSUME TypeInv, [Next]_vars, DataEncodeType \in {"GOB", "PB"}, NEW t \in Services, NEW sym \in Symbols,
         base'[sym] = base[sym], events'["inc"][sym] = events["inc"][sym],
         \A e \in Events : e \in ToSet(wire[t]) => e \in ToSet(wire'[t]) \/ Passed(QuoteMessage(e))',
         Kept(t, sym)
  PROVE  Kept(t, sym)'
<1> SUFFICES ASSUME NEW n \in base[sym] + 1 .. events["inc"][sym]
             PROVE  \/ Event("inc", sym, n) \in ToSet(wire'[t])
                    \/ Passed(QuoteMessage(Event("inc", sym, n)))'
  BY DEF Kept
<1>1. n \in Nat
  BY BookTypes
<1> DEFINE e == Event("inc", sym, n)
           m == QuoteMessage(e)
<1>2. e \in Events /\ m \in Messages
  BY <1>1, Increment
<1>3. e \in ToSet(wire[t]) \/ Passed(m)
  BY DEF Kept
<1>4. CASE e \in ToSet(wire[t])
  <2> HIDE DEF e
  <2>1. e \in ToSet(wire'[t]) \/ Passed(QuoteMessage(e))'
    BY <1>2, <1>4
  <2> QED BY <2>1 DEF e
<1>5. CASE Passed(m)
  <2> HIDE DEF m
  <2>1. Passed(m)'
    BY <1>2, <1>5, PassedStays
  <2> QED BY <2>1 DEF m
<1> QED BY <1>3, <1>4, <1>5

\* The exchange goes on: the newest event is on the connection that is alive.
LEMMA BookPublish ==
  ASSUME TypeInv, BookInv, [Next]_vars, DataEncodeType \in {"GOB", "PB"},
         NEW s \in Services, NEW sy \in Symbols, Publish(s, sy)
  PROVE  BookInv'
<1> DEFINE new == events[s[1]][sy] + 1
           x == Event(s[1], sy, new)
<1>1. /\ sy \in SymbolsOf(s) /\ events' = [events EXCEPT ![s[1]][sy] = new]
      /\ wire' = IF alive[s] THEN [wire EXCEPT ![s] = Append(wire[s], x)] ELSE wire
      /\ UNCHANGED <<services, alive, msgCh, out, asked, task, failed, base>>
  BY DEF Publish, snapshots
<1>2. s[1] \in Streams /\ events \in [Streams -> [Symbols -> Nat]] /\ wire \in [Services -> Seq(Events)]
  BY TypeParts, ServiceParts DEF ServiceType
<1>3. new \in Nat
  BY <1>2
<1>4. \A sym \in Symbols : events'["inc"][sym] =
        IF s[1] = "inc" /\ sym = sy THEN events["inc"][sym] + 1 ELSE events["inc"][sym]
  <2>1. \A sym \in Symbols : events'["inc"][sym] = IF s[1] = "inc" /\ sym = sy THEN new ELSE events["inc"][sym]
    <3> HIDE DEF new
    <3> QED BY <1>1, <1>2, <1>3, IncStream
  <2> QED BY <2>1
<1>5. \A sym \in Symbols :
        /\ events["inc"][sym] \in Nat /\ events'["inc"][sym] \in Nat
        /\ events["inc"][sym] <= events'["inc"][sym] /\ base[sym] \in Nat
  BY <1>4, BookTypes
<1>6. x \in Events
  BY <1>2, <1>3 DEF Event, Events
<1> HIDE DEF new, x
<1>7. /\ \A t \in Services : ToSet(wire[t]) \subseteq ToSet(wire'[t])
      /\ alive[s] => x \in ToSet(wire'[s])
  <2>1. /\ \A t \in Services : t # s \/ ~alive[s] => wire'[t] = wire[t]
        /\ alive[s] => wire'[s] = Append(wire[s], x)
    BY <1>1, <1>2
  <2>2. wire[s] \in Seq(Events)
    BY <1>2
  <2> DEFINE L == wire[s]
             M == Append(L, x)
  <2>3. /\ \A i \in DOMAIN L : i \in DOMAIN M /\ M[i] = L[i]
        /\ \E i \in DOMAIN M : M[i] = x
    <3> HIDE DEF L
    <3>1. L \in Seq(Events)
      BY <2>2 DEF L
    <3> QED BY <1>6, <3>1, AppendPositions, Grown
  <2> HIDE DEF M, L
  <2>4. ToSet(L) \subseteq ToSet(M) /\ x \in ToSet(M)
    BY <2>3 DEF ToSet
  <2> QED BY <2>1, <2>4 DEF L, M
<1>8. \A sym \in Symbols : base'[sym] <= events'["inc"][sym]
  <2>1. \A sym \in Symbols : base[sym] <= events["inc"][sym]
    BY DEF BookInv
  <2> QED BY <1>1, <1>5, <2>1
<1>9. task'.step = "response" => task'.id <= events'["inc"][task'.symbol]
  <2> SUFFICES ASSUME task.step = "response" PROVE task.id <= events'["inc"][task.symbol]
    BY <1>1
  <2>1. task.symbol \in Symbols /\ task.id \in Nat
    BY TypeParts, TaskParts
  <2> DEFINE a == task.id
             u == events["inc"][task.symbol]
             v == events'["inc"][task.symbol]
  <2>2. a \in Nat /\ u \in Nat /\ v \in Nat /\ a <= u /\ u <= v
    BY <1>5, <2>1 DEF BookInv
  <2> HIDE DEF a, u, v
  <2>3. a <= v
    BY <2>2
  <2> QED BY <2>3 DEF a, v
<1>10. ASSUME NEW t \in Services, NEW sym \in SymbolsOf(t), t[1] = "inc", alive[t]
       PROVE  Served(sym)' /\ Kept(t, sym)'
  <2>1. sym \in Symbols /\ Served(sym) /\ Kept(t, sym)
    BY <1>10, BookTypes DEF BookInv
  <2>2. Served(sym)'
    <3>1. Fresh(sym) => Fresh(sym)'
      BY <1>1, <1>5, <2>1, FreshStays
    <3> QED BY <1>1, <2>1, <3>1 DEF Served, Coming
  <2>3. CASE ~(s[1] = "inc" /\ sym = sy)
    <3>1. events'["inc"][sym] = events["inc"][sym]
      BY <1>4, <2>1, <2>3
    <3>2. Kept(t, sym)'
      BY <1>1, <1>7, <2>1, <3>1, KeptStays
    <3> QED BY <2>2, <3>2
  <2>4. CASE s[1] = "inc" /\ sym = sy
    <3>1. t = s
      <4>1. Split
        BY OpenedFacts DEF TypeInv
      <4>2. sym \in SymbolsOf(t) \cap SymbolsOf(s)
        BY <1>1, <1>10, <2>4
      <4> QED BY <1>10, <2>4, <4>1, <4>2 DEF Split
    <3>2. x = Event("inc", sym, events["inc"][sym] + 1)
      BY <2>4 DEF x, new
    <3> SUFFICES ASSUME NEW n \in base'[sym] + 1 .. events'["inc"][sym]
                 PROVE  \/ Event("inc", sym, n) \in ToSet(wire'[t])
                        \/ Passed(QuoteMessage(Event("inc", sym, n)))'
      BY <2>2 DEF Kept
    <3>3. n \in base[sym] + 1 .. events["inc"][sym] \/ n = events["inc"][sym] + 1
      <4> DEFINE b == base[sym]
                 u == events["inc"][sym]
      <4>1. n \in b + 1 .. u + 1 /\ b \in Nat /\ u \in Nat
        BY <1>1, <1>4, <1>5, <2>1, <2>4
      <4> HIDE DEF b, u
      <4>2. n \in b + 1 .. u \/ n = u + 1
        BY <4>1
      <4> QED BY <4>2 DEF b, u
    <3>4. CASE n = events["inc"][sym] + 1
      BY <1>7, <1>10, <3>1, <3>2, <3>4
    <3>5. CASE n \in base[sym] + 1 .. events["inc"][sym]
      <4>1. Event("inc", sym, n) \in ToSet(wire[t]) \/ Passed(QuoteMessage(Event("inc", sym, n)))
        BY <2>1, <3>5 DEF Kept
      <4> DEFINE m == QuoteMessage(Event("inc", sym, n))
      <4>2. Passed(m) => Passed(m)'
        <5> HIDE DEF m
        <5> QED BY <1>1, PassedSame
      <4> QED BY <1>7, <4>1, <4>2
    <3> QED BY <3>3, <3>4, <3>5
  <2> QED BY <2>3, <2>4
<1> QED BY <1>1, <1>8, <1>9, <1>10 DEF BookInv, SymbolsOf

\* A connection that is dropped says nothing; those of other services stay.
LEMMA BookLost ==
  ASSUME TypeInv, BookInv, [Next]_vars, DataEncodeType \in {"GOB", "PB"},
         NEW s \in Services, Lost(s) \/ Connect(s)
  PROVE  BookInv'
<1>1. /\ wire' = [wire EXCEPT ![s] = <<>>]
      /\ alive' = [alive EXCEPT ![s] = alive'[s]]
      /\ ~alive'[s] \/ s[1] # "inc"
      /\ UNCHANGED <<services, events, msgCh, out, asked, task, failed, base>>
  <2>1. alive \in [Services -> BOOLEAN]
    BY TypeParts DEF ServiceType
  <2> QED BY <2>1 DEF Lost, Connect, Reconnect, snapshots
<1>2. wire \in [Services -> Seq(Events)] /\ alive \in [Services -> BOOLEAN]
  BY TypeParts DEF ServiceType
<1>3. \A t \in Services : t # s => wire'[t] = wire[t] /\ alive'[t] = alive[t]
  BY <1>1, <1>2
<1>4. ASSUME NEW t \in Services, NEW sym \in SymbolsOf(t), t[1] = "inc", alive'[t]
      PROVE  Served(sym)' /\ Kept(t, sym)'
  <2>1. t # s
    BY <1>1, <1>4
  <2>2. wire'[t] = wire[t] /\ alive[t]
    BY <1>3, <1>4, <2>1
  <2>3. sym \in Symbols /\ Served(sym) /\ Kept(t, sym)
    BY <1>4, <2>2, BookTypes DEF BookInv
  <2>4. Kept(t, sym)'
    BY <1>1, <2>2, <2>3, KeptStays
  <2>5. Fresh(sym) => Fresh(sym)'
    BY <1>1, <2>3, BookTypes, FreshStays
  <2> QED BY <1>1, <2>3, <2>4, <2>5 DEF Served, Coming
<1> QED BY <1>1, <1>4 DEF BookInv, SymbolsOf

\* The service of the increments dials: its book starts anew.
LEMMA BookConnectInc ==
  ASSUME TypeInv, BookInv, [Next]_vars, DataEncodeType \in {"GOB", "PB"},
         NEW s \in Services, ConnectInc(s)
  PROVE  BookInv'
<1>1. /\ s[1] = "inc" /\ wire' = [wire EXCEPT ![s] = <<>>] /\ alive' = [alive EXCEPT ![s] = TRUE]
      /\ asked' = Plus(asked, SymbolsOf(s))
      /\ base' = [sym \in Symbols |-> IF sym \in SymbolsOf(s) THEN events["inc"][sym] ELSE base[sym]]
      /\ failed' = failed \ SymbolsOf(s)
      /\ UNCHANGED <<services, events, msgCh, out, task>>
  BY DEF ConnectInc, Reconnect
<1>2. wire \in [Services -> Seq(Events)] /\ alive \in [Services -> BOOLEAN]
  BY TypeParts DEF ServiceType
<1>3. \A t \in Services : t # s => wire'[t] = wire[t] /\ alive'[t] = alive[t]
  BY <1>1, <1>2
<1>4. /\ \A sym \in Symbols : base'[sym] = IF sym \in SymbolsOf(s) THEN events["inc"][sym] ELSE base[sym]
      /\ \A sym \in Symbols : asked'[sym] >= asked[sym] /\ asked'[sym] \in Nat
      /\ \A sym \in Symbols \cap SymbolsOf(s) : asked'[sym] > 0
  <2>1. asked \in [Symbols -> Nat]
    BY TypeParts DEF SnapType
  <2> QED BY <1>1, <2>1, PlusType
<1>5. \A sym \in Symbols : base'[sym] <= events'["inc"][sym]
  <2>1. \A sym \in Symbols : base[sym] <= events["inc"][sym] /\ events["inc"][sym] \in Nat
    BY BookTypes DEF BookInv
  <2> QED BY <1>1, <1>4, <2>1
<1>6. task'.step = "response" => task'.id <= events'["inc"][task'.symbol]
  BY <1>1 DEF BookInv
<1>7. ASSUME NEW t \in Services, NEW sym \in SymbolsOf(t), t[1] = "inc", alive'[t]
      PROVE  Served(sym)' /\ Kept(t, sym)'
  <2>0. sym \in Symbols /\ events["inc"][sym] \in Nat /\ base[sym] \in Nat /\ asked[sym] \in Nat
    BY <1>7, BookTypes
  <2>1. CASE sym \in SymbolsOf(s)
    <3>1. Served(sym)'
      BY <1>4, <2>0, <2>1 DEF Served
    <3>2. base'[sym] = events'["inc"][sym]
      BY <1>1, <1>4, <2>0, <2>1
    <3>3. base'[sym] + 1 .. events'["inc"][sym] = {}
      <4> DEFINE u == events["inc"][sym]
      <4>1. u \in Nat /\ base'[sym] = u /\ events'["inc"][sym] = u
        BY <1>1, <2>0, <3>2
      <4> HIDE DEF u
      <4>2. u + 1 .. u = {}
        BY <4>1
      <4> QED BY <4>1, <4>2
    <3> QED BY <3>1, <3>3 DEF Kept
  <2>2. CASE sym \notin SymbolsOf(s)
    <3>1. t # s
      BY <1>7, <2>2
    <3>2. wire'[t] = wire[t] /\ alive[t] /\ base'[sym] = base[sym]
      BY <1>3, <1>4, <1>7, <2>0, <2>2, <3>1
    <3>3. Served(sym) /\ Kept(t, sym)
      BY <1>7, <3>2 DEF BookInv
    <3>4. Kept(t, sym)'
      BY <1>1, <2>0, <3>2, <3>3, KeptStays
    <3>5. Fresh(sym) => Fresh(sym)'
      BY <1>1, <2>0, <3>2, FreshStays
    <3>6. asked[sym] > 0 => asked'[sym] > 0
      BY <1>4, <2>0
    <3>7. Coming(sym) => Coming(sym)'
      BY <1>1, <3>2 DEF Coming
    <3> QED BY <1>1, <2>2, <3>3, <3>4, <3>5, <3>6, <3>7 DEF Served
  <2> QED BY <2>1, <2>2
<1> QED BY <1>1, <1>5, <1>6, <1>7 DEF BookInv, SymbolsOf

\* A reader hands an event over, or one leaves.
LEMMA BookMove ==
  ASSUME TypeInv, BookInv, [Next]_vars, DataEncodeType \in {"GOB", "PB"},
         UNCHANGED <<services, alive, events, asked, task, failed, base>>,
         \A t \in Services : \A e \in Events :
           e \in ToSet(wire[t]) => e \in ToSet(wire'[t]) \/ Passed(QuoteMessage(e))'
  PROVE  BookInv'
<1>1. ASSUME NEW t \in Services, NEW sym \in SymbolsOf(t), t[1] = "inc", alive[t]
      PROVE  Served(sym)' /\ Kept(t, sym)'
  <2>1. sym \in Symbols /\ Served(sym) /\ Kept(t, sym)
    BY <1>1, BookTypes DEF BookInv
  <2>2. Kept(t, sym)'
    BY <2>1, KeptStays
  <2>3. Fresh(sym) => Fresh(sym)'
    BY <2>1, BookTypes, FreshStays
  <2> QED BY <2>1, <2>2, <2>3 DEF Served, Coming
<1> QED BY <1>1 DEF BookInv, SymbolsOf

LEMMA BookHandler ==
  ASSUME TypeInv, BookInv, [Next]_vars, DataEncodeType \in {"GOB", "PB"},
         NEW s \in Services, Handler(s)
  PROVE  BookInv'
<1> DEFINE old == wire[s]
           w == Tail(old)
           h == Head(old)
           x == [by |-> <<s, conn[s]>>, msg |-> QuoteMessage(h)]
<1>1. /\ old # <<>> /\ wire' = [wire EXCEPT ![s] = w] /\ msgCh' = Append(msgCh, x)
      /\ UNCHANGED <<services, alive, events, out, asked, task, failed, base>>
  BY DEF Handler, snapshots
<1>2. old \in Seq(Events) /\ wire \in [Services -> Seq(Events)] /\ conn[s] \in Nat
  BY TypeParts DEF ServiceType
<1>3. /\ h \in Events /\ h = old[1]
      /\ \A i \in DOMAIN old : i = 1 \/ (i - 1 \in DOMAIN w /\ w[i - 1] = old[i])
  BY <1>1, <1>2, TailPositions
<1>4. x \in Entries /\ x.msg = QuoteMessage(h)
  <2> HIDE DEF h
  <2> QED BY <1>2, <1>3, MessageParts, SnapperApart DEF Entries
<1>5. wire'[s] = w /\ \A t \in Services : t # s => wire'[t] = wire[t]
  <2> HIDE DEF w
  <2> QED BY <1>1, <1>2
<1> HIDE DEF x, h, w, old
<1>6. \A m : m = x.msg => Passed(m)'
  BY <1>1, <1>4, PassedAppend
<1>7. \A e : e \in ToSet(old) => e \in ToSet(w) \/ e = h
  BY <1>3 DEF ToSet
<1>8. ASSUME NEW t \in Services, NEW e \in Events, e \in ToSet(wire[t])
      PROVE  e \in ToSet(wire'[t]) \/ Passed(QuoteMessage(e))'
  <2>1. CASE t # s
    BY <1>5, <1>8, <2>1
  <2>2. CASE t = s /\ e = h
    <3> DEFINE m == QuoteMessage(e)
    <3>1. m = x.msg
      BY <1>4, <2>2
    <3> HIDE DEF m
    <3>2. Passed(m)'
      BY <1>6, <3>1
    <3> QED BY <3>2 DEF m
  <2>3. CASE t = s /\ e # h
    BY <1>5, <1>7, <1>8, <2>3 DEF old
  <2> QED BY <2>1, <2>2, <2>3
<1> QED BY <1>1, <1>8, BookMove

\* The steps of the snapshot manager, on the way from a request to its answer.
LEMMA BookSnapshot ==
  ASSUME TypeInv, BookInv, [Next]_vars, DataEncodeType \in {"GOB", "PB"}, Snapshot
  PROVE  BookInv'
<1>1. UNCHANGED <<services, alive, wire, events, base>>
  BY DEF Snapshot, SnapTimer, SnapLock, SnapTask, SnapResponse, SnapError, SnapSend, services_
<1>2. SnapType /\ SnapType'
  <2>1. TypeInv'
    BY TypeStep
  <2> QED BY <2>1, TypeParts, PTL
<1>3. ASSUME NEW sym \in Symbols
      PROVE  /\ events["inc"][sym] \in Nat /\ base[sym] \in Nat /\ asked[sym] \in Nat
             /\ base[sym] <= events["inc"][sym]
             /\ Fresh(sym) => Fresh(sym)'
  <2>1. events["inc"][sym] \in Nat /\ base[sym] \in Nat /\ asked[sym] \in Nat
    BY BookTypes
  <2>2. Fresh(sym) => Fresh(sym)'
    BY <1>1, <2>1, FreshStays
  <2> QED BY <2>1, <2>2 DEF BookInv
<1>4. ASSUME NEW t \in Services, NEW sym \in SymbolsOf(t), t[1] = "inc", alive[t]
      PROVE  Kept(t, sym)' /\ Served(sym) /\ sym \in Symbols
  <2>1. sym \in Symbols /\ Served(sym) /\ Kept(t, sym)
    BY <1>4, BookTypes DEF BookInv
  <2> QED BY <1>1, <2>1, KeptStays
<1>5. SUFFICES /\ task'.step = "response" => task'.id <= events["inc"][task'.symbol]
               /\ \A sym \in Symbols : Served(sym) => Served(sym)'
  BY <1>1, <1>3, <1>4 DEF BookInv, SymbolsOf
<1>6. CASE SnapTimer
  <2>1. asked' = Plus(asked, Symbols) /\ UNCHANGED <<task, failed>>
    BY <1>6 DEF SnapTimer
  <2>2. \A sym \in Symbols : asked'[sym] > 0
    <3>1. asked \in [Symbols -> Nat]
      BY <1>2 DEF SnapType
    <3> QED BY <2>1, <3>1, PlusType
  <2>3. task'.step = "response" => task'.id <= events["inc"][task'.symbol]
    BY <2>1 DEF BookInv
  <2> QED BY <2>2, <2>3 DEF Served
<1>7. ASSUME NEW sy \in Symbols, SnapLock(sy)
      PROVE  /\ task'.step = "response" => task'.id <= events["inc"][task'.symbol]
             /\ \A sym \in Symbols : Served(sym) => Served(sym)'
  <2>1. /\ asked' = [asked EXCEPT ![sy] = @ - 1] /\ task = NoTask /\ failed' = failed
        /\ task' = [step |-> "request", symbol |-> sy, id |-> 0]
    BY <1>7 DEF SnapLock
  <2>2. task'.step = "request" /\ task'.symbol = sy /\ task.step = "free"
    BY <2>1 DEF NoTask
  <2>3. ASSUME NEW sym \in Symbols, Served(sym) PROVE Served(sym)'
    <3>1. CASE sym = sy
      BY <2>2, <3>1 DEF Served, Coming
    <3>2. CASE sym # sy
      <4>1. asked'[sym] = asked[sym]
        BY <1>2, <2>1, <3>2 DEF SnapType
      <4>2. ~Coming(sym)
        BY <2>2 DEF Coming
      <4> QED BY <1>3, <2>1, <2>3, <4>1, <4>2 DEF Served
    <3> QED BY <3>1, <3>2
  <2> QED BY <2>2, <2>3
<1>8. CASE SnapResponse
  <2>1. /\ task.step = "request" /\ UNCHANGED <<asked, failed>>
        /\ task' = [task EXCEPT !.step = "response", !.id = events["inc"][task.symbol]]
    BY <1>8 DEF SnapResponse
  <2>2. task.symbol \in Symbols
    BY <1>2, <2>1, TaskParts
  <2>3. /\ task'.step = "response" /\ task'.symbol = task.symbol
        /\ task'.id = events["inc"][task.symbol]
    BY <1>2, <2>1, TaskParts
  <2>4. \A sym \in Symbols : Coming(sym) => Coming(sym)'
    BY <1>1, <1>3, <2>3 DEF Coming
  <2>5. task'.id <= events["inc"][task'.symbol]
    BY <1>3, <2>2, <2>3
  <2> QED BY <1>3, <2>1, <2>4, <2>5 DEF Served
<1>9. CASE SnapError
  <2>1. task' = NoTask /\ failed' = failed \cup {task.symbol} /\ asked' = asked
    BY <1>9 DEF SnapError
  <2>2. \A sym \in Symbols : Coming(sym) => sym \in failed'
    BY <2>1 DEF Coming
  <2>3. task'.step # "response"
    BY <2>1 DEF NoTask
  <2> QED BY <1>3, <2>1, <2>2, <2>3 DEF Served
<1>10. CASE SnapSend
  <2> DEFINE m == SnapShotMessage(task.symbol, task.id)
             x == [by |-> Snapper, msg |-> m]
  <2>1. /\ task.step = "response" /\ task' = NoTask /\ msgCh' = Append(msgCh, x)
        /\ UNCHANGED <<out, asked, failed>>
    BY <1>10 DEF SnapSend
  <2>2. task.symbol \in Symbols /\ task.id \in Nat /\ task.id <= events["inc"][task.symbol]
    BY <1>2, <2>1, TaskParts DEF BookInv
  <2>3. x \in Entries /\ x.msg = m
    BY <2>2, MessageParts, SnapperApart DEF Entries
  <2>4. ASSUME NEW sym \in Symbols, Coming(sym) PROVE Fresh(sym)'
    <3>1. sym = task.symbol /\ base[sym] <= task.id
      BY <2>1, <2>4 DEF Coming
    <3>2. PICK id : id = task.id
      OBVIOUS
    <3>3. id \in base'[sym] .. events'["inc"][sym]
      BY <1>1, <1>3, <2>2, <3>1, <3>2
    <3>4. Passed(SnapShotMessage(sym, id))'
      <4> DEFINE p == SnapShotMessage(sym, id)
      <4>1. p = x.msg
        BY <2>3, <3>1, <3>2
      <4> HIDE DEF p, x
      <4>2. Passed(p)'
        BY <2>1, <2>3, <4>1, PassedAppend
      <4> QED BY <4>2 DEF p
    <3> QED BY <3>3, <3>4 DEF Fresh
  <2>5. task'.step # "response"
    BY <2>1 DEF NoTask
  <2> QED BY <1>3, <2>1, <2>4, <2>5 DEF Served
<1> QED BY <1>6, <1>7, <1>8, <1>9, <1>10 DEF Snapshot, SnapTask

LEMMA BookInit == Init => BookInv
<1> SUFFICES ASSUME Init PROVE BookInv
  OBVIOUS
<1>1. /\ events = [st \in Streams |-> [sym \in Symbols |-> 0]] /\ base = [sym \in Symbols |-> 0]
      /\ task = NoTask /\ alive = [s \in Services |-> FALSE]
  BY DEF Init
<1>2. \A sym \in Symbols : base[sym] <= events["inc"][sym]
  BY <1>1, IncStream
<1>3. task.step # "response" /\ \A s \in Services : ~alive[s]
  BY <1>1 DEF NoTask
<1> QED BY <1>2, <1>3 DEF BookInv

LEMMA BookStep ==
  ASSUME DataEncodeType \in {"GOB", "PB"}
  PROVE  TypeInv /\ BookInv /\ [Next]_vars => BookInv'
<1> SUFFICES ASSUME TypeInv, BookInv, [Next]_vars PROVE BookInv'
  OBVIOUS
<1>1. ASSUME NEW s \in Services, Service(s) \/ Lost(s) \/ \E sym \in Symbols : Publish(s, sym)
      PROVE  BookInv'
  BY <1>1, BookLost, BookConnectInc, BookHandler, BookPublish DEF Service
<1>2. CASE FanOut
  <2>1. UNCHANGED <<services, alive, wire, events, asked, task, failed, base>>
    BY <1>2 DEF FanOut, services_, snapshots
  <2> QED BY <2>1, BookMove
<1>3. CASE Snapshot
  BY <1>3, BookSnapshot
<1>4. CASE UNCHANGED vars
  <2>1. UNCHANGED <<services, alive, wire, events, asked, task, failed, base>>
    BY <1>4 DEF vars, services_, snapshots
  <2> QED BY <2>1, BookMove
<1>5. ASSUME NEW x \in late, LateHandler(x) PROVE BookInv'
  <2>1. UNCHANGED <<services, alive, wire, events, asked, task, failed, base>>
    BY <1>5 DEF LateHandler, snapshots
  <2> QED BY <2>1, BookMove
<1> QED BY <1>1, <1>2, <1>3, <1>4, <1>5 DEF Next

(***************************************************************************)
(* With one of the two encodings a consumer can rebuild the order book     *)
(* after every reconnect: doConnect asks for the snapshot only after the   *)
(* dial, the manager loses no request but one that fails, and no increment *)
(* gets lost between the connection and the sockets. The hypothesis is     *)
(* needed: fanout drops every message under any other encoding.            *)
(***************************************************************************)
THEOREM BookCanBeRebuilt ==
  ASSUME DataEncodeType \in {"GOB", "PB"}
  PROVE  Spec => []BookRebuildable
<1>1. TypeInv /\ BookInv => BookRebuildable
  <2> SUFFICES ASSUME TypeInv, BookInv, NEW s \in Services, NEW sym \in SymbolsOf(s),
                      s[1] = "inc", alive[s], Settled(sym), sym \notin failed
               PROVE  Fresh(sym) /\ Kept(s, sym)
    BY DEF BookRebuildable, Fresh, Kept
  <2>1. Served(sym) /\ Kept(s, sym)
    BY DEF BookInv
  <2>2. ~(asked[sym] > 0) /\ ~Coming(sym)
    BY DEF Settled, Coming
  <2> QED BY <2>1, <2>2 DEF Served
<1>2. TypeInv /\ BookInv /\ [Next]_vars => BookInv'
  BY BookStep
<1> QED BY <1>1, <1>2, BookInit, TypeHolds, PTL DEF Spec
=============================================================================
