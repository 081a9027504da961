---------------------------- MODULE WsServerProofs ----------------------------
(***************************************************************************)
(* Machine-checked proofs about WsServer, for every number of users,       *)
(* clients and messages and every size of the cache and of the channels.   *)
(***************************************************************************)
EXTENDS WsServer, TLAPS, SequenceTheorems, FiniteSetTheorems, WellFoundedInduction

-----------------------------------------------------------------------------
(* The cache *)

\* A queue of messages in the order of their numbers.
Ascending(queue) == \A i, j \in 1 .. Len(queue) : i < j => queue[i] < queue[j]

\* A nonempty set of positions has a least element.
LEMMA LeastPosition ==
  ASSUME NEW I \in SUBSET Nat, I # {}
  PROVE  Min(I) \in I /\ \A j \in I : Min(I) <= j
<1> DEFINE Less == {p \in Nat \X Nat : p[1] < p[2]}
<1>1. IsWellFoundedOn(Less, Nat)
  BY NatLessThanWellFounded, Zenon DEF OpToRel
<1>2. PICK i \in I : \A j \in I : ~(<<j, i>> \in Less)
  <2> HIDE DEF Less
  <2> QED BY <1>1, WFMin
<1>3. \A j \in I : i <= j
  <2> TAKE j \in I
  <2>1. <<j, i>> \in Nat \X Nat
    OBVIOUS
  <2>2. ~(j < i)
    BY <1>2, <2>1
  <2> QED BY <2>2
<1> QED BY <1>3 DEF Min

\* Appending a newer message, with or without the eviction of the oldest one.
LEMMA CachedQueue ==
  ASSUME NEW queue \in Seq(Msgs), Len(queue) <= Cache, Ascending(queue), NEW m \in Msgs,
         \A i \in 1 .. Len(queue) : queue[i] < m
  PROVE  /\ Cached(queue, m) \in Seq(Msgs)
         /\ Len(Cached(queue, m)) <= Cache
         /\ Ascending(Cached(queue, m))
         /\ \A i \in 1 .. Len(Cached(queue, m)) :
              \/ Cached(queue, m)[i] = m
              \/ \E j \in 1 .. Len(queue) : Cached(queue, m)[i] = queue[j]
<1> DEFINE a == Append(queue, m)
           n == Len(queue)
<1>1. /\ a \in Seq(Msgs) /\ Len(a) = n + 1 /\ n \in Nat
      /\ \A i \in 1 .. n : a[i] = queue[i]
      /\ a[n + 1] = m
      /\ a # <<>>
  BY AppendProperties
<1>2. Ascending(a)
  <2> SUFFICES ASSUME NEW i \in 1 .. n + 1, NEW j \in 1 .. n + 1, i < j
               PROVE  a[i] < a[j]
    BY <1>1 DEF Ascending
  <2>1. CASE j = n + 1
    BY <1>1, <2>1
  <2>2. CASE j # n + 1
    BY <1>1, <2>2 DEF Ascending
  <2> QED BY <2>1, <2>2
<1> HIDE DEF a
<1>3. CASE n + 1 > Cache
  <2>1. /\ Tail(a) \in Seq(Msgs) /\ Len(Tail(a)) = n
        /\ \A i \in 1 .. n : Tail(a)[i] = a[i + 1]
    BY <1>1, HeadTailProperties
  <2>2. Cached(queue, m) = Tail(a)
    BY <1>3 DEF Cached, a
  <2>3. Ascending(Tail(a))
    BY <1>1, <1>2, <2>1 DEF Ascending
  <2>4. \A i \in 1 .. n : Tail(a)[i] = m \/ \E j \in 1 .. n : Tail(a)[i] = queue[j]
    <3> TAKE i \in 1 .. n
    <3>1. CASE i = n
      BY <1>1, <2>1, <3>1
    <3>2. CASE i # n
      <4>1. i + 1 \in 1 .. n
        BY <1>1, <3>2
      <4> QED BY <1>1, <2>1, <4>1
    <3> QED BY <3>1, <3>2
  <2> QED BY <2>1, <2>2, <2>3, <2>4
<1>4. CASE ~(n + 1 > Cache)
  <2>1. Cached(queue, m) = a
    BY <1>4 DEF Cached, a
  <2>2. \A i \in 1 .. n + 1 : a[i] = m \/ \E j \in 1 .. n : a[i] = queue[j]
    <3> TAKE i \in 1 .. n + 1
    <3>1. CASE i = n + 1
      BY <1>1, <3>1
    <3>2. CASE i # n + 1
      <4>1. i \in 1 .. n
        BY <1>1, <3>2
      <4> QED BY <1>1, <4>1
    <3> QED BY <3>1, <3>2
  <2>3. n + 1 <= Cache
    BY <1>1, <1>4, CapAssumption
  <2> QED BY <1>1, <1>2, <2>1, <2>2, <2>3
<1> QED BY <1>3, <1>4

\* The copy of the cache: exactly the messages since st, in their order.
LEMMA CachedSinceQueue ==
  ASSUME NEW queue \in Seq(Msgs), Ascending(queue), NEW st \in Nat
  PROVE  /\ CachedSince(queue, st) \in Seq(Msgs)
         /\ Ascending(CachedSince(queue, st))
         /\ \A m \in Msgs : m \in ToSet(CachedSince(queue, st)) <=>
                              m \in ToSet(queue) /\ st <= m
<1> DEFINE I == {i \in 1 .. Len(queue) : st <= queue[i]}
           k == Min(I)
           n == Len(queue)
<1>0. n \in Nat /\ DOMAIN queue = 1 .. n /\ \A i \in 1 .. n : queue[i] \in Msgs
  BY ElementOfSeq
<1>1. CASE I = {}
  <2>1. CachedSince(queue, st) = <<>>
    BY <1>1 DEF CachedSince, SelectInSeq
  <2>2. \A m \in Msgs : ~(m \in ToSet(queue) /\ st <= m)
    BY <1>0, <1>1 DEF ToSet
  <2> QED BY <2>1, <2>2 DEF ToSet, Ascending
<1>2. CASE I # {}
  <2>1. k = Min(I) /\ I \in SUBSET Nat
    OBVIOUS
  <2>2. k \in I /\ \A j \in I : k <= j
    <3> HIDE DEF I, k
    <3> QED BY <1>2, <2>1, LeastPosition
  <2>3. k \in 1 .. n /\ st <= queue[k] /\ \A j \in 1 .. n : st <= queue[j] => k <= j
    BY <2>2
  <2>4. CachedSince(queue, st) = SubSeq(queue, k, n)
    <3>1. CachedSince(queue, st) = IF k = 0 THEN <<>> ELSE SubSeq(queue, k, n)
      BY <1>2 DEF CachedSince, SelectInSeq
    <3> HIDE DEF I, k, n
    <3> QED BY <1>0, <2>3, <3>1
  <2> DEFINE s == SubSeq(queue, k, n)
  <2> HIDE DEF I, k
  <2>5. /\ s \in Seq(Msgs) /\ Len(s) = n - k + 1
        /\ \A i \in 1 .. n - k + 1 : s[i] = queue[k + i - 1]
    <3>1. \A i \in k .. n : queue[i] \in Msgs
      BY <1>0, <2>3
    <3>2. k \in Int /\ n \in Int /\ k <= n
      BY <1>0, <2>3
    <3> QED BY <3>1, <3>2, SubSeqProperties
  <2> HIDE DEF s
  <2>6. Ascending(s)
    <3> SUFFICES ASSUME NEW i \in 1 .. n - k + 1, NEW j \in 1 .. n - k + 1, i < j
                 PROVE  s[i] < s[j]
      BY <2>5 DEF Ascending
    <3>1. k + i - 1 \in 1 .. n /\ k + j - 1 \in 1 .. n /\ k + i - 1 < k + j - 1
      BY <1>0, <2>3
    <3> QED BY <2>5, <3>1 DEF Ascending
  <2>7. ASSUME NEW m \in Msgs PROVE m \in ToSet(s) <=> m \in ToSet(queue) /\ st <= m
    <3>1. ASSUME NEW i \in 1 .. n - k + 1, s[i] = m PROVE m \in ToSet(queue) /\ st <= m
      <4>1. k + i - 1 \in 1 .. n /\ queue[k + i - 1] = m /\ queue[k] \in Msgs
        BY <1>0, <2>3, <2>5, <3>1
      <4>2. k = k + i - 1 \/ queue[k] < queue[k + i - 1]
        BY <1>0, <2>3, <4>1 DEF Ascending
      <4>3. queue[k] \in Nat /\ m \in Nat /\ st <= queue[k]
        BY <2>3, <4>1, BoundAssumption DEF Msgs
      <4>4. st <= m
        BY <4>1, <4>2, <4>3
      <4> QED BY <1>0, <4>1, <4>4 DEF ToSet
    <3>2. ASSUME NEW j \in 1 .. n, queue[j] = m, st <= m PROVE m \in ToSet(s)
      <4>1. k <= j
        BY <2>3, <3>2
      <4>2. j - k + 1 \in 1 .. n - k + 1 /\ k + (j - k + 1) - 1 = j
        BY <1>0, <2>3, <4>1
      <4>3. s[j - k + 1] = m
        BY <2>5, <3>2, <4>2
      <4>4. DOMAIN s = 1 .. n - k + 1
        BY <2>5
      <4> QED BY <4>2, <4>3, <4>4 DEF ToSet
    <3>3. DOMAIN s = 1 .. n - k + 1
      BY <2>5
    <3> QED BY <1>0, <3>1, <3>2, <3>3 DEF ToSet
  <2>8. CachedSince(queue, st) = s
    BY <2>4 DEF s
  <2> QED BY <2>5, <2>6, <2>7, <2>8
<1> QED BY <1>1, <1>2

-----------------------------------------------------------------------------
(* Types *)

(***************************************************************************)
(* The types of a pipeline rest on two facts: hold is a message exactly    *)
(* while run's loop carries one, and the sync goroutine has messages left  *)
(* to push only in that step.                                              *)
(***************************************************************************)
PipeOK(p) ==
  /\ p \in Pipes
  /\ Len(p.msgLiveCh) <= LiveCap
  /\ Len(p.msgCh) <= Cache
  /\ p.loop \in {"forward", "accumulate"} <=> p.hold # 0
  /\ p.sync # "push" => p.pms = <<>>

\* The collector's message exists while enqueue hands it out, and the cache
\* holds the messages before it in their order.
QueueInv ==
  /\ smtx = "enqueue" => nextPm <= MaxMsg
  /\ smtx # "enqueue" => todo = {}
  /\ Ascending(dataQueue)
  /\ \A i \in 1 .. Len(dataQueue) :
       dataQueue[i] <= nextPm /\ (smtx # "enqueue" => dataQueue[i] < nextPm)

\* The goroutines of a client start with run.
StartInv ==
  \A c \in Clients :
    phase[c] # "running" => pipe[c].loop = "off" /\ pipe[c].sync = "off" /\ reader[c] = "off"

TypeInv == TypeOK /\ QueueInv /\ StartInv /\ \A c \in Clients : PipeOK(pipe[c])

\* Only the pipeline of client c changes, and it becomes p.
Becomes(c, p) ==
  /\ pipe' \in [Clients -> Pipes]
  /\ pipe'[c] = p /\ PipeOK(p)
  /\ \A x \in Clients : x # c => pipe'[x] = pipe[x]

LEMMA BecomesStep ==
  ASSUME TypeInv, NEW c \in Clients, NEW p, PipeOK(p), pipe' = [pipe EXCEPT ![c] = p]
  PROVE  Becomes(c, p)
BY DEF TypeInv, TypeOK, PipeOK, Becomes

\* A channel or buffer after a message was taken from it.
LEMMA TailMsgs ==
  ASSUME NEW s \in Seq(Msgs), s # <<>>
  PROVE  /\ Tail(s) \in Seq(Msgs) /\ Head(s) \in Msgs
         /\ Len(Tail(s)) = Len(s) - 1 /\ Len(s) \in Nat
BY HeadTailProperties

\* A channel or buffer after a message was put into it.
LEMMA AppendMsgs ==
  ASSUME NEW s \in Seq(Msgs), NEW m \in Msgs
  PROVE  /\ Append(s, m) \in Seq(Msgs)
         /\ Len(Append(s, m)) = Len(s) + 1 /\ Len(s) \in Nat
BY AppendProperties

\* 0 is no message.
LEMMA ZeroNoMsg == 0 \notin Msgs /\ Msgs \subseteq Nat /\ Cache \in Nat /\ LiveCap \in Nat
BY CapAssumption, BoundAssumption DEF Msgs

\* delivery to a client.
LEMMA DeliveryPipe ==
  ASSUME TypeInv, NEW c \in Clients, Delivery(c)
  PROVE  Becomes(c, [pipe[c] EXCEPT !.msgLiveCh = Append(@, nextPm)])
<1> DEFINE p == pipe[c]
           q == [p EXCEPT !.msgLiveCh = Append(@, nextPm)]
<1>1. PipeOK(p) /\ p \in Pipes
  BY DEF TypeInv, PipeOK
<1>2. Len(p.msgLiveCh) < LiveCap /\ nextPm \in Msgs
  BY <1>1 DEF Delivery, TypeInv, TypeOK, QueueInv, Msgs
<1>3. /\ Append(p.msgLiveCh, nextPm) \in Seq(Msgs)
      /\ Len(Append(p.msgLiveCh, nextPm)) = Len(p.msgLiveCh) + 1 /\ Len(p.msgLiveCh) \in Nat
  BY <1>1, <1>2, AppendMsgs DEF Pipes
<1>4. pipe' = [pipe EXCEPT ![c] = q]
  BY DEF Delivery
<1> HIDE DEF p
<1>5. q \in Pipes
  BY <1>1, <1>2, <1>3, ZeroNoMsg DEF Pipes
<1>6. /\ q.msgLiveCh = Append(p.msgLiveCh, nextPm)
      /\ q.msgCh = p.msgCh /\ q.accmsg = p.accmsg /\ q.pre_sync_ok = p.pre_sync_ok
      /\ q.loop = p.loop /\ q.hold = p.hold /\ q.sync = p.sync
      /\ q.pms = p.pms
  BY <1>1 DEF Pipes
<1> HIDE DEF q
<1>7. PipeOK(q)
  BY <1>1, <1>2, <1>3, <1>5, <1>6, ZeroNoMsg DEF PipeOK
<1>8. Becomes(c, q)
  BY <1>4, <1>7, BecomesStep
<1> QED BY <1>8 DEF p, q

\* run starts its loop, and the sync goroutine if there is a start.
LEMMA RunStartPipe ==
  ASSUME TypeInv, NEW c \in Clients, RunStart(c)
  PROVE  Becomes(c, [pipe[c] EXCEPT !.loop = "select",
                            !.pre_sync_ok = (start[c] = 0),
                            !.sync = IF start[c] = 0 THEN "off" ELSE "copy"])
<1> DEFINE p == pipe[c]
           q == [p EXCEPT !.loop = "select",
                      !.pre_sync_ok = (start[c] = 0),
                      !.sync = IF start[c] = 0 THEN "off" ELSE "copy"]
<1>1. PipeOK(p) /\ p \in Pipes
  BY DEF TypeInv, PipeOK
<1>2. p.loop = "off" /\ p.sync = "off"
  BY <1>1 DEF RunStart, TypeInv, StartInv
<1>4. pipe' = [pipe EXCEPT ![c] = q]
  BY DEF RunStart
<1> HIDE DEF p
<1>5. q \in Pipes
  BY <1>1, <1>2, ZeroNoMsg DEF Pipes
<1>6. /\ q.loop = "select"
      /\ q.pre_sync_ok = (start[c] = 0)
      /\ q.sync = IF start[c] = 0 THEN "off" ELSE "copy"
      /\ q.msgLiveCh = p.msgLiveCh /\ q.msgCh = p.msgCh /\ q.accmsg = p.accmsg
      /\ q.hold = p.hold /\ q.pms = p.pms
  BY <1>1 DEF Pipes
<1> HIDE DEF q
<1>7. PipeOK(q)
  BY <1>1, <1>2, <1>5, <1>6, ZeroNoMsg DEF PipeOK
<1>8. Becomes(c, q)
  BY <1>4, <1>7, BecomesStep
<1> QED BY <1>8 DEF p, q

\* The loop takes a message from msgCh.
LEMMA LoopSendPipe ==
  ASSUME TypeInv, NEW c \in Clients, LoopSend(c)
  PROVE  Becomes(c, [pipe[c] EXCEPT !.msgCh = Tail(@)])
<1> DEFINE p == pipe[c]
           q == [p EXCEPT !.msgCh = Tail(@)]
<1>1. PipeOK(p) /\ p \in Pipes
  BY DEF TypeInv, PipeOK
<1>2. p.msgCh # <<>>
  BY <1>1 DEF LoopSend
<1>3. /\ Tail(p.msgCh) \in Seq(Msgs) /\ Head(p.msgCh) \in Msgs
      /\ Len(Tail(p.msgCh)) = Len(p.msgCh) - 1 /\ Len(p.msgCh) \in Nat
  BY <1>1, <1>2, TailMsgs DEF Pipes
<1>4. pipe' = [pipe EXCEPT ![c] = q]
  BY DEF LoopSend
<1> HIDE DEF p
<1>5. q \in Pipes
  BY <1>1, <1>2, <1>3, ZeroNoMsg DEF Pipes
<1>6. /\ q.msgCh = Tail(p.msgCh)
      /\ q.msgLiveCh = p.msgLiveCh /\ q.accmsg = p.accmsg /\ q.pre_sync_ok = p.pre_sync_ok
      /\ q.loop = p.loop /\ q.hold = p.hold /\ q.sync = p.sync
      /\ q.pms = p.pms
  BY <1>1 DEF Pipes
<1> HIDE DEF q
<1>7. PipeOK(q)
  BY <1>1, <1>2, <1>3, <1>5, <1>6, ZeroNoMsg DEF PipeOK
<1>8. Becomes(c, q)
  BY <1>4, <1>7, BecomesStep
<1> QED BY <1>8 DEF p, q

\* The loop takes a message from msgLiveCh.
LEMMA LoopTakePipe ==
  ASSUME TypeInv, NEW c \in Clients, LoopTake(c)
  PROVE  Becomes(c, [pipe[c] EXCEPT !.msgLiveCh = Tail(@),
                            !.hold = Head(pipe[c].msgLiveCh),
                            !.loop = IF pipe[c].pre_sync_ok THEN "forward" ELSE "accumulate"])
<1> DEFINE p == pipe[c]
           q == [p EXCEPT !.msgLiveCh = Tail(@),
                      !.hold = Head(p.msgLiveCh),
                      !.loop = IF p.pre_sync_ok THEN "forward" ELSE "accumulate"]
<1>1. PipeOK(p) /\ p \in Pipes
  BY DEF TypeInv, PipeOK
<1>2. p.msgLiveCh # <<>>
  BY <1>1 DEF LoopTake
<1>3. /\ Tail(p.msgLiveCh) \in Seq(Msgs) /\ Head(p.msgLiveCh) \in Msgs
      /\ Len(Tail(p.msgLiveCh)) = Len(p.msgLiveCh) - 1 /\ Len(p.msgLiveCh) \in Nat
  BY <1>1, <1>2, TailMsgs DEF Pipes
<1>4. pipe' = [pipe EXCEPT ![c] = q]
  BY DEF LoopTake
<1> HIDE DEF p
<1>5. q \in Pipes
  BY <1>1, <1>2, <1>3, ZeroNoMsg DEF Pipes
<1>6. /\ q.msgLiveCh = Tail(p.msgLiveCh)
      /\ q.hold = Head(p.msgLiveCh)
      /\ q.loop = IF p.pre_sync_ok THEN "forward" ELSE "accumulate"
      /\ q.msgCh = p.msgCh /\ q.accmsg = p.accmsg /\ q.pre_sync_ok = p.pre_sync_ok
      /\ q.sync = p.sync /\ q.pms = p.pms
  BY <1>1 DEF Pipes
<1> HIDE DEF q
<1>7. PipeOK(q)
  BY <1>1, <1>2, <1>3, <1>5, <1>6, ZeroNoMsg DEF PipeOK
<1>8. Becomes(c, q)
  BY <1>4, <1>7, BecomesStep
<1> QED BY <1>8 DEF p, q

\* The loop puts the message it holds into msgCh.
LEMMA LoopForwardPipe ==
  ASSUME TypeInv, NEW c \in Clients, LoopForward(c)
  PROVE  Becomes(c, [pipe[c] EXCEPT !.msgCh = Append(@, pipe[c].hold),
                            !.hold = 0,
                            !.loop = "select"])
<1> DEFINE p == pipe[c]
           q == [p EXCEPT !.msgCh = Append(@, p.hold),
                      !.hold = 0,
                      !.loop = "select"]
<1>1. PipeOK(p) /\ p \in Pipes
  BY DEF TypeInv, PipeOK
<1>2. p.hold \in Msgs /\ Len(p.msgCh) < Cache
  BY <1>1 DEF LoopForward, PipeOK, Pipes
<1>3. /\ Append(p.msgCh, p.hold) \in Seq(Msgs)
      /\ Len(Append(p.msgCh, p.hold)) = Len(p.msgCh) + 1 /\ Len(p.msgCh) \in Nat
  BY <1>1, <1>2, AppendMsgs DEF Pipes
<1>4. pipe' = [pipe EXCEPT ![c] = q]
  BY DEF LoopForward
<1> HIDE DEF p
<1>5. q \in Pipes
  BY <1>1, <1>2, <1>3, ZeroNoMsg DEF Pipes
<1>6. /\ q.msgCh = Append(p.msgCh, p.hold)
      /\ q.hold = 0
      /\ q.loop = "select"
      /\ q.msgLiveCh = p.msgLiveCh /\ q.accmsg = p.accmsg /\ q.pre_sync_ok = p.pre_sync_ok
      /\ q.sync = p.sync /\ q.pms = p.pms
  BY <1>1 DEF Pipes
<1> HIDE DEF q
<1>7. PipeOK(q)
  BY <1>1, <1>2, <1>3, <1>5, <1>6, ZeroNoMsg DEF PipeOK
<1>8. Becomes(c, q)
  BY <1>4, <1>7, BecomesStep
<1> QED BY <1>8 DEF p, q

\* The loop puts the message it holds into accmsg.
LEMMA LoopAccumulatePipe ==
  ASSUME TypeInv, NEW c \in Clients, LoopAccumulate(c)
  PROVE  Becomes(c, [pipe[c] EXCEPT !.accmsg = Append(@, pipe[c].hold),
                            !.hold = 0,
                            !.loop = "select"])
<1> DEFINE p == pipe[c]
           q == [p EXCEPT !.accmsg = Append(@, p.hold),
                      !.hold = 0,
                      !.loop = "select"]
<1>1. PipeOK(p) /\ p \in Pipes
  BY DEF TypeInv, PipeOK
<1>2. p.hold \in Msgs
  BY <1>1 DEF LoopAccumulate, PipeOK, Pipes
<1>3. /\ Append(p.accmsg, p.hold) \in Seq(Msgs)
      /\ Len(Append(p.accmsg, p.hold)) = Len(p.accmsg) + 1 /\ Len(p.accmsg) \in Nat
  BY <1>1, <1>2, AppendMsgs DEF Pipes
<1>4. pipe' = [pipe EXCEPT ![c] = q]
  BY DEF LoopAccumulate
<1> HIDE DEF p
<1>5. q \in Pipes
  BY <1>1, <1>2, <1>3, ZeroNoMsg DEF Pipes
<1>6. /\ q.accmsg = Append(p.accmsg, p.hold)
      /\ q.hold = 0
      /\ q.loop = "select"
      /\ q.msgLiveCh = p.msgLiveCh /\ q.msgCh = p.msgCh /\ q.pre_sync_ok = p.pre_sync_ok
      /\ q.sync = p.sync /\ q.pms = p.pms
  BY <1>1 DEF Pipes
<1> HIDE DEF q
<1>7. PipeOK(q)
  BY <1>1, <1>2, <1>3, <1>5, <1>6, ZeroNoMsg DEF PipeOK
<1>8. Becomes(c, q)
  BY <1>4, <1>7, BecomesStep
<1> QED BY <1>8 DEF p, q

\* The sync goroutine copies the cache.
LEMMA SyncCopyPipe ==
  ASSUME TypeInv, NEW c \in Clients, SyncCopy(c)
  PROVE  Becomes(c, [pipe[c] EXCEPT !.pms = CachedSince(dataQueue, start[c]),
                            !.sync = "push"])
<1> DEFINE p == pipe[c]
           q == [p EXCEPT !.pms = CachedSince(dataQueue, start[c]), !.sync = "push"]
<1>1. PipeOK(p) /\ p \in Pipes
  BY DEF TypeInv, PipeOK
<1>2. p.sync = "copy"
  BY <1>1 DEF SyncCopy
<1>3. CachedSince(dataQueue, start[c]) \in Seq(Msgs)
  BY CachedSinceQueue DEF TypeInv, TypeOK, QueueInv
<1>4. pipe' = [pipe EXCEPT ![c] = q]
  BY DEF SyncCopy
<1> HIDE DEF p
<1>5. q \in Pipes
  BY <1>1, <1>2, <1>3, ZeroNoMsg DEF Pipes
<1>6. /\ q.pms = CachedSince(dataQueue, start[c])
      /\ q.sync = "push"
      /\ q.msgLiveCh = p.msgLiveCh /\ q.msgCh = p.msgCh /\ q.accmsg = p.accmsg
      /\ q.pre_sync_ok = p.pre_sync_ok /\ q.loop = p.loop /\ q.hold = p.hold
  BY <1>1 DEF Pipes
<1> HIDE DEF q
<1>7. PipeOK(q)
  BY <1>1, <1>2, <1>3, <1>5, <1>6, ZeroNoMsg DEF PipeOK
<1>8. Becomes(c, q)
  BY <1>4, <1>7, BecomesStep
<1> QED BY <1>8 DEF p, q

\* The sync goroutine moves a copied message to msgCh.
LEMMA SyncPushPipe ==
  ASSUME TypeInv, NEW c \in Clients, SyncPush(c)
  PROVE  Becomes(c, [pipe[c] EXCEPT !.msgCh = Append(@, Head(pipe[c].pms)),
                            !.pms = Tail(@)])
<1> DEFINE p == pipe[c]
           q == [p EXCEPT !.msgCh = Append(@, Head(p.pms)), !.pms = Tail(@)]
<1>1. PipeOK(p) /\ p \in Pipes
  BY DEF TypeInv, PipeOK
<1>2. p.sync = "push" /\ p.pms # <<>> /\ Len(p.msgCh) < Cache
  BY <1>1 DEF SyncPush
<1>3. /\ Tail(p.pms) \in Seq(Msgs) /\ Head(p.pms) \in Msgs
      /\ Len(Tail(p.pms)) = Len(p.pms) - 1 /\ Len(p.pms) \in Nat
      /\ Append(p.msgCh, Head(p.pms)) \in Seq(Msgs)
      /\ Len(Append(p.msgCh, Head(p.pms))) = Len(p.msgCh) + 1 /\ Len(p.msgCh) \in Nat
  BY <1>1, <1>2, TailMsgs, AppendMsgs DEF Pipes
<1>4. pipe' = [pipe EXCEPT ![c] = q]
  BY DEF SyncPush
<1> HIDE DEF p
<1>5. q \in Pipes
  BY <1>1, <1>2, <1>3, ZeroNoMsg DEF Pipes
<1>6. /\ q.msgCh = Append(p.msgCh, Head(p.pms))
      /\ q.pms = Tail(p.pms)
      /\ q.msgLiveCh = p.msgLiveCh /\ q.accmsg = p.accmsg /\ q.pre_sync_ok = p.pre_sync_ok
      /\ q.loop = p.loop /\ q.hold = p.hold /\ q.sync = p.sync
  BY <1>1 DEF Pipes
<1> HIDE DEF q
<1>7. PipeOK(q)
  BY <1>1, <1>2, <1>3, <1>5, <1>6, ZeroNoMsg DEF PipeOK
<1>8. Becomes(c, q)
  BY <1>4, <1>7, BecomesStep
<1> QED BY <1>8 DEF p, q

\* It takes c.mtx,
LEMMA SyncLockPipe ==
  ASSUME TypeInv, NEW c \in Clients, SyncLock(c)
  PROVE  Becomes(c, [pipe[c] EXCEPT !.sync = "drain"])
<1> DEFINE p == pipe[c]
           q == [p EXCEPT !.sync = "drain"]
<1>1. PipeOK(p) /\ p \in Pipes
  BY DEF TypeInv, PipeOK
<1>2. p.sync = "push" /\ p.pms = <<>>
  BY <1>1 DEF SyncLock
<1>4. pipe' = [pipe EXCEPT ![c] = q]
  BY DEF SyncLock
<1> HIDE DEF p
<1>5. q \in Pipes
  BY <1>1, <1>2, ZeroNoMsg DEF Pipes
<1>6. /\ q.sync = "drain"
      /\ q.msgLiveCh = p.msgLiveCh /\ q.msgCh = p.msgCh /\ q.accmsg = p.accmsg
      /\ q.pre_sync_ok = p.pre_sync_ok /\ q.loop = p.loop /\ q.hold = p.hold
      /\ q.pms = p.pms
  BY <1>1 DEF Pipes
<1> HIDE DEF q
<1>7. PipeOK(q)
  BY <1>1, <1>2, <1>5, <1>6, ZeroNoMsg DEF PipeOK
<1>8. Becomes(c, q)
  BY <1>4, <1>7, BecomesStep
<1> QED BY <1>8 DEF p, q

\* moves a live message that came meanwhile,
LEMMA SyncDrainPipe ==
  ASSUME TypeInv, NEW c \in Clients, SyncDrain(c)
  PROVE  Becomes(c, [pipe[c] EXCEPT !.msgCh = Append(@, Head(pipe[c].accmsg)),
                            !.accmsg = Tail(@)])
<1> DEFINE p == pipe[c]
           q == [p EXCEPT !.msgCh = Append(@, Head(p.accmsg)), !.accmsg = Tail(@)]
<1>1. PipeOK(p) /\ p \in Pipes
  BY DEF TypeInv, PipeOK
<1>2. p.sync = "drain" /\ p.accmsg # <<>> /\ Len(p.msgCh) < Cache
  BY <1>1 DEF SyncDrain
<1>3. /\ Tail(p.accmsg) \in Seq(Msgs) /\ Head(p.accmsg) \in Msgs
      /\ Len(Tail(p.accmsg)) = Len(p.accmsg) - 1 /\ Len(p.accmsg) \in Nat
      /\ Append(p.msgCh, Head(p.accmsg)) \in Seq(Msgs)
      /\ Len(Append(p.msgCh, Head(p.accmsg))) = Len(p.msgCh) + 1 /\ Len(p.msgCh) \in Nat
  BY <1>1, <1>2, TailMsgs, AppendMsgs DEF Pipes
<1>4. pipe' = [pipe EXCEPT ![c] = q]
  BY DEF SyncDrain
<1> HIDE DEF p
<1>5. q \in Pipes
  BY <1>1, <1>2, <1>3, ZeroNoMsg DEF Pipes
<1>6. /\ q.msgCh = Append(p.msgCh, Head(p.accmsg))
      /\ q.accmsg = Tail(p.accmsg)
      /\ q.msgLiveCh = p.msgLiveCh /\ q.pre_sync_ok = p.pre_sync_ok /\ q.loop = p.loop
      /\ q.hold = p.hold /\ q.sync = p.sync /\ q.pms = p.pms
  BY <1>1 DEF Pipes
<1> HIDE DEF q
<1>7. PipeOK(q)
  BY <1>1, <1>2, <1>3, <1>5, <1>6, ZeroNoMsg DEF PipeOK
<1>8. Becomes(c, q)
  BY <1>4, <1>7, BecomesStep
<1> QED BY <1>8 DEF p, q

\* releases c.mtx,
LEMMA SyncUnlockPipe ==
  ASSUME TypeInv, NEW c \in Clients, SyncUnlock(c)
  PROVE  Becomes(c, [pipe[c] EXCEPT !.sync = "flag"])
<1> DEFINE p == pipe[c]
           q == [p EXCEPT !.sync = "flag"]
<1>1. PipeOK(p) /\ p \in Pipes
  BY DEF TypeInv, PipeOK
<1>2. p.sync = "drain"
  BY <1>1 DEF SyncUnlock
<1>4. pipe' = [pipe EXCEPT ![c] = q]
  BY DEF SyncUnlock
<1> HIDE DEF p
<1>5. q \in Pipes
  BY <1>1, <1>2, ZeroNoMsg DEF Pipes
<1>6. /\ q.sync = "flag"
      /\ q.msgLiveCh = p.msgLiveCh /\ q.msgCh = p.msgCh /\ q.accmsg = p.accmsg
      /\ q.pre_sync_ok = p.pre_sync_ok /\ q.loop = p.loop /\ q.hold = p.hold
      /\ q.pms = p.pms
  BY <1>1 DEF Pipes
<1> HIDE DEF q
<1>7. PipeOK(q)
  BY <1>1, <1>2, <1>5, <1>6, ZeroNoMsg DEF PipeOK
<1>8. Becomes(c, q)
  BY <1>4, <1>7, BecomesStep
<1> QED BY <1>8 DEF p, q

\* and lets run forward by itself.
LEMMA SyncFlagPipe ==
  ASSUME TypeInv, NEW c \in Clients, SyncFlag(c)
  PROVE  Becomes(c, [pipe[c] EXCEPT !.sync = "done", !.pre_sync_ok = TRUE])
<1> DEFINE p == pipe[c]
           q == [p EXCEPT !.sync = "done", !.pre_sync_ok = TRUE]
<1>1. PipeOK(p) /\ p \in Pipes
  BY DEF TypeInv, PipeOK
<1>2. p.sync = "flag"
  BY <1>1 DEF SyncFlag
<1>4. pipe' = [pipe EXCEPT ![c] = q]
  BY DEF SyncFlag
<1> HIDE DEF p
<1>5. q \in Pipes
  BY <1>1, <1>2, ZeroNoMsg DEF Pipes
<1>6. /\ q.sync = "done"
      /\ q.pre_sync_ok = TRUE
      /\ q.msgLiveCh = p.msgLiveCh /\ q.msgCh = p.msgCh /\ q.accmsg = p.accmsg
      /\ q.loop = p.loop /\ q.hold = p.hold /\ q.pms = p.pms
  BY <1>1 DEF Pipes
<1> HIDE DEF q
<1>7. PipeOK(q)
  BY <1>1, <1>2, <1>5, <1>6, ZeroNoMsg DEF PipeOK
<1>8. Becomes(c, q)
  BY <1>4, <1>7, BecomesStep
<1> QED BY <1>8 DEF p, q

-----------------------------------------------------------------------------
(* The type invariant is inductive *)

Counts == [Clients -> [Msgs -> Nat]]

\* The pipelines after a step that changes one of them.
LEMMA PipesAfter ==
  ASSUME TypeInv, NEW c \in Clients, NEW q, Becomes(c, q)
  PROVE  /\ pipe' \in [Clients -> Pipes]
         /\ \A x \in Clients : PipeOK(pipe'[x])
BY DEF TypeInv, Becomes

\* A step of run's loop or of the sync goroutine.
LEMMA StreamStep ==
  ASSUME TypeInv, NEW c \in Clients, NEW q, Becomes(c, q),
         pipe[c].loop # "off" \/ pipe[c].sync # "off",
         UNCHANGED <<registry, server, conn>>,
         flight' \in Counts, got' \in Counts, want' \in Counts
  PROVE  TypeInv'
<1>1. /\ pipe' \in [Clients -> Pipes]
      /\ \A x \in Clients : PipeOK(pipe'[x])
  BY PipesAfter
<1>2. UNCHANGED <<up, users, reloads, clients, phase, user, start, smtx, dataQueue, nextPm,
                  todo, open, reader, heartbeat>>
  BY DEF registry, server, conn
<1>3. TypeOK'
  BY <1>1, <1>2 DEF TypeInv, TypeOK, PipeOK, Counts
<1>4. QueueInv'
  BY <1>2 DEF TypeInv, QueueInv
<1>5. StartInv'
  <2>1. phase[c] = "running"
    BY DEF TypeInv, StartInv
  <2> QED BY <1>2, <2>1 DEF TypeInv, StartInv, Becomes
<1> QED BY <1>1, <1>3, <1>4, <1>5 DEF TypeInv

\* A step that leaves the pipelines and the cache alone.
LEMMA QuietStep ==
  ASSUME TypeInv, UNCHANGED <<pipe, dataQueue, nextPm>>, TypeOK',
         smtx' = "enqueue" <=> smtx = "enqueue", todo' = todo,
         \A c \in Clients : phase'[c] # "running" => phase[c] # "running",
         \A c \in Clients : reader'[c] = reader[c] \/ reader[c] # "off"
  PROVE  TypeInv'
<1>1. QueueInv'
  BY DEF TypeInv, QueueInv
<1>2. StartInv'
  BY DEF TypeInv, StartInv
<1> QED BY <1>1, <1>2 DEF TypeInv

\* enqueue
LEMMA TypeEnqueue ==
  ASSUME TypeInv, Enqueue PROVE TypeInv'
<1> USE DEF registry, server, conn
<1>1. CASE EnqueueBegin
  <2>1. /\ nextPm \in Msgs /\ nextPm \in Nat /\ dataQueue \in Seq(Msgs)
        /\ Len(dataQueue) <= Cache /\ Ascending(dataQueue)
        /\ \A i \in 1 .. Len(dataQueue) : dataQueue[i] < nextPm
    <3>1. nextPm \in 1 .. MaxMsg + 1 /\ nextPm <= MaxMsg /\ smtx # "enqueue"
      BY <1>1 DEF EnqueueBegin, TypeInv, TypeOK
    <3>2. nextPm \in Msgs /\ nextPm \in Nat
      BY <3>1, BoundAssumption DEF Msgs
    <3> QED BY <3>1, <3>2 DEF TypeInv, TypeOK, QueueInv
  <2>2. dataQueue' = Cached(dataQueue, nextPm)
    BY <1>1 DEF EnqueueBegin
  <2>3. /\ dataQueue' \in Seq(Msgs) /\ Len(dataQueue') <= Cache /\ Ascending(dataQueue')
        /\ \A i \in 1 .. Len(dataQueue') :
             dataQueue'[i] = nextPm \/ \E j \in 1 .. Len(dataQueue) : dataQueue'[i] = dataQueue[j]
    BY <2>1, <2>2, CachedQueue
  <2>4. \A i \in 1 .. Len(dataQueue') : dataQueue'[i] <= nextPm
    <3> TAKE i \in 1 .. Len(dataQueue')
    <3>1. CASE dataQueue'[i] = nextPm
      BY <2>1, <3>1
    <3>2. CASE \E j \in 1 .. Len(dataQueue) : dataQueue'[i] = dataQueue[j]
      <4>1. PICK j \in 1 .. Len(dataQueue) : dataQueue'[i] = dataQueue[j]
        BY <3>2
      <4>2. dataQueue[j] \in Msgs
        BY <2>1, ElementOfSeq
      <4>3. dataQueue[j] < nextPm /\ dataQueue[j] \in Nat
        BY <2>1, <4>2, ZeroNoMsg
      <4> QED BY <2>1, <4>1, <4>3
    <3> QED BY <2>3, <3>1, <3>2
  <2>5. todo' \subseteq Clients
    BY <1>1 DEF EnqueueBegin, TypeInv, TypeOK
  <2>6. /\ smtx' = "enqueue" /\ nextPm <= MaxMsg
        /\ UNCHANGED <<up, users, reloads, clients, phase, user, start, nextPm, open, reader,
                       heartbeat, pipe, flight, got, want>>
    BY <1>1 DEF EnqueueBegin
  <2>7. TypeOK'
    BY <2>3, <2>5, <2>6 DEF TypeInv, TypeOK
  <2>8. QueueInv'
    BY <2>3, <2>4, <2>6 DEF QueueInv
  <2>9. StartInv' /\ \A x \in Clients : PipeOK(pipe'[x])
    BY <2>6 DEF TypeInv, StartInv
  <2> QED BY <2>7, <2>8, <2>9 DEF TypeInv
<1>2. ASSUME NEW c \in Clients, Delivery(c) PROVE TypeInv'
  <2> DEFINE q == [pipe[c] EXCEPT !.msgLiveCh = Append(@, nextPm)]
  <2>1. Becomes(c, q)
    BY <1>2, DeliveryPipe
  <2>2. q.loop = pipe[c].loop /\ q.sync = pipe[c].sync
    BY DEF TypeInv, PipeOK, Pipes
  <2> HIDE DEF q
  <2>3. /\ pipe' \in [Clients -> Pipes]
        /\ \A x \in Clients : PipeOK(pipe'[x])
    BY <2>1, PipesAfter
  <2>4. /\ smtx = "enqueue" /\ todo' = todo \ {c}
        /\ want' = [want EXCEPT ![c][nextPm] = @ + 1]
        /\ UNCHANGED <<up, users, reloads, clients, phase, user, start, smtx, dataQueue, nextPm,
                       open, reader, heartbeat, flight, got>>
    BY <1>2 DEF Delivery
  <2>5. nextPm \in Msgs
    BY <2>4, BoundAssumption DEF TypeInv, TypeOK, QueueInv, Msgs
  <2>6. want' \in Counts
    BY <2>4, <2>5 DEF TypeInv, TypeOK, Counts
  <2>7. TypeOK'
    BY <2>3, <2>4, <2>6 DEF TypeInv, TypeOK, PipeOK, Counts
  <2>8. QueueInv'
    BY <2>4 DEF TypeInv, QueueInv
  <2>9. StartInv'
    BY <2>1, <2>2, <2>4 DEF TypeInv, StartInv, Becomes
  <2> QED BY <2>3, <2>7, <2>8, <2>9 DEF TypeInv
<1>3. CASE EnqueueEnd
  <2>1. /\ smtx = "enqueue" /\ todo = {} /\ smtx' = "free" /\ nextPm' = nextPm + 1
        /\ UNCHANGED <<up, users, reloads, clients, phase, user, start, dataQueue, todo, open,
                       reader, heartbeat, pipe, flight, got, want>>
    BY <1>3 DEF EnqueueEnd
  <2>2. nextPm \in Nat /\ nextPm' \in 1 .. MaxMsg + 1
    <3>1. nextPm \in 1 .. MaxMsg + 1 /\ nextPm <= MaxMsg
      BY <2>1 DEF TypeInv, TypeOK, QueueInv
    <3> QED BY <2>1, <3>1, BoundAssumption
  <2>3. TypeOK'
    BY <2>1, <2>2 DEF TypeInv, TypeOK
  <2>4. \A i \in 1 .. Len(dataQueue) : dataQueue[i] \in Msgs
    BY ElementOfSeq DEF TypeInv, TypeOK
  <2>5. QueueInv'
    <3>1. \A i \in 1 .. Len(dataQueue) : dataQueue[i] < nextPm + 1
      <4> TAKE i \in 1 .. Len(dataQueue)
      <4>1. dataQueue[i] <= nextPm /\ dataQueue[i] \in Nat /\ nextPm \in Nat
        BY <2>2, <2>4, ZeroNoMsg DEF TypeInv, QueueInv
      <4> QED BY <4>1
    <3>2. \A i \in 1 .. Len(dataQueue) : dataQueue[i] <= nextPm + 1
      <4> TAKE i \in 1 .. Len(dataQueue)
      <4>1. dataQueue[i] < nextPm + 1 /\ dataQueue[i] \in Nat /\ nextPm \in Nat
        BY <2>2, <2>4, <3>1, ZeroNoMsg
      <4> QED BY <4>1
    <3>3. Ascending(dataQueue)'
      BY <2>1 DEF TypeInv, QueueInv
    <3> QED BY <2>1, <3>1, <3>2, <3>3 DEF QueueInv
  <2>6. StartInv' /\ \A x \in Clients : PipeOK(pipe'[x])
    BY <2>1 DEF TypeInv, StartInv
  <2> QED BY <2>3, <2>5, <2>6 DEF TypeInv
<1> QED BY <1>1, <1>2, <1>3 DEF Enqueue

\* The handler of /ws and the user list
LEMMA TypeRequest ==
  ASSUME TypeInv, Request \/ Reload PROVE TypeInv'
<1> USE DEF registry, server, conn
<1>1. ASSUME NEW c \in Clients, NEW u \in Users, Access(c, u) PROVE TypeInv'
  <2>1. TypeOK'
    BY <1>1 DEF Access, TypeInv, TypeOK, Phases
  <2> QED BY <1>1, <2>1, QuietStep DEF Access, TypeInv, TypeOK
<1>2. ASSUME NEW c \in Clients, UpgradeError(c) PROVE TypeInv'
  <2>1. TypeOK'
    BY <1>2 DEF UpgradeError, TypeInv, TypeOK
  <2> QED BY <1>2, <2>1, QuietStep DEF UpgradeError
<1>3. ASSUME NEW c \in Clients, Register(c) PROVE TypeInv'
  <2>1. TypeOK'
    BY <1>3 DEF Register, TypeInv, TypeOK, Phases
  <2> QED BY <1>3, <2>1, QuietStep DEF Register, TypeInv, TypeOK
<1>4. ASSUME NEW c \in Clients, NEW st \in {0} \cup {Since(w) : w \in Windows}, Upgrade(c, st)
      PROVE  TypeInv'
  <2>1. st \in Nat
    BY WindowAssumption DEF Since, TypeInv, TypeOK
  <2>2. TypeOK'
    BY <1>4, <2>1 DEF Upgrade, TypeInv, TypeOK, Phases
  <2> QED BY <1>4, <2>2, QuietStep DEF Upgrade, TypeInv, TypeOK
<1>5. CASE ReloadBegin
  <2>1. TypeOK'
    BY <1>5, BoundAssumption DEF ReloadBegin, TypeInv, TypeOK
  <2> QED BY <1>5, <2>1, QuietStep DEF ReloadBegin
<1>6. ASSUME NEW list \in {Users, {}}, ReloadEnd(list) PROVE TypeInv'
  <2>1. TypeOK'
    BY <1>6 DEF ReloadEnd, TypeInv, TypeOK
  <2> QED BY <1>6, <2>1, QuietStep DEF ReloadEnd
<1> QED BY <1>1, <1>2, <1>3, <1>4, <1>5, <1>6 DEF Request, Reload

\* The goroutines of a client
LEMMA TypeClient ==
  ASSUME TypeInv, NEW c \in Clients, Loop(c) \/ Sync(c)
  PROVE  TypeInv'
<1>0. flight \in Counts /\ got \in Counts /\ want \in Counts
  BY DEF TypeInv, TypeOK, Counts
<1>1. CASE LoopSend(c)
  <2>1. Head(pipe[c].msgCh) \in Msgs
    BY <1>1, TailMsgs DEF LoopSend, TypeInv, PipeOK, Pipes
  <2>2. flight' \in Counts
    BY <1>0, <1>1, <2>1 DEF LoopSend, Counts
  <2> QED BY <1>0, <1>1, <2>2, LoopSendPipe, StreamStep DEF LoopSend
<1>2. CASE LoopTake(c)
  BY <1>0, <1>2, LoopTakePipe, StreamStep DEF LoopTake
<1>3. CASE LoopForward(c)
  BY <1>0, <1>3, LoopForwardPipe, StreamStep DEF LoopForward
<1>4. CASE LoopAccumulate(c)
  BY <1>0, <1>4, LoopAccumulatePipe, StreamStep DEF LoopAccumulate
<1>5. CASE SyncCopy(c)
  <2>1. want' = [want EXCEPT ![c] =
                   [m \in Msgs |-> @[m] + IF m \in ToSet(CachedSince(dataQueue, start[c]))
                                          THEN 1 ELSE 0]]
    BY <1>5 DEF SyncCopy
  <2>2. want' \in Counts
    BY <1>0, <2>1 DEF Counts
  <2> QED BY <1>0, <1>5, <2>2, SyncCopyPipe, StreamStep DEF SyncCopy
<1>6. CASE SyncPush(c)
  BY <1>0, <1>6, SyncPushPipe, StreamStep DEF SyncPush
<1>7. CASE SyncLock(c)
  BY <1>0, <1>7, SyncLockPipe, StreamStep DEF SyncLock
<1>8. CASE SyncDrain(c)
  BY <1>0, <1>8, SyncDrainPipe, StreamStep DEF SyncDrain
<1>9. CASE SyncUnlock(c)
  BY <1>0, <1>9, SyncUnlockPipe, StreamStep DEF SyncUnlock
<1>10. CASE SyncFlag(c)
  BY <1>0, <1>10, SyncFlagPipe, StreamStep DEF SyncFlag
<1> QED BY <1>1, <1>2, <1>3, <1>4, <1>5, <1>6, <1>7, <1>8, <1>9, <1>10 DEF Loop, Sync

\* The start of run, the senders and the end of a connection
LEMMA TypeConn ==
  ASSUME TypeInv, NEW c \in Clients,
         \/ RunStart(c) \/ Heartbeat(c) \/ \E m \in Msgs : Send(c, m)
         \/ ConcurrentWrite(c) \/ PeerGone(c) \/ Close(c)
  PROVE  TypeInv'
<1> USE DEF registry, server, conn
<1>1. CASE RunStart(c)
  <2> DEFINE q == [pipe[c] EXCEPT !.loop = "select", !.pre_sync_ok = (start[c] = 0),
                                  !.sync = IF start[c] = 0 THEN "off" ELSE "copy"]
  <2>1. Becomes(c, q)
    BY <1>1, RunStartPipe
  <2> HIDE DEF q
  <2>2. /\ pipe' \in [Clients -> Pipes]
        /\ \A x \in Clients : PipeOK(pipe'[x])
    BY <2>1, PipesAfter
  <2>3. /\ phase' = [phase EXCEPT ![c] = "running"]
        /\ reader' = [reader EXCEPT ![c] = "reading"]
        /\ heartbeat' = [heartbeat EXCEPT ![c] = TRUE]
        /\ UNCHANGED <<up, users, reloads, clients, user, start, smtx, dataQueue, nextPm, todo,
                       open, flight, got, want>>
    BY <1>1 DEF RunStart
  <2>4. TypeOK'
    BY <2>2, <2>3 DEF TypeInv, TypeOK, PipeOK, Phases
  <2>5. QueueInv'
    BY <2>3 DEF TypeInv, QueueInv
  <2>6. StartInv'
    BY <2>1, <2>3 DEF TypeInv, TypeOK, StartInv, Becomes
  <2> QED BY <2>2, <2>4, <2>5, <2>6 DEF TypeInv
<1>2. CASE Heartbeat(c)
  <2>1. TypeOK'
    BY <1>2 DEF Heartbeat, TypeInv, TypeOK
  <2> QED BY <1>2, <2>1, QuietStep DEF Heartbeat
<1>3. ASSUME NEW m \in Msgs, Send(c, m) PROVE TypeInv'
  <2>1. flight' \in Counts /\ got' \in Counts
    BY <1>3 DEF Send, TypeInv, TypeOK, Counts
  <2>2. TypeOK'
    BY <1>3, <2>1 DEF Send, TypeInv, TypeOK, Counts
  <2> QED BY <1>3, <2>2, QuietStep DEF Send
<1>4. CASE ConcurrentWrite(c)
  <2>1. TypeOK'
    BY <1>4 DEF ConcurrentWrite, TypeInv, TypeOK
  <2> QED BY <1>4, <2>1, QuietStep DEF ConcurrentWrite
<1>5. CASE PeerGone(c)
  <2>1. TypeOK'
    BY <1>5 DEF PeerGone, TypeInv, TypeOK
  <2> QED BY <1>5, <2>1, QuietStep DEF PeerGone
<1>6. CASE ReadError(c)
  <2>1. TypeOK'
    BY <1>6 DEF ReadError, TypeInv, TypeOK
  <2> QED BY <1>6, <2>1, QuietStep DEF ReadError, TypeInv, TypeOK
<1>7. CASE onclose(c)
  <2>1. TypeOK'
    BY <1>7 DEF onclose, TypeInv, TypeOK
  <2> QED BY <1>7, <2>1, QuietStep DEF onclose, TypeInv, TypeOK
<1> QED BY <1>1, <1>2, <1>3, <1>4, <1>5, <1>6, <1>7 DEF Close

LEMMA TypeStutter ==
  ASSUME TypeInv, UNCHANGED vars PROVE TypeInv'
BY DEF vars, registry, server, conn, TypeInv, TypeOK, QueueInv, StartInv

LEMMA TypeInit == Init => TypeInv
<1> SUFFICES ASSUME Init PROVE TypeInv
  OBVIOUS
<1>1. NewPipe \in Pipes /\ PipeOK(NewPipe)
  BY CapAssumption DEF NewPipe, PipeOK, Pipes
<1>2. TypeOK
  BY <1>1, CapAssumption, BoundAssumption DEF Init, TypeOK, Phases, PipeOK
<1>3. QueueInv
  BY DEF Init, QueueInv, Ascending
<1>4. StartInv
  BY DEF Init, StartInv, NewPipe
<1> QED BY <1>1, <1>2, <1>3, <1>4 DEF Init, TypeInv

LEMMA TypeNext == TypeInv /\ [Next]_vars => TypeInv'
BY TypeEnqueue, TypeRequest, TypeClient, TypeConn, TypeStutter DEF Next

LEMMA TypeHolds == Spec => []TypeInv
BY TypeInit, TypeNext, PTL DEF Spec

(***************************************************************************)
(* The cache, the channels and the buffers never exceed their sizes, for   *)
(* any number of clients, messages and reloads, and whatever the order in  *)
(* which the goroutines of a client run.                                   *)
(***************************************************************************)
THEOREM TypeCorrect == Spec => []TypeOK
<1>1. TypeInv => TypeOK
  BY DEF TypeInv
<1> QED BY <1>1, TypeHolds, PTL

-----------------------------------------------------------------------------
(* One stream per user *)

(***************************************************************************)
(* Exclusive is inductive once it is known who can be in s.clients: a      *)
(* client that got past registration, under the name of its own user. A    *)
(* reader that is about to run onclose has lost its connection for good.   *)
(***************************************************************************)
Registered == {c \in Clients : phase[c] \in {"registered", "running"}}

RegInv ==
  /\ \A c \in Clients : phase[c] # "new" => user[c] \in Users
  /\ \A u \in Users : clients[u] # None => clients[u] \in Registered /\ user[clients[u]] = u
  /\ \A c \in Clients : reader[c] \in {"closing", "done"} => ~open[c]
  /\ todo \subseteq Registered
  /\ Exclusive

\* Steps after which the same clients are registered and fewer are connected.
LEMMA RegQuiet ==
  ASSUME RegInv, UNCHANGED <<clients, phase, user>>, todo' \subseteq Registered,
         \A c \in Clients : open'[c] => open[c],
         \A c \in Clients : reader'[c] \in {"closing", "done"} => ~open[c]
  PROVE  RegInv'
<1>1. Registered' = Registered
  BY DEF Registered
<1> QED BY <1>1 DEF RegInv, Exclusive

LEMMA RegEnqueue ==
  ASSUME TypeInv, RegInv, Enqueue PROVE RegInv'
<1>1. UNCHANGED <<clients, phase, user, open, reader>>
  BY DEF Enqueue, EnqueueBegin, Delivery, EnqueueEnd, registry, conn
<1>2. todo' \subseteq Registered
  <2>1. CASE EnqueueBegin
    <3>1. todo' = {clients[u] : u \in Users} \ {None}
      BY <2>1 DEF EnqueueBegin
    <3> QED BY <3>1 DEF RegInv
  <2>2. CASE EnqueueEnd \/ \E c \in Clients : Delivery(c)
    BY <2>2 DEF EnqueueEnd, Delivery, RegInv
  <2> QED BY <2>1, <2>2 DEF Enqueue
<1> QED BY <1>1, <1>2, RegQuiet DEF RegInv

\* Register kicks the one client of the user that can still be connected.
LEMMA RegRegister ==
  ASSUME TypeInv, RegInv, NEW c \in Clients, Register(c) PROVE RegInv'
<1>1. /\ phase[c] = "upgraded"
      /\ phase' = [phase EXCEPT ![c] = "registered"]
      /\ open' = [x \in Clients |-> open[x] /\ x # clients[user[c]]]
      /\ clients' = [clients EXCEPT ![user[c]] = c]
      /\ UNCHANGED <<user, reader, todo>>
  BY DEF Register, server
<1>2. /\ user[c] \in Users /\ clients \in [Users -> Clients \cup {None}]
      /\ phase \in [Clients -> Phases] /\ open \in [Clients -> BOOLEAN]
  BY <1>1 DEF RegInv, TypeInv, TypeOK
<1>3. \A x \in Clients : phase'[x] = IF x = c THEN "registered" ELSE phase[x]
  BY <1>1, <1>2
<1>4. \A u \in Users : clients'[u] = IF u = user[c] THEN c ELSE clients[u]
  BY <1>1, <1>2
<1>5. \A x \in Registered : x \in Registered'
  BY <1>3 DEF Registered
<1>6. c \in Registered'
  BY <1>3 DEF Registered
<1>7. Exclusive'
  <2> SUFFICES ASSUME NEW x \in Clients, open'[x], phase'[x] \in {"registered", "running"}
               PROVE  clients'[user[x]] = x
    BY <1>1 DEF Exclusive
  <2>1. CASE x = c
    BY <1>2, <1>4, <2>1
  <2>2. CASE x # c
    <3>1. phase[x] \in {"registered", "running"} /\ open[x] /\ x # clients[user[c]]
      BY <1>1, <1>3, <2>2
    <3>2. clients[user[x]] = x /\ user[x] \in Users
      BY <3>1 DEF RegInv, Exclusive
    <3>3. user[x] # user[c]
      BY <3>1, <3>2
    <3> QED BY <1>4, <3>2, <3>3
  <2> QED BY <2>1, <2>2
<1>8. \A u \in Users : clients'[u] # None => clients'[u] \in Registered' /\ user[clients'[u]] = u
  BY <1>4, <1>5, <1>6 DEF RegInv
<1>9. \A x \in Clients : phase'[x] # "new" => user[x] \in Users
  BY <1>2, <1>3 DEF RegInv
<1>10. \A x \in Clients : reader'[x] \in {"closing", "done"} => ~open'[x]
  BY <1>1 DEF RegInv
<1>11. todo' \subseteq Registered'
  BY <1>1, <1>5 DEF RegInv
<1> QED BY <1>1, <1>7, <1>8, <1>9, <1>10, <1>11 DEF RegInv

LEMMA RegRequest ==
  ASSUME TypeInv, RegInv, Request \/ Reload PROVE RegInv'
<1> USE DEF registry, server, conn
<1>1. ASSUME NEW c \in Clients, NEW u \in Users, Access(c, u) PROVE RegInv'
  <2>1. /\ phase[c] = "new" /\ phase' = [phase EXCEPT ![c] = "granted"]
        /\ user' = [user EXCEPT ![c] = u]
        /\ UNCHANGED <<clients, todo, open, reader>>
    BY <1>1 DEF Access
  <2>2. phase \in [Clients -> Phases] /\ user \in [Clients -> Users \cup {None}]
    BY DEF TypeInv, TypeOK
  <2>3. \A x \in Clients : /\ phase'[x] = IF x = c THEN "granted" ELSE phase[x]
                           /\ user'[x] = IF x = c THEN u ELSE user[x]
    BY <2>1, <2>2
  <2>4. Registered' = Registered /\ c \notin Registered
    BY <2>1, <2>3 DEF Registered
  <2>5. Exclusive'
    BY <2>1, <2>3 DEF RegInv, Exclusive
  <2>6. \A v \in Users : clients[v] # None => user'[clients[v]] = v
    BY <2>3, <2>4 DEF RegInv, Registered
  <2> QED BY <2>1, <2>3, <2>4, <2>5, <2>6 DEF RegInv
<1>2. ASSUME NEW c \in Clients, UpgradeError(c) PROVE RegInv'
  BY <1>2, RegQuiet DEF UpgradeError, RegInv
<1>3. ASSUME NEW c \in Clients, NEW st \in {0} \cup {Since(w) : w \in Windows}, Upgrade(c, st)
      PROVE  RegInv'
  <2>1. /\ phase[c] = "granted" /\ phase' = [phase EXCEPT ![c] = "upgraded"]
        /\ open' = [open EXCEPT ![c] = TRUE]
        /\ UNCHANGED <<clients, user, todo, reader>>
    BY <1>3 DEF Upgrade
  <2>2. phase \in [Clients -> Phases] /\ open \in [Clients -> BOOLEAN]
    BY DEF TypeInv, TypeOK
  <2>3. \A x \in Clients : /\ phase'[x] = IF x = c THEN "upgraded" ELSE phase[x]
                           /\ x # c => open'[x] = open[x]
    BY <2>1, <2>2
  <2>4. Registered' = Registered
    BY <2>1, <2>3 DEF Registered
  <2>5. Exclusive'
    BY <2>1, <2>3 DEF RegInv, Exclusive
  <2>6. reader[c] = "off"
    BY <2>1 DEF TypeInv, StartInv
  <2>7. \A x \in Clients : reader'[x] \in {"closing", "done"} => ~open'[x]
    BY <2>1, <2>3, <2>6 DEF RegInv
  <2>8. \A x \in Clients : phase'[x] # "new" => user[x] \in Users
    BY <2>1, <2>3 DEF RegInv
  <2> QED BY <2>1, <2>4, <2>5, <2>7, <2>8 DEF RegInv
<1>4. CASE ReloadBegin
  BY <1>4, RegQuiet DEF ReloadBegin, RegInv
<1>5. ASSUME NEW list \in {Users, {}}, ReloadEnd(list) PROVE RegInv'
  BY <1>5, RegQuiet DEF ReloadEnd, RegInv
<1> QED BY <1>1, <1>2, <1>3, <1>4, <1>5, RegRegister DEF Request, Reload

\* onclose removes a client from s.clients only after its connection failed.
LEMMA RegOnclose ==
  ASSUME TypeInv, RegInv, NEW c \in Clients, onclose(c) PROVE RegInv'
<1>1. /\ reader[c] = "closing" /\ reader' = [reader EXCEPT ![c] = "done"]
      /\ clients' = IF clients[user[c]] = c THEN [clients EXCEPT ![user[c]] = None] ELSE clients
      /\ UNCHANGED <<phase, user, todo, open>>
  BY DEF onclose, server
<1>2. ~open[c] /\ clients \in [Users -> Clients \cup {None}]
  BY <1>1 DEF RegInv, TypeInv, TypeOK
<1>3. \A u \in Users : clients'[u] = clients[u] \/ (clients[u] = c /\ clients'[u] = None)
  BY <1>1, <1>2
<1>4. Exclusive'
  <2> SUFFICES ASSUME NEW x \in Clients, open[x], phase[x] \in {"registered", "running"}
               PROVE  clients'[user[x]] = x
    BY <1>1 DEF Exclusive
  <2>1. clients[user[x]] = x /\ user[x] \in Users /\ x # c
    BY <1>2 DEF RegInv, Exclusive
  <2> QED BY <1>3, <2>1
<1>5. Registered' = Registered
  BY <1>1 DEF Registered
<1>6. \A x \in Clients : reader'[x] \in {"closing", "done"} => ~open[x]
  BY <1>1, <1>2 DEF RegInv, TypeInv, TypeOK
<1> QED BY <1>1, <1>3, <1>4, <1>5, <1>6 DEF RegInv

LEMMA RegClient ==
  ASSUME TypeInv, RegInv, NEW c \in Clients,
         \/ RunStart(c) \/ Loop(c) \/ Heartbeat(c) \/ \E m \in Msgs : Send(c, m)
         \/ ConcurrentWrite(c) \/ Sync(c) \/ PeerGone(c) \/ Close(c)
  PROVE  RegInv'
<1> USE DEF registry, server, conn
<1>1. CASE RunStart(c)
  <2>1. /\ phase[c] = "registered" /\ phase' = [phase EXCEPT ![c] = "running"]
        /\ reader' = [reader EXCEPT ![c] = "reading"]
        /\ UNCHANGED <<clients, user, todo, open>>
    BY <1>1 DEF RunStart
  <2>2. \A x \in Clients : /\ phase'[x] = IF x = c THEN "running" ELSE phase[x]
                           /\ reader'[x] = IF x = c THEN "reading" ELSE reader[x]
    BY <2>1 DEF TypeInv, TypeOK
  <2>3. Registered' = Registered
    BY <2>1, <2>2 DEF Registered
  <2>4. Exclusive'
    BY <2>1, <2>2 DEF RegInv, Exclusive
  <2>5. /\ \A x \in Clients : phase'[x] # "new" => user[x] \in Users
        /\ \A x \in Clients : reader'[x] \in {"closing", "done"} => ~open[x]
    BY <2>1, <2>2 DEF RegInv
  <2> QED BY <2>1, <2>3, <2>4, <2>5 DEF RegInv
<1>2. CASE Loop(c) \/ Sync(c)
  <2>1. UNCHANGED <<clients, phase, user, open, reader, todo>>
    BY <1>2 DEF Loop, LoopSend, LoopTake, LoopForward, LoopAccumulate, Sync, SyncCopy,
                SyncPush, SyncLock, SyncDrain, SyncUnlock, SyncFlag
  <2> QED BY <2>1, RegQuiet DEF RegInv
<1>3. CASE Heartbeat(c) \/ ConcurrentWrite(c) \/ \E m \in Msgs : Send(c, m)
  <2>1. UNCHANGED <<clients, phase, user, open, reader, todo>>
    BY <1>3 DEF Heartbeat, ConcurrentWrite, Send
  <2> QED BY <2>1, RegQuiet DEF RegInv
<1>4. CASE PeerGone(c)
  <2>1. UNCHANGED <<clients, phase, user, reader, todo>> /\ open' = [open EXCEPT ![c] = FALSE]
    BY <1>4 DEF PeerGone
  <2>2. \A x \in Clients : open'[x] => open[x]
    BY <2>1 DEF TypeInv, TypeOK
  <2> QED BY <2>1, <2>2, RegQuiet DEF RegInv
<1>5. CASE ReadError(c)
  <2>1. /\ UNCHANGED <<clients, phase, user, open, todo>> /\ ~open[c]
        /\ reader' = [reader EXCEPT ![c] = "closing"]
    BY <1>5 DEF ReadError
  <2>2. \A x \in Clients : reader'[x] \in {"closing", "done"} => ~open[x]
    BY <2>1 DEF RegInv, TypeInv, TypeOK
  <2> QED BY <2>1, <2>2, RegQuiet DEF RegInv
<1> QED BY <1>1, <1>2, <1>3, <1>4, <1>5, RegOnclose DEF Close

LEMMA RegInit == Init => RegInv
BY DEF Init, RegInv, Exclusive, Registered

LEMMA RegNext == TypeInv /\ RegInv /\ [Next]_vars => RegInv'
<1>1. ASSUME TypeInv, RegInv, UNCHANGED vars PROVE RegInv'
  BY <1>1, RegQuiet DEF vars, registry, server, conn, RegInv
<1> QED BY <1>1, RegEnqueue, RegRequest, RegClient DEF Next

LEMMA RegHolds == Spec => []RegInv
BY RegInit, RegNext, TypeHolds, PTL DEF Spec

(***************************************************************************)
(* A user never has two working streams: for any number of users, clients  *)
(* and reconnections, and whatever the order in which kicked clients run   *)
(* onclose, a connected client is the registered one.                      *)
(***************************************************************************)
THEOREM OneStreamPerUser == Spec => []Exclusive
<1>1. RegInv => Exclusive
  BY DEF RegInv
<1> QED BY <1>1, RegHolds, PTL

-----------------------------------------------------------------------------
(* No gap between the replayed and the live messages *)

\* Client c gets the live messages and has copied the cache.
Served(c) ==
  /\ phase[c] = "running"
  /\ clients[user[c]] = c
  /\ pipe[c].sync \notin {"off", "copy"}

(***************************************************************************)
(* NoGap says nothing of a client that enqueue has not reached yet. What   *)
(* is kept of such a client too: it lacks at most the message that enqueue *)
(* is handing out.                                                         *)
(***************************************************************************)
GapInv ==
  \A c \in Clients : Served(c) =>
    \A i \in 1 .. Len(dataQueue) :
      /\ dataQueue[i] >= start[c]
      /\ c \in todo => dataQueue[i] # nextPm
      => want[c][dataQueue[i]] >= 1

\* What is known of the messages in the cache.
LEMMA QueueFacts ==
  ASSUME TypeInv
  PROVE  /\ dataQueue \in Seq(Msgs) /\ Len(dataQueue) \in Nat /\ nextPm \in Nat
         /\ DOMAIN dataQueue = 1 .. Len(dataQueue)
         /\ \A i \in 1 .. Len(dataQueue) :
              /\ dataQueue[i] \in Msgs /\ dataQueue[i] \in Nat
              /\ smtx # "enqueue" => dataQueue[i] # nextPm
<1>1. dataQueue \in Seq(Msgs) /\ nextPm \in Nat
  BY BoundAssumption DEF TypeInv, TypeOK
<1>2. \A i \in 1 .. Len(dataQueue) : dataQueue[i] \in Msgs /\ dataQueue[i] \in Nat
  BY <1>1, ElementOfSeq, ZeroNoMsg
<1>3. \A i \in 1 .. Len(dataQueue) : smtx # "enqueue" => dataQueue[i] # nextPm
  <2> TAKE i \in 1 .. Len(dataQueue)
  <2>1. smtx # "enqueue" => dataQueue[i] < nextPm
    BY DEF TypeInv, QueueInv
  <2> QED BY <1>1, <1>2, <2>1
<1> QED BY <1>1, <1>2, <1>3

\* Steps that serve nobody new and leave the cache and what was given alone.
LEMMA GapQuiet ==
  ASSUME GapInv, UNCHANGED <<dataQueue, nextPm, todo, want>>,
         \A c \in Clients : Served(c)' => Served(c) /\ start'[c] = start[c]
  PROVE  GapInv'
BY DEF GapInv

LEMMA GapEnqueue ==
  ASSUME TypeInv, RegInv, GapInv, Enqueue PROVE GapInv'
<1>1. CASE EnqueueBegin
  <2>1. /\ smtx = "free" /\ dataQueue' = Cached(dataQueue, nextPm) /\ nextPm <= MaxMsg
        /\ todo' = {clients[u] : u \in Users} \ {None}
        /\ UNCHANGED <<clients, phase, user, start, nextPm, pipe, want>>
    BY <1>1 DEF EnqueueBegin, registry
  <2>2. \A i \in 1 .. Len(dataQueue') :
          dataQueue'[i] = nextPm \/ \E j \in 1 .. Len(dataQueue) : dataQueue'[i] = dataQueue[j]
    <3>1. nextPm \in 1 .. MaxMsg + 1 /\ smtx # "enqueue"
      BY <2>1 DEF TypeInv, TypeOK
    <3>2. nextPm \in Msgs
      BY <2>1, <3>1, BoundAssumption DEF Msgs
    <3>3. /\ dataQueue \in Seq(Msgs) /\ Len(dataQueue) <= Cache /\ Ascending(dataQueue)
          /\ \A i \in 1 .. Len(dataQueue) : dataQueue[i] < nextPm
      BY <3>1 DEF TypeInv, TypeOK, QueueInv
    <3> QED BY <2>1, <3>2, <3>3, CachedQueue
  <2>3. todo = {}
    BY <2>1 DEF TypeInv, QueueInv
  <2>4. ASSUME NEW c \in Clients, Served(c)' PROVE Served(c) /\ c \in todo'
    <3>1. Served(c) /\ user[c] \in Users
      BY <2>1, <2>4 DEF Served, RegInv
    <3>2. c # None
      BY NoneAssumption
    <3> QED BY <2>1, <3>1, <3>2 DEF Served
  <2> SUFFICES ASSUME NEW c \in Clients, Served(c)', NEW i \in 1 .. Len(dataQueue'),
                      dataQueue'[i] >= start'[c], c \in todo' => dataQueue'[i] # nextPm'
               PROVE  want'[c][dataQueue'[i]] >= 1
    BY DEF GapInv
  <2>5. PICK j \in 1 .. Len(dataQueue) : dataQueue'[i] = dataQueue[j]
    BY <2>1, <2>2, <2>4
  <2> QED BY <2>1, <2>3, <2>4, <2>5 DEF GapInv
<1>2. ASSUME NEW c \in Clients, Delivery(c) PROVE GapInv'
  <2>1. /\ smtx = "enqueue" /\ todo' = todo \ {c}
        /\ want' = [want EXCEPT ![c][nextPm] = @ + 1]
        /\ UNCHANGED <<clients, phase, user, start, dataQueue, nextPm>>
    BY <1>2 DEF Delivery, registry
  <2>2. \A x \in Clients : pipe'[x].sync = pipe[x].sync
    <3>1. Becomes(c, [pipe[c] EXCEPT !.msgLiveCh = Append(@, nextPm)])
      BY <1>2, DeliveryPipe
    <3> QED BY <3>1 DEF TypeInv, PipeOK, Pipes, Becomes
  <2>3. \A x \in Clients : Served(x)' => Served(x)
    BY <2>1, <2>2 DEF Served
  <2>4. nextPm \in Msgs /\ want \in [Clients -> [Msgs -> Nat]]
    BY <2>1, BoundAssumption DEF TypeInv, TypeOK, QueueInv, Msgs
  <2>5. \A x \in Clients, m \in Msgs :
          /\ want'[x][m] = want[x][m] \/ want'[x][m] = want[x][m] + 1
          /\ x = c /\ m = nextPm => want'[x][m] = want[x][m] + 1
    BY <2>1, <2>4
  <2>6. \A x \in Clients, m \in Msgs :
          /\ want[x][m] >= 1 => want'[x][m] >= 1
          /\ x = c /\ m = nextPm => want'[x][m] >= 1
    <3> TAKE x \in Clients, m \in Msgs
    <3>1. want[x][m] \in Nat
      BY <2>4
    <3> QED BY <2>5, <3>1
  <2> SUFFICES ASSUME NEW x \in Clients, Served(x)', NEW i \in 1 .. Len(dataQueue),
                      dataQueue[i] >= start[x], x \in todo' => dataQueue[i] # nextPm
               PROVE  want'[x][dataQueue[i]] >= 1
    BY <2>1 DEF GapInv
  <2>7. dataQueue[i] \in Msgs
    BY QueueFacts
  <2>8. CASE x = c /\ dataQueue[i] = nextPm
    BY <2>6, <2>7, <2>8
  <2>9. CASE ~(x = c /\ dataQueue[i] = nextPm)
    <3>1. want[x][dataQueue[i]] >= 1
      BY <2>1, <2>3, <2>9 DEF GapInv
    <3> QED BY <2>6, <2>7, <3>1
  <2> QED BY <2>8, <2>9
<1>3. CASE EnqueueEnd
  <2>1. todo = {} /\ UNCHANGED <<clients, phase, user, start, dataQueue, todo, pipe, want>>
    BY <1>3 DEF EnqueueEnd, registry
  <2>2. \A x \in Clients : Served(x)' => Served(x)
    BY <2>1 DEF Served
  <2> QED BY <2>1, <2>2 DEF GapInv
<1> QED BY <1>1, <1>2, <1>3 DEF Enqueue

LEMMA GapRequest ==
  ASSUME TypeInv, RegInv, GapInv, Request \/ Reload PROVE GapInv'
<1> USE DEF registry, server, conn
<1>1. UNCHANGED <<dataQueue, nextPm, todo, want, pipe>>
  BY DEF Request, Reload, Access, UpgradeError, Register, Upgrade, ReloadBegin, ReloadEnd
<1>2. ASSUME NEW c \in Clients, Served(c)' PROVE Served(c) /\ start'[c] = start[c]
  <2>1. ASSUME NEW x \in Clients, NEW u \in Users, Access(x, u)
        PROVE  Served(c) /\ start'[c] = start[c]
    BY <1>1, <1>2, <2>1 DEF Access, Served, TypeInv, TypeOK
  <2>2. ASSUME NEW x \in Clients, Register(x) PROVE Served(c) /\ start'[c] = start[c]
    <3>1. /\ phase[x] = "upgraded" /\ phase' = [phase EXCEPT ![x] = "registered"]
          /\ clients' = [clients EXCEPT ![user[x]] = x]
          /\ UNCHANGED <<user, start>>
      BY <2>2 DEF Register
    <3>2. phase[c] = "running" /\ c # x
      BY <1>2, <3>1 DEF Served, TypeInv, TypeOK
    <3>3. clients[user[c]] = c
      BY <1>2, <3>1, <3>2 DEF Served, TypeInv, TypeOK, RegInv
    <3> QED BY <1>1, <1>2, <3>1, <3>2, <3>3 DEF Served
  <2>3. ASSUME NEW x \in Clients, NEW st \in {0} \cup {Since(w) : w \in Windows}, Upgrade(x, st)
        PROVE  Served(c) /\ start'[c] = start[c]
    <3>1. /\ phase[x] = "granted" /\ phase' = [phase EXCEPT ![x] = "upgraded"]
          /\ start' = [start EXCEPT ![x] = st] /\ UNCHANGED <<clients, user>>
      BY <2>3 DEF Upgrade
    <3>2. phase[c] = "running" /\ c # x
      BY <1>2, <3>1 DEF Served, TypeInv, TypeOK
    <3> QED BY <1>1, <1>2, <3>1, <3>2 DEF Served, TypeInv, TypeOK
  <2>4. CASE UNCHANGED <<clients, phase, user, start>>
    BY <1>1, <1>2, <2>4 DEF Served
  <2> QED BY <2>1, <2>2, <2>3, <2>4 DEF Request, Reload, UpgradeError, ReloadBegin, ReloadEnd
<1> QED BY <1>1, <1>2, GapQuiet

\* The copy is taken while no enqueue is under way: nothing in between is missed.
LEMMA GapCopy ==
  ASSUME TypeInv, RegInv, GapInv, NEW c \in Clients, SyncCopy(c) PROVE GapInv'
<1> DEFINE pms == CachedSince(dataQueue, start[c])
<1>1. /\ smtx = "free"
      /\ want' = [want EXCEPT ![c] =
                    [m \in Msgs |-> @[m] + IF m \in ToSet(pms) THEN 1 ELSE 0]]
      /\ UNCHANGED <<clients, phase, user, start, dataQueue, nextPm, todo>>
  BY DEF SyncCopy, registry, server
<1>2. \A m \in Msgs : m \in ToSet(pms) <=> m \in ToSet(dataQueue) /\ start[c] <= m
  BY CachedSinceQueue DEF TypeInv, TypeOK, QueueInv
<1> HIDE DEF pms
<1>3. \A x \in Clients : x # c => (Served(x)' => Served(x)) /\ want'[x] = want[x]
  <2>1. \A x \in Clients : x # c => pipe'[x] = pipe[x]
    BY SyncCopyPipe DEF Becomes
  <2> QED BY <1>1, <2>1 DEF Served, TypeInv, TypeOK
<1>4. ASSUME NEW i \in 1 .. Len(dataQueue), dataQueue[i] >= start[c]
      PROVE  want'[c][dataQueue[i]] >= 1
  <2>1. dataQueue[i] \in Msgs /\ dataQueue[i] \in Nat /\ dataQueue[i] \in ToSet(dataQueue)
    BY QueueFacts DEF ToSet
  <2>2. dataQueue[i] \in ToSet(pms)
    <3>1. start[c] \in Nat
      BY DEF TypeInv, TypeOK
    <3>2. start[c] <= dataQueue[i]
      BY <1>4, <2>1, <3>1
    <3> QED BY <1>2, <2>1, <3>2
  <2>3. want[c][dataQueue[i]] \in Nat /\ want \in [Clients -> [Msgs -> Nat]]
    <3>1. want \in [Clients -> [Msgs -> Nat]]
      BY DEF TypeInv, TypeOK
    <3> QED BY <2>1, <3>1
  <2> QED BY <1>1, <2>1, <2>2, <2>3
<1> QED BY <1>1, <1>3, <1>4 DEF GapInv

LEMMA GapClient ==
  ASSUME TypeInv, RegInv, GapInv, NEW c \in Clients,
         \/ RunStart(c) \/ Loop(c) \/ Heartbeat(c) \/ \E m \in Msgs : Send(c, m)
         \/ ConcurrentWrite(c) \/ Sync(c) \/ PeerGone(c) \/ Close(c)
  PROVE  GapInv'
<1> USE DEF registry, server, conn
<1>0. ASSUME NEW q, Becomes(c, q), q.sync \in {"off", "copy", pipe[c].sync}
             \/ pipe[c].sync \notin {"off", "copy"},
             UNCHANGED <<dataQueue, nextPm, todo, want, start, clients, user>>,
             \A x \in Clients : x # c => phase'[x] = phase[x],
             phase'[c] = phase[c] \/ q.sync \in {"off", "copy"}
      PROVE  GapInv'
  <2>1. \A x \in Clients : Served(x)' => Served(x)
    BY <1>0 DEF Served, Becomes
  <2> QED BY <1>0, <2>1, GapQuiet
<1>1. CASE RunStart(c)
  <2> DEFINE q == [pipe[c] EXCEPT !.loop = "select", !.pre_sync_ok = (start[c] = 0),
                                  !.sync = IF start[c] = 0 THEN "off" ELSE "copy"]
  <2>1. Becomes(c, q)
    BY <1>1, RunStartPipe
  <2>2. q.sync \in {"off", "copy"}
    BY DEF TypeInv, PipeOK, Pipes
  <2> HIDE DEF q
  <2> QED BY <1>0, <1>1, <2>1, <2>2 DEF RunStart, TypeInv, TypeOK
<1>2. CASE Loop(c)
  <2>0. UNCHANGED <<dataQueue, nextPm, todo, want, start, clients, user, phase>>
    BY <1>2 DEF Loop, LoopSend, LoopTake, LoopForward, LoopAccumulate
  <2>1. \A x \in Clients : pipe'[x].sync = pipe[x].sync
    <3>0. pipe \in [Clients -> Pipes]
      BY DEF TypeInv, TypeOK
    <3>1. CASE LoopSend(c)
      BY <3>0, <3>1 DEF LoopSend, Pipes
    <3>2. CASE LoopTake(c)
      BY <3>0, <3>2 DEF LoopTake, Pipes
    <3>3. CASE LoopForward(c)
      BY <3>0, <3>3 DEF LoopForward, Pipes
    <3>4. CASE LoopAccumulate(c)
      BY <3>0, <3>4 DEF LoopAccumulate, Pipes
    <3> QED BY <1>2, <3>1, <3>2, <3>3, <3>4 DEF Loop
  <2> QED BY <2>0, <2>1, GapQuiet DEF Served
<1>3. CASE Heartbeat(c) \/ ConcurrentWrite(c) \/ PeerGone(c) \/ ReadError(c)
           \/ \E m \in Msgs : Send(c, m)
  <2>1. UNCHANGED <<dataQueue, nextPm, todo, want, start, clients, user, phase, pipe>>
    BY <1>3 DEF Heartbeat, ConcurrentWrite, PeerGone, ReadError, Send
  <2> QED BY <2>1, GapQuiet DEF Served
<1>4. CASE onclose(c)
  <2>1. /\ clients' = IF clients[user[c]] = c THEN [clients EXCEPT ![user[c]] = None] ELSE clients
        /\ UNCHANGED <<dataQueue, nextPm, todo, want, start, user, phase, pipe>>
    BY <1>4 DEF onclose
  <2>2. \A u \in Users : clients'[u] = clients[u] \/ clients'[u] = None
    BY <2>1 DEF TypeInv, TypeOK
  <2>3. \A x \in Clients : Served(x)' => Served(x)
    BY <2>1, <2>2, NoneAssumption DEF Served, RegInv
  <2> QED BY <2>1, <2>3, GapQuiet
<1>5. CASE SyncPush(c) \/ SyncLock(c) \/ SyncDrain(c) \/ SyncUnlock(c) \/ SyncFlag(c)
  <2>0. /\ UNCHANGED <<dataQueue, nextPm, todo, want, start, clients, user, phase>>
        /\ pipe[c].sync \notin {"off", "copy"}
    BY <1>5 DEF SyncPush, SyncLock, SyncDrain, SyncUnlock, SyncFlag
  <2>1. \A x \in Clients : x # c => pipe'[x] = pipe[x]
    BY <1>5, SyncPushPipe, SyncLockPipe, SyncDrainPipe, SyncUnlockPipe, SyncFlagPipe DEF Becomes
  <2> QED BY <2>0, <2>1, GapQuiet DEF Served
<1> QED BY <1>1, <1>2, <1>3, <1>4, <1>5, GapCopy DEF Sync, Close

LEMMA GapNext == TypeInv /\ RegInv /\ GapInv /\ [Next]_vars => GapInv'
<1>1. ASSUME GapInv, UNCHANGED vars PROVE GapInv'
  BY <1>1, GapQuiet DEF vars, registry, server, conn, Served
<1> QED BY <1>1, GapEnqueue, GapRequest, GapClient DEF Next

(***************************************************************************)
(* A client that replays the history misses nothing between the cache and  *)
(* the live messages, for any start, any size of the cache and any order   *)
(* of registration, enqueue and copy.                                      *)
(***************************************************************************)
THEOREM ReplayWithoutGap == Spec => []NoGap
<1>1. Init => GapInv
  BY DEF Init, GapInv, Served
<1>2. TypeInv /\ GapInv => NoGap
  <2> SUFFICES ASSUME TypeInv, GapInv, NEW c \in Clients, Served(c), c \notin todo,
                      NEW m \in ToSet(dataQueue), m >= start[c]
               PROVE  want[c][m] >= 1
    BY DEF NoGap, Served
  <2>1. PICK i \in 1 .. Len(dataQueue) : m = dataQueue[i]
    BY QueueFacts DEF ToSet
  <2> QED BY <2>1 DEF GapInv
<1>3. Spec => []GapInv
  BY <1>1, GapNext, TypeHolds, RegHolds, PTL DEF Spec
<1> QED BY <1>2, <1>3, TypeHolds, PTL

-----------------------------------------------------------------------------
(* Counting the copies of a message in a channel *)

\* The channels and buffers hold messages; hold is 0 when there is none.
Slots == Msgs \cup {0}

LEMMA CopiesFinite ==
  ASSUME NEW s \in Seq(Slots), NEW m
  PROVE  /\ IsFiniteSet({i \in DOMAIN s : s[i] = m})
         /\ Copies(s, m) \in Nat
<1> DEFINE P == {i \in DOMAIN s : s[i] = m}
<1>1. Len(s) \in Nat /\ DOMAIN s = 1 .. Len(s)
  BY LenProperties
<1>2. IsFiniteSet(1 .. Len(s))
  BY <1>1, FS_Interval
<1>3. P \in SUBSET (1 .. Len(s))
  BY <1>1
<1>4. IsFiniteSet(P)
  BY <1>2, <1>3, FS_Subset
<1>5. Cardinality(P) \in Nat
  BY <1>4, FS_CardinalityType
<1> QED BY <1>4, <1>5 DEF Copies

\* The copies in two sequences, one behind the other.
LEMMA CopiesConcat ==
  ASSUME NEW s \in Seq(Slots), NEW t \in Seq(Slots), NEW m
  PROVE  Copies(s \o t, m) = Copies(s, m) + Copies(t, m)
<1> DEFINE P == {i \in DOMAIN s : s[i] = m}
           Q == {i \in DOMAIN t : t[i] = m}
           R == {i \in DOMAIN (s \o t) : (s \o t)[i] = m}
           f == [i \in Q |-> i + Len(s)]
           T == {i \in R : i > Len(s)}
<1>1. /\ Len(s) \in Nat /\ DOMAIN s = 1 .. Len(s)
      /\ Len(t) \in Nat /\ DOMAIN t = 1 .. Len(t)
  BY LenProperties
<1>2. /\ DOMAIN (s \o t) = 1 .. Len(s) + Len(t)
      /\ \A i \in 1 .. Len(s) + Len(t) :
           (s \o t)[i] = IF i <= Len(s) THEN s[i] ELSE t[i - Len(s)]
  BY ConcatProperties, LenProperties
<1>3. R = P \cup T
  BY <1>1, <1>2
<1>4. P \cap T = {}
  BY <1>1
<1>5. IsFiniteSet(P) /\ IsFiniteSet(Q) /\ Cardinality(P) \in Nat /\ Cardinality(Q) \in Nat
  BY CopiesFinite DEF Copies
<1>6. f \in Bijection(Q, T)
  <2>1. \A i \in Q : f[i] \in T
    BY <1>1, <1>2
  <2>2. \A i, j \in Q : f[i] = f[j] => i = j
    BY <1>1
  <2>3. \A k \in T : \E i \in Q : f[i] = k
    <3> TAKE k \in T
    <3>1. k - Len(s) \in Q
      BY <1>1, <1>2
    <3>2. f[k - Len(s)] = k
      BY <1>1, <1>2, <3>1
    <3> QED BY <3>1, <3>2
  <2>4. f \in [Q -> T]
    BY <2>1
  <2> HIDE DEF f, Q, T
  <2> QED BY <2>2, <2>3, <2>4 DEF Bijection, Injection, Surjection, IsInjective
<1>7. IsFiniteSet(T) /\ Cardinality(T) = Cardinality(Q)
  <2> HIDE DEF f, Q, T
  <2> QED BY <1>5, <1>6, FS_Bijection DEF ExistsBijection
<1>8. Cardinality(P \cup T) = Cardinality(P) + Cardinality(T) - Cardinality(P \cap T)
  <2> HIDE DEF P, T
  <2> QED BY <1>5, <1>7, FS_Union
<1>9. Copies(s \o t, m) = Cardinality(R) /\ Copies(s, m) = Cardinality(P)
      /\ Copies(t, m) = Cardinality(Q)
  BY DEF Copies
<1> HIDE DEF P, Q, R, T
<1>10. Cardinality(P \cap T) = 0
  BY <1>4, FS_EmptySet
<1>11. Cardinality(R) = Cardinality(P) + Cardinality(Q)
  BY <1>3, <1>5, <1>7, <1>8, <1>10
<1> QED BY <1>9, <1>11

LEMMA CopiesEmpty ==
  ASSUME NEW m PROVE Copies(<<>>, m) = 0
<1>1. {i \in DOMAIN <<>> : <<>>[i] = m} = {}
  OBVIOUS
<1> QED BY <1>1, FS_EmptySet DEF Copies

\* A sequence without m, and one with m at a single position.
LEMMA CopiesUnique ==
  ASSUME NEW s \in Seq(Slots), NEW m,
         \A i, j \in DOMAIN s : s[i] = m /\ s[j] = m => i = j
  PROVE  Copies(s, m) = IF m \in ToSet(s) THEN 1 ELSE 0
<1> DEFINE P == {i \in DOMAIN s : s[i] = m}
<1>1. CASE m \in ToSet(s)
  <2>1. PICK i \in DOMAIN s : s[i] = m
    BY <1>1 DEF ToSet
  <2>2. P = {i}
    BY <2>1
  <2> QED BY <1>1, <2>2, FS_Singleton DEF Copies
<1>2. CASE m \notin ToSet(s)
  <2>1. P = {}
    BY <1>2 DEF ToSet
  <2> QED BY <1>2, <2>1, FS_EmptySet DEF Copies
<1> QED BY <1>1, <1>2

LEMMA CopiesOne ==
  ASSUME NEW x \in Slots, NEW m
  PROVE  Copies(<<x>>, m) = IF x = m THEN 1 ELSE 0
<1>1. <<x>> \in Seq(Slots) /\ DOMAIN <<x>> = {1} /\ <<x>>[1] = x
  OBVIOUS
<1>2. m \in ToSet(<<x>>) <=> x = m
  BY <1>1 DEF ToSet
<1>3. \A i, j \in DOMAIN <<x>> : i = j
  BY <1>1
<1> QED BY <1>1, <1>2, <1>3, CopiesUnique

LEMMA CopiesAppend ==
  ASSUME NEW s \in Seq(Msgs), NEW x \in Msgs, NEW m
  PROVE  Copies(Append(s, x), m) = Copies(s, m) + (IF x = m THEN 1 ELSE 0)
<1>1. s \in Seq(Slots) /\ x \in Slots /\ <<x>> \in Seq(Slots)
  BY DEF Slots
<1>2. Append(s, x) = s \o <<x>>
  BY <1>1, AppendIsConcat
<1>3. Copies(Append(s, x), m) = Copies(s, m) + Copies(<<x>>, m)
  <2>1. Copies(s \o <<x>>, m) = Copies(s, m) + Copies(<<x>>, m)
    BY <1>1, CopiesConcat
  <2> QED BY <1>2, <2>1
<1> QED BY <1>1, <1>3, CopiesOne

LEMMA CopiesTail ==
  ASSUME NEW s \in Seq(Msgs), s # <<>>, NEW m
  PROVE  Copies(s, m) = Copies(Tail(s), m) + (IF Head(s) = m THEN 1 ELSE 0)
<1>1. /\ Head(s) \in Slots /\ Tail(s) \in Seq(Slots) /\ <<Head(s)>> \in Seq(Slots)
  BY HeadTailProperties DEF Slots
<1>2. s = <<Head(s)>> \o Tail(s)
  OBVIOUS
<1>3. Copies(s, m) = Copies(<<Head(s)>>, m) + Copies(Tail(s), m)
  BY <1>1, <1>2, CopiesConcat
<1>4. Copies(Tail(s), m) \in Nat
  BY <1>1, CopiesFinite
<1> QED BY <1>1, <1>3, <1>4, CopiesOne

-----------------------------------------------------------------------------
(* Every message given to a client is in one place *)

\* How often m is somewhere in the pipeline p.
Placed(p, m) ==
  Copies(p.msgLiveCh, m) + (IF p.hold = m THEN 1 ELSE 0) + Copies(p.accmsg, m)
    + Copies(p.pms, m) + Copies(p.msgCh, m)

\* A pipeline with the sequence b in the place of accmsg.
LEMMA WayCopies ==
  ASSUME NEW p \in Pipes, NEW m, NEW b \in Seq(Msgs)
  PROVE  /\ Copies(p.msgLiveCh \o <<p.hold>> \o b \o p.pms \o p.msgCh, m)
              = Copies(p.msgLiveCh, m) + (IF p.hold = m THEN 1 ELSE 0) + Copies(b, m)
                  + Copies(p.pms, m) + Copies(p.msgCh, m)
         /\ \A x \in {p.msgLiveCh, b, p.pms, p.msgCh} : x \in Seq(Msgs) /\ Copies(x, m) \in Nat
<1> DEFINE a == p.msgLiveCh
           h == <<p.hold>>
           d == p.pms
           e == p.msgCh
<1>1. /\ a \in Seq(Msgs) /\ b \in Seq(Msgs) /\ d \in Seq(Msgs) /\ e \in Seq(Msgs)
      /\ p.hold \in Slots
  BY DEF Pipes, Slots
<1>2. a \in Seq(Slots) /\ b \in Seq(Slots) /\ d \in Seq(Slots) /\ e \in Seq(Slots)
      /\ h \in Seq(Slots)
  BY <1>1 DEF Slots
<1>3. Copies(h, m) = IF p.hold = m THEN 1 ELSE 0
  BY <1>1, CopiesOne
<1>4. /\ Copies(a, m) \in Nat /\ Copies(b, m) \in Nat /\ Copies(d, m) \in Nat
      /\ Copies(e, m) \in Nat
  BY <1>2, CopiesFinite
<1> HIDE DEF a, d, e, h
<1>6. a \o h \in Seq(Slots) /\ Copies(a \o h, m) = Copies(a, m) + Copies(h, m)
  BY <1>2, CopiesConcat, ConcatProperties
<1>7. a \o h \o b \in Seq(Slots)
      /\ Copies(a \o h \o b, m) = Copies(a \o h, m) + Copies(b, m)
  BY <1>2, <1>6, CopiesConcat, ConcatProperties
<1>8. a \o h \o b \o d \in Seq(Slots)
      /\ Copies(a \o h \o b \o d, m) = Copies(a \o h \o b, m) + Copies(d, m)
  BY <1>2, <1>7, CopiesConcat, ConcatProperties
<1>9. Copies(a \o h \o b \o d \o e, m) = Copies(a \o h \o b \o d, m) + Copies(e, m)
  BY <1>2, <1>8, CopiesConcat
<1>10. Copies(a \o h \o b \o d \o e, m)
         = Copies(a, m) + (IF p.hold = m THEN 1 ELSE 0) + Copies(b, m) + Copies(d, m) + Copies(e, m)
  BY <1>3, <1>6, <1>7, <1>8, <1>9
<1> QED BY <1>1, <1>4, <1>10 DEF a, d, e, h

LEMMA PlacedCopies ==
  ASSUME NEW p \in Pipes, NEW m
  PROVE  /\ Placed(p, m) \in Nat
         /\ \A b \in {p.msgLiveCh, p.accmsg, p.pms, p.msgCh} : b \in Seq(Msgs) /\ Copies(b, m) \in Nat
<1>1. p.accmsg \in Seq(Msgs)
  BY DEF Pipes
<1>2. /\ Placed(p, m) = Copies(p.msgLiveCh, m) + (IF p.hold = m THEN 1 ELSE 0)
                          + Copies(p.accmsg, m) + Copies(p.pms, m) + Copies(p.msgCh, m)
      /\ \A x \in {p.msgLiveCh, p.accmsg, p.pms, p.msgCh} :
           x \in Seq(Msgs) /\ Copies(x, m) \in Nat
  BY <1>1, WayCopies, Zenon DEF Placed
<1>3. /\ Copies(p.msgLiveCh, m) \in Nat /\ Copies(p.accmsg, m) \in Nat
      /\ Copies(p.pms, m) \in Nat /\ Copies(p.msgCh, m) \in Nat
  BY <1>2, Zenon
<1>4. (IF p.hold = m THEN 1 ELSE 0) \in Nat
  OBVIOUS
<1> QED BY <1>2, <1>3, <1>4

\* What client c was given is in its pipeline, in a sender or written.
Kept(c) ==
  \A m \in Msgs : want[c][m] = Placed(pipe[c], m) + flight[c][m] + got[c][m]

(***************************************************************************)
(* Conserved speaks of open connections only: what is sent to a failed one *)
(* is dropped. A connection opens in the upgrade, so the balance has to    *)
(* hold before it too, when no sender can be running yet.                  *)
(***************************************************************************)
KeptInv ==
  \A c \in Clients :
    /\ open[c] \/ phase[c] \in {"new", "granted"} => Kept(c)
    /\ phase[c] \in {"new", "granted"} => \A m \in Msgs : flight[c][m] = 0

\* Only a client with a start replays, and a replay that is over has told run.
SyncInv ==
  \A c \in Clients : /\ start[c] = 0 => pipe[c].sync = "off"
                     /\ pipe[c].sync = "done" => pipe[c].pre_sync_ok

LEMMA KeptConserved ==
  ASSUME TypeInv, KeptInv, SyncInv PROVE Conserved
<1> SUFFICES ASSUME NEW c \in Clients, open[c]
             PROVE  /\ \A m \in Msgs :
                         want[c][m] = Copies(OnTheWay(c), m) + Copies(Stranded(c), m)
                                      + flight[c][m] + got[c][m]
                    /\ start[c] = 0 => Stranded(c) = <<>>
  BY DEF Conserved
<1>1. pipe[c] \in Pipes
  BY DEF TypeInv, TypeOK
<1>2. start[c] = 0 => Stranded(c) = <<>>
  BY DEF SyncInv, Stranded, Drained
<1>3. ASSUME NEW m \in Msgs
      PROVE  want[c][m] = Copies(OnTheWay(c), m) + Copies(Stranded(c), m) + flight[c][m] + got[c][m]
  <2>1. want[c][m] = Placed(pipe[c], m) + flight[c][m] + got[c][m]
    BY DEF KeptInv, Kept
  <2>2. pipe[c].accmsg \in Seq(Msgs) /\ <<>> \in Seq(Msgs) /\ Copies(<<>>, m) = 0
    BY <1>1, CopiesEmpty DEF Pipes
  <2>3. CASE Drained(c)
    <3> DEFINE p == pipe[c]
               b == <<>>
    <3>1. /\ OnTheWay(c) = p.msgLiveCh \o <<p.hold>> \o b \o p.pms \o p.msgCh
          /\ Stranded(c) = p.accmsg
      BY <2>3, Zenon DEF OnTheWay, Stranded
    <3>2. b \in Seq(Msgs) /\ Copies(b, m) = 0 /\ p \in Pipes
      BY <1>1, <2>2
    <3> HIDE DEF b, p
    <3>3. Copies(OnTheWay(c), m)
            = Copies(p.msgLiveCh, m) + (IF p.hold = m THEN 1 ELSE 0) + Copies(b, m)
                + Copies(p.pms, m) + Copies(p.msgCh, m)
      BY <3>1, <3>2, WayCopies
    <3>4. /\ Copies(p.msgLiveCh, m) \in Nat /\ Copies(p.accmsg, m) \in Nat
          /\ Copies(p.pms, m) \in Nat /\ Copies(p.msgCh, m) \in Nat
      BY <3>2, PlacedCopies
    <3>5. Copies(OnTheWay(c), m) + Copies(p.accmsg, m) = Placed(p, m)
      BY <3>2, <3>3, <3>4 DEF Placed
    <3> QED BY <2>1, <3>1, <3>5 DEF p
  <2>4. CASE ~Drained(c)
    <3>1. /\ OnTheWay(c) = pipe[c].msgLiveCh \o <<pipe[c].hold>> \o pipe[c].accmsg
                              \o pipe[c].pms \o pipe[c].msgCh
          /\ Stranded(c) = <<>>
      BY <2>4 DEF OnTheWay, Stranded
    <3>2. Copies(OnTheWay(c), m) + Copies(Stranded(c), m) = Placed(pipe[c], m)
      BY <1>1, <2>2, <3>1, WayCopies DEF Placed
    <3> QED BY <2>1, <3>2
  <2> QED BY <2>3, <2>4
<1> QED BY <1>2, <1>3

\* Steps that move no message and open no connection of a client that runs.
LEMMA KeptQuiet ==
  ASSUME KeptInv, UNCHANGED <<pipe, flight, got, want>>,
         \A c \in Clients : phase'[c] \in {"new", "granted"} => phase[c] \in {"new", "granted"},
         \A c \in Clients : open'[c] => open[c] \/ phase[c] \in {"new", "granted"}
  PROVE  KeptInv'
BY DEF KeptInv, Kept

\* Steps of one client that move messages: the balance of every message is kept.
LEMMA KeptMove ==
  ASSUME TypeInv, KeptInv, NEW c \in Clients, NEW q, Becomes(c, q),
         flight' \in Counts, want' \in Counts, UNCHANGED <<got, open>>,
         \A x \in Clients : x # c => flight'[x] = flight[x] /\ want'[x] = want[x],
         \A x \in Clients : phase'[x] \in {"new", "granted"} <=> phase[x] \in {"new", "granted"},
         flight'[c] = flight[c] \/ phase[c] \notin {"new", "granted"},
         \A m \in Msgs : want'[c][m] + Placed(pipe[c], m) + flight[c][m]
                         = want[c][m] + Placed(q, m) + flight'[c][m]
  PROVE  KeptInv'
<1>1. \A x \in Clients : x # c => (Kept(x) => Kept(x)')
  BY DEF Kept, Becomes
<1>2. Kept(c) => Kept(c)'
  <2> SUFFICES ASSUME Kept(c), NEW m \in Msgs
               PROVE  want'[c][m] = Placed(pipe'[c], m) + flight'[c][m] + got'[c][m]
    BY DEF Kept
  <2>1. pipe'[c] = q /\ q \in Pipes /\ pipe[c] \in Pipes
    BY DEF Becomes, PipeOK, TypeInv, TypeOK
  <2>2. Placed(q, m) \in Nat /\ Placed(pipe[c], m) \in Nat
    BY <2>1, PlacedCopies
  <2>3. /\ want[c][m] \in Nat /\ flight[c][m] \in Nat /\ got[c][m] \in Nat
        /\ want'[c][m] \in Nat /\ flight'[c][m] \in Nat
    BY DEF TypeInv, TypeOK, Counts
  <2>4. want[c][m] = Placed(pipe[c], m) + flight[c][m] + got[c][m]
    BY DEF Kept
  <2> QED BY <2>1, <2>2, <2>3, <2>4
<1> QED BY <1>1, <1>2 DEF KeptInv

\* The loop takes a message from msgLiveCh and holds it.
LEMMA KeptLoopTake ==
  ASSUME TypeInv, KeptInv, NEW c \in Clients, LoopTake(c) PROVE KeptInv'
<1> DEFINE p == pipe[c]
           q == [p EXCEPT !.msgLiveCh = Tail(@),
                      !.hold = Head(p.msgLiveCh),
                      !.loop = IF p.pre_sync_ok THEN "forward" ELSE "accumulate"]
<1>1. p \in Pipes /\ PipeOK(p) /\ pipe[c] = p
  BY DEF TypeInv, PipeOK
<1>2. Becomes(c, q)
  BY LoopTakePipe
<1>3. p.msgLiveCh # <<>> /\ p.hold = 0
  BY <1>1 DEF LoopTake, PipeOK, Pipes
<1>4. /\ q.msgLiveCh = Tail(p.msgLiveCh) /\ q.hold = Head(p.msgLiveCh)
      /\ q.accmsg = p.accmsg /\ q.pms = p.pms /\ q.msgCh = p.msgCh
  BY <1>1 DEF Pipes
<1>5. flight \in Counts /\ want \in Counts /\ UNCHANGED <<flight, want, got, open, phase>>
  BY DEF LoopTake, TypeInv, TypeOK, Counts, registry, conn
<1> HIDE DEF p, q
<1>6. ASSUME NEW m \in Msgs PROVE Placed(q, m) = Placed(p, m)
  <2>1. /\ Copies(p.msgLiveCh, m) \in Nat /\ Copies(p.accmsg, m) \in Nat
        /\ Copies(p.pms, m) \in Nat /\ Copies(p.msgCh, m) \in Nat
        /\ Copies(q.msgLiveCh, m) \in Nat /\ Copies(q.accmsg, m) \in Nat
        /\ Copies(q.pms, m) \in Nat /\ Copies(q.msgCh, m) \in Nat
    BY <1>1, <1>2, PlacedCopies DEF Becomes, PipeOK
  <2>2. Copies(p.msgLiveCh, m) = Copies(q.msgLiveCh, m) + (IF Head(p.msgLiveCh) = m THEN 1 ELSE 0)
    BY <1>1, <1>3, <1>4, CopiesTail DEF Pipes
  <2>3. /\ Copies(q.accmsg, m) = Copies(p.accmsg, m) /\ Copies(q.pms, m) = Copies(p.pms, m)
        /\ Copies(q.msgCh, m) = Copies(p.msgCh, m)
    BY <1>4
  <2>4. (IF q.hold = m THEN 1 ELSE 0) = (IF Head(p.msgLiveCh) = m THEN 1 ELSE 0) /\ p.hold # m
    BY <1>3, <1>4, ZeroNoMsg
  <2> QED BY <2>1, <2>2, <2>3, <2>4 DEF Placed
<1>7. \A m \in Msgs : Placed(p, m) \in Nat
  BY <1>1, PlacedCopies
<1> QED BY <1>1, <1>2, <1>5, <1>6, <1>7, KeptMove DEF Counts

\* The message the loop holds goes to msgCh.
LEMMA KeptLoopForward ==
  ASSUME TypeInv, KeptInv, NEW c \in Clients, LoopForward(c) PROVE KeptInv'
<1> DEFINE p == pipe[c]
           q == [p EXCEPT !.msgCh = Append(@, p.hold),
                      !.hold = 0,
                      !.loop = "select"]
<1>1. p \in Pipes /\ PipeOK(p) /\ pipe[c] = p
  BY DEF TypeInv, PipeOK
<1>2. Becomes(c, q)
  BY LoopForwardPipe
<1>3. p.hold \in Msgs
  BY <1>1 DEF LoopForward, PipeOK, Pipes
<1>4. /\ q.msgCh = Append(p.msgCh, p.hold) /\ q.hold = 0
      /\ q.msgLiveCh = p.msgLiveCh /\ q.accmsg = p.accmsg /\ q.pms = p.pms
  BY <1>1 DEF Pipes
<1>5. flight \in Counts /\ want \in Counts /\ UNCHANGED <<flight, want, got, open, phase>>
  BY DEF LoopForward, TypeInv, TypeOK, Counts, registry, conn
<1> HIDE DEF p, q
<1>6. ASSUME NEW m \in Msgs PROVE Placed(q, m) = Placed(p, m)
  <2>1. /\ Copies(p.msgLiveCh, m) \in Nat /\ Copies(p.accmsg, m) \in Nat
        /\ Copies(p.pms, m) \in Nat /\ Copies(p.msgCh, m) \in Nat
        /\ Copies(q.msgLiveCh, m) \in Nat /\ Copies(q.accmsg, m) \in Nat
        /\ Copies(q.pms, m) \in Nat /\ Copies(q.msgCh, m) \in Nat
    BY <1>1, <1>2, PlacedCopies DEF Becomes, PipeOK
  <2>2. Copies(q.msgCh, m) = Copies(p.msgCh, m) + (IF p.hold = m THEN 1 ELSE 0)
    BY <1>1, <1>3, <1>4, CopiesAppend DEF Pipes
  <2>3. /\ Copies(q.msgLiveCh, m) = Copies(p.msgLiveCh, m) /\ Copies(q.accmsg, m) = Copies(p.accmsg, m)
        /\ Copies(q.pms, m) = Copies(p.pms, m)
    BY <1>4
  <2>4. q.hold # m
    BY <1>4, ZeroNoMsg
  <2> QED BY <2>1, <2>2, <2>3, <2>4 DEF Placed
<1>7. \A m \in Msgs : Placed(p, m) \in Nat
  BY <1>1, PlacedCopies
<1> QED BY <1>1, <1>2, <1>5, <1>6, <1>7, KeptMove DEF Counts

\* The message the loop holds goes to accmsg.
LEMMA KeptLoopAccumulate ==
  ASSUME TypeInv, KeptInv, NEW c \in Clients, LoopAccumulate(c) PROVE KeptInv'
<1> DEFINE p == pipe[c]
           q == [p EXCEPT !.accmsg = Append(@, p.hold),
                      !.hold = 0,
                      !.loop = "select"]
<1>1. p \in Pipes /\ PipeOK(p) /\ pipe[c] = p
  BY DEF TypeInv, PipeOK
<1>2. Becomes(c, q)
  BY LoopAccumulatePipe
<1>3. p.hold \in Msgs
  BY <1>1 DEF LoopAccumulate, PipeOK, Pipes
<1>4. /\ q.accmsg = Append(p.accmsg, p.hold) /\ q.hold = 0
      /\ q.msgLiveCh = p.msgLiveCh /\ q.pms = p.pms /\ q.msgCh = p.msgCh
  BY <1>1 DEF Pipes
<1>5. flight \in Counts /\ want \in Counts /\ UNCHANGED <<flight, want, got, open, phase>>
  BY DEF LoopAccumulate, TypeInv, TypeOK, Counts, registry, conn
<1> HIDE DEF p, q
<1>6. ASSUME NEW m \in Msgs PROVE Placed(q, m) = Placed(p, m)
  <2>1. /\ Copies(p.msgLiveCh, m) \in Nat /\ Copies(p.accmsg, m) \in Nat
        /\ Copies(p.pms, m) \in Nat /\ Copies(p.msgCh, m) \in Nat
        /\ Copies(q.msgLiveCh, m) \in Nat /\ Copies(q.accmsg, m) \in Nat
        /\ Copies(q.pms, m) \in Nat /\ Copies(q.msgCh, m) \in Nat
    BY <1>1, <1>2, PlacedCopies DEF Becomes, PipeOK
  <2>2. Copies(q.accmsg, m) = Copies(p.accmsg, m) + (IF p.hold = m THEN 1 ELSE 0)
    BY <1>1, <1>3, <1>4, CopiesAppend DEF Pipes
  <2>3. /\ Copies(q.msgLiveCh, m) = Copies(p.msgLiveCh, m) /\ Copies(q.pms, m) = Copies(p.pms, m)
        /\ Copies(q.msgCh, m) = Copies(p.msgCh, m)
    BY <1>4
  <2>4. q.hold # m
    BY <1>4, ZeroNoMsg
  <2> QED BY <2>1, <2>2, <2>3, <2>4 DEF Placed
<1>7. \A m \in Msgs : Placed(p, m) \in Nat
  BY <1>1, PlacedCopies
<1> QED BY <1>1, <1>2, <1>5, <1>6, <1>7, KeptMove DEF Counts

\* A replayed message goes to msgCh.
LEMMA KeptSyncPush ==
  ASSUME TypeInv, KeptInv, NEW c \in Clients, SyncPush(c) PROVE KeptInv'
<1> DEFINE p == pipe[c]
           q == [p EXCEPT !.msgCh = Append(@, Head(p.pms)),
                      !.pms = Tail(@)]
<1>1. p \in Pipes /\ PipeOK(p) /\ pipe[c] = p
  BY DEF TypeInv, PipeOK
<1>2. Becomes(c, q)
  BY SyncPushPipe
<1>3. p.pms # <<>>
  BY <1>1 DEF SyncPush, PipeOK, Pipes
<1>4. /\ q.msgCh = Append(p.msgCh, Head(p.pms)) /\ q.pms = Tail(p.pms)
      /\ q.msgLiveCh = p.msgLiveCh /\ q.hold = p.hold /\ q.accmsg = p.accmsg
  BY <1>1 DEF Pipes
<1>5. flight \in Counts /\ want \in Counts /\ UNCHANGED <<flight, want, got, open, phase>>
  BY DEF SyncPush, TypeInv, TypeOK, Counts, registry, conn
<1> HIDE DEF p, q
<1>6. ASSUME NEW m \in Msgs PROVE Placed(q, m) = Placed(p, m)
  <2>1. /\ Copies(p.msgLiveCh, m) \in Nat /\ Copies(p.accmsg, m) \in Nat
        /\ Copies(p.pms, m) \in Nat /\ Copies(p.msgCh, m) \in Nat
        /\ Copies(q.msgLiveCh, m) \in Nat /\ Copies(q.accmsg, m) \in Nat
        /\ Copies(q.pms, m) \in Nat /\ Copies(q.msgCh, m) \in Nat
    BY <1>1, <1>2, PlacedCopies DEF Becomes, PipeOK
  <2>2. Head(p.pms) \in Msgs
    BY <1>1, <1>3, TailMsgs DEF Pipes
  <2>3. Copies(q.msgCh, m) = Copies(p.msgCh, m) + (IF Head(p.pms) = m THEN 1 ELSE 0)
    BY <1>1, <2>2, <1>4, CopiesAppend DEF Pipes
  <2>4. Copies(p.pms, m) = Copies(q.pms, m) + (IF Head(p.pms) = m THEN 1 ELSE 0)
    BY <1>1, <1>3, <1>4, CopiesTail DEF Pipes
  <2>5. /\ Copies(q.msgLiveCh, m) = Copies(p.msgLiveCh, m) /\ Copies(q.accmsg, m) = Copies(p.accmsg, m)
        /\ q.hold = p.hold
    BY <1>4
  <2> QED BY <2>1, <2>2, <2>3, <2>4, <2>5 DEF Placed
<1>7. \A m \in Msgs : Placed(p, m) \in Nat
  BY <1>1, PlacedCopies
<1> QED BY <1>1, <1>2, <1>5, <1>6, <1>7, KeptMove DEF Counts

\* An accumulated message goes to msgCh.
LEMMA KeptSyncDrain ==
  ASSUME TypeInv, KeptInv, NEW c \in Clients, SyncDrain(c) PROVE KeptInv'
<1> DEFINE p == pipe[c]
           q == [p EXCEPT !.msgCh = Append(@, Head(p.accmsg)),
                      !.accmsg = Tail(@)]
<1>1. p \in Pipes /\ PipeOK(p) /\ pipe[c] = p
  BY DEF TypeInv, PipeOK
<1>2. Becomes(c, q)
  BY SyncDrainPipe
<1>3. p.accmsg # <<>>
  BY <1>1 DEF SyncDrain, PipeOK, Pipes
<1>4. /\ q.msgCh = Append(p.msgCh, Head(p.accmsg)) /\ q.accmsg = Tail(p.accmsg)
      /\ q.msgLiveCh = p.msgLiveCh /\ q.hold = p.hold /\ q.pms = p.pms
  BY <1>1 DEF Pipes
<1>5. flight \in Counts /\ want \in Counts /\ UNCHANGED <<flight, want, got, open, phase>>
  BY DEF SyncDrain, TypeInv, TypeOK, Counts, registry, conn
<1> HIDE DEF p, q
<1>6. ASSUME NEW m \in Msgs PROVE Placed(q, m) = Placed(p, m)
  <2>1. /\ Copies(p.msgLiveCh, m) \in Nat /\ Copies(p.accmsg, m) \in Nat
        /\ Copies(p.pms, m) \in Nat /\ Copies(p.msgCh, m) \in Nat
        /\ Copies(q.msgLiveCh, m) \in Nat /\ Copies(q.accmsg, m) \in Nat
        /\ Copies(q.pms, m) \in Nat /\ Copies(q.msgCh, m) \in Nat
    BY <1>1, <1>2, PlacedCopies DEF Becomes, PipeOK
  <2>2. Head(p.accmsg) \in Msgs
    BY <1>1, <1>3, TailMsgs DEF Pipes
  <2>3. Copies(q.msgCh, m) = Copies(p.msgCh, m) + (IF Head(p.accmsg) = m THEN 1 ELSE 0)
    BY <1>1, <2>2, <1>4, CopiesAppend DEF Pipes
  <2>4. Copies(p.accmsg, m) = Copies(q.accmsg, m) + (IF Head(p.accmsg) = m THEN 1 ELSE 0)
    BY <1>1, <1>3, <1>4, CopiesTail DEF Pipes
  <2>5. /\ Copies(q.msgLiveCh, m) = Copies(p.msgLiveCh, m) /\ Copies(q.pms, m) = Copies(p.pms, m)
        /\ q.hold = p.hold
    BY <1>4
  <2> QED BY <2>1, <2>2, <2>3, <2>4, <2>5 DEF Placed
<1>7. \A m \in Msgs : Placed(p, m) \in Nat
  BY <1>1, PlacedCopies
<1> QED BY <1>1, <1>2, <1>5, <1>6, <1>7, KeptMove DEF Counts

\* A message of msgCh gets a sender of its own.
LEMMA KeptLoopSend ==
  ASSUME TypeInv, KeptInv, NEW c \in Clients, LoopSend(c) PROVE KeptInv'
<1> DEFINE p == pipe[c]
           q == [p EXCEPT !.msgCh = Tail(@)]
<1>1. p \in Pipes /\ PipeOK(p) /\ pipe[c] = p
  BY DEF TypeInv, PipeOK
<1>2. Becomes(c, q)
  BY LoopSendPipe
<1>3. p.msgCh # <<>>
  BY <1>1 DEF LoopSend, PipeOK, Pipes
<1>4. /\ q.msgCh = Tail(p.msgCh)
      /\ q.msgLiveCh = p.msgLiveCh /\ q.hold = p.hold /\ q.accmsg = p.accmsg /\ q.pms = p.pms
  BY <1>1 DEF Pipes
<1>5. /\ flight \in Counts /\ want \in Counts /\ UNCHANGED <<want, got, open, phase>>
      /\ flight' = [flight EXCEPT ![c][Head(p.msgCh)] = @ + 1]
      /\ phase[c] = "running"
  BY DEF LoopSend, TypeInv, TypeOK, StartInv, Counts, registry, conn
<1> HIDE DEF p, q
<1>6. ASSUME NEW m \in Msgs PROVE Placed(q, m) + (IF Head(p.msgCh) = m THEN 1 ELSE 0) = Placed(p, m)
  <2>1. /\ Copies(p.msgLiveCh, m) \in Nat /\ Copies(p.accmsg, m) \in Nat
        /\ Copies(p.pms, m) \in Nat /\ Copies(p.msgCh, m) \in Nat
        /\ Copies(q.msgLiveCh, m) \in Nat /\ Copies(q.accmsg, m) \in Nat
        /\ Copies(q.pms, m) \in Nat /\ Copies(q.msgCh, m) \in Nat
    BY <1>1, <1>2, PlacedCopies DEF Becomes, PipeOK
  <2>2. Copies(p.msgCh, m) = Copies(q.msgCh, m) + (IF Head(p.msgCh) = m THEN 1 ELSE 0)
    BY <1>1, <1>3, <1>4, CopiesTail DEF Pipes
  <2>3. /\ Copies(q.msgLiveCh, m) = Copies(p.msgLiveCh, m) /\ Copies(q.accmsg, m) = Copies(p.accmsg, m)
        /\ Copies(q.pms, m) = Copies(p.pms, m) /\ q.hold = p.hold
    BY <1>4
  <2> QED BY <2>1, <2>2, <2>3 DEF Placed
<1>7. \A m \in Msgs : Placed(p, m) \in Nat /\ Placed(q, m) \in Nat
  BY <1>1, <1>2, PlacedCopies DEF Becomes, PipeOK
<1>8. Head(p.msgCh) \in Msgs
  BY <1>1, <1>3, TailMsgs DEF Pipes
<1>9. /\ flight' \in Counts
      /\ \A x \in Clients : x # c => flight'[x] = flight[x]
      /\ \A m \in Msgs : flight'[c][m] = flight[c][m] + (IF Head(p.msgCh) = m THEN 1 ELSE 0)
  BY <1>5, <1>8 DEF Counts
<1>10. ASSUME NEW m \in Msgs
       PROVE  want'[c][m] + Placed(pipe[c], m) + flight[c][m] = want[c][m] + Placed(q, m) + flight'[c][m]
  <2>1. want[c][m] \in Nat /\ flight[c][m] \in Nat /\ want'[c][m] = want[c][m]
    BY <1>5 DEF Counts
  <2> QED BY <1>1, <1>6, <1>7, <1>9, <2>1
<1>11. UNCHANGED <<got, open>> /\ want' \in Counts /\ UNCHANGED <<want, phase>>
       /\ phase[c] \notin {"new", "granted"}
  BY <1>5
<1> QED BY <1>2, <1>9, <1>10, <1>11, KeptMove

\* enqueue gives the client a message.
LEMMA KeptDelivery ==
  ASSUME TypeInv, KeptInv, NEW c \in Clients, Delivery(c) PROVE KeptInv'
<1> DEFINE p == pipe[c]
           q == [p EXCEPT !.msgLiveCh = Append(@, nextPm)]
<1>1. p \in Pipes /\ PipeOK(p) /\ pipe[c] = p
  BY DEF TypeInv, PipeOK
<1>2. Becomes(c, q)
  BY DeliveryPipe
<1>3. nextPm \in Msgs
  BY <1>1 DEF Delivery, PipeOK, Pipes, TypeInv, TypeOK, QueueInv, Msgs
<1>4. /\ q.msgLiveCh = Append(p.msgLiveCh, nextPm)
      /\ q.hold = p.hold /\ q.accmsg = p.accmsg /\ q.pms = p.pms /\ q.msgCh = p.msgCh
  BY <1>1 DEF Pipes
<1>5. /\ flight \in Counts /\ want \in Counts /\ UNCHANGED <<flight, got, open, phase>>
      /\ want' = [want EXCEPT ![c][nextPm] = @ + 1]
  BY DEF Delivery, TypeInv, TypeOK, Counts, registry, conn
<1> HIDE DEF p, q
<1>6. ASSUME NEW m \in Msgs PROVE Placed(q, m) = Placed(p, m) + (IF nextPm = m THEN 1 ELSE 0)
  <2>1. /\ Copies(p.msgLiveCh, m) \in Nat /\ Copies(p.accmsg, m) \in Nat
        /\ Copies(p.pms, m) \in Nat /\ Copies(p.msgCh, m) \in Nat
        /\ Copies(q.msgLiveCh, m) \in Nat /\ Copies(q.accmsg, m) \in Nat
        /\ Copies(q.pms, m) \in Nat /\ Copies(q.msgCh, m) \in Nat
    BY <1>1, <1>2, PlacedCopies DEF Becomes, PipeOK
  <2>2. Copies(q.msgLiveCh, m) = Copies(p.msgLiveCh, m) + (IF nextPm = m THEN 1 ELSE 0)
    BY <1>1, <1>3, <1>4, CopiesAppend DEF Pipes
  <2>3. /\ Copies(q.accmsg, m) = Copies(p.accmsg, m) /\ Copies(q.pms, m) = Copies(p.pms, m)
        /\ Copies(q.msgCh, m) = Copies(p.msgCh, m) /\ q.hold = p.hold
    BY <1>4
  <2> QED BY <2>1, <2>2, <2>3 DEF Placed
<1>7. \A m \in Msgs : Placed(p, m) \in Nat /\ Placed(q, m) \in Nat
  BY <1>1, <1>2, PlacedCopies DEF Becomes, PipeOK
<1>8. /\ want' \in Counts
      /\ \A x \in Clients : x # c => want'[x] = want[x]
      /\ \A m \in Msgs : want'[c][m] = want[c][m] + (IF nextPm = m THEN 1 ELSE 0)
  BY <1>3, <1>5 DEF Counts
<1>9. ASSUME NEW m \in Msgs
      PROVE  want'[c][m] + Placed(pipe[c], m) + flight[c][m] = want[c][m] + Placed(q, m) + flight'[c][m]
  <2>1. want[c][m] \in Nat /\ flight[c][m] \in Nat /\ flight'[c][m] = flight[c][m]
    BY <1>5 DEF Counts
  <2> QED BY <1>1, <1>6, <1>7, <1>8, <2>1
<1>10. UNCHANGED <<got, open>> /\ flight' \in Counts /\ UNCHANGED <<flight, phase>>
  BY <1>5
<1> QED BY <1>2, <1>8, <1>9, <1>10, KeptMove

\* The copy of the cache gives the client every message of it once.
LEMMA KeptSyncCopy ==
  ASSUME TypeInv, KeptInv, NEW c \in Clients, SyncCopy(c) PROVE KeptInv'
<1> DEFINE p == pipe[c]
           new == CachedSince(dataQueue, start[c])
           q == [p EXCEPT !.pms = new,
                      !.sync = "push"]
<1>1. p \in Pipes /\ PipeOK(p) /\ pipe[c] = p
  BY DEF TypeInv, PipeOK
<1>2. Becomes(c, q)
  BY SyncCopyPipe
<1>0. new \in Seq(Msgs) /\ Ascending(new)
  BY CachedSinceQueue DEF TypeInv, TypeOK, QueueInv
<1>3. p.pms = <<>>
  BY <1>1 DEF SyncCopy, PipeOK, Pipes
<1>4. /\ q.pms = new
      /\ q.msgLiveCh = p.msgLiveCh /\ q.hold = p.hold /\ q.accmsg = p.accmsg /\ q.msgCh = p.msgCh
  BY <1>1 DEF Pipes
<1>5. /\ flight \in Counts /\ want \in Counts /\ UNCHANGED <<flight, got, open, phase>>
      /\ want' = [want EXCEPT ![c] = [m \in Msgs |-> @[m] + IF m \in ToSet(new) THEN 1 ELSE 0]]
  BY DEF SyncCopy, TypeInv, TypeOK, Counts, registry, conn
<1> HIDE DEF new
<1> HIDE DEF p, q
<1>6. ASSUME NEW m \in Msgs PROVE Placed(q, m) = Placed(p, m) + (IF m \in ToSet(new) THEN 1 ELSE 0)
  <2>1. /\ Copies(p.msgLiveCh, m) \in Nat /\ Copies(p.accmsg, m) \in Nat
        /\ Copies(p.pms, m) \in Nat /\ Copies(p.msgCh, m) \in Nat
        /\ Copies(q.msgLiveCh, m) \in Nat /\ Copies(q.accmsg, m) \in Nat
        /\ Copies(q.pms, m) \in Nat /\ Copies(q.msgCh, m) \in Nat
    BY <1>1, <1>2, PlacedCopies DEF Becomes, PipeOK
  <2>2. Copies(p.pms, m) = 0
    BY <1>3, CopiesEmpty
  <2>3. new \in Seq(Slots) /\ DOMAIN new = 1 .. Len(new) /\ Len(new) \in Nat
    BY <1>0, LenProperties DEF Slots
  <2>4. \A i, j \in DOMAIN new : new[i] = m /\ new[j] = m => i = j
    <3> TAKE i, j \in DOMAIN new
    <3>1. i \in 1 .. Len(new) /\ j \in 1 .. Len(new) /\ m \in Nat
      BY <2>3, ZeroNoMsg
    <3> QED BY <1>0, <3>1 DEF Ascending
  <2>5. Copies(new, m) = IF m \in ToSet(new) THEN 1 ELSE 0
    BY <2>3, <2>4, CopiesUnique
  <2> QED BY <1>4, <2>1, <2>2, <2>5 DEF Placed
<1>7. \A m \in Msgs : Placed(p, m) \in Nat /\ Placed(q, m) \in Nat
  BY <1>1, <1>2, PlacedCopies DEF Becomes, PipeOK
<1>8. /\ want' \in Counts
      /\ \A x \in Clients : x # c => want'[x] = want[x]
      /\ \A m \in Msgs : want'[c][m] = want[c][m] + (IF m \in ToSet(new) THEN 1 ELSE 0)
  BY <1>5 DEF Counts
<1>9. ASSUME NEW m \in Msgs
      PROVE  want'[c][m] + Placed(pipe[c], m) + flight[c][m] = want[c][m] + Placed(q, m) + flight'[c][m]
  <2>1. want[c][m] \in Nat /\ flight[c][m] \in Nat /\ flight'[c][m] = flight[c][m]
    BY <1>5 DEF Counts
  <2> QED BY <1>1, <1>6, <1>7, <1>8, <2>1
<1>10. UNCHANGED <<got, open>> /\ flight' \in Counts /\ UNCHANGED <<flight, phase>>
  BY <1>5
<1> QED BY <1>2, <1>8, <1>9, <1>10, KeptMove

\* The steps that only change the state of run or of the sync goroutine.
LEMMA KeptControl ==
  ASSUME TypeInv, KeptInv, NEW c \in Clients,
         RunStart(c) \/ SyncLock(c) \/ SyncUnlock(c) \/ SyncFlag(c)
  PROVE  KeptInv'
<1>1. PICK q : /\ Becomes(c, q)
               /\ q.msgLiveCh = pipe[c].msgLiveCh /\ q.hold = pipe[c].hold
               /\ q.accmsg = pipe[c].accmsg /\ q.pms = pipe[c].pms /\ q.msgCh = pipe[c].msgCh
  <2>0. pipe[c] \in Pipes
    BY DEF TypeInv, TypeOK
  <2>1. CASE RunStart(c)
    <3> DEFINE q == [pipe[c] EXCEPT !.loop = "select", !.pre_sync_ok = (start[c] = 0),
                                    !.sync = IF start[c] = 0 THEN "off" ELSE "copy"]
    <3>1. Becomes(c, q)
      BY <2>1, RunStartPipe
    <3>2. /\ q.msgLiveCh = pipe[c].msgLiveCh /\ q.hold = pipe[c].hold
          /\ q.accmsg = pipe[c].accmsg /\ q.pms = pipe[c].pms /\ q.msgCh = pipe[c].msgCh
      BY <2>0 DEF Pipes
    <3> HIDE DEF q
    <3> QED BY <3>1, <3>2
  <2>2. CASE SyncLock(c)
    <3> DEFINE q == [pipe[c] EXCEPT !.sync = "drain"]
    <3>1. Becomes(c, q)
      BY <2>2, SyncLockPipe
    <3>2. /\ q.msgLiveCh = pipe[c].msgLiveCh /\ q.hold = pipe[c].hold
          /\ q.accmsg = pipe[c].accmsg /\ q.pms = pipe[c].pms /\ q.msgCh = pipe[c].msgCh
      BY <2>0 DEF Pipes
    <3> HIDE DEF q
    <3> QED BY <3>1, <3>2
  <2>3. CASE SyncUnlock(c)
    <3> DEFINE q == [pipe[c] EXCEPT !.sync = "flag"]
    <3>1. Becomes(c, q)
      BY <2>3, SyncUnlockPipe
    <3>2. /\ q.msgLiveCh = pipe[c].msgLiveCh /\ q.hold = pipe[c].hold
          /\ q.accmsg = pipe[c].accmsg /\ q.pms = pipe[c].pms /\ q.msgCh = pipe[c].msgCh
      BY <2>0 DEF Pipes
    <3> HIDE DEF q
    <3> QED BY <3>1, <3>2
  <2>4. CASE SyncFlag(c)
    <3> DEFINE q == [pipe[c] EXCEPT !.sync = "done", !.pre_sync_ok = TRUE]
    <3>1. Becomes(c, q)
      BY <2>4, SyncFlagPipe
    <3>2. /\ q.msgLiveCh = pipe[c].msgLiveCh /\ q.hold = pipe[c].hold
          /\ q.accmsg = pipe[c].accmsg /\ q.pms = pipe[c].pms /\ q.msgCh = pipe[c].msgCh
      BY <2>0 DEF Pipes
    <3> HIDE DEF q
    <3> QED BY <3>1, <3>2
  <2> QED BY <2>1, <2>2, <2>3, <2>4
<1>2. \A m \in Msgs : Placed(q, m) = Placed(pipe[c], m)
  BY <1>1 DEF Placed
<1>3. flight \in Counts /\ want \in Counts /\ UNCHANGED <<flight, want, got, open>>
  BY DEF RunStart, SyncLock, SyncUnlock, SyncFlag, TypeInv, TypeOK, Counts, conn
<1>4. \A x \in Clients : phase'[x] \in {"new", "granted"} <=> phase[x] \in {"new", "granted"}
  BY DEF RunStart, SyncLock, SyncUnlock, SyncFlag, TypeInv, TypeOK, registry
<1>5. \A m \in Msgs : want'[c][m] + Placed(pipe[c], m) + flight[c][m]
                     = want[c][m] + Placed(q, m) + flight'[c][m]
  BY <1>2, <1>3
<1> QED BY <1>1, <1>3, <1>4, <1>5, KeptMove

\* A sender writes its message, or drops it when the connection has failed.
LEMMA KeptSend ==
  ASSUME TypeInv, KeptInv, NEW c \in Clients, NEW m \in Msgs, Send(c, m) PROVE KeptInv'
<1>1. /\ flight[c][m] > 0
      /\ flight' = [flight EXCEPT ![c][m] = @ - 1]
      /\ got' = IF open[c] THEN [got EXCEPT ![c][m] = @ + 1] ELSE got
      /\ flight \in Counts /\ got \in Counts
      /\ UNCHANGED <<want, pipe, open, phase>>
  BY DEF Send, TypeInv, TypeOK, Counts, registry, conn
<1>2. phase[c] \notin {"new", "granted"}
  BY <1>1 DEF KeptInv
<1>3. \A x \in Clients : x # c => flight'[x] = flight[x] /\ got'[x] = got[x]
  BY <1>1 DEF Counts
<1>4. open[c] => \A n \in Msgs : flight'[c][n] + got'[c][n] = flight[c][n] + got[c][n]
  BY <1>1 DEF Counts
<1>5. Kept(c) /\ open[c] => Kept(c)'
  <2> SUFFICES ASSUME Kept(c), open[c], NEW n \in Msgs
               PROVE  want[c][n] = Placed(pipe[c], n) + flight'[c][n] + got'[c][n]
    BY <1>1 DEF Kept
  <2>1. want[c][n] = Placed(pipe[c], n) + flight[c][n] + got[c][n]
    BY DEF Kept
  <2>2. Placed(pipe[c], n) \in Nat
    BY PlacedCopies DEF TypeInv, TypeOK
  <2>3. flight[c][n] \in Nat /\ got[c][n] \in Nat /\ flight'[c][n] \in Int /\ got'[c][n] \in Int
    BY <1>1 DEF Counts
  <2> QED BY <1>4, <2>1, <2>2, <2>3
<1>6. \A x \in Clients : x # c => (Kept(x) => Kept(x)')
  BY <1>1, <1>3 DEF Kept
<1> QED BY <1>1, <1>2, <1>3, <1>5, <1>6 DEF KeptInv

LEMMA KeptNext == TypeInv /\ KeptInv /\ [Next]_vars => KeptInv'
<1> SUFFICES ASSUME TypeInv, KeptInv, [Next]_vars PROVE KeptInv'
  OBVIOUS
<1> USE DEF registry, conn
<1>1. CASE Request \/ Reload
  <2>1. UNCHANGED <<pipe, flight, got, want>>
    BY <1>1 DEF Request, Reload, Access, UpgradeError, Register, Upgrade, ReloadBegin, ReloadEnd
  <2>2. ASSUME NEW x \in Clients, NEW u \in Users, Access(x, u) PROVE KeptInv'
    BY <2>1, <2>2, KeptQuiet DEF Access, TypeInv, TypeOK
  <2>3. ASSUME NEW x \in Clients, Register(x) PROVE KeptInv'
    BY <2>1, <2>3, KeptQuiet DEF Register, TypeInv, TypeOK
  <2>4. ASSUME NEW x \in Clients, NEW st \in {0} \cup {Since(w) : w \in Windows}, Upgrade(x, st)
        PROVE  KeptInv'
    BY <2>1, <2>4, KeptQuiet DEF Upgrade, TypeInv, TypeOK
  <2>5. CASE UNCHANGED <<phase, open>>
    BY <2>1, <2>5, KeptQuiet
  <2> QED BY <1>1, <2>2, <2>3, <2>4, <2>5
            DEF Request, Reload, UpgradeError, ReloadBegin, ReloadEnd
<1>2. CASE Enqueue
  <2>1. CASE EnqueueBegin \/ EnqueueEnd
    <3>1. UNCHANGED <<pipe, flight, got, want, phase, open>>
      BY <2>1 DEF EnqueueBegin, EnqueueEnd
    <3> QED BY <3>1, KeptQuiet
  <2> QED BY <1>2, <2>1, KeptDelivery DEF Enqueue
<1>3. ASSUME NEW c \in Clients, Heartbeat(c) \/ ConcurrentWrite(c) \/ PeerGone(c) \/ Close(c)
      PROVE  KeptInv'
  <2>1. UNCHANGED <<pipe, flight, got, want, phase>>
    BY <1>3 DEF Heartbeat, ConcurrentWrite, PeerGone, Close, ReadError, onclose
  <2>2. \A x \in Clients : open'[x] => open[x]
    BY <1>3 DEF Heartbeat, ConcurrentWrite, PeerGone, Close, ReadError, onclose, TypeInv, TypeOK
  <2> QED BY <2>1, <2>2, KeptQuiet
<1>4. ASSUME NEW c \in Clients, Loop(c) PROVE KeptInv'
  BY <1>4, KeptLoopSend, KeptLoopTake, KeptLoopForward, KeptLoopAccumulate DEF Loop
<1>5. ASSUME NEW c \in Clients, RunStart(c) \/ Sync(c) PROVE KeptInv'
  BY <1>5, KeptControl, KeptSyncCopy, KeptSyncPush, KeptSyncDrain DEF Sync
<1>6. CASE UNCHANGED vars
  <2>1. UNCHANGED <<pipe, flight, got, want, phase, open>>
    BY <1>6 DEF vars
  <2> QED BY <2>1, KeptQuiet
<1> QED BY <1>1, <1>2, <1>3, <1>4, <1>5, <1>6, KeptSend DEF Next

-----------------------------------------------------------------------------
(* The window in which a message can strand *)

\* A step that leaves the sync goroutines alone and sets no start behind them.
LEMMA SyncQuiet ==
  ASSUME SyncInv, pipe' = pipe,
         \A x \in Clients : start'[x] = start[x] \/ pipe[x].sync = "off"
  PROVE  SyncInv'
<1> SUFFICES ASSUME NEW x \in Clients
             PROVE  /\ start'[x] = 0 => pipe'[x].sync = "off"
                    /\ pipe'[x].sync = "done" => pipe'[x].pre_sync_ok
  BY DEF SyncInv
<1>1. (start[x] = 0 => pipe[x].sync = "off") /\ (pipe[x].sync = "done" => pipe[x].pre_sync_ok)
  BY DEF SyncInv
<1> QED BY <1>1

\* A step of one client's goroutines.
LEMMA SyncStep ==
  ASSUME SyncInv, NEW c \in Clients, NEW q, Becomes(c, q), start' = start,
         start[c] = 0 => q.sync = "off",
         q.sync = "done" => q.pre_sync_ok,
         pipe[c].sync = "done" /\ pipe[c].loop # "accumulate"
         => q.loop # "accumulate" /\ q.accmsg = pipe[c].accmsg
  PROVE  SyncInv' /\ NoMoreStranded
<1>1. pipe'[c] = q /\ \A x \in Clients : x # c => pipe'[x] = pipe[x]
  BY DEF Becomes
<1>2. SyncInv'
  <2> SUFFICES ASSUME NEW x \in Clients
               PROVE  /\ start'[x] = 0 => pipe'[x].sync = "off"
                      /\ pipe'[x].sync = "done" => pipe'[x].pre_sync_ok
    BY DEF SyncInv
  <2>1. CASE x = c
    BY <1>1, <2>1
  <2>2. CASE x # c
    <3>1. (start[x] = 0 => pipe[x].sync = "off") /\ (pipe[x].sync = "done" => pipe[x].pre_sync_ok)
      BY DEF SyncInv
    <3> QED BY <1>1, <2>2, <3>1
  <2> QED BY <2>1, <2>2
<1>3. NoMoreStranded
  BY <1>1 DEF NoMoreStranded
<1> QED BY <1>2, <1>3

LEMMA SyncClient ==
  ASSUME TypeInv, SyncInv, NEW c \in Clients, RunStart(c) \/ Loop(c) \/ Sync(c) \/ Delivery(c)
  PROVE  SyncInv' /\ NoMoreStranded
<1> DEFINE p == pipe[c]
<1>1. p \in Pipes /\ start' = start
  BY DEF TypeInv, TypeOK, RunStart, Loop, LoopSend, LoopTake, LoopForward, LoopAccumulate,
         Sync, SyncCopy, SyncPush, SyncLock, SyncDrain, SyncUnlock, SyncFlag, Delivery, registry
<1>2. (start[c] = 0 => p.sync = "off") /\ (p.sync = "done" => p.pre_sync_ok)
  BY DEF SyncInv
<1>3. CASE RunStart(c)
  <2> DEFINE q == [p EXCEPT !.loop = "select", !.pre_sync_ok = (start[c] = 0),
                          !.sync = IF start[c] = 0 THEN "off" ELSE "copy"]
  <2>1. Becomes(c, q)
    BY <1>3, RunStartPipe
  <2>2. /\ q.sync \in {"off", "copy"} /\ (start[c] = 0 => q.sync = "off")
        /\ p.sync = "off"
    BY <1>1, <1>3 DEF Pipes, RunStart, TypeInv, StartInv
  <2> HIDE DEF p, q
  <2> QED BY <1>1, <1>2, <2>1, <2>2, SyncStep DEF p
<1>4. CASE LoopSend(c)
  <2> DEFINE q == [p EXCEPT !.msgCh = Tail(@)]
  <2>1. Becomes(c, q)
    BY <1>4, LoopSendPipe
  <2>2. q.sync = p.sync /\ q.pre_sync_ok = p.pre_sync_ok /\ q.loop = p.loop /\ q.accmsg = p.accmsg
    BY <1>1, <1>4 DEF Pipes
  <2> HIDE DEF p, q
  <2> QED BY <1>1, <1>2, <2>1, <2>2, SyncStep DEF p
<1>5. CASE LoopTake(c)
  <2> DEFINE q == [p EXCEPT !.msgLiveCh = Tail(@), !.hold = Head(p.msgLiveCh),
                          !.loop = IF p.pre_sync_ok THEN "forward" ELSE "accumulate"]
  <2>1. Becomes(c, q)
    BY <1>5, LoopTakePipe
  <2>2. /\ q.sync = p.sync /\ q.pre_sync_ok = p.pre_sync_ok /\ q.accmsg = p.accmsg
        /\ p.pre_sync_ok => q.loop = "forward"
    BY <1>1, <1>5 DEF Pipes
  <2> HIDE DEF p, q
  <2> QED BY <1>1, <1>2, <2>1, <2>2, SyncStep DEF p
<1>6. CASE LoopForward(c)
  <2> DEFINE q == [p EXCEPT !.msgCh = Append(@, p.hold), !.hold = 0, !.loop = "select"]
  <2>1. Becomes(c, q)
    BY <1>6, LoopForwardPipe
  <2>2. q.sync = p.sync /\ q.pre_sync_ok = p.pre_sync_ok /\ q.loop = "select" /\ q.accmsg = p.accmsg
    BY <1>1, <1>6 DEF Pipes
  <2> HIDE DEF p, q
  <2> QED BY <1>1, <1>2, <2>1, <2>2, SyncStep DEF p
<1>7. CASE LoopAccumulate(c)
  <2> DEFINE q == [p EXCEPT !.accmsg = Append(@, p.hold), !.hold = 0, !.loop = "select"]
  <2>1. Becomes(c, q)
    BY <1>7, LoopAccumulatePipe
  <2>2. q.sync = p.sync /\ q.pre_sync_ok = p.pre_sync_ok /\ p.loop = "accumulate"
    BY <1>1, <1>7 DEF Pipes, LoopAccumulate
  <2> HIDE DEF p, q
  <2> QED BY <1>1, <1>2, <2>1, <2>2, SyncStep DEF p
<1>8. CASE SyncFlag(c)
  <2> DEFINE q == [p EXCEPT !.sync = "done", !.pre_sync_ok = TRUE]
  <2>1. Becomes(c, q)
    BY <1>8, SyncFlagPipe
  <2>2. q.pre_sync_ok = TRUE /\ p.sync = "flag"
    BY <1>1, <1>8 DEF Pipes, SyncFlag
  <2> HIDE DEF p, q
  <2> QED BY <1>1, <1>2, <2>1, <2>2, SyncStep DEF p
<1>9. CASE SyncCopy(c)
  <2> DEFINE q == [p EXCEPT !.pms = CachedSince(dataQueue, start[c]), !.sync = "push"]
  <2>1. Becomes(c, q)
    BY <1>9, SyncCopyPipe
  <2>2. q.sync = "push" /\ p.sync = "copy"
    BY <1>1, <1>9 DEF Pipes, SyncCopy
  <2> HIDE DEF p, q
  <2> QED BY <1>1, <1>2, <2>1, <2>2, SyncStep DEF p
<1>10. CASE SyncPush(c)
  <2> DEFINE q == [p EXCEPT !.msgCh = Append(@, Head(p.pms)), !.pms = Tail(@)]
  <2>1. Becomes(c, q)
    BY <1>10, SyncPushPipe
  <2>2. q.sync = "push" /\ p.sync = "push"
    BY <1>1, <1>10 DEF Pipes, SyncPush
  <2> HIDE DEF p, q
  <2> QED BY <1>1, <1>2, <2>1, <2>2, SyncStep DEF p
<1>11. CASE SyncLock(c)
  <2> DEFINE q == [p EXCEPT !.sync = "drain"]
  <2>1. Becomes(c, q)
    BY <1>11, SyncLockPipe
  <2>2. q.sync = "drain" /\ p.sync = "push"
    BY <1>1, <1>11 DEF Pipes, SyncLock
  <2> HIDE DEF p, q
  <2> QED BY <1>1, <1>2, <2>1, <2>2, SyncStep DEF p
<1>12. CASE SyncDrain(c)
  <2> DEFINE q == [p EXCEPT !.msgCh = Append(@, Head(p.accmsg)), !.accmsg = Tail(@)]
  <2>1. Becomes(c, q)
    BY <1>12, SyncDrainPipe
  <2>2. q.sync = "drain" /\ p.sync = "drain"
    BY <1>1, <1>12 DEF Pipes, SyncDrain
  <2> HIDE DEF p, q
  <2> QED BY <1>1, <1>2, <2>1, <2>2, SyncStep DEF p
<1>13. CASE SyncUnlock(c)
  <2> DEFINE q == [p EXCEPT !.sync = "flag"]
  <2>1. Becomes(c, q)
    BY <1>13, SyncUnlockPipe
  <2>2. q.sync = "flag" /\ p.sync = "drain"
    BY <1>1, <1>13 DEF Pipes, SyncUnlock
  <2> HIDE DEF p, q
  <2> QED BY <1>1, <1>2, <2>1, <2>2, SyncStep DEF p
<1>14. CASE Delivery(c)
  <2> DEFINE q == [p EXCEPT !.msgLiveCh = Append(@, nextPm)]
  <2>1. Becomes(c, q)
    BY <1>14, DeliveryPipe
  <2>2. q.sync = p.sync /\ q.pre_sync_ok = p.pre_sync_ok /\ q.loop = p.loop /\ q.accmsg = p.accmsg
    BY <1>1, <1>14 DEF Pipes
  <2> HIDE DEF p, q
  <2> QED BY <1>1, <1>2, <2>1, <2>2, SyncStep DEF p
<1> QED
  BY <1>3, <1>4, <1>5, <1>6, <1>7, <1>8, <1>9, <1>10, <1>11, <1>12, <1>13, <1>14 DEF Loop, Sync

\* All other steps leave the pipelines alone.
LEMMA SyncOther ==
  ASSUME TypeInv, SyncInv, [Next]_vars,
         ~\E c \in Clients : RunStart(c) \/ Loop(c) \/ Sync(c) \/ Delivery(c)
  PROVE  /\ pipe' = pipe
         /\ SyncInv'
<1> USE DEF registry, conn
<1>1. CASE \E c \in Clients, st \in {0} \cup {Since(w) : w \in Windows} : Upgrade(c, st)
  <2>1. PICK c \in Clients, st \in {0} \cup {Since(w) : w \in Windows} : Upgrade(c, st)
    BY <1>1
  <2>2. pipe' = pipe /\ phase[c] = "granted" /\ start' = [start EXCEPT ![c] = st]
    BY <2>1 DEF Upgrade
  <2>3. pipe[c].sync = "off"
    BY <2>2 DEF TypeInv, StartInv
  <2>4. \A x \in Clients : start'[x] = start[x] \/ pipe[x].sync = "off"
    BY <2>2, <2>3 DEF TypeInv, TypeOK
  <2> QED BY <2>2, <2>4, SyncQuiet
<1>2. CASE UNCHANGED <<pipe, start>>
  BY <1>2, SyncQuiet
<1>3. CASE Enqueue \/ Reload
  <2>1. UNCHANGED <<pipe, start>>
    BY <1>3 DEF Enqueue, EnqueueBegin, EnqueueEnd, Reload, ReloadBegin, ReloadEnd
  <2> QED BY <1>2, <2>1
<1>4. CASE Request
  BY <1>1, <1>2, <1>4 DEF Request, Access, UpgradeError, Register
<1>5. ASSUME NEW c \in Clients,
             \/ Heartbeat(c) \/ ConcurrentWrite(c) \/ PeerGone(c) \/ Close(c)
             \/ \E m \in Msgs : Send(c, m)
      PROVE  UNCHANGED <<pipe, start>>
  BY <1>5 DEF Heartbeat, ConcurrentWrite, PeerGone, Close, ReadError, onclose, Send
<1>6. CASE UNCHANGED vars
  BY <1>2, <1>6 DEF vars
<1> QED BY <1>2, <1>3, <1>4, <1>5, <1>6 DEF Next

LEMMA SyncNext ==
  ASSUME TypeInv, SyncInv, [Next]_vars
  PROVE  SyncInv' /\ NoMoreStranded
<1>1. CASE \E c \in Clients : RunStart(c) \/ Loop(c) \/ Sync(c) \/ Delivery(c)
  BY <1>1, SyncClient
<1>2. CASE ~\E c \in Clients : RunStart(c) \/ Loop(c) \/ Sync(c) \/ Delivery(c)
  BY <1>2, SyncOther DEF NoMoreStranded
<1> QED BY <1>1, <1>2

LEMMA SyncHolds == Spec => []SyncInv
<1>1. Init => SyncInv
  BY DEF Init, SyncInv, NewPipe
<1>2. TypeInv /\ SyncInv /\ [Next]_vars => SyncInv'
  BY SyncNext
<1> QED BY <1>1, <1>2, TypeHolds, PTL DEF Spec

(***************************************************************************)
(* After the replay of a client run takes no message to accmsg any more,   *)
(* but for the one it held when the flag went up: what is lost there is    *)
(* lost in the window between the Unlock and that moment.                  *)
(***************************************************************************)
THEOREM StrandingEnds == Spec => LossEnds
<1>1. TypeInv /\ SyncInv /\ [Next]_vars => [NoMoreStranded]_vars
  BY SyncNext
<1>2. Spec => [][NoMoreStranded]_vars
  BY <1>1, TypeHolds, SyncHolds, PTL DEF Spec
<1> QED BY <1>2 DEF LossEnds

(***************************************************************************)
(* Every copy given to an open connection is on its way, in a sender,      *)
(* written, or stranded in accmsg, where nobody reads it again: there is   *)
(* no other place where one is lost, none is doubled, and a client without *)
(* a replay loses none. It holds for every number of clients, every size   *)
(* of the channels and every interleaving of run, the sync goroutine and   *)
(* the senders.                                                            *)
(***************************************************************************)
THEOREM LostOnlyInAccmsg == Spec => []Conserved
<1>1. Init => KeptInv
  <2> SUFFICES ASSUME Init PROVE KeptInv
    OBVIOUS
  <2>1. \A c \in Clients : pipe[c] = NewPipe
    BY DEF Init
  <2>2. \A m \in Msgs : Placed(NewPipe, m) = 0
    BY CopiesEmpty, ZeroNoMsg DEF Placed, NewPipe
  <2> QED BY <2>1, <2>2 DEF Init, KeptInv, Kept
<1>2. Spec => []KeptInv
  BY <1>1, KeptNext, TypeHolds, PTL DEF Spec
<1> QED BY <1>2, TypeHolds, SyncHolds, KeptConserved, PTL
=============================================================================
