--------------------------- MODULE ApiClientProofs ---------------------------
(***************************************************************************)
(* The calls that Consume admits stay within the limits of the windows,    *)
(* and types, for any limits and windows, any number of callers and any    *)
(* requests.                                                               *)
(***************************************************************************)
EXTENDS ApiClient, TLAPS

(***************************************************************************)
(* WindowBound is not inductive: Consume compares the limit with count,    *)
(* which the loop sets back. It sets it back only in the first second of a *)
(* window, in which nothing is added to used.                              *)
(***************************************************************************)
LimitInv ==
  /\ LimitTypeOK
  /\ \A k \in Stated : AtReset(k, secs) => used[k] = 0
  /\ \A k \in Stated \ {"orderSecond"} : used[k] <= count[k]
  /\ WindowBound

\* The windows begin at midnight, where the clock of the model starts.
LEMMA ResetAtZero == \A k \in Stated : AtReset(k, 0)
  BY LimitAssumption, SMT DEF AtReset, Stated

\* A stopped or a running clock is a second of the day.
LEMMA SecondOfDay ==
  ASSUME NEW s \in Nat PROVE (s + 1) % Day \in 0 .. Day - 1
  BY LimitAssumption, SMT

\* What Add returns.
LEMMA AddType ==
  ASSUME NEW f \in [Stated -> Nat], NEW kind, NEW n \in Nat
  PROVE  /\ Add(f, kind, n) \in [Stated -> Nat]
         /\ \A k \in Stated : Add(f, kind, n)[k] >= f[k]
         /\ \A k \in Stated : k = kind => Add(f, kind, n)[k] = f[k] + n
  BY DEF Add

(***************************************************************************)
(* Weight: the counts never fall, and where the call is admitted, the two  *)
(* limits of weight have room for it.                                      *)
(***************************************************************************)
LEMMA ByWeightBound ==
  ASSUME count \in [Stated -> Nat], NEW w \in Nat
  PROVE  LET r == ByWeight(w)
         IN  /\ r.ok \in BOOLEAN
             /\ r.counts \in [Stated -> Nat]
             /\ \A k \in Stated : r.counts[k] >= count[k]
             /\ r.ok => \A k \in Stated \cap {"weightMinute", "weightSecond"} :
                          r.counts[k] >= count[k] + w /\ (w > 0 => count[k] + w <= Limit[k])
  <1> DEFINE c1 == Add(count, "weightMinute", w)
             c2 == Add(c1, "weightSecond", w)
  <1>1. c1 \in [Stated -> Nat] /\ \A k \in Stated : c1[k] >= count[k]
    BY AddType
  <1>2. c2 \in [Stated -> Nat] /\ \A k \in Stated : c2[k] >= c1[k]
    BY <1>1, AddType
  <1>3. "weightMinute" \in Stated => c1["weightMinute"] = count["weightMinute"] + w
    BY AddType
  <1>4. "weightSecond" \in Stated => /\ c2["weightSecond"] = c1["weightSecond"] + w
                                     /\ c1["weightSecond"] = count["weightSecond"]
    BY <1>1, AddType DEF Add
  <1>5. Limit \in [Stated -> Nat]
    BY LimitAssumption DEF Stated
  <1>6. ByWeight(w) = IF w = 0 THEN [ok |-> TRUE, counts |-> count]
                      ELSE IF Exceeds("weightMinute", count, w) THEN [ok |-> FALSE, counts |-> count]
                      ELSE IF Exceeds("weightSecond", c1, w) THEN [ok |-> FALSE, counts |-> c1]
                      ELSE [ok |-> TRUE, counts |-> c2]
    BY DEF ByWeight
  <1> HIDE DEF c1, c2
  <1>7. QED
    BY <1>1, <1>2, <1>3, <1>4, <1>5, <1>6 DEF Exceeds

(***************************************************************************)
(* Orders: likewise for the limit of orders of a minute.                   *)
(***************************************************************************)
LEMMA ByOrdersBound ==
  ASSUME NEW f \in [Stated -> Nat], NEW n \in {0, 1}
  PROVE  LET r == ByOrders(n, f)
         IN  /\ r.ok \in BOOLEAN
             /\ r.counts \in [Stated -> Nat]
             /\ \A k \in Stated : r.counts[k] >= f[k]
             /\ r.ok => \A k \in Stated \cap {"orderMinute"} :
                          r.counts[k] >= f[k] + n /\ (n > 0 => f[k] + n <= Limit[k])
  <1> DEFINE c1 == Add(f, "orderMinute", n)
             c2 == Add(c1, "weightSecond", n)
  <1>1. c1 \in [Stated -> Nat] /\ \A k \in Stated : c1[k] >= f[k]
    BY AddType
  <1>2. c2 \in [Stated -> Nat] /\ \A k \in Stated : c2[k] >= c1[k]
    BY <1>1, AddType
  <1>3. "orderMinute" \in Stated => c1["orderMinute"] = f["orderMinute"] + n
    BY AddType
  <1>5. Limit \in [Stated -> Nat]
    BY LimitAssumption DEF Stated
  <1>6. ByOrders(n, f) = IF n = 0 THEN [ok |-> TRUE, counts |-> f]
                      ELSE IF Exceeds("orderMinute", f, 1) THEN [ok |-> FALSE, counts |-> f]
                      ELSE IF Exceeds("weightSecond", c1, 1) THEN [ok |-> FALSE, counts |-> c1]
                      ELSE [ok |-> TRUE, counts |-> c2]
    BY DEF ByOrders
  <1> HIDE DEF c1, c2
  <1>7. QED
    BY <1>1, <1>2, <1>3, <1>5, <1>6 DEF Exceeds

(***************************************************************************)
(* Consume: an admitted call is counted in full, and had room.             *)
(***************************************************************************)
LEMMA ConsumedBound ==
  ASSUME count \in [Stated -> Nat], NEW w \in Nat, NEW n \in {0, 1}
  PROVE  LET r == Consumed(w, n)
             cost == Cost(w, n)
         IN  /\ r.ok \in BOOLEAN
             /\ r.counts \in [Stated -> Nat]
             /\ \A k \in Stated : r.counts[k] >= count[k]
             /\ r.ok => \A k \in Stated \ {"orderSecond"} :
                          /\ r.counts[k] >= count[k] + cost[k]
                          /\ cost[k] > 0 => count[k] + cost[k] <= Limit[k]
  <1> DEFINE a == ByWeight(w)
             b == ByOrders(n, a.counts)
  <1>1. /\ a.ok \in BOOLEAN
        /\ a.counts \in [Stated -> Nat]
        /\ \A k \in Stated : a.counts[k] >= count[k]
        /\ a.ok => \A k \in Stated \cap {"weightMinute", "weightSecond"} :
                     a.counts[k] >= count[k] + w /\ (w > 0 => count[k] + w <= Limit[k])
    BY ByWeightBound
  <1>2. /\ b.ok \in BOOLEAN
        /\ b.counts \in [Stated -> Nat]
        /\ \A k \in Stated : b.counts[k] >= a.counts[k]
        /\ b.ok => \A k \in Stated \cap {"orderMinute"} :
                     b.counts[k] >= a.counts[k] + n /\ (n > 0 => a.counts[k] + n <= Limit[k])
    <2> HIDE DEF a
    <2> QED BY <1>1, ByOrdersBound
  <1>3. Consumed(w, n) = IF a.ok THEN b ELSE a
    BY DEF Consumed
  <1>4. \A k \in Stated : Cost(w, n)[k] = IF k \in {"weightMinute", "weightSecond"} THEN w ELSE n
    BY DEF Cost
  <1>5. Stated \subseteq Kinds /\ Limit \in [Stated -> Nat]
    BY LimitAssumption DEF Stated
  <1> HIDE DEF a, b
  <1>6. CASE ~ a.ok
    BY <1>1, <1>3, <1>6
  <1>7. CASE a.ok
    <2>1. ASSUME b.ok, NEW k \in Stated \ {"orderSecond"}
          PROVE  /\ b.counts[k] >= count[k] + Cost(w, n)[k]
                 /\ Cost(w, n)[k] > 0 => count[k] + Cost(w, n)[k] <= Limit[k]
      <3>1. CASE k \in {"weightMinute", "weightSecond"}
        BY <1>1, <1>2, <1>4, <1>5, <1>7, <2>1, <3>1
      <3>2. CASE k = "orderMinute"
        BY <1>1, <1>2, <1>4, <1>5, <1>7, <2>1, <3>2
      <3>3. QED
        BY <1>5, <3>1, <3>2 DEF Kinds
    <2>2. QED
      BY <1>1, <1>2, <1>3, <1>7, <2>1
  <1>8. QED
    BY <1>1, <1>6, <1>7

\* What Consume admits keeps the invariant; what it refuses does, too.
LEMMA ConsumeStep ==
  ASSUME LimitInv, NEW w \in Nat, NEW n \in {0, 1}, NEW ok \in BOOLEAN, Consume(w, n, ok)
  PROVE  LimitInv'
  <1> DEFINE c == Consumed(w, n).counts
             cost == Cost(w, n)
  <1>1. /\ count \in [Stated -> Nat]
        /\ used \in [Stated -> Nat]
        /\ secs \in 0 .. Day - 1
        /\ \A k \in Stated : AtReset(k, secs) => used[k] = 0
        /\ \A k \in Stated \ {"orderSecond"} : used[k] <= count[k]
        /\ \A k \in Stated \ {"orderSecond"} : used[k] <= Limit[k]
    BY DEF LimitInv, LimitTypeOK, WindowBound
  <1>2. /\ c \in [Stated -> Nat]
        /\ \A k \in Stated : c[k] >= count[k]
        /\ ok => \A k \in Stated \ {"orderSecond"} :
                   /\ c[k] >= count[k] + cost[k]
                   /\ cost[k] > 0 => count[k] + cost[k] <= Limit[k]
    BY <1>1, ConsumedBound DEF Consume
  <1>3. cost \in [Stated -> Nat]
    BY DEF Cost
  <1>4. /\ count' = c
        /\ secs' = secs
        /\ ~ ok => used' = used
        /\ ok => used' = [k \in Stated |-> IF AtReset(k, secs) THEN used[k] ELSE used[k] + cost[k]]
    BY DEF Consume
  <1>5. Limit \in [Stated -> Nat]
    BY LimitAssumption DEF Stated
  <1> HIDE DEF c, cost
  <1>6. used' \in [Stated -> Nat]
    BY <1>1, <1>3, <1>4
  <1>7. ASSUME NEW k \in Stated, AtReset(k, secs) PROVE used'[k] = 0
    BY <1>1, <1>4, <1>7
  <1>8. ASSUME NEW k \in Stated \ {"orderSecond"} PROVE used'[k] <= c[k] /\ used'[k] <= Limit[k]
    <2>1. CASE ~ ok \/ AtReset(k, secs)
      <3>1. used'[k] = used[k]
        BY <1>4, <2>1
      <3>2. QED
        BY <1>1, <1>2, <1>5, <3>1
    <2>2. CASE ok /\ ~ AtReset(k, secs)
      <3>1. used'[k] = used[k] + cost[k]
        BY <1>4, <2>2
      <3>2. /\ used[k] \in Nat /\ count[k] \in Nat /\ cost[k] \in Nat
            /\ c[k] \in Nat /\ Limit[k] \in Nat
        BY <1>1, <1>2, <1>3, <1>5
      <3>3. QED
        BY <1>1, <1>2, <2>2, <3>1, <3>2
    <2>3. QED
      BY <2>1, <2>2
  <1>9. \A k \in Stated : AtReset(k, secs)' = AtReset(k, secs)
    BY <1>4 DEF AtReset
  <1>10. QED
    BY <1>1, <1>2, <1>4, <1>6, <1>7, <1>8, <1>9 DEF LimitInv, LimitTypeOK, WindowBound, Stated

\* A second goes by: windows that begin have nothing in them yet.
LEMMA SecondStep ==
  ASSUME LimitInv, Second PROVE LimitInv'
  <1>1. /\ count \in [Stated -> Nat]
        /\ used \in [Stated -> Nat]
        /\ secs \in Nat
    BY LimitAssumption DEF LimitInv, LimitTypeOK
  <1>2. secs' \in 0 .. Day - 1
    BY <1>1, SecondOfDay DEF Second
  <1>3. \A k \in Stated : used'[k] = IF AtReset(k, secs') THEN 0 ELSE used[k]
    BY DEF Second
  <1>4. used' \in [Stated -> Nat] /\ count' = count
    BY <1>1 DEF Second
  <1>5. Limit \in [Stated -> Nat]
    BY LimitAssumption DEF Stated
  <1>6. \A k \in Stated : AtReset(k, secs)' = AtReset(k, secs')
    BY DEF AtReset
  <1>7. \A k \in Stated \ {"orderSecond"} : used'[k] <= count[k] /\ used'[k] <= Limit[k]
    BY <1>1, <1>3, <1>5 DEF LimitInv, WindowBound
  <1>8. QED
    BY <1>1, <1>2, <1>3, <1>4, <1>6, <1>7 DEF LimitInv, LimitTypeOK, WindowBound, Stated

\* The loop forgets counts only where nothing is held against the limit.
LEMMA PollStep ==
  ASSUME LimitInv, Poll PROVE LimitInv'
  <1>1. /\ count \in [Stated -> Nat]
        /\ used \in [Stated -> Nat]
        /\ secs' = secs /\ used' = used
        /\ count' = [k \in Stated |-> IF AtReset(k, secs) THEN 0 ELSE count[k]]
    BY DEF LimitInv, LimitTypeOK, Poll
  <1>2. \A k \in Stated : AtReset(k, secs)' = AtReset(k, secs)
    BY <1>1 DEF AtReset
  <1>3. count' \in [Stated -> Nat]
    BY <1>1
  <1>4. \A k \in Stated \ {"orderSecond"} : used[k] <= count'[k]
    BY <1>1 DEF LimitInv
  <1>5. QED
    BY <1>1, <1>2, <1>3, <1>4 DEF LimitInv, LimitTypeOK, WindowBound, Stated

\* Steps that leave the limits alone.
LEMMA LimitStutter ==
  ASSUME LimitInv, UNCHANGED limiter PROVE LimitInv'
  <1>1. \A k \in Stated : AtReset(k, secs)' = AtReset(k, secs)
    BY DEF AtReset, limiter
  <1>2. QED
    BY <1>1 DEF limiter, LimitInv, LimitTypeOK, WindowBound, Stated

\* The steps of the limits and of the callers keep LimitInv.
LEMMA LimitAlways == Spec => []LimitInv
  <1>1. Init => LimitInv
    <2> SUFFICES ASSUME Init PROVE LimitInv
      OBVIOUS
    <2>1. /\ secs = 0
          /\ count = [k \in Stated |-> 0]
          /\ used = [k \in Stated |-> 0]
      BY DEF Init, LimitInit
    <2>2. secs \in 0 .. Day - 1 /\ Limit \in [Stated -> Nat]
      BY <2>1, LimitAssumption DEF Stated
    <2>3. QED
      BY <2>1, <2>2 DEF LimitInv, LimitTypeOK, WindowBound
  <1>2. LimitInv /\ [Next]_vars => LimitInv'
    <2> SUFFICES ASSUME LimitInv, [Next]_vars PROVE LimitInv'
      OBVIOUS
    <2>1. CASE Second \/ Poll
      BY <2>1, SecondStep, PollStep
    <2>2. ASSUME NEW c \in Callers, Ask(c) PROVE LimitInv'
      <3>1. PICK cost \in Costs, ok \in BOOLEAN : Consume(cost.weight, cost.orders, ok)
        BY <2>2 DEF Ask
      <3>2. cost.weight \in Nat /\ cost.orders \in {0, 1}
        BY ApiAssumption
      <3>3. QED
        BY <3>1, <3>2, ConsumeStep
    <2>3. ASSUME NEW c \in Callers, Caller(c) \/ GiveUp(c) \/ HandOver(c) PROVE UNCHANGED limiter
      BY <2>3 DEF Caller, AddReqRespChan, SendMessage, RemoveReqRespChan, GiveUp, HandOver, limiter
    <2>4. ASSUME NEW id \in wire, Answer(id) PROVE UNCHANGED limiter
      BY <2>4 DEF Answer, limiter
    <2>5. CASE Connect \/ Close \/ ReadMessage \/ ReadFails \/ UNCHANGED vars
      <3>1. UNCHANGED limiter
        BY <2>5 DEF Connect, Close, ReadMessage, ReadFails, vars, limiter
      <3>2. QED
        BY <3>1, LimitStutter
    <2>6. QED
      BY <2>1, <2>2, <2>3, <2>4, <2>5, LimitStutter DEF Next, Reader
  <1>3. QED
    BY <1>1, <1>2, PTL DEF Spec

(***************************************************************************)
(* WindowBound holds for all limits, windows, callers and requests: the    *)
(* counts of Consume, which keep what refused calls have added and forget  *)
(* everything in the first second of a window, never admit more than a     *)
(* limit in the rest of the window.                                        *)
(***************************************************************************)
THEOREM CallsWithinLimits == Spec => []WindowBound
  <1>1. LimitInv => WindowBound
    BY DEF LimitInv
  <1>2. QED
    BY <1>1, LimitAlways, PTL

-----------------------------------------------------------------------------
(* Types *)

ClientType ==
  /\ conn \in {"none", "open", "closed"}
  /\ ReqResponseMap \subseteq Requests
  /\ wire \subseteq Requests
  /\ inbox \in Seq(Requests)
  /\ reader \in Requests \cup {None}
  /\ reading \in BOOLEAN

CallerType ==
  /\ pc \in [Callers -> {"idle", "add", "send", "wait", "remove"}]
  /\ nth \in [Callers -> Nat]

LEMMA CallerStep ==
  ASSUME ClientType, CallerType, NEW c \in Callers,
         Ask(c) \/ Caller(c) \/ GiveUp(c) \/ HandOver(c)
  PROVE  ClientType' /\ CallerType'
  <1>1. Id(c) \in Requests
    BY DEF Id, Requests, CallerType
  <1>2. nth' = nth \/ nth' = [nth EXCEPT ![c] = nth[c] + 1]
    BY DEF Ask, Caller, AddReqRespChan, SendMessage, RemoveReqRespChan, GiveUp, HandOver
  <1>3. nth' \in [Callers -> Nat]
    BY <1>2 DEF CallerType
  <1>4. \/ pc' = pc
        \/ \E l \in {"idle", "add", "send", "wait", "remove"} : pc' = [pc EXCEPT ![c] = l]
    BY DEF Ask, Caller, AddReqRespChan, SendMessage, RemoveReqRespChan, GiveUp, HandOver, Goto
  <1>5. CallerType'
    BY <1>3, <1>4 DEF CallerType
  <1>6. /\ conn' = conn /\ inbox' = inbox /\ reading' = reading
        /\ reader' = reader \/ reader' = None
    BY DEF Ask, Caller, AddReqRespChan, SendMessage, RemoveReqRespChan, GiveUp, HandOver, client
  <1>7. /\ ReqResponseMap' \subseteq ReqResponseMap \cup {Id(c)}
        /\ wire' \subseteq wire \cup {Id(c)}
    BY DEF Ask, Caller, AddReqRespChan, SendMessage, RemoveReqRespChan, GiveUp, HandOver, client
  <1>8. ClientType'
    BY <1>1, <1>6, <1>7 DEF ClientType
  <1>9. QED
    BY <1>5, <1>8

LEMMA ReaderStep ==
  ASSUME ClientType, CallerType,
         Connect \/ Close \/ ReadMessage \/ ReadFails \/ \E id \in wire : Answer(id)
  PROVE  ClientType' /\ CallerType'
  <1>1. CallerType'
    BY DEF Connect, Close, ReadMessage, ReadFails, Answer, CallerType
  <1>2. reading' = reading \/ reading' = TRUE \/ reading' = FALSE
    BY DEF Connect, Close, ReadMessage, ReadFails, Answer
  <1>3. reading' \in BOOLEAN
    BY <1>2, Zenon DEF ClientType
  <1>4. conn' \in {"none", "open", "closed"} /\ ReqResponseMap' \subseteq Requests /\ wire' \subseteq Requests
    BY DEF Connect, Close, ReadMessage, ReadFails, Answer, ClientType
  <1>5. inbox' \in Seq(Requests) /\ reader' \in Requests \cup {None}
    <2>1. CASE ReadMessage
      <3>1. inbox \in Seq(Requests) /\ inbox # <<>>
        BY <2>1 DEF ReadMessage, ClientType
      <3>2. Head(inbox) \in Requests /\ Tail(inbox) \in Seq(Requests)
        BY <3>1
      <3>3. inbox' = Tail(inbox) /\ (reader' = Head(inbox) \/ reader' = None)
        BY <2>1 DEF ReadMessage
      <3>4. QED
        BY <3>2, <3>3
    <2>2. ASSUME NEW id \in wire, Answer(id) PROVE inbox' \in Seq(Requests) /\ reader' = reader
      <3>1. id \in Requests /\ inbox' = Append(inbox, id) /\ reader' = reader
        BY <2>2 DEF Answer, ClientType
      <3>2. QED
        BY <3>1 DEF ClientType
    <2>3. CASE Connect \/ Close \/ ReadFails
      BY <2>3 DEF Connect, Close, ReadFails, ClientType
    <2>4. QED
      BY <2>1, <2>2, <2>3 DEF ClientType
  <1>6. QED
    BY <1>1, <1>3, <1>4, <1>5 DEF ClientType

(***************************************************************************)
(* TypeOK holds for any callers, requests and limits: the map, the wire    *)
(* and the reader hold requests of callers only, and the clock of the      *)
(* limits stays within the day.                                            *)
(***************************************************************************)
THEOREM TypeCorrect == Spec => []TypeOK
  <1>1. Init => ClientType /\ CallerType
    <2> SUFFICES ASSUME Init PROVE ClientType /\ CallerType
      OBVIOUS
    <2>1. reading \in BOOLEAN
      BY Zenon DEF Init
    <2>2. inbox \in Seq(Requests)
      BY DEF Init
    <2>3. QED
      BY <2>1, <2>2 DEF Init, ClientType, CallerType
  <1>2. ClientType /\ CallerType /\ [Next]_vars => ClientType' /\ CallerType'
    <2> SUFFICES ASSUME ClientType, CallerType, [Next]_vars PROVE ClientType' /\ CallerType'
      OBVIOUS
    <2>1. CASE UNCHANGED <<client, pc, nth>>
      BY <2>1 DEF ClientType, CallerType, client
    <2>2. QED
      BY <2>1, CallerStep, ReaderStep DEF Next, Reader, vars, OtherThanLimits
  <1>3. LimitInv /\ ClientType /\ CallerType => TypeOK
    BY DEF LimitInv, ClientType, CallerType, TypeOK
  <1>4. QED
    BY <1>1, <1>2, <1>3, LimitAlways, PTL DEF Spec
=============================================================================
