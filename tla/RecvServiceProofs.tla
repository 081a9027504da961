-------------------------- MODULE RecvServiceProofs --------------------------
(***************************************************************************)
(* Machine-checked proofs about RecvService, for any number of connections *)
(* and failures.                                                           *)
(***************************************************************************)
EXTENDS RecvService, TLAPS

(***************************************************************************)
(* FieldIsCurrent is not inductive: run reaches "connect" from "store0",   *)
(* where its own reset has just cleared stopC and nobody but run stores a  *)
(* channel there. The update time is set only after a dial, and nobody     *)
(* holds the channel of a dial to come.                                    *)
(***************************************************************************)
Inv ==
  /\ TypeOK
  /\ FieldIsCurrent
  /\ pc[RUN] = "store0" => stopC = 0
  /\ pc[RUN] \in {"assign", "store"} => nconn # 0
  /\ \A k \in Conns : socket[k] # "none" \/ watcher[k] # "off" => nconn # 0
  /\ \A a \in Actors : ch[a] <= nconn

LEMMA ActorFacts ==
  /\ RUN \in Actors
  /\ RUN \notin Conns /\ 0 \notin Conns
  /\ Conns \subseteq Actors
  /\ Conns \subseteq Int
  /\ \A a \in Actors : a # RUN => a \in Conns
BY DEF RUN, Actors, Readers, Conns

LEMMA InvInit == Init => Inv
BY RecvBounds, ActorFacts DEF Init, Inv, TypeOK, FieldIsCurrent, Waits, Steps

\* Steps of reset, by run or by a reader.
LEMMA InvReset ==
  ASSUME Inv, NEW a \in Actors, Reset(a)
  PROVE  Inv'
<1> USE ActorFacts, RecvBounds DEF Inv, TypeOK, FieldIsCurrent, Waits, Steps, Goto, conns
<1>1. CASE ResetCheck(a)
  BY <1>1 DEF ResetCheck
<1>2. CASE ResetEval(a)
  BY <1>2 DEF ResetEval
<1>3. CASE \E k \in Conns : ResetSend(a, k)
  BY <1>3 DEF ResetSend
<1>4. CASE ResetClear(a)
  BY <1>4 DEF ResetClear
<1>5. CASE ResetStore(a)
  BY <1>5 DEF ResetStore
<1> QED BY <1>1, <1>2, <1>3, <1>4, <1>5 DEF Reset

\* Steps of run outside reset: only they store a channel or dial.
LEMMA InvRun ==
  ASSUME Inv, Run
  PROVE  Inv'
<1> USE ActorFacts, RecvBounds DEF Inv, TypeOK, FieldIsCurrent, Waits, Steps, Goto, conns
<1>1. CASE RunTimeout
  BY <1>1 DEF RunTimeout
<1>2. CASE ConnectError
  BY <1>2 DEF ConnectError
<1>3. CASE Connect
  <2>1. nconn + 1 \in Conns
    BY <1>3 DEF Connect, Conns
  <2>2. nconn' = nconn + 1 /\ stopC' = stopC /\ stopC = 0
    BY <1>3 DEF Connect
  <2>3. /\ pc' \in [Actors -> Waits \cup Steps]
        /\ pc'[RUN] = "assign"
    BY <1>3, <2>1 DEF Connect
  <2> QED BY <1>3, <2>1, <2>2, <2>3 DEF Connect
<1>4. CASE ConnectAssign
  BY <1>4 DEF ConnectAssign
<1>5. CASE ConnectStore
  BY <1>5 DEF ConnectStore
<1> QED BY <1>1, <1>2, <1>3, <1>4, <1>5 DEF Run

\* Steps of the goroutines of wsServe, and failures.
LEMMA InvConn ==
  ASSUME Inv, NEW k \in Conns, Reader(k) \/ SocketFail(k) \/ Watcher(k)
  PROVE  Inv'
<1> USE ActorFacts, RecvBounds DEF Inv, TypeOK, FieldIsCurrent, Waits, Steps, Goto, conns
<1>1. CASE Handler(k) \/ HandlerEnd(k)
  <2>1. CASE Handler(k)
    BY <2>1 DEF Handler
  <2>2. CASE HandlerEnd(k)
    BY <2>2 DEF HandlerEnd
  <2> QED BY <1>1, <2>1, <2>2
<1>2. CASE ParseError(k)
  BY <1>2 DEF ParseError
<1>3. CASE ReadError(k)
  BY <1>3 DEF ReadError
<1>4. CASE SleepEnd(k)
  BY <1>4 DEF SleepEnd
<1>5. CASE SocketFail(k)
  BY <1>5 DEF SocketFail
<1>6. CASE WatcherStop(k)
  BY <1>6 DEF WatcherStop
<1>7. CASE WatcherDone(k)
  BY <1>7 DEF WatcherDone
<1> QED BY <1>1, <1>2, <1>3, <1>4, <1>5, <1>6, <1>7 DEF Reader, Watcher

LEMMA InvNext == Inv /\ [Next]_vars => Inv'
<1> SUFFICES ASSUME Inv, [Next]_vars
             PROVE  Inv'
  OBVIOUS
<1>1. CASE Expire
  BY <1>1 DEF Expire, Inv, TypeOK, FieldIsCurrent, conns
<1>2. CASE \E a \in Actors : Reset(a)
  BY <1>2, InvReset
<1>3. CASE Run
  BY <1>3, InvRun
<1>4. CASE \E k \in Conns : Reader(k) \/ SocketFail(k) \/ Watcher(k)
  BY <1>4, InvConn
<1>5. CASE UNCHANGED vars
  BY <1>5 DEF vars, conns, Inv, TypeOK, FieldIsCurrent
<1> QED BY <1>1, <1>2, <1>3, <1>4, <1>5 DEF Next

(***************************************************************************)
(* The variables of a service keep their types for any number of           *)
(* connections and failures; stopC is a connection that was dialled, or    *)
(* none.                                                                   *)
(***************************************************************************)
THEOREM TypeCorrect == Spec => []TypeOK
<1>1. Inv => TypeOK
  BY DEF Inv
<1> QED BY <1>1, InvInit, InvNext, PTL DEF Spec

-----------------------------------------------------------------------------
(***************************************************************************)
(* Until a connection fails, only run calls reset. A watcher that waits    *)
(* then belongs to the newest connection, and run knows its channel or is  *)
(* about to store it; so run cannot dial while one waits.                  *)
(***************************************************************************)
Quiet ==
  /\ \A k \in Conns : /\ pc[k] \in {"off", "read", "handler", "done"}
                      /\ socket[k] = "closed" => silent[k] \/ pc[k] = "done"
                      /\ watcher[k] = "wait" =>
                           /\ k = nconn
                           /\ \/ pc[RUN] = "assign"
                              \/ /\ stopC = k
                                 /\ pc[RUN] \in {"timer", "check", "eval", "send", "store"}
  /\ pc[RUN] = "send" => ch[RUN] = stopC

QuietInv == Inv /\ (fails = 0 => Quiet)

LEMMA QuietInit == Init => QuietInv
BY InvInit, ActorFacts DEF Init, QuietInv, Quiet

\* Before the first failure a step of reset is a step of run.
LEMMA QuietReset ==
  ASSUME QuietInv, NEW a \in Actors, Reset(a), fails' = 0
  PROVE  Quiet'
<1> USE ActorFacts DEF QuietInv, Quiet, Inv, TypeOK, Goto, conns
<1>1. fails = 0 /\ Quiet
  BY DEF Reset, ResetCheck, ResetEval, ResetSend, ResetClear, ResetStore
<1>2. a = RUN
  BY <1>1 DEF Reset, ResetCheck, ResetEval, ResetSend, ResetClear, ResetStore
<1>3. CASE ResetCheck(RUN)
  BY <1>1, <1>3 DEF ResetCheck
<1>4. CASE ResetEval(RUN)
  BY <1>1, <1>4 DEF ResetEval
<1>5. CASE \E k \in Conns : ResetSend(RUN, k)
  BY <1>1, <1>5 DEF ResetSend
<1>6. CASE ResetClear(RUN)
  BY <1>1, <1>6 DEF ResetClear
<1>7. CASE ResetStore(RUN)
  BY <1>1, <1>7 DEF ResetStore
<1> QED BY <1>2, <1>3, <1>4, <1>5, <1>6, <1>7 DEF Reset

LEMMA QuietRun ==
  ASSUME QuietInv, Run, fails' = 0
  PROVE  Quiet'
<1> USE ActorFacts, RecvBounds DEF QuietInv, Quiet, Inv, TypeOK, Goto, conns
<1>1. fails = 0 /\ Quiet
  BY DEF Run, RunTimeout, ConnectError, Connect, ConnectAssign, ConnectStore
<1>2. CASE RunTimeout
  BY <1>1, <1>2 DEF RunTimeout
<1>3. CASE ConnectError
  BY <1>1, <1>3 DEF ConnectError
<1>4. CASE Connect
  <2>1. nconn + 1 \in Conns
    BY <1>4 DEF Connect, Conns
  <2>2. \A k \in Conns : watcher[k] # "wait"
    BY <1>1, <1>4 DEF Connect
  <2>3. /\ nconn' = nconn + 1
        /\ pc'[RUN] = "assign"
        /\ \A k \in Conns : pc'[k] = IF k = nconn + 1 THEN "read" ELSE pc[k]
    BY <1>4, <2>1 DEF Connect
  <2>4. /\ \A k \in Conns : watcher'[k] = IF k = nconn + 1 THEN "wait" ELSE watcher[k]
        /\ \A k \in Conns : socket'[k] = IF k = nconn + 1 THEN "open" ELSE socket[k]
        /\ silent' = silent
    BY <1>4, <2>1 DEF Connect
  <2> QED BY <1>1, <2>2, <2>3, <2>4
<1>5. CASE ConnectAssign
  BY <1>1, <1>5 DEF ConnectAssign
<1>6. CASE ConnectStore
  BY <1>1, <1>6 DEF ConnectStore
<1> QED BY <1>2, <1>3, <1>4, <1>5, <1>6 DEF Run

LEMMA QuietConn ==
  ASSUME QuietInv, NEW k \in Conns, Reader(k) \/ SocketFail(k) \/ Watcher(k),
         fails' = 0
  PROVE  Quiet'
<1> USE ActorFacts DEF QuietInv, Quiet, Inv, TypeOK, Goto, conns
<1>1. CASE Handler(k) \/ HandlerEnd(k)
  BY <1>1 DEF Handler, HandlerEnd
<1>2. CASE ParseError(k) \/ SocketFail(k)
  <2>1. fails' = fails + 1 /\ fails \in Nat
    BY <1>2, RecvBounds DEF ParseError, SocketFail
  <2> QED BY <2>1
<1>3. CASE ReadError(k)
  BY <1>3 DEF ReadError
<1>4. CASE SleepEnd(k)
  BY <1>4 DEF SleepEnd
<1>5. CASE WatcherStop(k)
  BY <1>5 DEF WatcherStop
<1>6. CASE WatcherDone(k)
  BY <1>6 DEF WatcherDone
<1> QED BY <1>1, <1>2, <1>3, <1>4, <1>5, <1>6 DEF Reader, Watcher

LEMMA QuietNext == QuietInv /\ [Next]_vars => QuietInv'
<1> SUFFICES ASSUME QuietInv, [Next]_vars
             PROVE  QuietInv'
  OBVIOUS
<1>1. Inv'
  BY InvNext DEF QuietInv
<1> SUFFICES ASSUME fails' = 0
             PROVE  Quiet'
  BY <1>1 DEF QuietInv
<1>2. CASE Expire
  BY <1>2 DEF Expire, QuietInv, Quiet, conns
<1>3. CASE \E a \in Actors : Reset(a)
  BY <1>3, QuietReset
<1>4. CASE Run
  BY <1>4, QuietRun
<1>5. CASE \E k \in Conns : Reader(k) \/ SocketFail(k) \/ Watcher(k)
  BY <1>5, QuietConn
<1>6. CASE UNCHANGED vars
  BY <1>6 DEF vars, conns, QuietInv, Quiet
<1> QED BY <1>2, <1>3, <1>4, <1>5, <1>6 DEF Next

(***************************************************************************)
(* A connection that falls silent is stopped by run before the next one is *)
(* dialled, for any number of reconnections, as long as no connection      *)
(* fails.                                                                  *)
(***************************************************************************)
THEOREM TimeoutReplaces == Spec => []TimeoutStops
<1>1. QuietInv => TimeoutStops
  BY DEF QuietInv, Quiet, TimeoutStops, OneConnection
<1> QED BY <1>1, QuietInit, QuietNext, PTL DEF Spec

-----------------------------------------------------------------------------
(***************************************************************************)
(* Who takes part in the race. A reader is Erring from its failure until   *)
(* error returns; one failure makes one such reader.                       *)
(***************************************************************************)
Erring(k) ==
  \/ pc[k] \in {"check", "eval", "send", "clear", "store0", "sleep"}
  \/ socket[k] = "closed" /\ ~silent[k] /\ pc[k] # "done"

(***************************************************************************)
(* With at most one failure run and one reader compete. While the reader   *)
(* offers a stop to a waiting watcher, stopC still names that connection:  *)
(* run could clear it only after a stop of its own was received there, so  *)
(* run does not dial. What run itself sends is current, since only run     *)
(* dials.                                                                  *)
(***************************************************************************)
OneErring ==
  /\ \A j, k \in Conns : Erring(j) /\ Erring(k) => j = k
  /\ fails = 0 => \A k \in Conns : ~Erring(k)
  /\ \A k \in Conns : pc[RUN] = "clear" /\ stopC = k => watcher[k] # "wait"
  /\ \A k \in Conns : pc[RUN] = "send" /\ ch[RUN] = k => k = nconn
  /\ \A j, k \in Conns :
       pc[j] = "send" /\ ch[j] = k /\ watcher[k] = "wait" => stopC = k

RaceInv == Inv /\ (fails < 2 => OneErring)

LEMMA RaceInit == Init => RaceInv
BY InvInit, ActorFacts DEF Init, RaceInv, OneErring, Erring

LEMMA RaceReset ==
  ASSUME RaceInv, NEW a \in Actors, Reset(a), fails' < 2
  PROVE  OneErring'
<1> USE ActorFacts DEF RaceInv, OneErring, Erring, Inv, TypeOK, FieldIsCurrent, Goto, conns
<1>1. OneErring /\ fails' = fails
  BY DEF Reset, ResetCheck, ResetEval, ResetSend, ResetClear, ResetStore
<1>2. CASE ResetCheck(a)
  BY <1>1, <1>2 DEF ResetCheck
<1>3. CASE ResetEval(a)
  BY <1>1, <1>3 DEF ResetEval
<1>4. ASSUME NEW k \in Conns, ResetSend(a, k)
      PROVE  OneErring'
  BY <1>1, <1>4 DEF ResetSend
<1>5. CASE ResetClear(a)
  BY <1>1, <1>5 DEF ResetClear
<1>6. CASE ResetStore(a)
  BY <1>1, <1>6 DEF ResetStore
<1> QED BY <1>2, <1>3, <1>4, <1>5, <1>6 DEF Reset

LEMMA RaceRun ==
  ASSUME RaceInv, Run, fails' < 2
  PROVE  OneErring'
<1> USE ActorFacts, RecvBounds DEF RaceInv, OneErring, Erring, Inv, TypeOK, FieldIsCurrent, Goto, conns
<1>1. OneErring /\ fails' = fails
  BY DEF Run, RunTimeout, ConnectError, Connect, ConnectAssign, ConnectStore
<1>2. CASE RunTimeout
  BY <1>1, <1>2 DEF RunTimeout
<1>3. CASE ConnectError
  BY <1>1, <1>3 DEF ConnectError
<1>4. CASE Connect
  <2>1. nconn + 1 \in Conns
    BY <1>4 DEF Connect, Conns
  <2>2. /\ pc'[RUN] = "assign" /\ pc[RUN] = "connect"
        /\ \A k \in Conns : pc'[k] = IF k = nconn + 1 THEN "read" ELSE pc[k]
        /\ ch' = ch /\ silent' = silent /\ stopC' = stopC
    BY <1>4, <2>1 DEF Connect
  <2>3. /\ \A k \in Conns : watcher'[k] = IF k = nconn + 1 THEN "wait" ELSE watcher[k]
        /\ \A k \in Conns : socket'[k] = IF k = nconn + 1 THEN "open" ELSE socket[k]
    BY <1>4, <2>1 DEF Connect
  <2> QED BY <1>1, <2>1, <2>2, <2>3
<1>5. CASE ConnectAssign
  BY <1>1, <1>5 DEF ConnectAssign
<1>6. CASE ConnectStore
  BY <1>1, <1>6 DEF ConnectStore
<1> QED BY <1>2, <1>3, <1>4, <1>5, <1>6 DEF Run

LEMMA RaceConn ==
  ASSUME RaceInv, NEW k \in Conns, Reader(k) \/ SocketFail(k) \/ Watcher(k),
         fails' < 2
  PROVE  OneErring'
<1> USE ActorFacts, RecvBounds DEF RaceInv, OneErring, Erring, Inv, TypeOK, FieldIsCurrent, Goto, conns
<1>1. CASE Handler(k) \/ HandlerEnd(k)
  BY <1>1 DEF Handler, HandlerEnd
<1>2. CASE ParseError(k)
  <2>1. fails = 0 /\ fails' = 1
    BY <1>2 DEF ParseError
  <2> QED BY <1>2, <2>1 DEF ParseError
<1>3. CASE SocketFail(k)
  <2>1. fails = 0 /\ fails' = 1
    BY <1>3 DEF SocketFail
  <2> QED BY <1>3, <2>1 DEF SocketFail
<1>4. CASE ReadError(k)
  BY <1>4 DEF ReadError
<1>5. CASE SleepEnd(k)
  BY <1>5 DEF SleepEnd
<1>6. CASE WatcherStop(k)
  BY <1>6 DEF WatcherStop
<1>7. CASE WatcherDone(k)
  BY <1>7 DEF WatcherDone
<1> QED BY <1>1, <1>2, <1>3, <1>4, <1>5, <1>6, <1>7 DEF Reader, Watcher

LEMMA RaceNext == RaceInv /\ [Next]_vars => RaceInv'
<1> SUFFICES ASSUME RaceInv, [Next]_vars
             PROVE  RaceInv'
  OBVIOUS
<1>1. Inv'
  BY InvNext DEF RaceInv
<1> SUFFICES ASSUME fails' < 2
             PROVE  OneErring'
  BY <1>1 DEF RaceInv
<1>2. CASE Expire
  BY <1>2 DEF Expire, RaceInv, OneErring, Erring, conns
<1>3. CASE \E a \in Actors : Reset(a)
  BY <1>3, RaceReset
<1>4. CASE Run
  BY <1>4, RaceRun
<1>5. CASE \E k \in Conns : Reader(k) \/ SocketFail(k) \/ Watcher(k)
  BY <1>5, RaceConn
<1>6. CASE UNCHANGED vars
  BY <1>6 DEF vars, conns, RaceInv, OneErring, Erring
<1> QED BY <1>2, <1>3, <1>4, <1>5, <1>6 DEF Next

(***************************************************************************)
(* run and the readers share stopC without a lock. It never names a        *)
(* connection that was replaced, after any number of failures; and up to   *)
(* the second failure a stop that is received ends the latest connection,  *)
(* never one that was replaced.                                            *)
(***************************************************************************)
THEOREM StopNamesCurrent == Spec => []StopIsCurrent
<1>1. RaceInv => StopIsCurrent
  <2> SUFFICES ASSUME RaceInv, fails < 2,
                      NEW a \in Actors, NEW k \in Conns,
                      pc[a] = "send", ch[a] = k, watcher[k] = "wait"
               PROVE  k = nconn
    BY DEF RaceInv, Inv, StopIsCurrent, ReceivedIsCurrent
  <2>1. CASE a = RUN
    BY <2>1 DEF RaceInv, OneErring
  <2>2. CASE a # RUN
    BY <2>2, ActorFacts DEF RaceInv, OneErring, Inv, FieldIsCurrent
  <2> QED BY <2>1, <2>2
<1> QED BY <1>1, RaceInit, RaceNext, PTL DEF Spec
=============================================================================
