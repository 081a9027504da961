----------------------------- MODULE RecvService -----------------------------
(***************************************************************************)
(* A receiver service of cmd/QuoteRecvSerivce (WsTradeService,             *)
(* market_trade.go): it keeps one websocket connection to the exchange and *)
(* replaces it when it fails or when nothing was received for              *)
(* RecvTradeReconnectTimeout seconds.                                      *)
(*                                                                         *)
(* Three kinds of goroutine share the fields stopC and lastest_update_time *)
(* without a lock:                                                         *)
(*   run       looks at lastest_update_time every second, resets and       *)
(*             connects;                                                   *)
(*   a reader  per connection, in go-binance's wsServe: calls handler for  *)
(*             a message, error when reading fails or a message cannot be  *)
(*             parsed, and closes doneC when it ends;                      *)
(*   a watcher per connection, in wsServe: waits for stopC or doneC and    *)
(*             closes the connection.                                      *)
(* reset is called by run and by error. It sends to the unbuffered channel *)
(* stopC, so it waits until the watcher receives.                          *)
(*                                                                         *)
(* A connection, and its stopC channel, is the number of its dial; 0 is    *)
(* nil. Of the time only matters whether the timeout has passed.           *)
(***************************************************************************)
EXTENDS Integers

CONSTANTS MaxConn,   \* bound: number of connections that are dialled
          MaxFail    \* bound: number of failures of a connection

ASSUME RecvBounds == MaxConn \in Nat /\ MaxFail \in Nat

VARIABLES
  stopC,    \* ds.stopC
  expired,  \* now - lastest_update_time > RecvTradeReconnectTimeout
  pc,       \* next step of run (actor 0) and of each reader
  ch,       \* the channel on which an actor sends the stop, 0 if nil
  nconn,    \* number of connections so far
  socket,   \* per connection: "none", "open", "closed"
  watcher,  \* per connection: "off", "wait", "stopping", "done"
  silent,   \* per connection: wsServe's flag
  ends,     \* per connection: the reader ends after the call of error
  fails     \* failures so far

conns == <<nconn, socket, watcher, silent>>
vars  == <<stopC, expired, pc, ch, conns, ends, fails>>

Conns   == 1 .. MaxConn
RUN     == 0
Readers == Conns
Actors  == {RUN} \cup Readers

\* Places where a goroutine waits; between them it runs without a pause.
Waits == {"off", "timer", "connect", "send", "read", "handler", "sleep", "done"}
Steps == {"check", "eval", "clear", "store0", "assign", "store"}

Init ==
  /\ stopC = 0
  /\ expired = TRUE
  /\ pc = [a \in Actors |-> IF a = RUN THEN "timer" ELSE "off"]
  /\ ch = [a \in Actors |-> 0]
  /\ nconn = 0
  /\ socket = [k \in Conns |-> "none"]
  /\ watcher = [k \in Conns |-> "off"]
  /\ silent = [k \in Conns |-> FALSE]
  /\ ends = [k \in Conns |-> FALSE]
  /\ fails = 0

Goto(a, label) == pc' = [pc EXCEPT ![a] = label]

\* An actor waits, and what it waits for has not happened.
Resting(a) ==
  /\ pc[a] \in Waits
  /\ pc[a] = "send" => \A k \in Conns : ch[a] = k => watcher[k] # "wait"
  /\ pc[a] = "read" => socket[a] = "open"

(***************************************************************************)
(* The timeout passes while every goroutine waits: it is a matter of       *)
(* seconds, the steps between two waits are not.                           *)
(***************************************************************************)
Expire ==
  /\ ~expired
  /\ \A a \in Actors : Resting(a)
  /\ \A k \in Conns : watcher[k] # "stopping"
  /\ expired' = TRUE
  /\ UNCHANGED <<stopC, pc, ch, conns, ends, fails>>

-----------------------------------------------------------------------------
(* reset, called by run and by the readers *)

\* Mutant: the connection is not told to stop.
ResetCheckOnly(a) ==
  /\ pc[a] = "check"
  /\ Goto(a, "clear")
  /\ UNCHANGED <<stopC, expired, ch, conns, ends, fails>>

\* if ds.stopC != nil
ResetCheck(a) ==
  /\ pc[a] = "check"
  /\ Goto(a, IF stopC # 0 THEN "eval" ELSE "clear")
  /\ UNCHANGED <<stopC, expired, ch, conns, ends, fails>>

\* Mutant: the field is cleared before it is used for the send.
ResetEvalCleared(a) ==
  /\ pc[a] = "eval"
  /\ stopC' = 0
  /\ ch' = [ch EXCEPT ![a] = 0]
  /\ Goto(a, "send")
  /\ UNCHANGED <<expired, conns, ends, fails>>

\* ds.stopC <- struct{}{}: the field is read once more ...
ResetEval(a) ==
  /\ pc[a] = "eval"
  /\ ch' = [ch EXCEPT ![a] = stopC]
  /\ Goto(a, "send")
  /\ UNCHANGED <<stopC, expired, conns, ends, fails>>

\* ... and the send waits for the watcher of that channel.
ResetSend(a, k) ==
  /\ pc[a] = "send"
  /\ ch[a] = k
  /\ watcher[k] = "wait"
  /\ watcher' = [watcher EXCEPT ![k] = "stopping"]
  /\ ch' = [ch EXCEPT ![a] = 0]
  /\ Goto(a, "clear")
  /\ UNCHANGED <<stopC, expired, nconn, socket, silent, ends, fails>>

\* Mutant: the channel of the old connection is kept.
ResetClearNot(a) ==
  /\ pc[a] = "clear"
  /\ Goto(a, "store0")
  /\ UNCHANGED <<stopC, expired, ch, conns, ends, fails>>

\* ds.doneC = nil; ds.stopC = nil
ResetClear(a) ==
  /\ pc[a] = "clear"
  /\ stopC' = 0
  /\ Goto(a, "store0")
  /\ UNCHANGED <<expired, ch, conns, ends, fails>>

\* lastest_update_time.Store(0); run goes on with doConnect, error sleeps.
ResetStore(a) ==
  /\ pc[a] = "store0"
  /\ expired' = TRUE
  /\ Goto(a, IF a = RUN THEN "connect" ELSE "sleep")
  /\ UNCHANGED <<stopC, ch, conns, ends, fails>>

Reset(a) == \/ ResetCheck(a)
            \/ ResetEval(a)
            \/ \E k \in Conns : ResetSend(a, k)
            \/ ResetClear(a)
            \/ ResetStore(a)

-----------------------------------------------------------------------------
(* run and doConnect *)

RunTimeout ==
  /\ pc[RUN] = "timer"
  /\ expired
  /\ Goto(RUN, "check")
  /\ UNCHANGED <<stopC, expired, ch, conns, ends, fails>>

\* Mutant: a dial that fails ends the loop like one that succeeds.
ConnectErrorBreaks ==
  /\ pc[RUN] = "connect"
  /\ stopC' = 0
  /\ Goto(RUN, "store")
  /\ UNCHANGED <<expired, ch, conns, ends, fails>>

\* The dial fails: the results are nil, and it is tried again after a sleep.
ConnectError ==
  /\ pc[RUN] = "connect"
  /\ stopC' = 0
  /\ UNCHANGED <<expired, pc, ch, conns, ends, fails>>

\* wsServe has dialled and has started its goroutines.
Connect ==
  /\ pc[RUN] = "connect"
  /\ nconn < MaxConn
  /\ LET k == nconn + 1
     IN  /\ nconn' = k
         /\ socket' = [socket EXCEPT ![k] = "open"]
         /\ watcher' = [watcher EXCEPT ![k] = "wait"]
         /\ pc' = [pc EXCEPT ![RUN] = "assign", ![k] = "read"]
  /\ UNCHANGED <<stopC, expired, ch, silent, ends, fails>>

\* ds.doneC, ds.stopC, ds.err = ...
ConnectAssign ==
  /\ pc[RUN] = "assign"
  /\ stopC' = nconn
  /\ Goto(RUN, "store")
  /\ UNCHANGED <<expired, ch, conns, ends, fails>>

ConnectStore ==
  /\ pc[RUN] = "store"
  /\ expired' = FALSE
  /\ Goto(RUN, "timer")
  /\ UNCHANGED <<stopC, ch, conns, ends, fails>>

-----------------------------------------------------------------------------
(* The goroutines of wsServe *)

\* A message: handler notes the time and hands the event to the controller.
Handler(k) ==
  /\ pc[k] = "read"
  /\ socket[k] = "open"
  /\ expired' = FALSE
  /\ Goto(k, "handler")
  /\ UNCHANGED <<stopC, ch, conns, ends, fails>>

\* The event is in the channel of the fanout manager, which may be full.
HandlerEnd(k) ==
  /\ pc[k] = "handler"
  /\ Goto(k, "read")
  /\ UNCHANGED <<stopC, expired, ch, conns, ends, fails>>

\* A message that cannot be parsed: error is called, the reader goes on.
ParseError(k) ==
  /\ fails < MaxFail
  /\ pc[k] = "read"
  /\ socket[k] = "open"
  /\ fails' = fails + 1
  /\ Goto(k, "check")
  /\ UNCHANGED <<stopC, expired, ch, conns, ends>>

\* The connection breaks.
SocketFail(k) ==
  /\ fails < MaxFail
  /\ socket[k] = "open"
  /\ fails' = fails + 1
  /\ socket' = [socket EXCEPT ![k] = "closed"]
  /\ UNCHANGED <<stopC, expired, pc, ch, nconn, watcher, silent, ends>>

\* ReadMessage fails: error is called unless the watcher closed the connection.
ReadError(k) ==
  /\ pc[k] = "read"
  /\ socket[k] = "closed"
  /\ ends' = [ends EXCEPT ![k] = TRUE]
  /\ Goto(k, IF silent[k] THEN "done" ELSE "check")
  /\ UNCHANGED <<stopC, expired, ch, conns, fails>>

\* error returns after WaitTimeReconnect seconds.
SleepEnd(k) ==
  /\ pc[k] = "sleep"
  /\ Goto(k, IF ends[k] THEN "done" ELSE "read")
  /\ UNCHANGED <<stopC, expired, ch, conns, ends, fails>>

\* case <-stopC: silent = true; c.Close()
WatcherStop(k) ==
  /\ watcher[k] = "stopping"
  /\ watcher' = [watcher EXCEPT ![k] = "done"]
  /\ silent' = [silent EXCEPT ![k] = TRUE]
  /\ socket' = [socket EXCEPT ![k] = "closed"]
  /\ UNCHANGED <<stopC, expired, pc, ch, nconn, ends, fails>>

\* case <-doneC: the reader has ended.
WatcherDone(k) ==
  /\ watcher[k] = "wait"
  /\ pc[k] = "done"
  /\ watcher' = [watcher EXCEPT ![k] = "done"]
  /\ socket' = [socket EXCEPT ![k] = "closed"]
  /\ UNCHANGED <<stopC, expired, pc, ch, nconn, silent, ends, fails>>

-----------------------------------------------------------------------------
Run == RunTimeout \/ ConnectError \/ Connect \/ ConnectAssign \/ ConnectStore

Reader(k) == \/ Handler(k) \/ HandlerEnd(k) \/ ParseError(k)
             \/ ReadError(k) \/ SleepEnd(k)

Watcher(k) == WatcherStop(k) \/ WatcherDone(k)

Next == \/ Expire
        \/ \E a \in Actors : Reset(a)
        \/ Run
        \/ \E k \in Conns : Reader(k) \/ SocketFail(k) \/ Watcher(k)

Spec == Init /\ [][Next]_vars

(***************************************************************************)
(* Every goroutine that can go on does, and the exchange can eventually be *)
(* dialled. Messages, failures and timeouts need not happen.               *)
(***************************************************************************)
FairSpec ==
  /\ Spec
  /\ WF_vars(RunTimeout)
  /\ WF_vars(Connect)
  /\ WF_vars(ConnectAssign)
  /\ WF_vars(ConnectStore)
  /\ \A a \in Actors : WF_vars(Reset(a))
  /\ \A k \in Conns : /\ WF_vars(HandlerEnd(k))
                      /\ WF_vars(ReadError(k))
                      /\ WF_vars(SleepEnd(k))
                      /\ WF_vars(Watcher(k))

-----------------------------------------------------------------------------
(* Properties *)

(***************************************************************************)
(* Types; a service that never had a connection has the update time 0, so  *)
(* run's test of the timeout is true until the first dial succeeds.        *)
(***************************************************************************)
TypeOK ==
  /\ stopC \in 0 .. nconn
  /\ expired \in BOOLEAN
  /\ pc \in [Actors -> Waits \cup Steps]
  /\ ch \in [Actors -> 0 .. MaxConn]
  /\ nconn \in 0 .. MaxConn
  /\ socket \in [Conns -> {"none", "open", "closed"}]
  /\ watcher \in [Conns -> {"off", "wait", "stopping", "done"}]
  /\ silent \in [Conns -> BOOLEAN]
  /\ ends \in [Conns -> BOOLEAN]
  /\ fails \in 0 .. MaxFail
  /\ nconn = 0 => expired

\* The channel in the field is the latest connection's.
FieldIsCurrent ==
  stopC # 0 => stopC = nconn /\ pc[RUN] \notin {"connect", "assign"}

\* A stop whose receiver waits is meant for the latest connection.
ReceivedIsCurrent ==
  \A a \in Actors, k \in Conns :
    pc[a] = "send" /\ ch[a] = k /\ watcher[k] = "wait" => k = nconn

(***************************************************************************)
(* Whom a reset stops. stopC is nil or the channel of the latest           *)
(* connection, and nil while run dials. A goroutine may still hold an      *)
(* older channel in its send, but that send finds no receiver as long as   *)
(* not more than one failure occurred: a stop that is received ends the    *)
(* latest connection. (With two failures, a reader that sends to           *)
(* connection k can be overtaken by another reader's assignment of nil,    *)
(* which lets run dial k + 1 with the watcher of k still waiting.)         *)
(***************************************************************************)
StopIsCurrent == FieldIsCurrent /\ (fails < 2 => ReceivedIsCurrent)

(***************************************************************************)
(* "disconnect and reconnect" (version.go:38): a connection is stopped     *)
(* before the next one is dialled, so one of them feeds the service. This  *)
(* is so until a connection fails. A reader's error that finds stopC nil   *)
(* before run stores the new channel, and assigns nil after it, makes run  *)
(* forget a working connection; at the next timeout it dials a second one. *)
(***************************************************************************)
OneConnection ==
  \A j, k \in Conns :
    /\ socket[j] = "open" /\ watcher[j] = "wait"
    /\ socket[k] = "open" /\ watcher[k] = "wait"
    => j = k

(***************************************************************************)
(* "no new message in the given time: disconnect and reconnect"            *)
(* (version.go:38): once the timeout has passed, a message arrives or a    *)
(* new connection is made.                                                 *)
(***************************************************************************)
Reconnects ==
  \A n \in 0 .. MaxConn - 1 :
    expired /\ nconn = n ~> ~expired \/ nconn > n

(***************************************************************************)
(* As long as connections only fall silent, run alone calls reset, and     *)
(* both hold: the old connection is stopped before the next is dialled,    *)
(* and a silent service reconnects until a connection fails.               *)
(***************************************************************************)
TimeoutStops == fails = 0 => OneConnection

\* The reconnection after a timeout, up to the first failure of a connection.
TimeoutReconnects ==
  \A n \in 0 .. MaxConn - 1 :
    expired /\ nconn = n ~> ~expired \/ nconn > n \/ fails > 0
=============================================================================
