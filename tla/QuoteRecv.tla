------------------------------- MODULE QuoteRecv -------------------------------
(***************************************************************************)
(* The receiver process cmd/QuoteRecvSerivce above its connections: the    *)
(* services of all streams, the snapshot manager and the fan-out.          *)
(*                                                                         *)
(* Each stream (trades, order-book increments, depth, klines, aggregated   *)
(* trades) has a manager that splits the symbols over services. A service  *)
(* keeps a connection, whose reader hands every event to the fan-out. The  *)
(* services of the five streams have the same methods (the map names a     *)
(* different one for each action); that of the increments also asks for a  *)
(* snapshot of each of its symbols after every connect. How a service      *)
(* replaces its connection, and how that can go wrong, is the subject of   *)
(* RecvService; here reset and doConnect are one step, and one connection  *)
(* of a service at a time gets events, which is an assumption: after a     *)
(* failure RecvService!OneConnection need not hold. The reader of a closed *)
(* connection goes on with the frames that it has in its buffer.           *)
(*                                                                         *)
(* The snapshot manager serves the requests one at a time, under a mutex.  *)
(* Everything leaves through the channel msgCh of the fan-out manager.     *)
(***************************************************************************)
EXTENDS Integers, SequencesExt

CONSTANTS Symbols,              \* controller.tradingSymbols
          Streams,              \* the streams switched on in the configuration
          MaxSymbolNumPerConn,  \* symbols per service
          DataEncodeType,       \* "GOB" or "PB"
          ChanCap,              \* size of msgCh
          MaxList,              \* bound: lists and slice sizes in Subscribed
          MaxEvents,            \* bound: number of events of the exchange
          MaxRounds             \* bound: connects, and rounds of the snapshot timer

ASSUME SymbolsAssumption == IsFiniteSet(Symbols)
ASSUME StreamsAssumption ==
  "inc" \in Streams /\ Streams \subseteq {"trade", "depth", "inc", "kline", "aggtrade"}
ASSUME SplitAssumption == MaxSymbolNumPerConn \in Nat \ {0}
ASSUME ChanAssumption  == ChanCap \in Nat \ {0}
ASSUME RecvAssumption  == MaxList \in Nat /\ MaxEvents \in Nat /\ MaxRounds \in Nat

VARIABLES
  services,  \* per stream: the symbols of each of its services
  events,    \* the exchange: number of the newest event per stream and symbol
  alive,     \* per service: its connection works
  conn,      \* per service: number of connections so far
  wire,      \* per service: events on the connection that are not read yet
  late,      \* the frames in the buffers of readers of closed connections
  via,       \* history: the connection on which each event was sent
  msgCh,     \* the channel: buffered messages, then those of blocked senders
  out,       \* history: what went to the zmq sockets, per kind and symbol
  asked,     \* per symbol: snapshot requests that have not got the mutex
  task,      \* the goroutine that holds the mutex, see Tasks
  timers,    \* how often the timer fired
  base,      \* history, per symbol: newest increment when its service dialled
  failed     \* history: symbols with a failed request since they were asked for

services_ == <<services, alive, conn, wire, late, via>>
snapshots == <<asked, task, timers, failed>>
vars == <<services_, events, msgCh, out, snapshots, base>>

-----------------------------------------------------------------------------
\* Mutant: a last slice that is not full is left empty.
SplitFull(arr, sliceSize) ==
  [i \in 1 .. (Len(arr) + sliceSize - 1) \div sliceSize |->
     IF i * sliceSize > Len(arr) THEN <<>>
     ELSE SubSeq(arr, (i - 1) * sliceSize + 1, i * sliceSize)]

splitArrayBySliceSize(arr, sliceSize) ==
  [i \in 1 .. (Len(arr) + sliceSize - 1) \div sliceSize |->
     SubSeq(arr, (i - 1) * sliceSize + 1,
            IF i * sliceSize > Len(arr) THEN Len(arr) ELSE i * sliceSize)]

\* A service is named by its stream and its number.
NServices == (Cardinality(Symbols) + MaxSymbolNumPerConn - 1) \div MaxSymbolNumPerConn
Services  == Streams \X (1 .. NServices)

\* The symbols of each service of a manager.
Open(symbols) ==
  LET symarr_list == splitArrayBySliceSize(symbols, MaxSymbolNumPerConn)
  IN  [n \in 1 .. NServices |-> ToSet(symarr_list[n])]

SymbolsOf(s) == services[s[1]][s[2]]

\* An event of the exchange, and the message the controller makes of it.
Event(st, sym, n) == [stream |-> st, symbol |-> sym, n |-> n]

QuoteType == [trade |-> "Trade", depth |-> "Depth", inc |-> "OrderIncrement",
              kline |-> "Kline", aggtrade |-> "AggTrade"]

QuoteMessage(e) == [type |-> QuoteType[e.stream], symbol |-> e.symbol, id |-> e.n]

\* LastUpdateID of a snapshot is the number of the newest increment in it.
SnapShotMessage(sym, id) == [type |-> "SnapShot", symbol |-> sym, id |-> id]

Types == {QuoteType[st] : st \in Streams} \cup {"SnapShot"}

(***************************************************************************)
(* What a consumer of the zmq sockets gets of a message. The bytes of gob  *)
(* name the type of the quote. Those of PB do not, and those of a depth,   *)
(* an increment, a trade or a snapshot do not name the symbol either: both *)
(* are the topic.                                                          *)
(***************************************************************************)
Topic == [Trade |-> "trade", Depth |-> "depth", OrderIncrement |-> "inc",
          Kline |-> "kline", AggTrade |-> "aggtrade", SnapShot |-> "snapshot"]

encodePb(m)  == [kind |-> Topic[m.type], symbol |-> m.symbol, id |-> m.id]
encodeGob(m) == [kind |-> m.type, symbol |-> m.symbol, id |-> m.id]

Encoded(m) == IF DataEncodeType = "PB" THEN encodePb(m) ELSE encodeGob(m)

Kinds == {Encoded(SnapShotMessage("none", 0)).kind} \cup
         {Encoded(QuoteMessage(Event(st, "none", 0))).kind : st \in Streams}

\* Without a known encoding nothing is sent.
fanout(m) ==
  IF DataEncodeType \in {"GOB", "PB"}
  THEN LET d == Encoded(m) IN [out EXCEPT ![d.kind][d.symbol] = Append(@, d.id)]
  ELSE out

Snapper == <<<<"snapshot", 0>>, 0>>
NoTask  == [step |-> "free", symbol |-> "none", id |-> 0]

(***************************************************************************)
(* A sender whose message is not in the buffer yet is blocked. Go serves   *)
(* the blocked senders of a channel first come, first served.              *)
(***************************************************************************)
Blocked(by) == \E i \in ChanCap + 1 .. Len(msgCh) : msgCh[i].by = by

\* The manager of each stream asks for the keys of a map, in any order.
Init ==
  /\ services \in [Streams -> {Open(order) : order \in SetToSeqs(Symbols)}]
  /\ events = [st \in Streams |-> [sym \in Symbols |-> 0]]
  /\ alive = [s \in Services |-> FALSE]
  /\ conn = [s \in Services |-> 0]
  /\ wire = [s \in Services |-> <<>>]
  /\ late = {}
  /\ via = [st \in Streams |-> [sym \in Symbols |-> <<>>]]
  /\ msgCh = <<>>
  /\ out = [kind \in Kinds |-> [sym \in Symbols |-> <<>>]]
  /\ asked = [sym \in Symbols |-> 0]
  /\ task = NoTask
  /\ timers = 0
  /\ base = [sym \in Symbols |-> 0]
  /\ failed = {}

-----------------------------------------------------------------------------
(* The exchange *)

Sum(f) == FoldFunction(LAMBDA x, y : x + y, 0, f)

\* Number of events so far.
Total == FoldFunction(LAMBDA f, n : n + Sum(f), 0, events)

\* An event reaches the connection that is subscribed to it, if there is one.
Publish(s, sym) ==
  /\ Total < MaxEvents
  /\ sym \in SymbolsOf(s)
  /\ events' = [events EXCEPT ![s[1]][sym] = @ + 1]
  /\ wire' = IF alive[s]
             THEN [wire EXCEPT ![s] = Append(@, Event(s[1], sym, events[s[1]][sym] + 1))]
             ELSE wire
  /\ via' = [via EXCEPT ![s[1]][sym] = Append(@, conn[s])]
  /\ UNCHANGED <<services, alive, conn, late, msgCh, out, snapshots, base>>

\* The connection breaks. Its reader, which calls error and so reset, has read
\* what it had in its buffer; the rest is lost.
Lost(s) ==
  /\ alive[s]
  /\ alive' = [alive EXCEPT ![s] = FALSE]
  /\ wire' = [wire EXCEPT ![s] = <<>>]
  /\ UNCHANGED <<services, conn, late, via, events, msgCh, out, snapshots, base>>

-----------------------------------------------------------------------------
(* A service *)

(***************************************************************************)
(* run finds that nothing has come for too long, or that error has set     *)
(* the time to 0: reset and doConnect. A dial that fails is repeated; this *)
(* is the one that succeeds. Events during the dial are lost, as they are  *)
(* between Lost and this step. Closing the old connection does not take    *)
(* the frames in its reader's buffer, some of those not read so far.       *)
(***************************************************************************)
Reconnect(s) ==
  /\ timers + Sum(conn) < MaxRounds
  /\ alive' = [alive EXCEPT ![s] = TRUE]
  /\ conn' = [conn EXCEPT ![s] = @ + 1]
  /\ wire' = [wire EXCEPT ![s] = <<>>]
  /\ \E n \in 0 .. Len(wire[s]) :
       late' = late \cup {[by |-> <<s, conn[s]>>, event |-> wire[s][i]] : i \in 1 .. n}
  /\ UNCHANGED <<services, via, events, msgCh, out>>

Connect(s) == s[1] # "inc" /\ Reconnect(s) /\ UNCHANGED <<snapshots, base>>

\* f with one more for each of the symbols syms.
Plus(f, syms) == [sym \in Symbols |-> f[sym] + IF sym \in syms THEN 1 ELSE 0]

\* Mutant: only the first connect asks for snapshots.
ConnectIncOnce(s) ==
  /\ s[1] = "inc"
  /\ Reconnect(s)
  /\ asked' = IF conn[s] = 0 THEN Plus(asked, SymbolsOf(s)) ELSE asked
  /\ base' = [sym \in Symbols |-> IF sym \in SymbolsOf(s) THEN events["inc"][sym] ELSE base[sym]]
  /\ failed' = failed \ SymbolsOf(s)
  /\ UNCHANGED <<task, timers>>

(***************************************************************************)
(* With RecvSnapShotEnable the service of the increments then asks for a   *)
(* snapshot of each of its symbols. doSnapShot starts a goroutine for the  *)
(* request, so the service does not wait.                                  *)
(***************************************************************************)
ConnectInc(s) ==
  /\ s[1] = "inc"
  /\ Reconnect(s)
  /\ asked' = Plus(asked, SymbolsOf(s))
  /\ base' = [sym \in Symbols |-> IF sym \in SymbolsOf(s) THEN events["inc"][sym] ELSE base[sym]]
  /\ failed' = failed \ SymbolsOf(s)
  /\ UNCHANGED <<task, timers>>

\* Mutant: a goroutine per event, the reader does not wait.
HandlerSpawns(s) ==
  /\ wire[s] # <<>>
  /\ wire' = [wire EXCEPT ![s] = Tail(@)]
  /\ msgCh' = Append(msgCh, [by |-> <<s, conn[s]>>, msg |-> QuoteMessage(Head(wire[s]))])
  /\ UNCHANGED <<services, alive, conn, late, via, events, out, snapshots, base>>

\* The reader of the connection calls handler, which waits for the channel.
Handler(s) ==
  /\ wire[s] # <<>>
  /\ ~Blocked(<<s, conn[s]>>)
  /\ wire' = [wire EXCEPT ![s] = Tail(@)]
  /\ msgCh' = Append(msgCh, [by |-> <<s, conn[s]>>, msg |-> QuoteMessage(Head(wire[s]))])
  /\ UNCHANGED <<services, alive, conn, late, via, events, out, snapshots, base>>

(***************************************************************************)
(* The same for the reader of a closed connection, which does not know     *)
(* that it is closed before its buffer is empty. It takes the frames of a  *)
(* symbol in order; the order between symbols is left open.                *)
(***************************************************************************)
LateHandler(x) ==
  /\ \A y \in late :
       y.by = x.by /\ y.event.symbol = x.event.symbol => x.event.n <= y.event.n
  /\ ~Blocked(x.by)
  /\ late' = late \ {x}
  /\ msgCh' = Append(msgCh, [by |-> x.by, msg |-> QuoteMessage(x.event)])
  /\ UNCHANGED <<services, alive, conn, wire, via, events, out, snapshots, base>>

-----------------------------------------------------------------------------
(* The fan-out *)

\* Mutant: a goroutine per message, which may be overtaken by the next one.
FanOutSpawns ==
  /\ msgCh # <<>>
  /\ \E i \in {1, 2} \cap DOMAIN msgCh :
       /\ out' = fanout(msgCh[i].msg)
       /\ msgCh' = RemoveAt(msgCh, i)
  /\ UNCHANGED <<services_, events, snapshots, base>>

\* A message goes to every socket; a failed send is logged.
FanOut ==
  /\ msgCh # <<>>
  /\ out' = fanout(Head(msgCh).msg)
  /\ msgCh' = Tail(msgCh)
  /\ UNCHANGED <<services_, events, snapshots, base>>

-----------------------------------------------------------------------------
(* The snapshot manager *)

\* The timer of run: a request for every symbol.
SnapTimer ==
  /\ timers + Sum(conn) < MaxRounds
  /\ timers' = timers + 1
  /\ asked' = Plus(asked, Symbols)
  /\ UNCHANGED <<services_, events, msgCh, out, task, base, failed>>

\* Mutant: a request waits for the connection of its symbol.
SnapLockAlive(sym) ==
  /\ \E s \in Services : s[1] = "inc" /\ sym \in SymbolsOf(s) /\ alive[s]
  /\ asked[sym] > 0
  /\ task = NoTask /\ ~Blocked(Snapper)
  /\ asked' = [asked EXCEPT ![sym] = @ - 1]
  /\ task' = [step |-> "request", symbol |-> sym, id |-> 0]
  /\ UNCHANGED <<services_, events, msgCh, out, timers, base, failed>>

(***************************************************************************)
(* doSnapShot sends the symbol to snapShotChan from a goroutine, and run   *)
(* starts one for each symbol it takes. Neither waits for another request, *)
(* so the requests reach the mutex in any order, whatever the channel's    *)
(* size: mgr.mtx.Lock() and the wait between two requests.                 *)
(***************************************************************************)
SnapLock(sym) ==
  /\ asked[sym] > 0
  /\ task = NoTask /\ ~Blocked(Snapper)
  /\ asked' = [asked EXCEPT ![sym] = @ - 1]
  /\ task' = [step |-> "request", symbol |-> sym, id |-> 0]
  /\ UNCHANGED <<services_, events, msgCh, out, timers, base, failed>>

\* The exchange answers with its order book at this moment.
SnapResponse ==
  /\ task.step = "request"
  /\ task' = [task EXCEPT !.step = "response", !.id = events["inc"][task.symbol]]
  /\ UNCHANGED <<services_, events, msgCh, out, asked, timers, base, failed>>

\* The request fails: it is not repeated.
SnapError ==
  /\ task.step = "request"
  /\ task' = NoTask
  /\ failed' = failed \cup {task.symbol}
  /\ UNCHANGED <<services_, events, msgCh, out, asked, timers, base>>

\* The deferred Unlock follows when the channel has taken the message.
SnapSend ==
  /\ task.step = "response"
  /\ task' = NoTask
  /\ msgCh' = Append(msgCh, [by |-> Snapper, msg |-> SnapShotMessage(task.symbol, task.id)])
  /\ UNCHANGED <<services_, events, out, asked, timers, base, failed>>

-----------------------------------------------------------------------------
Service(s) == \/ Connect(s) \/ ConnectInc(s) \/ Handler(s)

SnapTask == SnapResponse \/ SnapError \/ SnapSend

Snapshot == \/ SnapTimer
            \/ \E sym \in Symbols : SnapLock(sym)
            \/ SnapTask

Next == \/ \E s \in Services : Service(s) \/ Lost(s) \/ \E sym \in Symbols : Publish(s, sym)
        \/ \E x \in late : LateHandler(x)
        \/ FanOut
        \/ Snapshot

Spec == Init /\ [][Next]_vars

(***************************************************************************)
(* The goroutines of the manager and of the fan-out keep running, a mutex  *)
(* does not starve a waiter, and a request for a snapshot has an end.      *)
(***************************************************************************)
FairSpec ==
  /\ Spec
  /\ WF_vars(FanOut)
  /\ WF_vars(SnapTask)
  /\ \A sym \in Symbols : SF_vars(SnapLock(sym))

-----------------------------------------------------------------------------
(* Properties *)

Messages == [type : Types, symbol : Symbols, id : Nat]

\* Every goroutine has at most one message that msgCh has not taken.
TypeOK ==
  /\ services \in [Streams -> Seq(SUBSET Symbols)]
  /\ events \in [Streams -> [Symbols -> Nat]]
  /\ alive \in [Services -> BOOLEAN]
  /\ conn \in [Services -> Nat]
  /\ \A s \in Services : \A i \in DOMAIN wire[s] : wire[s][i].stream = s[1]
  /\ \A x \in late : /\ x.by[1] \in Services /\ x.by[2] \in Nat
                     /\ x.event.stream = x.by[1][1] /\ x.event.symbol \in SymbolsOf(x.by[1])
  /\ via \in [Streams -> [Symbols -> Seq(Nat)]]
  /\ \A i \in DOMAIN msgCh : msgCh[i].msg \in Messages
  /\ \A i, j \in ChanCap + 1 .. Len(msgCh) : msgCh[i].by = msgCh[j].by => i = j
  /\ out \in [Kinds -> [Symbols -> Seq(Nat)]]
  /\ asked \in [Symbols -> Nat]
  /\ task \in [step : {"request", "response"}, symbol : Symbols, id : Nat]
              \cup {NoTask}
  /\ timers \in Nat
  /\ base \in [Symbols -> Nat]
  /\ failed \subseteq Symbols

\* Each of n places of a list is in exactly one slice, and no slice is too long.
CutsWell(n, size) ==
  LET slices == splitArrayBySliceSize([x \in 1 .. n |-> x], size)
  IN  /\ \A x \in 1 .. n : \E i \in DOMAIN slices :
           {j \in DOMAIN slices : x \in ToSet(slices[j])} = {i}
      /\ \A i \in DOMAIN slices : Len(slices[i]) <= size

\* Lists that fill the last slice and lists that do not, up to the bound.
SplitsWell == \A n \in 0 .. MaxList, size \in 1 .. MaxList : CutsWell(n, size)

(***************************************************************************)
(* splitArrayBySliceSize gives every symbol to exactly one service of each *)
(* stream, and no service more symbols than a connection may carry; and it *)
(* does so for lists of other lengths and connections of other sizes than  *)
(* those at hand.                                                          *)
(***************************************************************************)
Subscribed ==
  /\ SplitsWell
  /\ \A st \in Streams :
       /\ \A sym \in Symbols : \E i \in 1 .. NServices :
            {j \in 1 .. NServices : sym \in SymbolsOf(<<st, j>>)} = {i}
       /\ \A i \in 1 .. NServices : Cardinality(services[st][i]) <= MaxSymbolNumPerConn

\* The fan-out has, or has had, the message m.
Passed(m) == \/ \E i \in DOMAIN msgCh : msgCh[i].msg = m
             \/ m.id \in ToSet(out[Encoded(m).kind][m.symbol])

\* No request for symbol sym is under way.
Settled(sym) == asked[sym] = 0 /\ task.symbol # sym

(***************************************************************************)
(* A consumer can rebuild the order book after every reconnect: once the   *)
(* requests are served, there is a snapshot that is not older than the     *)
(* connection, and every increment since then is on its way or published.  *)
(* It takes the order dial, request, response of doConnect and the manager *)
(* against events of the exchange at any moment.                           *)
(***************************************************************************)
BookRebuildable ==
  \A s \in Services : \A sym \in SymbolsOf(s) :
    /\ s[1] = "inc"
    /\ alive[s]
    /\ Settled(sym)
    /\ sym \notin failed
    => /\ \E id \in base[sym] .. events["inc"][sym] : Passed(SnapShotMessage(sym, id))
       /\ \A n \in base[sym] + 1 .. events["inc"][sym] :
            LET e == Event("inc", sym, n)
            IN  e \in ToSet(wire[s]) \/ Passed(QuoteMessage(e))

\* The events of a stream and symbol that left.
Left(st, sym) == out[Encoded(QuoteMessage(Event(st, sym, 0))).kind][sym]

\* Event a may leave before event b: they differ, and are in order if they were
\* sent on the same connection; sent is the part of via for their symbol.
InOrder(sent, a, b) == a # b /\ (sent[a] = sent[b] => a < b)

(***************************************************************************)
(* No event of a stream and symbol leaves twice, and those of a connection *)
(* leave in the order of the exchange, although readers of several         *)
(* connections of a service wait for the channel. The events of two        *)
(* connections may change places: the reader that was slow enough for the  *)
(* timeout still has older frames when its successor's first ones wait. It *)
(* takes one connection with events; a second one would repeat them.       *)
(***************************************************************************)
StreamInOrder ==
  \A st \in Streams, sym \in Symbols :
    \A i, j \in DOMAIN Left(st, sym) :
      i < j => InOrder(via[st][sym], Left(st, sym)[i], Left(st, sym)[j])

(***************************************************************************)
(* A symbol whose request waits gets its turn at the mutex: whoever holds  *)
(* it gives it back, after a response or an error and however long the     *)
(* channel is full. It does not say that the queue gets shorter: the timer *)
(* adds a request per symbol and round without looking at it.              *)
(***************************************************************************)
SnapshotsServed == \A sym \in Symbols : asked[sym] > 0 ~> task.symbol = sym
=============================================================================
