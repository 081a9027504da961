# A TLA+ model of the Binance quote receiver and aggregator

## 1. The system

The repository holds two services that run as separate processes and talk over
zmq:

    Binance --ws--> QuoteRecvSerivce (several) --zmq pub/sub--> QuoteAggrService
                                                                 |-- kafka / zmq
                                                                 `-- websocket clients

A *receiver* (`cmd/QuoteRecvSerivce`) keeps websocket connections to the exchange
for trades, order-book increments, depth, klines and aggregated trades, requests
order-book snapshots over HTTP, converts every event to the types of
`core/quote.go`, and publishes them on a zmq socket. Several receivers run with
the same subscriptions, so that a quote that one of them misses arrives from
another.

The *aggregator* (`cmd/QuoteAggrService`) subscribes to all receivers, drops
repeated quotes, collects the quotes of every symbol in periods of three seconds,
and publishes one `PeriodMessage` per period to kafka/zmq and to websocket
clients, which may also ask for the recent past.

### 1.1 Inventory

| part | state | operations | what makes it correct |
|---|---|---|---|
| `SymbolDef`, `PeriodNode` (aggregation.go) | list of at most two adjacent periods, per period three maps and three index slices, three lists of early quotes; one mutex per symbol | `put_trade`, `put_inc`, `put_snapshot`, `timeItr`, `detach` | periods adjacent and on the three-second grid; a quote lands in its period, once, or is refused, and what was taken in is published |
| collector and dispatch (controller.go of the aggregator) | clock readings, period number, the message under construction | `timedPeriodCollect`, `onQuoteDataRecv` | symbols advance together; messages leave in order, with the number of their period |
| `WsServer`, `WsClient` (wsserver.go) | register of clients, cache of messages, user list; per client two channels, a buffer, a flag, a socket | `enqueue`, `delivery`, the `/ws` handler, `run`, `send`, `handleMessages`, `onclose`, `kickout`, `reloadUsers` | one stream per user; history and live messages leave no gap; what is given to a client is written to it once (section 4 says where not); a failed client leaves; no client holds up the others (finding 2) |
| `WsTradeService` (market_trade.go) | `stopC`, `lastest_update_time`, no lock | `run`, `reset`, `doConnect`, `handler`, `error` | a silent or broken connection is replaced; one connection at a time |
| orb-inc, depth, kline, aggtrade receivers | as above | as above, orb-inc also asks for a snapshot | as above |
| snapshot manager (market_snapshot.go) | task channel, mutex, timer | `run`, `doSnapShot`, `snapshot` | one request at a time, every symbol gets its turn, and the mutex is given back |
| fan-out of the receiver (fanout.go) | channel of 100 messages | `open`, `fanout`, one encoder per type | every event goes to every socket, once, those of a connection in order |
| quote subscriber (market_drain.go), publisher (market_spout.go, transport) | a SUB socket, an unbuffered channel; the list of producers | `Open`, `quoteDataRecvHandler`; `send` of each producer | the order of every receiver is kept; a producer that fails costs no other outlet a message. `send` visits the producers one after the other without a deadline, so one that hangs stops every later outlet and the collector, but not the intake of quotes |
| monitor (core/qmon.go) | a mutex, one socket | `Open`, `SendStatus`, `SendLog` | silence is reported; warnings keep their distance and are whole |
| start (main.go, controller.go of both services, utils/env.go) | pid file and its lock, exchange information, symbols | `main`, `ProcessOnce`, `init` with its retry loops, `run` | one instance; the symbols the settings ask for; a start that does not hang |
| rate limits (ratelimit.go, both services) | counters per limit and window | `Consume`, the loop of `Open` | a limit is not exceeded and not held for ever; not started by either service |
| websocket API client (core/wsclient.go) | map from requests to channels | `Connect`, `SendMessage`, `Handler`, `AddReqRespChan`, `RemoveReqRespChan` | an answer reaches its caller. Nothing uses this file: the services connect binance-connector-go's `WebsocketAPIClient` and send nothing over it |
| configuration formats, logging, helpers, generated messages | | | I/O, formatting, one-shot work |

### 1.2 How the parts interact

* Receivers and aggregator share nothing but messages; zmq may drop them, and
  two receivers deliver the same quote at different times.
* In the aggregator one goroutine reads quotes (`quoteDataCh` is unbuffered) and
  one collects; they meet in the `SymbolDef`s, each under its mutex, for one call
  at a time. The collector calls `fanoutMgr.send` and `wsserver.enqueue` inside a
  round and is as slow as they are.
* `enqueue` holds the server's mutex while it waits for every client's channel;
  the `/ws` handler, `onclose`, `reloadUsers` and the replay of history want the
  same mutex. A client is four kinds of goroutine that share channels, a buffer
  under its own mutex, and an atomic flag.
* In the receiver, `run` and the goroutines that go-binance starts per connection
  share `stopC` and the time of the last message.

### 1.3 What is hard

Late, early and repeated quotes around period borders; a round that reads the
clock twice and locks symbol after symbol; the hand-over from replayed to live
messages; bounded channels whose reader is also a writer; a kicked client that
unregisters after its successor has registered; a timeout that races a failing
connection over an unbuffered channel; a pid file that is removed after its lock
is gone; two kinds of senders on one socket of which one takes the mutex; an
answer that arrives when its caller has left. `PROJECT.json` lists these hazards at
their lines with the properties aimed at them.

## 2. Modules

| module | models |
|---|---|
| `SymbolDef` | the period buffer as a value: every method is an operator from old to new value, since it holds the mutex from first to last line |
| `PeriodCollect` (extends `SymbolDef`) | the quote goroutine and the collector over all symbols, the wall clock |
| `PeriodFeed` (extends `SymbolDef`) | what a reader of the period messages may rely on; implemented by `PeriodCollect` (`Feed`) |
| `MCPeriodCollect` | the quotes of the runs |
| `PeriodCollectProofs` | proofs about `PeriodCollect`: periods, messages, rounds |
| `PeriodFeedProofs` (extends `PeriodCollectProofs`) | proofs of what `PeriodCollect` promises a consumer, up to the refinement of `PeriodFeed` |
| `WsServer`, `MCWsServer` | the websocket distribution; symmetry and model values |
| `WsServerProofs` | proofs about `WsServer` |
| `RecvService`, `MCRecvService` | a receiver service with the goroutines of `wsServe` |
| `RecvServiceProofs` | proofs about `RecvService` |
| `QuoteRecv`, `MCQuoteRecv` | the receiver process above its connections: the services of all streams, the snapshot manager, the fan-out channel |
| `QuoteRecvProofs` | proofs about `QuoteRecv` |
| `Monitor` | the service monitor: status reports and warnings on one socket |
| `QuotePath` (extends `Monitor`), `MCQuotePath` | the way of a quote between and around the other modules: sockets, drain, handler, producers, warnings |
| `QuotePathProofs` | proofs about `QuotePath` and `Monitor` |
| `ServiceStart`, `MCServiceStart` | start and end of the processes of both services |
| `ServiceStartProofs` | proofs about `ServiceStart` |
| `RateLimit` | the rate limits |
| `ApiClient` (extends `RateLimit`), `MCApiClient` | the websocket API client behind the rate limits |
| `ApiClientProofs` | proofs about `ApiClient` and `RateLimit` |

### 2.1 SymbolDef and PeriodCollect

A quote is its kind, event time and identifier; prices and quantities are copied
by the code and not modelled. `GetId` keeps the code's choice of key: the id of a
trade, the event time of an increment or snapshot. The three `put_` methods share
the operator `Put`; `put_snapshot` differs in the map it consults for the front
period. The loops of `detach` remove the element they stand on and then ask it
for its successor, which `container/list` has cleared: the loops end with the
first match (`SweepPending`, `SweepIndex`).

A round of `timedPeriodCollect` is `CollectBegin` (first clock reading),
`CollectBorn` (second reading, number of the period, start for symbols without
a period), one `CollectSymbol` per symbol in any order, and `CollectPublish` or
`CollectEmpty`. `RecvQuote` and `Tick` interleave with all of them. `PeriodAt`
keeps the truncation to whole seconds before the division. `accepted`, `delivered`
and `sent` are history variables. Left out: quotes of unknown symbols and of the
type Depth, which change nothing; `PostTs`; marshalling errors; steps of the wall
clock backwards. Symbols are loaded once, before the goroutines start
(`ServiceStart`); the warning about silence is in `QuotePath`.

`PeriodFeed` is what is left of this for a consumer: quotes are taken in, and
messages leave, period by period, that carry quotes taken in before, each trade
and increment at most once in a message, and a quote of an earlier message again
only where it is a late one of the period just before. Snapshots may repeat
themselves. `Feed` maps `taken` to `accepted` and `out` to `sent`; every other step
of `PeriodCollect` is a stutter.

### 2.2 WsServer

A message is its number. `EnqueueBegin`, `Delivery` and `EnqueueEnd` are
`enqueue` with its mutex held in between; a full `msgLiveCh` disables `Delivery`.
`Access`, `Upgrade`, `UpgradeError`, `Register` and `RunStart` are the `/ws`
handler; `Register` is one action because it is one critical section, the closing
of the earlier connection included. `Loop...` are the cases of `run`'s select, with the
test of `pre_sync_ok` and the use of its result in two steps; `Sync...` is the
goroutine that replays the cache. `Send` is the goroutine per message;
`ConcurrentWrite` is the panic of the websocket library when two of them, or one
and the ping, overlap, or `UpgradeError`'s `Fatalln`: the process ends (`up`), and
every action has `up` as its guard. `ReadError` and `onclose` are `handleMessages`.
A request gives its start as seconds before now: `Since` turns it into the number
of a message; 0, no replay, only for a request that reaches back to 1970, as in the
code. `want` (given to the client) and `got` (written to it) are history
variables. `OnTheWay` is what some goroutine still moves towards the connection;
`Stranded` is what `run` put into `accmsg` after the sync goroutine, its only reader,
read it for the last time. `Jammed` is a run loop that waits for itself. Left out:
the 26 header bytes, the compression, the content of the
user file, and garbled frames.

### 2.3 RecvService

The actors are `run` (0) and one reader per connection. `reset` is five steps
(`ResetCheck`, `ResetEval`, `ResetSend`, `ResetClear`, `ResetStore`) because
`stopC` is shared without a lock: the field is read twice, and the send waits
for the watcher of that connection. `Connect` is the dial, after which wsServe's goroutines
run before `ConnectAssign` stores the channel. `Handler`, `ParseError`,
`ReadError`, `WatcherStop` and `WatcherDone` are go-binance's `wsServe`, modelled
as this code uses it (external). `expired` stands for the comparison of
`lastest_update_time` with the timeout; the timeout takes seconds, so `Expire`
happens only when every goroutine waits.

### 2.4 QuoteRecv

The receivers of the five streams have the same methods; `Streams` says which are
switched on. `Open` is a manager's distribution of the symbols (in any order, the
keys of a Go map) over services by `splitArrayBySliceSize`. `Connect` and
`ConnectInc` are `run` with `reset` and `doConnect` in one step: the steps inside
`reset` and their races are the subject of `RecvService`, and `QuoteRecv` assumes
what `OneConnection` says there: one connection of a service gets events. The code
does not keep to it after a failure (section 4); then a stream repeats itself. Closing a connection does not empty its reader's buffer: `Reconnect` moves
some of the frames not read so far to `late`, from where `LateHandler` delivers them
beside the new connection, in the order of each symbol. `RecvSnapShotEnable` is
on. `Handler` is a reader's call up to its send to `msgCh`; `msgCh` holds the
buffered messages followed by those of blocked senders, whom Go serves first come,
first served. Requests for snapshots (`asked`) are sent, taken by the manager's
`run` and put into goroutines without waiting for each other, so they are a
multiset until one of them gets the mutex (`SnapLock`). `SnapResponse` reads the
order book of the exchange, `SnapSend` passes it on; the next `SnapLock` waits
until `msgCh` has taken it. `encodePb` and `encodeGob` keep what tells messages
apart: the topic, or the type in the bytes. An event is its number in its stream
and symbol; the number of a snapshot is that of the last increment in it
(`LastUpdateID`). `base`, `failed`, `via` (on which connection an event came) and `out`
are history variables. The send to
the sockets (`DONTWAIT`, errors logged) is taken to succeed.

### 2.5 Monitor and QuotePath

`Monitor` has one goroutine for the status and one per call of `SendLog`. A zmq
message of two frames is complete with the second frame; whatever stands on the
socket leaves with it, so that an interleaved or abandoned first frame changes the
next message (`part`, `torn`). `SocketRace` is what zmq allows when two threads
use one socket: the process may end.

`QuotePath` puts the processes together. `Fanout`, `Link` and `Cut` are the PUB and
SUB sockets: a quote is lost while there is no connection, and the end of the
pipe is lost when the connection breaks. `Encode` keeps the frames: gob is one
frame, pb a topic and the data. `DrainRecv` keeps the first frame only, as the
code does, and `Handle` decodes gob of the registered types; the aggregator thus
reads nothing of a receiver that is configured for pb or compression. What the
period buffers do with a quote is `PeriodCollect`'s matter: `Handle` may or may not
add it, and `RoundMessage` takes any nonempty part. `Send` visits the producers in
order. A producer is `zmq`, `bare` (zmq with the empty topic that settings.toml ships,
one frame per message) or `kafka`. Each `SendFrame` of a zmq producer may fail by
itself and the second is sent after a failed first one; a topic whose data failed
stays on the socket (`begun`) and leaves in front of the next data. kafka drops the
error of `WriteMessages`. `unfit` are the messages that `proto.Marshal` refuses:
`SendError` skips every producer, and `enqueue`, which marshals the message again,
drops it too (`NewWsSendData` returns nil). `failed` is the history of failed sends.
`RoundEmpty` is the warning. `conf` is the deployment, chosen in `Init`.

### 2.6 ServiceStart

A process is at one of the labels of `main`, `ProcessOnce`, `init` and `run`; both
services have actions of their own where their code differs. The pid file is a
name (`path`) and files behind it (`handle`), so that removing the name and
creating it again gives another file, whose lock is another lock. `Kill` is a kill
or a panic outside main's goroutine, at any point, without the deferred `Unlock`;
`Panic` is one of main's goroutine, which runs it: for instance a receiver socket
that `QuoteReceiver.Open` cannot create, or a producer that is not known. A pid file
that cannot be opened refuses the start (`OpenError`), as a locked one does. Of the
settings `Config` keeps the list of symbols and what is wrong with the rest. `exchange` may change between
the requests of two processes; `Selected` is `loadTradingSymbol` of both. The
`SymbolBlackList` of the settings is trimmed by `main` and used by nothing.

### 2.7 RateLimit and ApiClient

`Consumed` follows `Consume` check by check, with what a passed check leaves behind
when a later one fails, and with the check of orders per second that looks at the
weights. `Second` is the clock, which starts again at midnight; `Poll` a turn of
the loop, which resets a count in every millisecond of the first second of a
window. `used` is a history variable: what was admitted in the window after that
second. `ApiClient` adds callers, the wire, the reader and the map of channels.
`Handler` looks up the channel under the mutex and sends outside it: `ReadMessage`
and `HandOver`. The callers, which are not in the repository, register, send,
wait or give up, and remove. No service uses this client; the module shows what its
methods do for callers that use them as they ask for.

## 3. Runs

| run | checks | shows |
|---|---|---|
| `collect_merge` | `TypeOK`, `OnGrid`, `MessageWindow`, `PeriodsInOrder`, `MergedOnce`, `NothingLost`, `ConsumerView` | two feeds, four quotes that are late, in time or early, empty periods published; `PeriodCollect` implements `PeriodFeed` |
| `collect_rounds` | `Lockstep`, `PeriodStamp`, `FrontPublished` | two symbols, empty periods suppressed, fair collector |
| `collect_pending` | `PendingTaken`, violated | finding 1 |
| `ws_replay` | `TypeOK`, `Conserved`, `NoGap`, `LossEnds`, `Reaped` | one client with or without history, four messages, cache and channels of one, with the jam of finding 2 (307,539 states, two minutes) |
| `ws_register` | `Exclusive` | three clients of two users, failures and kicks in any order (795,628 states up to symmetry) |
| `ws_stall` | `EnqueueReturns`, violated | finding 2 |
| `recv_reset` | `TypeOK`, `StopIsCurrent`, `TimeoutStops`, `TimeoutReconnects` | up to three connections, two failures anywhere |
| `recv_stall` | `Reconnects`, violated | finding 3 |
| `recv_book` | `TypeOK`, `Subscribed`, `BookRebuildable`, `StreamInOrder`, `SnapshotsServed` | increments and trades of two symbols, PB encoding, reconnects, late readers and the snapshot timer at any moment; lists of other lengths for the split (540,258 states, three minutes) |
| `path_feed` | `TypeOK`, `FeedOrder`, `Distribution`, `WarningsApart`, `TornOnlyByStatus`, `IntakeGoesOn`, `SilenceReported` | three deployments: two receivers of different encodings; producers of three kinds with three failures; a monitor with overlapping warnings (690,006 states, two and a half minutes) |
| `start` | `TypeOK`, `OneInstance`, `SymbolsAgree`, `ComesUp` | two aggregators and a receiver, started, refused, killed and started again (152,379 states) |
| `api` | `TypeOK`, `WindowBound`, `Answered`, `LimitRecovers` | two callers, three limits with windows of different length, over midnight |

### 3.1 Bounds

*Collect.* A clock unit is half a second, a period two seconds, the grace time
half a second: small, but `SEC` > 1 keeps the truncation of `Unix()` and the start
of the clock at 1 is off the grid. `MaxTime` gives three to four periods, enough
for birth, both list positions, the pending list (window 5) and the detachment of
a period filled from it. `Feeds` = 2 is the smallest number with a repetition.
`MaxLag` = 1 is the distance of two rounds in clock units; a larger one, up to
PERIOD - DETACH_TIME, changes nothing for the safety properties, and beyond it
`PeriodStamp` fails: a collector held up by a slow `send` or `enqueue` stamps a
message with the number of another period than the one the data belongs to.

*Ws.* With a cache and channels of one, the cache evicts with the second message, and
four messages jam a run loop and fill `msgLiveCh` behind it, with the client's failure
before, in or after that. One client shows the replay, and whether it leaves. The
register needs several: two of one user and one of another, interchangeable, so the
run uses their symmetry; it needs one message and no history. Clients are one-shot: a user who
comes back is another member of `Clients`.

*Recv.* Three connections: a stale one, the one being replaced and its successor. Two
failures are enough for two readers in `reset` at once, beside `run`.

*Book.* Two events, two rounds (a round is a connect of a service or the snapshot
timer) and a channel of one message: enough for a reconnect with an event lost in
between, for requests of two symbols at the mutex, for a reader of the old
connection that is still blocked, or still has frames, when the new one reads, and
for a holder of the mutex that waits for the channel. Two symbols at two per
connection fill the only slice; `Subscribed` therefore also cuts lists of up to
`MaxList` = 7 symbols at every size up to 7, in full slices and a shorter last one.

*Path.* The deployments share nothing but the code, so each carries only the part it
is about, with bounds of its own. `MCFeed`: one break of a connection and one
failure of a producer at any point; three quotes of which the middle one is of a
type the aggregator does not know. `MCSend`: three failures let a data frame fail
twice in a row, or fail behind a message that does not marshal, and four messages
show that the damage ends. `MCWarn`: silence of more than one unit, a delay of two
and six units of time, so that a second silence begins while the first warning
still holds the mutex through its delay; one failing frame, two goroutines of
`SendLog` and a status report. A call of `SendLog` that finds both under way would
find the mutex taken and do nothing.

*Start.* Three starts of three processes: two instances at once, or one that is
killed and started again beside another. One failed request and one change of the
exchange fall between any two steps. The configurations are one in which all is
well and one with a fault early, late and in the receiver.

*Api.* A day of four seconds with windows of 4, 2 and 3: the day ends inside the
last one. Limits of 3, 2 and 1 are reached by two requests.

`CHECK_DEADLOCK FALSE` is set for the Ws, Recv, Book, Path and Start runs, since these behaviours
end when the messages, clients or connections of the bound are used up, or the process exits.

### 3.2 Fairness

*Collect.* The clock does not stop and the collector's goroutine runs. No quote
needs to arrive.
*Ws.* Weak fairness for every goroutine that can go on; strong fairness for those
that wait for the server's mutex, because `sync.RWMutex` starves no waiter, and
for the `msgCh` case of the select, because Go picks among ready cases at random.
Requests, messages, reloads, pings and failures need not happen.
*Recv.* Weak fairness for every goroutine that can go on, and for the dial: the
exchange can be reached eventually. Messages, failures and the timeout need not
happen.
*Book.* Weak fairness for the fan-out and for the goroutine that holds the mutex of
the snapshot manager, strong fairness for those that wait for it (`sync.Mutex`
starves no waiter). The code gives the HTTP request no deadline, so that it
ends is an assumption about the exchange and the network; without it one request
without an answer stops all snapshots. Events, connects and the timer need not
happen.

*Path.* The clock, the drain, the handler, the monitor's goroutines and the
collector's warning go on while the process runs. There is none for the collector
inside a producer: `WriteMessages` has no deadline; none for the sockets between
the processes, and none for the status timer.
*Start.* A process that is not killed goes on. The number of failed requests is
bounded, which says that the exchange can be reached in the end; the retry loops
have no other end. A request is taken to return: `Do(c.ctx)` has no deadline, so
`ComesUp` rests on the network there, as `SnapshotsServed` does.
*Api.* The clock, the goroutines and the exchange's answers go on. The loop of the
limits runs every millisecond, so it comes in some of the seconds of a reset
(strong fairness). Nobody has to ask or to give up.

## 4. Findings

1. `detach` takes one early quote per kind out of the pending list and leaves the
   others of the same period there for ever (aggregation.go:353).
2. A client's `run` waits for itself when `msgCh` is full; `enqueue` then blocks
   for all users (wsserver.go:211).
3. A receiver whose connection breaks before `stopC` is stored blocks in its next
   `reset` for ever (market_trade.go:33).

The models contain more of what the code does and no document speaks of:

* `put_snapshot` looks into the map of trades, so a repeated snapshot is published
  twice (aggregation.go:112).
* A live message that `run` takes before `pre_sync_ok` is set and appends to `accmsg`
  after the sync goroutine has emptied it is lost for good: nothing reads `accmsg`
  again (wsserver.go:190-195, 210-214). `Conserved` says that nothing is lost elsewhere,
  `LossEnds` that it happens only around the end of the replay.
* A `reset` that tested `stopC` before `run` stored the new channel clears it after:
  `run` forgets a working connection and dials a second one beside it at its next
  timeout (market_trade.go:37). `TimeoutStops` says that this takes a failing
  connection.
* `Unlock` removes the pid file after it has given the lock back: a start in
  between leads to two instances later (env.go:39); `OneInstance` says that nothing
  else does.
* Orders per second are checked and counted against the weights of the second
  (ratelimit.go:163), and a limit by the hour makes the loop panic.
* A status report can tear a warning's message (qmon.go:153); `TornOnlyByStatus` says
  that besides a failed frame nothing else does.
* A failed data frame of a zmq producer loses its message and puts its topic in front
  of the next one (zmq.go:31); `Distribution` says that the damage ends there.
* The snapshot timer adds a goroutine per symbol and round while each request takes
  at least `RequestWait` (a second unless set otherwise) under one mutex: with a timer
  of 15 s, as in settings.toml, the waiting goroutines become ever more from about 15
  symbols on (market_snapshot.go:160).
* The reader of the API client waits for ever for a caller that gave up between
  the lookup and the send (wsclient.go:146), the case `Answered` leaves out.

Some properties except what the findings show, and say no more than this:

* `Reaped`: a failed client leaves the register unless some run loop is `Jammed`. In
  that state (finding 2) it may stay registered for ever.
* `StopIsCurrent`: `stopC` itself never names a replaced connection, after any number of
  failures; that a stop which is received ends the latest connection holds up to the
  second failure. With two, a reader can hold an older channel in its send while
  another one's late nil lets `run` dial again.
* `SnapshotsServed`: every symbol that waits gets its turn; not that the requests become
  fewer.
* `OneInstance` ends with the first removal of a pid file, `TornOnlyByStatus` and
  `Answered` leave out the interleavings named above.

## 5. Proofs

TLAPS proves every safety property of the runs that pass, the type invariants and
the refinement included, for every value of the constants that satisfies the named
ASSUMEs. Those are about `PeriodCollect` that `PERIOD` and `SEC` are positive, the other
numbers natural and `Symbols` nonempty; about `QuoteRecv` that there are finitely many
symbols; and else give the constants their types. Two theorems have a hypothesis of
their own, named below. The bounds of the runs (`MaxTime`, `MaxReq`, `MaxFails` ...) are
constants like the others: the theorems hold for any of them.

Hardly any of the properties is inductive. For each module the proof finds an
invariant that is, shows that `Init` gives it and that every action keeps it, one
lemma per action or kind of action, and derives the property.

### 5.1 PeriodCollect

* `TypeCorrect`, `PeriodsOnGrid`, `MessagesInWindow`, `SymbolsInLockstep`: `TypeOK`,
  `OnGrid`, `MessageWindow`, `Lockstep`. `Inv == TypeOK /\ RoundInv` adds: every node is on
  the grid and holds only quotes it may hold (`DefOK`); symbols on the same side of
  the round's progress have the same shape (`SameShape`), and a visited symbol holds
  what `timeItr` leaves of an unvisited one's periods (`AfterIter`); while a message is
  under construction, visited symbols are one period ahead of it and unvisited ones
  are due (`PmOK`), so that all infos of one message belong to one period. Lemmas
  about `Put`, `TwoNodes`, `timeItr` and the pending loops carry the argument.
* `FeedsMergedOnce`, `QuotesNotLost`: `MergedOnce`, `NothingLost`. `FeedInv` follows a quote
  from its symbol's nodes and pending lists into the message under construction and
  from there into a sent one: the keys of a node's maps are those of its index; a
  message has one part per symbol and none for a symbol still to visit; and a round
  may begin a new message only because the old one was sent or had no part.
* `PeriodsFollow`: `PeriodsInOrder`. `OrderInv` relates the last message sent to the front
  period of all symbols: it is the next one, or a later one where empty periods are
  suppressed.
* `FeedRefined`: `Spec => ConsumerView`, the refinement of `PeriodFeed`. Every action but
  `RecvQuote` and `CollectPublish` is a stutter; `CollectPublish` is a `Publish` of the
  abstract specification by `FeedInv`, `OrderInv` and `MessageWindow`.
* `StampOfPeriod`: `PeriodStamp`, if `PERIOD` is a multiple of `SEC` and
  `DETACH_TIME + 2 * MaxLag < PERIOD`. The aggregator's settings.toml has periods of 3000
  ms, a grace time of 1800 ms and a round every 200 ms. The hypothesis is needed
  (section 3.1). `StampInv` bounds how far the clock readings of a round can be from
  the end of the front period: both lie in the period after the one that is detached.

### 5.2 WsServer

* `TypeCorrect`: `TypeOK` with the sizes of cache, channels and buffers. `TypeInv` adds
  that the cache ascends, that `run` holds a message exactly at two of its steps, and
  that a client's goroutines start with `run`.
* `OneStreamPerUser`: `Exclusive`. `RegInv` adds who can be in the register: a client past
  its registration, under its own user; and that a client about to run `onclose` has
  lost its connection, so that its belated removal from the register harms nobody.
* `ReplayWithoutGap`: `NoGap`, which says nothing of a client that `enqueue` has not reached
  yet; `GapInv` does: such a client lacks at most the message being handed out.
* `LostOnlyInAccmsg`: `Conserved`. `KeptInv` is the balance of what was given to a client
  against what is in its channels and buffers, with its senders and on its
  connection, also before the connection is open. It does not tell a message in
  `accmsg` that will be read from one that will not. `SyncInv` adds that only a client
  with a start replays, so that one without strands nothing, and that a replay which
  is over has told `run`.
* `StrandingEnds`: `LossEnds`, an action property, from `TypeInv` and `SyncInv`: with the
  flag up `LoopTake` leads to `msgCh`, and nothing lowers the flag.

### 5.3 RecvService

* `TypeCorrect`: `TypeOK`.
* `StopNamesCurrent`: `StopIsCurrent`. `Inv` adds that run's own reset left `stopC` nil until
  it dials. For the stops that are received, `RaceInv` adds `OneErring`: up to the second
  failure one reader at most competes with run, and while it offers a stop to a
  waiting watcher `stopC` still names that connection, so run does not dial.
* `TimeoutReplaces`: `TimeoutStops`, from `Quiet`: before the first failure only run
  resets, a waiting watcher belongs to the newest connection, and run knows its
  channel.

### 5.4 QuoteRecv

* `EverySymbolSubscribed`: `Subscribed`. `splitArrayBySliceSize` cuts a sequence of all
  symbols into slices of at most the size of a connection. `EveryListCut` is the same
  for every list and every size.
* `TypeCorrect`: `TypeOK`; `TypeInv` adds what connections carry, what waits at `msgCh`, and
  that while a request is under way no earlier snapshot waits at `msgCh`.
* `StreamsLeaveInOrder`: `StreamInOrder`. `OrderInv` follows every event of a stream and
  symbol through the connection, the buffers of readers of closed connections,
  `msgCh` and the sockets: it is in one of these places only, and of two events of one
  connection the older one is ahead of the younger.
* `BookCanBeRebuilt`: `BookRebuildable`, if the encoding is one the fan-out knows; it drops
  everything under another. `BookInv`: for every symbol of a live increment service a
  request waits, is under way with a response not older than the connection, has
  been served, or has failed; and every increment since the connection is on the
  connection, at `msgCh` or out.

### 5.5 Monitor and QuotePath

* `TypeCorrect`: `TypeOK`; `PathType` adds that every message on the way has a first frame.
* `FailuresStayLocal`: `Distribution`. `DistInv` adds `BegunInv`: a topic waits
  on a producer's socket only if the last send to it failed, so that a message can be
  torn by its own failure or by that of the one before it and by nothing else.
* `WarningsKeepDistance`: `WarningsApart`. `DelayInv`: the mutex is with the goroutine that
  sends or sleeps, and the last warning is `Delay` ago unless one sleeps.
* `WarningsWhole`: `TornOnlyByStatus`, from `DelayInv` and `SocketInv`: while status and
  warnings have not met, at most one goroutine is between its frames, and the socket
  holds its first frame only.
* `QuotesInOrder`: `FeedOrder`. `FeedInv`: what is handled comes before what the handler
  holds, that before the drain's, and that before the pipe's, for each receiver.

### 5.6 ServiceStart

* `OneInstanceRuns`: `OneInstance`. `PidInv` adds that the locks are with the processes past
  `Lock`, that two of them have different files, and that an open file is the named
  one until the first removal.
* `SymbolsAsConfigured`: `SymbolsAgree`. `KnowInv` ties what a process was told to the number
  of changes of the exchange until then, and its symbols to that.
* `TypeCorrect`: `TypeOK`, from both and `FileInv`: nobody has or names a file that was not
  created.

### 5.7 RateLimit and ApiClient

* `CallsWithinLimits`: `WindowBound`, for requests of at most one order (`ApiAssumption`; the
  check in `Consume` is for one). `LimitInv` adds that `used` never exceeds `count`, and is 0
  in the seconds in which the loop forgets `count`.
* `TypeCorrect`: `TypeOK`.

### 5.8 Only model-checked

Liveness, which this prover does not reach: `FrontPublished`, `Reaped`,
`TimeoutReconnects`, `SnapshotsServed`, `IntakeGoesOn`, `SilenceReported`, `ComesUp`,
`Answered`, `LimitRecovers`; and the three properties that are violated.

What a filter or a fold over a sequence returns cannot be proved here, since it takes
an induction over data. Where a property needs it, the models say the same by other
means: the part of the cache that a client asks for is `CachedSince`, the suffix from
the first message not older than the start, which is what filtering an ascending
queue gives; `Distribution` names the sends that failed instead of counting them.

## 6. Plan

1. An abstract specification of a websocket client's stream (history, then live),
   implemented by `WsServer`, with `GapInv` and `KeptInv` as its invariants.
2. That `QuoteRecv`'s combined reset and dial is what `RecvService` does as long as no
   connection fails.
3. The map of the API client: a channel is registered only while its caller needs it.

## 7. Not modelled

Formats and defaults of the configuration, logging, helpers, and the generated
messages are I/O or formatting. `transport/kafka.go`, `transport/websocket.go`,
`core/wsserver.go` (a sample server), and `RequestHandler`, `wsApiServe` and `keepAlive`
of the API client are used by nothing. Orders, positions, leverage and user
streams are switched off in the code, and so is the start of the rate limits,
which are modelled by their methods. zmq's loss of messages is in `QuotePath`, and in
`PeriodCollect` as quotes that never arrive.
