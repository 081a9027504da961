------------------------------ MODULE QuotePath ------------------------------
(***************************************************************************)
(* The way of a quote through the two services, around the period buffers  *)
(* of PeriodCollect:                                                       *)
(*   fan-out of the receivers, one zmq PUB socket each (fanout.go);        *)
(*   QuoteReceiver of the aggregator, one SUB socket (market_drain.go),    *)
(*   and quoteDataRecvHandler behind the unbuffered quoteDataCh;           *)
(*   the collector, which gives every message to all producers one after   *)
(*   the other (market_spout.go, transport) and then to the websocket      *)
(*   server, and warns the monitor when quotes stay away.                  *)
(* What the period buffers do is left to PeriodFeed: a round takes some of *)
(* the quotes that were handed over.                                       *)
(***************************************************************************)
EXTENDS Monitor

CONSTANTS Deployments, \* configurations to run with, see Deployment
          Quiet        \* silence after which the collector warns

(***************************************************************************)
(* What the configuration files of the services say, and the quotes of the *)
(* exchange: how each receiver encodes (gob, compressed gob, or pb), the   *)
(* producers of the aggregator (zmq, bare: zmq with an empty topic, or     *)
(* kafka), whether it has a monitor, and the types of the quotes in the    *)
(* order of the stream; and two bounds on what goes wrong: how often a     *)
(* connection between sockets breaks (maxCuts), and how many sends fail    *)
(* and messages do not marshal (maxFails).                                 *)
(***************************************************************************)
IsDeployment(d) ==
  /\ d.encoding \in [DOMAIN d.encoding -> {"gob", "flate", "pb"}]
  /\ d.stream \in Seq({"trade", "inc", "snap", "depth", "kline", "aggtrade"})
  /\ d.producers \in Seq({"zmq", "bare", "kafka"})
  /\ d.mon \in BOOLEAN
  /\ d.maxCuts \in Nat
  /\ d.maxFails \in Nat

ASSUME PathAssumption == /\ \A d \in Deployments : IsDeployment(d)
                         /\ Quiet \in Nat

VARIABLES conf,            \* the deployment
          next,            \* how many quotes each receiver has passed on
          linked,          \* receivers whose socket is connected to the aggregator
          pipe,            \* messages on the way from each receiver
          lost,            \* history: quotes that never reached the aggregator
          cuts,            \* how often a connection broke
          drain,           \* the bytes QuoteReceiver holds: at most one frame
          handler,         \* the bytes quoteDataRecvHandler works on, likewise
          handled,         \* history: quotes put into their symbol, per receiver
          buffer,          \* quotes that the symbols hold
          pc,              \* the collector: 0 asleep, k before producer k
          last_period_ts,  \* when the collector last had a message
          sent,            \* number of messages the collector had
          unfit,           \* messages that proto.Marshal refuses
          begun,           \* topics on each producer's socket that wait for data
          got,             \* history: what each producer took
          ws,              \* history: messages wsserver queued
          failed           \* history: sends in which a frame or write failed

network   == <<next, linked, pipe, lost, cuts>>
intake    == <<drain, handler, handled, buffer>>
collector == <<pc, last_period_ts, sent>>
outlets   == <<unfit, begun, got, ws, failed>>
vars == <<conf, monitor, network, intake, collector, outlets>>

Receivers == DOMAIN conf.encoding
Events    == DOMAIN conf.stream
Outlets   == DOMAIN conf.producers

Init ==
  /\ conf \in Deployments
  /\ MonInit
  /\ next = [r \in Receivers |-> 0]
  /\ linked = {}
  /\ pipe = [r \in Receivers |-> <<>>]
  /\ lost = {}
  /\ cuts = 0
  /\ drain = {}
  /\ handler = {}
  /\ handled = [r \in Receivers |-> <<>>]
  /\ buffer = {}
  /\ pc = 0
  /\ last_period_ts = 0
  /\ sent = 0
  /\ unfit = {}
  /\ begun = [k \in Outlets |-> 0]
  /\ got = [k \in Outlets |-> <<>>]
  /\ ws = <<>>
  /\ failed = {}

-----------------------------------------------------------------------------
(* The sockets between receivers and aggregator *)

Sent(r, n, enc) == [from |-> r, n |-> n, enc |-> enc]

\* gob, compressed or not, goes out as one frame ...
encodeGob(r, n) == <<Sent(r, n, conf.encoding[r])>>

\* ... and pb as a topic and the data, where the topic has the symbol.
encodePb(r, n) == <<Sent(r, n, "topic"), Sent(r, n, "pb")>>

Encode(r, n) == IF conf.encoding[r] = "pb" THEN encodePb(r, n) ELSE encodeGob(r, n)

\* A PUB socket drops what nobody is connected to receive.
Fanout(r) ==
  /\ next[r] < Len(conf.stream)
  /\ next' = [next EXCEPT ![r] = @ + 1]
  /\ pipe' = IF r \in linked
             THEN [pipe EXCEPT ![r] = Append(@, Encode(r, next[r] + 1))]
             ELSE pipe
  /\ lost' = IF r \in linked THEN lost ELSE lost \cup {<<r, next[r] + 1>>}
  /\ UNCHANGED <<monitor, linked, cuts, intake, collector, outlets>>

Link(r) ==
  /\ r \notin linked
  /\ linked' = linked \cup {r}
  /\ UNCHANGED <<monitor, next, pipe, lost, cuts, intake, collector, outlets>>

\* The connection breaks: what has not arrived is lost.
Cut(r) ==
  /\ r \in linked
  /\ cuts < conf.maxCuts
  /\ cuts' = cuts + 1
  /\ linked' = linked \ {r}
  /\ \E k \in 0 .. Len(pipe[r]) :
       /\ pipe' = [pipe EXCEPT ![r] = SubSeq(@, 1, k)]
       /\ lost' = lost \cup {<<r, pipe[r][i][1].n>> : i \in k + 1 .. Len(pipe[r])}
  /\ UNCHANGED <<monitor, next, intake, collector, outlets>>

-----------------------------------------------------------------------------
(* QuoteReceiver and quoteDataRecvHandler *)

\* Mutant: the next message is received before the last one is handed over.
DrainRecvOverwrites(r) ==
  /\ pipe[r] # <<>>
  /\ drain' = {Head(pipe[r])[1]}
  /\ pipe' = [pipe EXCEPT ![r] = Tail(@)]
  /\ UNCHANGED <<monitor, next, linked, lost, cuts, handler, handled, buffer,
                 collector, outlets>>

\* Mutant: all frames of a message are kept.
DrainRecvFrames(r) ==
  /\ drain = {}
  /\ pipe[r] # <<>>
  /\ drain' = Range(Head(pipe[r]))
  /\ pipe' = [pipe EXCEPT ![r] = Tail(@)]
  /\ UNCHANGED <<monitor, next, linked, lost, cuts, handler, handled, buffer,
                 collector, outlets>>

\* RecvMessageBytes gives all frames of a message; only the first is kept.
DrainRecv(r) ==
  /\ drain = {}
  /\ pipe[r] # <<>>
  /\ drain' = {Head(pipe[r])[1]}
  /\ pipe' = [pipe EXCEPT ![r] = Tail(@)]
  /\ UNCHANGED <<monitor, next, linked, lost, cuts, handler, handled, buffer,
                 collector, outlets>>

\* Mutant: the bytes are handed over and kept.
DrainPushKeeps ==
  /\ drain # {}
  /\ handler = {}
  /\ handler' = drain
  /\ UNCHANGED <<monitor, network, drain, handled, buffer, collector, outlets>>

\* quoteDataCh has no buffer: the send waits for the handler.
DrainPush ==
  /\ drain # {}
  /\ handler = {}
  /\ handler' = drain
  /\ drain' = {}
  /\ UNCHANGED <<monitor, network, handled, buffer, collector, outlets>>

\* The types main registers with gob; a message of another type is an error.
Registered == {"trade", "inc", "snap", "depth"}

\* The dispatch has a put method for these.
Wanted == {"trade", "inc", "snap"}

Decodes(f) == f.enc = "gob" /\ conf.stream[f.n] \in Registered

\* The symbol may refuse the quote; PeriodCollect says when.
Handle ==
  /\ handler # {}
  /\ LET f == CHOOSE f \in handler : TRUE
     IN  IF Decodes(f) /\ conf.stream[f.n] \in Wanted
         THEN /\ handled' = [handled EXCEPT ![f.from] = Append(@, f.n)]
              /\ buffer' \in {buffer, buffer \cup {f.n}}
         ELSE UNCHANGED <<handled, buffer>>
  /\ handler' = {}
  /\ UNCHANGED <<monitor, network, drain, collector, outlets>>

-----------------------------------------------------------------------------
(* timedPeriodCollect from the end of its range loop on *)

\* A round that has no quotes warns when the last message is long ago. A call
\* of SendLog beyond the bound would find the mutex taken.
RoundEmpty ==
  /\ pc = 0
  /\ conf.mon
  /\ clock - last_period_ts > Quiet
  /\ \E l \in Logs : SendLog(l)
  /\ UNCHANGED <<clock, status, socket, up, network, intake, collector, outlets>>

MayFail == Cardinality(failed) + Cardinality(unfit) < conf.maxFails

\* The periods that are over make a message. proto.Marshal refuses some, for
\* instance one with a string that is not UTF-8.
RoundMessage ==
  /\ pc = 0
  /\ \E batch \in (SUBSET buffer) \ {{}} : buffer' = buffer \ batch
  /\ last_period_ts' = clock
  /\ sent' = sent + 1
  /\ \/ unfit' = unfit
     \/ MayFail /\ unfit' = unfit \cup {sent + 1}
  /\ pc' = 1
  /\ UNCHANGED <<monitor, network, drain, handler, handled, begun, got, ws, failed>>

\* The topics that belong in front of the data on producer k.
Topics(k) == IF conf.producers[k] = "zmq" THEN 1 ELSE 0

\* What producer k passed on: the number of the message and whether the frames
\* that left together are what a consumer expects.
Took(k, topics) ==
  got' = [got EXCEPT ![k] = Append(@, [n |-> sent, whole |-> topics = Topics(k)])]

\* ZmqProducer.Send: each SendFrame call may fail by itself, and the errors
\* are dropped. Without a topic there is one call. Topics wait on the socket
\* until data is sent, and then all leave as one message.
ZmqSend(k) ==
  \E topic \in 0 .. Topics(k), data \in BOOLEAN :
    /\ IF topic = Topics(k) /\ data
       THEN failed' = failed
       ELSE MayFail /\ failed' = failed \cup {<<k, sent>>}
    /\ IF data
       THEN Took(k, begun[k] + topic) /\ begun' = [begun EXCEPT ![k] = 0]
       ELSE got' = got /\ begun' = [begun EXCEPT ![k] = @ + topic]

\* KafkaGoProducer.Send: the error of WriteMessages is dropped.
KafkaSend(k) ==
  /\ \/ Took(k, 0) /\ failed' = failed
     \/ got' = got /\ MayFail /\ failed' = failed \cup {<<k, sent>>}
  /\ begun' = begun

\* Mutant: the loop over the producers ends at the first failure.
SendStops ==
  /\ pc \in Outlets
  /\ sent \notin unfit
  /\ IF conf.producers[pc] = "kafka" THEN KafkaSend(pc) ELSE ZmqSend(pc)
  /\ pc' = IF failed' # failed THEN Len(conf.producers) + 1 ELSE pc + 1
  /\ UNCHANGED <<monitor, network, intake, last_period_ts, sent, unfit, ws>>

\* FanOutManager.send: one producer after the other.
Send ==
  /\ pc \in Outlets
  /\ sent \notin unfit
  /\ IF conf.producers[pc] = "kafka" THEN KafkaSend(pc) ELSE ZmqSend(pc)
  /\ pc' = pc + 1
  /\ UNCHANGED <<monitor, network, intake, last_period_ts, sent, unfit, ws>>

\* A message that does not marshal reaches no producer.
SendError ==
  /\ pc \in Outlets
  /\ sent \in unfit
  /\ pc' = Len(conf.producers) + 1
  /\ UNCHANGED <<monitor, network, intake, last_period_ts, sent, outlets>>

\* The websocket server, which is switched on, comes last, whatever send
\* returned. NewWsSendData marshals the message again and fails where send did.
Enqueue ==
  /\ pc = Len(conf.producers) + 1
  /\ ws' = IF sent \in unfit THEN ws ELSE Append(ws, sent)
  /\ pc' = 0
  /\ UNCHANGED <<monitor, network, intake, last_period_ts, sent, unfit, begun, got, failed>>

-----------------------------------------------------------------------------
\* Steps of the monitor change nothing else.
MonitorOnly == conf.mon /\ UNCHANGED <<network, intake, collector, outlets>>

Running ==
  \/ MonNext /\ MonitorOnly
  \/ \E r \in Receivers : DrainRecv(r)
  \/ DrainPush
  \/ Handle
  \/ RoundEmpty
  \/ RoundMessage
  \/ Send
  \/ SendError
  \/ Enqueue

Next == /\ \/ up /\ Running
           \/ \E r \in Receivers : Fanout(r) \/ Link(r) \/ Cut(r)
        /\ conf' = conf

Spec == Init /\ [][Next]_vars

(***************************************************************************)
(* The clock goes on, and so do the goroutines, except a collector that    *)
(* waits for a producer: nothing bounds the time of WriteMessages.         *)
(***************************************************************************)
Fairness ==
  /\ WF_vars(up /\ MonTick /\ MonitorOnly /\ conf' = conf)
  /\ WF_vars(up /\ (\E r \in Receivers : DrainRecv(r)) /\ conf' = conf)
  /\ WF_vars(up /\ (DrainPush \/ Handle) /\ conf' = conf)
  /\ WF_vars(up /\ RoundEmpty /\ conf' = conf)
  /\ \A l \in Logs : WF_vars(up /\ LogStep(l) /\ MonitorOnly /\ conf' = conf)

FairSpec == Spec /\ Fairness

-----------------------------------------------------------------------------
(* Properties *)

Frames == [from : Receivers, n : Events, enc : {"gob", "flate", "pb", "topic"}]

\* Every variable has its type; the drain and the handler hold one frame.
TypeOK ==
  /\ conf \in Deployments
  /\ MonTypeOK
  /\ next \in [Receivers -> 0 .. Len(conf.stream)]
  /\ linked \subseteq Receivers
  /\ pipe \in [Receivers -> Seq(Seq(Frames))]
  /\ lost \subseteq Receivers \X Events
  /\ cuts \in Nat
  /\ \A held \in {drain, handler} : held = {} \/ \E f \in Frames : held = {f}
  /\ handled \in [Receivers -> Seq(Events)]
  /\ buffer \subseteq Events
  /\ pc \in 0 .. Len(conf.producers) + 1
  /\ last_period_ts \in Nat
  /\ sent \in Nat
  /\ unfit \subseteq 1 .. sent
  /\ begun \in [Outlets -> Nat]
  /\ got \in [Outlets -> Seq([n : Nat, whole : BOOLEAN])]
  /\ ws \in Seq(Nat)
  /\ failed \subseteq Outlets \X (1 .. sent)

(***************************************************************************)
(* The drain and the handler keep the order of each receiver and hand over *)
(* no quote twice, whatever connections break, and a receiver whose bytes  *)
(* the aggregator cannot read (pb, compressed) adds nothing.               *)
(***************************************************************************)
FeedOrder ==
  \A r \in Receivers :
    /\ \A i, j \in DOMAIN handled[r] : i < j => handled[r][i] < handled[r][j]
    /\ conf.encoding[r] # "gob" => handled[r] = <<>>

\* Quotes that reached the aggregator in a form it reads, and are not handled.
Owed == {e \in Receivers \X Events :
           LET r == e[1]
               n == e[2]
           IN  /\ n <= next[r]
               /\ e \notin lost
               /\ conf.encoding[r] = "gob"
               /\ conf.stream[n] \in Wanted
               /\ n \notin Range(handled[r])}

(***************************************************************************)
(* What has reached the aggregator's socket is put into its symbol even if *)
(* the collector hangs in a producer for ever, or the other receiver sends *)
(* bytes that do not decode.                                               *)
(***************************************************************************)
IntakeGoesOn == (Owed # {}) ~> (~up \/ Owed = {})

\* The messages that producer k was called with.
Due(k) == (1 .. IF pc \in 1 .. k THEN sent - 1 ELSE sent) \ unfit

\* A send of message n to producer k, or of the one before it, failed.
Spoilt(k, n) == \E m \in 1 .. n : <<k, m>> \in failed /\ (m + 1 .. n - 1) \subseteq unfit

\* Producer k: order, what it lacks, what it passed on torn.
Served(k) ==
  /\ \A i, j \in DOMAIN got[k] : i < j => got[k][i].n < got[k][j].n
  /\ \A i \in DOMAIN got[k] : got[k][i].n \in Due(k)
  /\ \A n \in Due(k) : (\E i \in DOMAIN got[k] : got[k][i].n = n) \/ <<k, n>> \in failed
  /\ \A i \in DOMAIN got[k] : got[k][i].whole \/ Spoilt(k, got[k][i].n)

(***************************************************************************)
(* What a failure costs. The websocket server gets every message that      *)
(* marshals, in order. A producer passes on the messages in order and      *)
(* lacks only those whose own send to it failed; and it passes on a torn   *)
(* message only where a frame of that message or of the one before it      *)
(* failed: a data frame that fails loses its message and leaves its topic  *)
(* in front of the next one, and there the damage ends. The failures of    *)
(* other producers do not matter.                                          *)
(***************************************************************************)
Distribution ==
  /\ \A i, j \in DOMAIN ws : i < j => ws[i] < ws[j]
  /\ Range(ws) = (1 .. IF pc = 0 THEN sent ELSE sent - 1) \ unfit
  /\ \A k \in Outlets : Served(k)

(***************************************************************************)
(* "No quote data for more than 20 s: a warning is sent" (version.go:24 of *)
(* the aggregator). When the collector is not inside a producer and there  *)
(* is time left for an earlier warning's delay, silence is reported.       *)
(***************************************************************************)
SilenceReported ==
  (/\ conf.mon
   /\ pc = 0
   /\ clock - last_period_ts > Quiet
   /\ clock + Delay <= MaxTime)
  ~> (\/ ~up
      \/ clock - last_period_ts <= Quiet
      \/ \E i \in DOMAIN warned : warned[i] > last_period_ts + Quiet)
=============================================================================
