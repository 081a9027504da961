---------------------------- MODULE PeriodCollect ----------------------------
(***************************************************************************)
(* The aggregation core of cmd/QuoteAggrService: two goroutines share the  *)
(* SymbolDefs of controller.periodSymbols.                                 *)
(*   quoteDataRecvHandler  takes one quote after the other from            *)
(*                         quoteDataCh and puts it into its symbol;        *)
(*   timedPeriodCollect    wakes up every TimeIterateInterval, detaches    *)
(*                         the period that is over from every symbol and   *)
(*                         publishes the quotes as one PeriodMessage.      *)
(* The collector reads the wall clock twice and locks the symbols one by   *)
(* one, so quotes and clock ticks interleave with every step of a round.   *)
(* Symbols are loaded once, before both goroutines start.                  *)
(***************************************************************************)
EXTENDS SymbolDef

CONSTANTS Symbols,         \* keys of periodSymbols
          Quotes,          \* quotes that can arrive for a symbol
          SEC,             \* clock units per second
          SkipEmptyQuote,  \* config.SkipEmptyQuote
          Feeds,           \* bound: how many feeds deliver the same quote
          Skew,            \* bound: how far exchange time leads the clock
          MaxLag,          \* bound: clock units between two steps of a round
          MinTime,         \* bound: where the clock starts
          MaxTime          \* bound: where the clock stops

ASSUME SymbolsAssumption == Symbols # {}
ASSUME QuotesAssumption  == Quotes \subseteq Quote
ASSUME SecAssumption     == SEC \in Nat \ {0}
ASSUME SkipAssumption    == SkipEmptyQuote \in BOOLEAN
ASSUME BoundsAssumption  == /\ Feeds \in Nat
                            /\ Skew \in Nat
                            /\ MaxLag \in Nat
                            /\ MinTime \in Nat
                            /\ MaxTime \in Nat

VARIABLES clock,       \* time.Now()
          sdefs,       \* periodSymbols
          delivered,   \* how often each quote was received for each symbol
          accepted,    \* history: <<sym, q>> that changed a SymbolDef
          pc,          \* the collector's next step
          now,         \* the collector's first clock reading of the round
          period_now,  \* number of the period of its second reading
          bornTs,      \* start of a symbol's first period
          todo,        \* symbols the round has not visited
          pm,          \* the PeriodMessage under construction
          sent         \* history: messages given to fanoutMgr and wsserver

collector == <<pc, now, period_now, bornTs, todo, pm>>
receiver  == <<delivered, accepted>>
vars == <<clock, sdefs, receiver, collector, sent>>

-----------------------------------------------------------------------------
NoPm == [ts |-> 0, infos |-> {}]

Init ==
  /\ clock = MinTime
  /\ sdefs = [s \in Symbols |-> NewSymbolDef]
  /\ delivered = [s \in Symbols |-> [q \in Quotes |-> 0]]
  /\ accepted = {}
  /\ pc = "sleep"
  /\ now = MinTime
  /\ period_now = 0
  /\ bornTs = 0
  /\ todo = {}
  /\ pm = NoPm
  /\ sent = <<>>

(***************************************************************************)
(* Time passes. The collector's select wakes up every TimeIterateInterval  *)
(* and a round takes some time: MaxLag bounds the clock units that pass    *)
(* between its first clock reading and the second one, and between the     *)
(* first readings of two rounds.                                           *)
(***************************************************************************)
Tick ==
  /\ clock < MaxTime
  /\ clock - now < MaxLag
  /\ clock' = clock + 1
  /\ UNCHANGED <<sdefs, receiver, collector, sent>>

-----------------------------------------------------------------------------
(* quoteDataRecvHandler *)

\* The put method onQuoteDataRecv's dispatch on the type of the quote selects.
PutQuote(s, q) == CASE q.kind = "trade" -> put_trade(s, q)
                    [] q.kind = "inc"   -> put_inc(s, q)
                    [] q.kind = "snap"  -> put_snapshot(s, q)

(***************************************************************************)
(* Quotes of other types and of symbols that are not in periodSymbols      *)
(* leave everything unchanged. Two feeds are two receiver processes that   *)
(* subscribe to the same exchange stream.                                  *)
(***************************************************************************)
RecvQuote(s, q) ==
  /\ delivered[s][q] < Feeds
  /\ q.t <= clock + Skew
  /\ delivered' = [delivered EXCEPT ![s][q] = @ + 1]
  /\ sdefs' = [sdefs EXCEPT ![s] = PutQuote(@, q)]
  /\ accepted' = IF PutQuote(sdefs[s], q) = sdefs[s] THEN accepted
                                                   ELSE accepted \cup {<<s, q>>}
  /\ UNCHANGED <<clock, collector, sent>>

-----------------------------------------------------------------------------
(* timedPeriodCollect *)

\* Mutant: the message of the last round is not cleared.
CollectBeginKeep ==
  /\ pc = "sleep"
  /\ pc' = "born"
  /\ now' = clock
  /\ UNCHANGED <<clock, sdefs, receiver, period_now, bornTs, todo, pm, sent>>

\* The timer fires: a fresh message, and the reading that timeItr is given.
CollectBegin ==
  /\ pc = "sleep"
  /\ pc' = "born"
  /\ now' = clock
  /\ pm' = NoPm
  /\ UNCHANGED <<clock, sdefs, receiver, period_now, bornTs, todo, sent>>

\* Unix() drops the fraction of a second before the division by period_size.
PeriodAt(c) == (SEC * (c \div SEC)) \div PERIOD

\* Mutant: the first period starts at the current second, off the grid.
CollectBornNow ==
  /\ pc = "born"
  /\ pc' = "symbols"
  /\ period_now' = PeriodAt(clock)
  /\ LET friends == {s \in Symbols : sdefs[s].linked # <<>>}
     IN  IF friends = {}
         THEN bornTs' = SEC * (clock \div SEC)
         ELSE \E s \in friends : bornTs' = sdefs[s].linked[1].start
  /\ todo' = Symbols
  /\ UNCHANGED <<clock, sdefs, receiver, now, pm, sent>>

(***************************************************************************)
(* The second clock reading. A symbol without a period is born with the    *)
(* front period of any symbol that has one.                                *)
(***************************************************************************)
CollectBorn ==
  /\ pc = "born"
  /\ pc' = "symbols"
  /\ period_now' = PeriodAt(clock)
  /\ LET friends == {s \in Symbols : sdefs[s].linked # <<>>}
     IN  IF friends = {}
         THEN bornTs' = PeriodAt(clock) * PERIOD
         ELSE \E s \in friends : bornTs' = sdefs[s].linked[1].start
  /\ todo' = Symbols
  /\ UNCHANGED <<clock, sdefs, receiver, now, pm, sent>>

\* MarshallPb copies the three index slices into a SymbolInfo.
MarshallPb(s, pn) == [symbol |-> s, index |-> pn.index]

\* Mutant: the test for an empty SymbolInfo overlooks the snapshots.
EmptyButSnaps(sinfo) == \A k \in {"trade", "inc"} : sinfo.index[k] = <<>>

EmptyInfo(sinfo) == \A k \in Kinds : sinfo.index[k] = <<>>

\* The message after symbol s returned the sequence out of detached periods.
AddInfo(s, out) ==
  IF out = <<>> THEN pm
  ELSE LET sinfo == MarshallPb(s, out[1])
       IN  [ts    |-> out[1].start,
            infos |-> IF SkipEmptyQuote /\ EmptyInfo(sinfo) THEN pm.infos
                      ELSE pm.infos \cup {sinfo}]

\* Mutant: every symbol compares its period with a clock reading of its own.
CollectSymbolOwnClock(s) ==
  /\ pc = "symbols"
  /\ s \in todo
  /\ LET itr == timeItr(sdefs[s], clock, bornTs)
     IN  /\ sdefs' = [sdefs EXCEPT ![s] = itr.def]
         /\ pm' = AddInfo(s, itr.out)
  /\ todo' = todo \ {s}
  /\ pc' = IF todo' = {} THEN "publish" ELSE "symbols"
  /\ UNCHANGED <<clock, receiver, now, period_now, bornTs, sent>>

\* One iteration of the range loop, whose order Go leaves open.
CollectSymbol(s) ==
  /\ pc = "symbols"
  /\ s \in todo
  /\ LET itr == timeItr(sdefs[s], now, bornTs)
     IN  /\ sdefs' = [sdefs EXCEPT ![s] = itr.def]
         /\ pm' = AddInfo(s, itr.out)
  /\ todo' = todo \ {s}
  /\ pc' = IF todo' = {} THEN "publish" ELSE "symbols"
  /\ UNCHANGED <<clock, receiver, now, period_now, bornTs, sent>>

\* Without a SymbolInfo nothing is sent.
CollectEmpty ==
  /\ pc = "publish"
  /\ pm.infos = {}
  /\ pc' = "sleep"
  /\ UNCHANGED <<clock, sdefs, receiver, now, period_now, bornTs, todo, pm, sent>>

\* Mutant: the message is stamped with the period of the clock.
CollectPublishNow ==
  /\ pc = "publish"
  /\ pm.infos # {}
  /\ pc' = "sleep"
  /\ sent' = Append(sent, [period |-> period_now, ts |-> pm.ts,
                           infos |-> pm.infos])
  /\ UNCHANGED <<clock, sdefs, receiver, now, period_now, bornTs, todo, pm>>

CollectPublish ==
  /\ pc = "publish"
  /\ pm.infos # {}
  /\ pc' = "sleep"
  /\ sent' = Append(sent, [period |-> period_now - 1, ts |-> pm.ts,
                           infos |-> pm.infos])
  /\ UNCHANGED <<clock, sdefs, receiver, now, period_now, bornTs, todo, pm>>

Collect == \/ CollectBegin
           \/ CollectBorn
           \/ \E s \in Symbols : CollectSymbol(s)
           \/ CollectEmpty
           \/ CollectPublish

Next == \/ Tick
        \/ \E s \in Symbols, q \in Quotes : RecvQuote(s, q)
        \/ Collect

Spec == Init /\ [][Next]_vars

\* The collector's goroutine keeps running and the clock never stops.
FairSpec == Spec /\ WF_vars(Tick) /\ WF_vars(Collect)

-----------------------------------------------------------------------------
(* Properties *)

SymbolInfos == [symbol : Symbols, index : [Kinds -> Seq(Quotes)]]

Nodes == [start : Nat, end : Nat,
          ids : [Kinds -> SUBSET Nat], index : [Kinds -> Seq(Quotes)]]

Defs == [linked : Seq(Nodes), pending : [Kinds -> Seq(Quotes)]]

\* Every variable has its type, and a symbol never holds more than two periods.
TypeOK ==
  /\ clock \in Nat
  /\ sdefs \in [Symbols -> Defs]
  /\ \A s \in Symbols : Len(sdefs[s].linked) <= 2
  /\ delivered \in [Symbols -> [Quotes -> Nat]]
  /\ accepted \subseteq Symbols \X Quotes
  /\ pc \in {"sleep", "born", "symbols", "publish"}
  /\ now \in Nat
  /\ period_now \in Nat
  /\ bornTs \in Nat
  /\ todo \subseteq Symbols
  /\ pm \in [ts : Nat, infos : SUBSET SymbolInfos]
  /\ sent \in Seq([period : Int, ts : Nat, infos : SUBSET SymbolInfos])

\* The starts of the periods that symbol s holds.
Starts(s) == [i \in DOMAIN sdefs[s].linked |-> sdefs[s].linked[i].start]

(***************************************************************************)
(* The symbols advance together: a quote goroutine and a clock that run    *)
(* between two timeItr calls of a round never make a symbol detach a       *)
(* period that another symbol keeps (timedPeriodCollect, bornTs and now    *)
(* shared by the whole round).                                             *)
(***************************************************************************)
Lockstep ==
  \A r, s \in Symbols : (r \in todo <=> s \in todo) => Starts(r) = Starts(s)

\* A multiple of PERIOD.
Aligned(t) == \E p \in 0 .. t : t = p * PERIOD

(***************************************************************************)
(* The periods of a symbol are adjacent and on the grid of multiples of    *)
(* PERIOD since ORIGIN_UTC_TIME, whenever the service was started.         *)
(***************************************************************************)
OnGrid ==
  \A s \in Symbols :
    LET linked == sdefs[s].linked
    IN  /\ \A i \in DOMAIN linked : /\ Aligned(linked[i].start)
                                   /\ linked[i].end = linked[i].start + PERIOD
        /\ Len(linked) = 2 => linked[2].start = linked[1].end

InfosFit(ts, infos) ==
  \A x \in infos : \A k \in Kinds : \A i \in DOMAIN x.index[k] :
    /\ x.index[k][i].kind = k
    /\ ts - PERIOD <= x.index[k][i].t
    /\ x.index[k][i].t < ts + PERIOD

(***************************************************************************)
(* What a consumer may rely on: a message of the period that starts at ts  *)
(* carries quotes of that period and late ones of the period before it,    *)
(* whichever way (front, back or pending list) a quote took.               *)
(***************************************************************************)
MessageWindow ==
  \A n \in DOMAIN sent : InfosFit(sent[n].ts, sent[n].infos)

(***************************************************************************)
(* Messages leave in the order of their periods, no period is sent twice,  *)
(* and none is left out unless SkipEmptyQuote suppresses it.               *)
(***************************************************************************)
PeriodsInOrder ==
  \A n \in 1 .. Len(sent) - 1 :
    /\ sent[n + 1].ts > sent[n].ts
    /\ ~SkipEmptyQuote => sent[n + 1].ts = sent[n].ts + PERIOD

(***************************************************************************)
(* The number pm.Period = period_now - 1 is the number of the period the   *)
(* data belongs to, although it is computed from a later clock reading.    *)
(***************************************************************************)
PeriodStamp ==
  \A n \in DOMAIN sent : sent[n].period * PERIOD = sent[n].ts

(***************************************************************************)
(* The merge of the feeds: however often a trade or an increment arrives,  *)
(* a message carries it once per symbol (put_trade, put_inc and the loops  *)
(* of detach look at the maps of the period).                              *)
(***************************************************************************)
MergedOnce ==
  \A n \in DOMAIN sent : \A x \in sent[n].infos : \A k \in {"trade", "inc"} :
    \A i, j \in DOMAIN x.index[k] :
      GetId(x.index[k][i]) = GetId(x.index[k][j]) => i = j

\* A quote with the key of q is in the sequence seq.
Holds(seq, q) == \E i \in DOMAIN seq : GetId(seq[i]) = GetId(q)

InInfos(infos, s, q) ==
  \E x \in infos : x.symbol = s /\ Holds(x.index[q.kind], q)

Published(s, q) == \E n \in DOMAIN sent : InInfos(sent[n].infos, s, q)

(***************************************************************************)
(* Nothing that a SymbolDef took in disappears before it is sent: the      *)
(* quote is in a period, in a pending list, in the message under           *)
(* construction or in a message that was sent.                             *)
(***************************************************************************)
NothingLost ==
  \A e \in accepted :
    LET s == e[1]
        q == e[2]
    IN  \/ \E i \in DOMAIN sdefs[s].linked : Holds(sdefs[s].linked[i].index[q.kind], q)
        \/ Holds(sdefs[s].pending[q.kind], q)
        \/ InInfos(pm.infos, s, q)
        \/ Published(s, q)

(***************************************************************************)
(* A quote in the front period of a symbol is published once the clock     *)
(* passes the period's end and the grace time.                             *)
(***************************************************************************)
FrontPublished ==
  \A s \in Symbols, q \in Quotes :
    (/\ Len(sdefs[s].linked) = 2
     /\ Holds(sdefs[s].linked[1].index[q.kind], q)
     /\ sdefs[s].linked[1].end + DETACH_TIME < MaxTime)
    ~> Published(s, q)

(***************************************************************************)
(* The inductive invariant behind Lockstep, OnGrid and MessageWindow.      *)
(***************************************************************************)
\* The quotes a period may take in: its own, and late ones of the period before.
Fits(pn, q) == pn.start - PERIOD <= q.t /\ q.t < pn.end

NodeOK(pn) ==
  /\ Aligned(pn.start)
  /\ pn.end = pn.start + PERIOD
  /\ \A k \in Kinds : \A j \in DOMAIN pn.index[k] :
       pn.index[k][j].kind = k /\ Fits(pn, pn.index[k][j])

DefOK(d) ==
  /\ \A i \in DOMAIN d.linked : NodeOK(d.linked[i])
  /\ Len(d.linked) = 2 => d.linked[2].start = d.linked[1].end
  /\ \A k \in Kinds : \A j \in DOMAIN d.pending[k] : d.pending[k][j].kind = k

\* Two symbols hold the same periods.
SameShape(d, e) ==
  /\ Len(d.linked) = Len(e.linked)
  /\ Len(d.linked) # 0 => d.linked[1].start = e.linked[1].start

\* The clock reading of the round detaches the front period of d.
Due(d) == Len(d.linked) # 0 /\ now > d.linked[1].end + DETACH_TIME

\* d holds the periods that timeItr leaves of those of e.
AfterIter(d, e) ==
  IF Len(e.linked) = 0
  THEN Len(d.linked) = 1 /\ d.linked[1].start = bornTs
  ELSE /\ Len(d.linked) = 2
       /\ d.linked[1].start = IF Due(e) THEN e.linked[1].end ELSE e.linked[1].start

\* While a message is under construction, every symbol knows its period.
PmOK ==
  pm.infos # {} =>
    /\ \A s \in Symbols \ todo : Len(sdefs[s].linked) = 2
                                /\ sdefs[s].linked[1].start = pm.ts + PERIOD
    /\ \A s \in todo : Due(sdefs[s]) /\ sdefs[s].linked[1].start = pm.ts

RoundInv ==
  /\ \A s \in Symbols : DefOK(sdefs[s])
  /\ pc # "symbols" => todo = {}
  /\ pc = "symbols" => Aligned(bornTs)
  /\ \A r, s \in Symbols :
       (r \in todo <=> s \in todo) => SameShape(sdefs[r], sdefs[s])
  /\ \A r \in Symbols \ todo, s \in todo : AfterIter(sdefs[r], sdefs[s])
  /\ pc = "born" => pm.infos = {}
  /\ pc \in {"symbols", "publish"} => PmOK /\ InfosFit(pm.ts, pm.infos)
  /\ MessageWindow

(***************************************************************************)
(* "p3 data ... stays in the pending queue, and is taken out of pending    *)
(* when the clock reaches p3" (version.go:76): no quote is left in a       *)
(* pending list once its period has been detached.                         *)
(***************************************************************************)
PendingTaken ==
  \A s \in Symbols, k \in Kinds :
    \A i \in DOMAIN sdefs[s].pending[k] :
      sdefs[s].pending[k][i].t >= sdefs[s].linked[1].start

(***************************************************************************)
(* The consumer's view of the aggregator: two goroutines, two list         *)
(* positions and a pending list together behave as PeriodFeed says,        *)
(* whichever way a quote took and however often it arrived.                *)
(***************************************************************************)
Feed == INSTANCE PeriodFeed WITH taken <- accepted, out <- sent

ConsumerView == Feed!Spec
=============================================================================
