------------------------------ MODULE SymbolDef ------------------------------
(***************************************************************************)
(* The period buffer of one traded symbol: type SymbolDef of               *)
(* cmd/QuoteAggrService/aggregation.go.                                    *)
(*                                                                         *)
(* Quotes of three kinds arrive from several feeds, late, early and more   *)
(* than once. A SymbolDef keeps a list "linked" of at most two adjacent    *)
(* periods and, per kind, a list of quotes that are too early for either.  *)
(* The methods hold s.mtx from their first to their last line, so each is  *)
(* an operator that takes the old value of the structure and returns the   *)
(* new one.  Times are offsets from ORIGIN_UTC_TIME.                       *)
(***************************************************************************)
EXTENDS Integers, SequencesExt

CONSTANTS PERIOD,       \* length of a period
          DETACH_TIME,  \* grace time after the end of a period
          LATE_WINDOW   \* how far beyond the back period a quote may lie

ASSUME PeriodAssumption == PERIOD \in Nat \ {0}
ASSUME DetachAssumption == DETACH_TIME \in Nat
ASSUME WindowAssumption == LATE_WINDOW \in Nat

Kinds == {"trade", "inc", "snap"}

(***************************************************************************)
(* A quote: t is the exchange's event time, uid the TradeID of a trade and *)
(* the LastUpdateID of an order-book increment or snapshot.                *)
(***************************************************************************)
Quote == [kind : Kinds, t : Nat, uid : Nat]

(***************************************************************************)
(* The key of the per-period maps. strconv.FormatInt is injective and the  *)
(* keys are only compared, so the number stands for its decimal string;    *)
(* trade ids and event times share that one key space, as strings do.      *)
(***************************************************************************)
GetId(q) == IF q.kind = "trade" THEN q.uid ELSE q.t

(***************************************************************************)
(* PeriodNode: ids holds the keys of trademap, incmap and snapshot_map,    *)
(* index the tradeindex, incindex and snapshot_index slices.               *)
(***************************************************************************)
PeriodNodes == [start : Nat, end : Nat,
                ids : [Kinds -> SUBSET Nat], index : [Kinds -> Seq(Quote)]]

SymbolDefs == [linked : Seq(PeriodNodes), pending : [Kinds -> Seq(Quote)]]

NewPeriodNode(start) ==
  [start |-> start, end |-> start + PERIOD,
   ids |-> [k \in Kinds |-> {}], index |-> [k \in Kinds |-> <<>>]]

NewSymbolDef == [linked |-> <<>>, pending |-> [k \in Kinds |-> <<>>]]

\* Mutant: the end of a period belongs to it.
InPeriodClosed(pn, q) == pn.start <= q.t /\ q.t <= pn.end

InPeriod(pn, q) == pn.start <= q.t /\ q.t < pn.end

\* map[id] = quote; index = append(index, quote)
AddQuote(pn, q) ==
  [pn EXCEPT !.ids[q.kind]   = @ \cup {GetId(q)},
             !.index[q.kind] = Append(@, q)]

\* Mutant: a known quote is added again.
AddAlways(pn, q, mapKind) == AddQuote(pn, q)

\* A known quote is ignored; mapKind names the map in which it is looked up.
AddIfNew(pn, q, mapKind) ==
  IF GetId(q) \in pn.ids[mapKind] THEN pn ELSE AddQuote(pn, q)

-----------------------------------------------------------------------------
(***************************************************************************)
(* put_trade, put_inc and put_snapshot are the same method but for the     *)
(* kind, and for frontMap, the map of the front period in which the quote  *)
(* is looked up.                                                           *)
(***************************************************************************)
Put(s, q, frontMap) ==
  LET front == s.linked[1]
      back  == s.linked[Len(s.linked)]
  IN  CASE Len(s.linked) = 0 -> s
        [] Len(s.linked) = 1 ->
             IF InPeriod(back, q)
             THEN [s EXCEPT !.linked = <<AddIfNew(back, q, q.kind)>>]
             ELSE s
        [] OTHER ->
             CASE \/ q.t < front.start - PERIOD
                  \/ q.t >= back.end + LATE_WINDOW -> s
               [] /\ q.t >= front.start - PERIOD
                  /\ q.t < front.end ->
                    [s EXCEPT !.linked = <<AddIfNew(front, q, frontMap), back>>]
               [] /\ q.t >= front.end
                  /\ InPeriod(back, q) ->
                    [s EXCEPT !.linked = <<front, AddIfNew(back, q, q.kind)>>]
               [] OTHER ->
                    [s EXCEPT !.pending[q.kind] = Append(@, q)]

put_trade(s, q) == Put(s, q, "trade")
put_inc(s, q)   == Put(s, q, "inc")

\* The front period's trademap, not its snapshot_map, is consulted.
put_snapshot(s, q) == Put(s, q, "trade")

-----------------------------------------------------------------------------
(***************************************************************************)
(* One of the three loops of detach over a pending list. The loop removes  *)
(* the element it stands on and then asks it for its successor; a removed  *)
(* element of container/list has none, so the loop ends with the first     *)
(* quote that belongs to the period.                                       *)
(***************************************************************************)
\* The position of that quote in the list, 0 if there is none.
FirstMatch(pn, pend) == SelectInSeq(pend, LAMBDA q : InPeriod(pn, q))

SweepPending(pn, pend) == RemoveFirstMatch(pend, LAMBDA q : InPeriod(pn, q))

\* Mutant: the quote leaves the pending list and does not enter the period.
SweepIndexForgets(pn, k, pend) == pn.index[k]

\* The map of the node is read but not extended by the loop.
SweepIndex(pn, k, pend) ==
  LET i == FirstMatch(pn, pend)
  IN  IF i = 0 \/ GetId(pend[i]) \in pn.ids[k] THEN pn.index[k]
      ELSE Append(pn.index[k], pend[i])

\* Mutant: the new back period starts where the other one starts.
detachRestarts(s) ==
  LET pn  == s.linked[1]
      pnx == s.linked[2]
  IN  [def |-> [linked  |-> <<pnx, NewPeriodNode(pnx.start)>>,
                pending |-> [k \in Kinds |-> SweepPending(pn, s.pending[k])]],
       out |-> <<[pn EXCEPT !.index =
                    [k \in Kinds |-> SweepIndex(pn, k, s.pending[k])]]>>]

\* The front period leaves, a new back period is appended behind the other one.
detach(s) ==
  LET pn  == s.linked[1]
      pnx == s.linked[2]
  IN  [def |-> [linked  |-> <<pnx, NewPeriodNode(pnx.end)>>,
                pending |-> [k \in Kinds |-> SweepPending(pn, s.pending[k])]],
       out |-> <<[pn EXCEPT !.index =
                    [k \in Kinds |-> SweepIndex(pn, k, s.pending[k])]]>>]

\* Mutant: every call appends a period.
TwoNodesAlways(linked) ==
  Append(linked, NewPeriodNode(linked[Len(linked)].end))

\* The list once timeItr has made sure that there are two periods.
TwoNodes(linked) ==
  IF Len(linked) = 1 THEN Append(linked, NewPeriodNode(linked[1].end))
                     ELSE linked

(***************************************************************************)
(* def is the new structure, out the detached period: the empty sequence   *)
(* when timeItr returns nil, a sequence of one node otherwise.             *)
(***************************************************************************)
timeItr(s, now, bornTs) ==
  IF Len(s.linked) = 0
  THEN [def |-> [s EXCEPT !.linked = <<NewPeriodNode(bornTs)>>], out |-> <<>>]
  ELSE LET s2 == [s EXCEPT !.linked = TwoNodes(s.linked)]
       IN  IF now > s2.linked[1].end + DETACH_TIME
           THEN detach(s2)
           ELSE [def |-> s2, out |-> <<>>]
=============================================================================
