--------------------------- MODULE MCPeriodCollect ---------------------------
(***************************************************************************)
(* Instances of PeriodCollect for TLC: a clock unit is half a second, a    *)
(* period two seconds, and the quotes lie around the period borders.       *)
(***************************************************************************)
EXTENDS PeriodCollect

Trade(id, t) == [kind |-> "trade", t |-> t, uid |-> id]
Inc(id, t)   == [kind |-> "inc", t |-> t, uid |-> id]
Snap(id, t)  == [kind |-> "snap", t |-> t, uid |-> id]

(***************************************************************************)
(* A trade of one period and three increments of a later one, early enough *)
(* for the pending list; two of them have the same event time.             *)
(***************************************************************************)
MCMerge == {Trade(101, 7), Inc(201, 12), Inc(202, 12), Inc(203, 13)}

\* A trade and a snapshot of different periods.
MCPair == {Trade(101, 7), Snap(301, 9)}

\* Two early trades of one period.
MCEarly == {Trade(101, 12), Trade(102, 13)}
=============================================================================
