------------------------------ MODULE PeriodFeed ------------------------------
(***************************************************************************)
(* What the aggregator promises to whoever reads its stream of period      *)
(* messages, with nothing said of buffers, locks, clocks or rounds:        *)
(* quotes are taken in, and now and then a message leaves that carries     *)
(* some of them. PeriodCollect implements it.                              *)
(***************************************************************************)
EXTENDS SymbolDef

CONSTANTS Symbols, Quotes, SkipEmptyQuote

VARIABLES taken,  \* pairs <<symbol, quote>> the aggregator took in
          out     \* the messages that left, each with ts and infos

feed == <<taken, out>>

Init == taken = {} /\ out = <<>>

Take ==
  /\ \E s \in Symbols, q \in Quotes : taken' = taken \cup {<<s, q>>}
  /\ out' = out

\* Message m carries quote q of symbol s.
Carries(m, s, q) ==
  \E x \in m.infos : x.symbol = s /\ \E i \in DOMAIN x.index[q.kind] : x.index[q.kind][i] = q

\* Nothing is made up: every quote of the message was taken in before.
Genuine(m) ==
  \A x \in m.infos : \A k \in Kinds : \A i \in DOMAIN x.index[k] :
    <<x.symbol, x.index[k][i]>> \in taken

\* No trade and no increment is in the message twice, and a symbol has one part.
Once(m) ==
  /\ \A x, y \in m.infos : x.symbol = y.symbol => x = y
  /\ \A x \in m.infos : \A k \in {"trade", "inc"} : \A i, j \in DOMAIN x.index[k] :
       GetId(x.index[k][i]) = GetId(x.index[k][j]) => i = j

\* Messages follow each other period by period.
Follows(m) ==
  LET last == out[Len(out)]
  IN  out # <<>> => /\ m.ts > last.ts
                    /\ ~SkipEmptyQuote => m.ts = last.ts + PERIOD

\* A quote that an earlier message carried comes again only as a late one of
\* the period just before, which that message was about.
Repeats(m) ==
  \A n \in DOMAIN out, s \in Symbols, q \in Quotes :
    Carries(m, s, q) /\ Carries(out[n], s, q) =>
      out[n].ts + PERIOD = m.ts /\ q.t < m.ts

Publish ==
  /\ Len(out') = Len(out) + 1
  /\ SubSeq(out', 1, Len(out)) = out
  /\ LET m == out'[Len(out')]
     IN  /\ m.infos # {}
         /\ Follows(m)
         /\ Genuine(m)
         /\ Once(m)
         /\ Repeats(m)
  /\ taken' = taken

Next == Take \/ Publish

Spec == Init /\ [][Next]_feed
=============================================================================
