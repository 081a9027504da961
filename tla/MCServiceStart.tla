---------------------------- MODULE MCServiceStart ----------------------------
(***************************************************************************)
(* Processes and settings of ServiceStart for TLC.                         *)
(***************************************************************************)
EXTENDS ServiceStart, TLC

CONSTANTS a1, a2, r1, s1, s2

MCService == (a1 :> "aggr") @@ (a2 :> "aggr") @@ (r1 :> "recv")

All(f)     == [list |-> {}, fault |-> f]
Only(s, f) == [list |-> {s}, fault |-> f]

\* Everything in order; or an aggregator that panics early, one that panics
\* late, and a receiver that panics.
MCConfs ==
  {(a1 :> All("none")) @@ (a2 :> Only(s1, "none")) @@ (r1 :> All("none")),
   (a1 :> Only(s1, "account")) @@ (a2 :> Only(s1, "producer")) @@ (r1 :> All("account"))}
=============================================================================
