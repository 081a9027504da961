----------------------------- MODULE MCApiClient -----------------------------
(***************************************************************************)
(* Limits and requests of ApiClient for TLC: a second is a minute's fourth *)
(* part, and the day ends inside a window of orders.                       *)
(***************************************************************************)
EXTENDS ApiClient, TLC

MCWindow == ("weightMinute" :> 4) @@ ("weightSecond" :> 2) @@ ("orderMinute" :> 3)
MCLimit  == ("weightMinute" :> 3) @@ ("weightSecond" :> 2) @@ ("orderMinute" :> 1)
MCCosts  == {[weight |-> 2, orders |-> 0], [weight |-> 1, orders |-> 1]}
=============================================================================
