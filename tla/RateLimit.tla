------------------------------ MODULE RateLimit ------------------------------
(***************************************************************************)
(* RateLimitManager of ratelimit.go, the same file in both services. The   *)
(* limits of the exchange have a window each; Consume admits a call or     *)
(* refuses it, and a loop that runs every millisecond starts the windows   *)
(* again. The windows follow the time of the day.                          *)
(***************************************************************************)
EXTENDS Integers

\* req_weight_intervals and order_intervals, each with "MINUTE" and "SECOND".
Kinds == {"weightMinute", "weightSecond", "orderMinute", "orderSecond"}

CONSTANTS Day,    \* seconds of a day
          Window, \* length of the windows that the exchange states
          Limit   \* and their limits

ASSUME LimitAssumption == /\ Day \in Nat \ {0}
                          /\ DOMAIN Window \subseteq Kinds
                          /\ Window \in [DOMAIN Window -> Nat \ {0}]
                          /\ Limit \in [DOMAIN Window -> Nat]

VARIABLES secs,  \* seconds of the day
          count, \* what was consumed
          used   \* history: what was admitted in this window after its first second

limiter == <<secs, count, used>>

Stated == DOMAIN Window

\* UpdateRateLimitManager, with what the exchange states.
LimitInit ==
  /\ secs = 0
  /\ count = [k \in Stated |-> 0]
  /\ used = [k \in Stated |-> 0]

\* The seconds in which the loop resets a count.
AtReset(k, s) == s % Window[k] = 0

\* Mutant: the seconds go on at midnight.
SecondRuns ==
  /\ secs' = secs + 1
  /\ used' = [k \in Stated |-> IF AtReset(k, secs') THEN 0 ELSE used[k]]
  /\ count' = count

Second ==
  /\ secs' = (secs + 1) % Day
  /\ used' = [k \in Stated |-> IF AtReset(k, secs') THEN 0 ELSE used[k]]
  /\ count' = count

\* Mutant: nothing is reset.
PollIdle == UNCHANGED limiter

\* One turn of the loop of Open. A limit by the hour would make it panic; the
\* exchange states none. A limit by the day is stored and never looked at.
Poll ==
  /\ count' = [k \in Stated |-> IF AtReset(k, secs) THEN 0 ELSE count[k]]
  /\ UNCHANGED <<secs, used>>

\* What a call with this weight and order count costs.
Cost(weight, orders) ==
  [k \in Stated |-> IF k \in {"weightMinute", "weightSecond"} THEN weight ELSE orders]

Add(counts, kind, n) == [k \in Stated |-> IF k = kind THEN counts[k] + n ELSE counts[k]]

\* Mutant: a limit is exceeded when the count already is.
ExceedsOne(k, counts, n) == k \in Stated /\ counts[k] > Limit[k]

\* A limit the exchange does not state is never exceeded.
Exceeds(k, counts, n) == k \in Stated /\ counts[k] + n > Limit[k]

\* Weight: the minute and then the second.
ByWeight(weight) ==
  IF weight = 0 THEN [ok |-> TRUE, counts |-> count]
  ELSE LET c1 == Add(count, "weightMinute", weight)
           c2 == Add(c1, "weightSecond", weight)
       IN  IF Exceeds("weightMinute", count, weight) THEN [ok |-> FALSE, counts |-> count]
           ELSE IF Exceeds("weightSecond", c1, weight) THEN [ok |-> FALSE, counts |-> c1]
           ELSE [ok |-> TRUE, counts |-> c2]

\* Orders likewise. The check is for one order, and the one of the second is
\* against the weight of the second: "orderSecond" is never counted.
ByOrders(orders, counts) ==
  IF orders = 0 THEN [ok |-> TRUE, counts |-> counts]
  ELSE LET c1 == Add(counts, "orderMinute", orders)
           c2 == Add(c1, "weightSecond", orders)
       IN  IF Exceeds("orderMinute", counts, 1) THEN [ok |-> FALSE, counts |-> counts]
           ELSE IF Exceeds("weightSecond", c1, 1) THEN [ok |-> FALSE, counts |-> c1]
           ELSE [ok |-> TRUE, counts |-> c2]

\* Consume: what a check that passed has added stays when a later one fails.
Consumed(weight, orders) ==
  LET w == ByWeight(weight) IN IF w.ok THEN ByOrders(orders, w.counts) ELSE w

Consume(weight, orders, ok) ==
  /\ ok = Consumed(weight, orders).ok
  /\ count' = Consumed(weight, orders).counts
  /\ used' = IF ok THEN [k \in Stated |-> IF AtReset(k, secs) THEN used[k]
                                          ELSE used[k] + Cost(weight, orders)[k]]
             ELSE used
  /\ secs' = secs

-----------------------------------------------------------------------------
(* Properties *)

LimitTypeOK ==
  /\ secs \in 0 .. Day - 1
  /\ count \in [Stated -> Nat]
  /\ used \in [Stated -> Nat]

(***************************************************************************)
(* Once the first second of a window is over, in which the loop forgets    *)
(* what was consumed every millisecond, the calls that Consume admits stay *)
(* within the limit of the window, whether the loop comes in time or not,  *)
(* and whatever refused calls have left in the counts. The limit of orders *)
(* of a second is left out: Consume does not look at it.                   *)
(***************************************************************************)
WindowBound == \A k \in Stated \ {"orderSecond"} : used[k] <= Limit[k]
=============================================================================
