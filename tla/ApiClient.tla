------------------------------ MODULE ApiClient ------------------------------
(***************************************************************************)
(* Requests over the websocket API: WebsocketAPIClient of core/wsclient.go *)
(* behind the limits of RateLimit. A caller asks the limits, registers the *)
(* channel for its answer, sends, and waits until the answer comes or it   *)
(* has no more patience; then it removes the channel. One goroutine reads  *)
(* the answers and hands each to the channel that is registered for it.    *)
(* This client has no callers in the repository: the services connect that *)
(* of binance-connector-go and send no request over it. The callers here   *)
(* use the methods the way the methods are meant.                          *)
(***************************************************************************)
EXTENDS RateLimit, FiniteSetsExt, Sequences

CONSTANTS Callers, \* goroutines that make requests
          Costs,   \* weight and order count of the requests
          MaxReq   \* bound: requests of all callers

ASSUME ApiAssumption == /\ Costs \subseteq [weight : Nat, orders : {0, 1}]
                        /\ MaxReq \in Nat

VARIABLES conn,           \* state of the connection
          ReqResponseMap, \* requests with a registered channel
          wire,           \* requests that the exchange has not answered
          inbox,          \* answers on the way back
          reader,         \* what the reader has to hand over, a request or none
          reading,        \* the reader's goroutine runs
          pc,             \* the callers
          nth             \* how many requests each caller has begun

client == <<conn, ReqResponseMap, wire, inbox, reader, reading>>
vars == <<limiter, client, pc, nth>>

\* The uuid of a caller's request, and what the reader holds.
Id(c)    == <<c, nth[c]>>
Requests == Callers \X Nat
None     == <<>>

Init ==
  /\ LimitInit
  /\ conn = "none"
  /\ ReqResponseMap = {}
  /\ wire = {}
  /\ inbox = <<>>
  /\ reader = None
  /\ reading = FALSE
  /\ pc = [c \in Callers |-> "idle"]
  /\ nth = [c \in Callers |-> 0]

Goto(c, label) == pc' = [pc EXCEPT ![c] = label]

\* Connect makes the map anew and starts the reader.
Connect ==
  /\ conn = "none"
  /\ conn' = "open"
  /\ ReqResponseMap' = {}
  /\ reading' = TRUE
  /\ UNCHANGED <<limiter, wire, inbox, reader, pc, nth>>

\* Close closes the connection and keeps the map and the reader. The exchange
\* closes connections, too.
Close ==
  /\ conn = "open"
  /\ conn' = "closed"
  /\ UNCHANGED <<limiter, ReqResponseMap, wire, inbox, reader, reading, pc, nth>>

-----------------------------------------------------------------------------
(* The callers *)

Ask(c) ==
  /\ pc[c] = "idle"
  /\ conn # "none"
  /\ MapThenSumSet(LAMBDA d : nth[d], Callers) < MaxReq
  /\ \E cost \in Costs, ok \in BOOLEAN :
       /\ Consume(cost.weight, cost.orders, ok)
       /\ IF ok THEN Goto(c, "add") ELSE pc' = pc
       /\ nth' = IF ok THEN [nth EXCEPT ![c] = @ + 1] ELSE nth
  /\ UNCHANGED client

AddReqRespChan(c) ==
  /\ pc[c] = "add"
  /\ ReqResponseMap' = ReqResponseMap \cup {Id(c)}
  /\ Goto(c, "send")
  /\ UNCHANGED <<limiter, conn, wire, inbox, reader, reading, nth>>

\* SendMessage writes under a mutex; on a closed connection it fails.
SendMessage(c) ==
  /\ pc[c] = "send"
  /\ IF conn = "open"
     THEN wire' = wire \cup {Id(c)} /\ Goto(c, "wait")
     ELSE wire' = wire /\ Goto(c, "remove")
  /\ UNCHANGED <<limiter, conn, ReqResponseMap, inbox, reader, reading, nth>>

GiveUp(c) ==
  /\ pc[c] = "wait"
  /\ Goto(c, "remove")
  /\ UNCHANGED <<limiter, client, nth>>

RemoveReqRespChan(c) ==
  /\ pc[c] = "remove"
  /\ ReqResponseMap' = ReqResponseMap \ {Id(c)}
  /\ Goto(c, "idle")
  /\ UNCHANGED <<limiter, conn, wire, inbox, reader, reading, nth>>

-----------------------------------------------------------------------------
(* The exchange and the reader *)

Answer(id) ==
  /\ conn = "open"
  /\ wire' = wire \ {id}
  /\ inbox' = Append(inbox, id)
  /\ UNCHANGED <<limiter, conn, ReqResponseMap, reader, reading, pc, nth>>

\* Mutant: an answer nobody waits for ends the reader.
ReadMessageStrict ==
  /\ reading
  /\ reader = None
  /\ conn = "open"
  /\ inbox # <<>>
  /\ inbox' = Tail(inbox)
  /\ reader' = IF Head(inbox) \in ReqResponseMap THEN Head(inbox) ELSE None
  /\ reading' = (Head(inbox) \in ReqResponseMap)
  /\ UNCHANGED <<limiter, conn, ReqResponseMap, wire, pc, nth>>

\* Handler looks the channel up under the mutex; an answer without one is
\* dropped.
ReadMessage ==
  /\ reading
  /\ reader = None
  /\ conn = "open"
  /\ inbox # <<>>
  /\ inbox' = Tail(inbox)
  /\ reader' = IF Head(inbox) \in ReqResponseMap THEN Head(inbox) ELSE None
  /\ UNCHANGED <<limiter, conn, ReqResponseMap, wire, reading, pc, nth>>

\* A failed read ends the reader.
ReadFails ==
  /\ reading
  /\ reader = None
  /\ conn = "closed"
  /\ reading' = FALSE
  /\ UNCHANGED <<limiter, conn, ReqResponseMap, wire, inbox, reader, pc, nth>>

\* The send on the channel, outside the mutex, waits for the caller.
HandOver(c) ==
  /\ pc[c] = "wait"
  /\ reader = Id(c)
  /\ reader' = None
  /\ Goto(c, "remove")
  /\ UNCHANGED <<limiter, conn, ReqResponseMap, wire, inbox, reading, nth>>

-----------------------------------------------------------------------------
OtherThanLimits == UNCHANGED <<client, pc, nth>>

Caller(c) == AddReqRespChan(c) \/ SendMessage(c) \/ RemoveReqRespChan(c)
Reader    == ReadMessage \/ ReadFails \/ \E c \in Callers : HandOver(c)

Next ==
  \/ (Second \/ Poll) /\ OtherThanLimits
  \/ Connect
  \/ Close
  \/ \E c \in Callers : Ask(c) \/ Caller(c) \/ GiveUp(c)
  \/ \E id \in wire : Answer(id)
  \/ Reader

Spec == Init /\ [][Next]_vars

(***************************************************************************)
(* Time passes, and the loop of the limits, which runs every millisecond,  *)
(* comes at least sometimes in the second of a reset; the exchange answers *)
(* and the goroutines go on. Nobody has to make a request or to give up.   *)
(***************************************************************************)
Fairness ==
  /\ WF_vars(Second /\ OtherThanLimits)
  /\ \A k \in Stated : SF_vars(AtReset(k, secs) /\ Poll /\ OtherThanLimits)
  /\ \A c \in Callers : WF_vars(Caller(c))
  /\ WF_vars(\E id \in wire : Answer(id))
  /\ WF_vars(Reader)

FairSpec == Spec /\ Fairness

-----------------------------------------------------------------------------
(* Properties *)

\* Every variable has its type.
TypeOK ==
  /\ LimitTypeOK
  /\ conn \in {"none", "open", "closed"}
  /\ ReqResponseMap \subseteq Requests
  /\ wire \subseteq Requests
  /\ inbox \in Seq(Requests)
  /\ reader \in Requests \cup {None}
  /\ reading \in BOOLEAN
  /\ pc \in [Callers -> {"idle", "add", "send", "wait", "remove"}]
  /\ nth \in [Callers -> Nat]

\* The reader waits for a caller that has given up, and will for ever.
Stuck == reader # None /\ \A c \in Callers : pc[c] = "wait" => reader # Id(c)

(***************************************************************************)
(* Answers that come late, for requests their callers have given up, do    *)
(* not keep the others from theirs: a caller that waits has its answer in  *)
(* the end, unless the connection goes or the reader had just looked up    *)
(* the channel of a caller when that gave up.                              *)
(***************************************************************************)
Answered ==
  \A c \in Callers : (pc[c] = "wait") ~> (pc[c] # "wait" \/ conn = "closed" \/ Stuck)

(***************************************************************************)
(* No limit shuts the service out: what was consumed is forgotten in the   *)
(* end, also across midnight, where the windows start again.               *)
(***************************************************************************)
LimitRecovers == \A k \in Stated : (count[k] > 0) ~> (count[k] = 0)
=============================================================================
