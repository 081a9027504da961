------------------------------- MODULE WsServer -------------------------------
(***************************************************************************)
(* The websocket distribution of cmd/QuoteAggrService/wsserver.go.         *)
(*                                                                         *)
(* The collector calls enqueue for every PeriodMessage: under s.mtx it     *)
(* appends the message to the cache dataQueue and then hands it to every   *)
(* registered client over the bounded channel msgLiveCh. A client is four  *)
(* kinds of goroutine:                                                     *)
(*   run            moves messages from msgLiveCh to msgCh (or, while the  *)
(*                  history is being replayed, to accmsg) and starts a     *)
(*                  sender for each message of msgCh;                      *)
(*   the sync       copies the cached messages since "start" to msgCh,     *)
(*   goroutine      then accmsg, and then lets run forward by itself;      *)
(*   send           writes one message to the connection;                  *)
(*   handleMessages waits for the connection to fail and unregisters.      *)
(* A blocked channel operation is an action that is not enabled. A message *)
(* is its number, which is also its Ts: messages leave the collector in    *)
(* the order of their periods.                                             *)
(***************************************************************************)
EXTENDS Integers, SequencesExt

CONSTANTS Users,     \* user names
          Clients,   \* WsClient objects, one per accepted request
          Windows,   \* how many periods of history a request may ask for
          Cache,     \* DataCacheTime*60/3: size of dataQueue and of msgCh
          LiveCap,   \* size of msgLiveCh
          MaxMsg,    \* bound: number of messages the collector produces
          Reloads,   \* bound: number of reloads of the user file
          None

ASSUME CapAssumption    == Cache \in Nat \ {0} /\ LiveCap \in Nat \ {0}
ASSUME WindowAssumption == Windows \subseteq Nat
ASSUME BoundAssumption  == MaxMsg \in Nat /\ Reloads \in Nat
ASSUME NoneAssumption   == None \notin Clients /\ None \notin Users

VARIABLES
  up,         \* FALSE once the process has exited
  users,      \* config.Users
  reloads,    \* reloads so far
  smtx,       \* holder of s.mtx: "free", "enqueue" or "reload"
  dataQueue,  \* cached messages
  nextPm,     \* the collector's next message
  todo,       \* clients that enqueue has still to deliver to
  clients,    \* s.clients: the registered client of each user, or None
  phase,      \* per client: how far the handler of /ws is, see Phases
  user,       \* per client: its user
  start,      \* per client: number of the oldest message it asked for
  open,       \* per client: its connection works
  reader,     \* per client: handleMessages: "off", "reading", "closing", "done"
  heartbeat,  \* per client: timer_hb is armed
  pipe,       \* per client: channels, buffers and goroutines, see Pipes
  flight,     \* per client: messages held by send goroutines
  got,        \* history: how often each message was written to the client
  want        \* history: how often each message was given to the client

registry == <<up, users, reloads, clients, phase, user, start>>
server   == <<smtx, dataQueue, nextPm, todo>>
conn     == <<open, reader, heartbeat>>
vars     == <<registry, server, conn, pipe, flight, got, want>>

Msgs == 1 .. MaxMsg

Phases == {"new", "granted", "upgraded", "registered", "running"}

(***************************************************************************)
(* loop is the state of run's select loop: waiting, about to send hold to  *)
(* msgCh, or about to append hold to accmsg; sync that of the sync         *)
(* goroutine, which works on pms; mtx is held by sync while it drains.     *)
(***************************************************************************)
Pipes == [msgLiveCh : Seq(Msgs), msgCh : Seq(Msgs), accmsg : Seq(Msgs),
          pre_sync_ok : BOOLEAN, loop : {"off", "select", "forward", "accumulate"},
          hold : Msgs \cup {0}, sync : {"off", "copy", "push", "drain", "flag", "done"},
          pms : Seq(Msgs)]

NewPipe == [msgLiveCh |-> <<>>, msgCh |-> <<>>, accmsg |-> <<>>,
            pre_sync_ok |-> FALSE, loop |-> "off", hold |-> 0,
            sync |-> "off", pms |-> <<>>]

\* c.mtx is held by the sync goroutine from line 189 to line 194.
MtxFree(c) == pipe[c].sync # "drain"

Init ==
  /\ up = TRUE
  /\ users = Users
  /\ reloads = 0
  /\ smtx = "free"
  /\ dataQueue = <<>>
  /\ nextPm = 1
  /\ todo = {}
  /\ clients = [u \in Users |-> None]
  /\ phase = [c \in Clients |-> "new"]
  /\ user = [c \in Clients |-> None]
  /\ start = [c \in Clients |-> 0]
  /\ open = [c \in Clients |-> FALSE]
  /\ reader = [c \in Clients |-> "off"]
  /\ heartbeat = [c \in Clients |-> FALSE]
  /\ pipe = [c \in Clients |-> NewPipe]
  /\ flight = [c \in Clients |-> [m \in Msgs |-> 0]]
  /\ got = [c \in Clients |-> [m \in Msgs |-> 0]]
  /\ want = [c \in Clients |-> [m \in Msgs |-> 0]]

-----------------------------------------------------------------------------
(* enqueue, called by the collector *)

\* Mutant: nothing is evicted.
CachedAll(queue, m) == Append(queue, m)

\* The cache after a message was appended and the oldest one evicted.
Cached(queue, m) ==
  IF Len(queue) + 1 > Cache THEN Tail(Append(queue, m)) ELSE Append(queue, m)

EnqueueBegin ==
  /\ up
  /\ nextPm <= MaxMsg
  /\ smtx = "free"
  /\ smtx' = "enqueue"
  /\ dataQueue' = Cached(dataQueue, nextPm)
  /\ todo' = {clients[u] : u \in Users} \ {None}
  /\ UNCHANGED <<registry, nextPm, conn, pipe, flight, got, want>>

\* delivery blocks while msgLiveCh is full, with s.mtx held.
Delivery(c) ==
  /\ up
  /\ smtx = "enqueue"
  /\ c \in todo
  /\ Len(pipe[c].msgLiveCh) < LiveCap
  /\ pipe' = [pipe EXCEPT ![c].msgLiveCh = Append(@, nextPm)]
  /\ want' = [want EXCEPT ![c][nextPm] = @ + 1]
  /\ todo' = todo \ {c}
  /\ UNCHANGED <<registry, smtx, dataQueue, nextPm, conn, flight, got>>

EnqueueEnd ==
  /\ up
  /\ smtx = "enqueue"
  /\ todo = {}
  /\ smtx' = "free"
  /\ nextPm' = nextPm + 1
  /\ UNCHANGED <<registry, dataQueue, todo, conn, pipe, flight, got, want>>

-----------------------------------------------------------------------------
(* The handler of /ws, and the user list *)

\* The user list is read without s.mtx; a user that is not in it is refused.
Access(c, u) ==
  /\ up
  /\ phase[c] = "new"
  /\ u \in users
  /\ phase' = [phase EXCEPT ![c] = "granted"]
  /\ user' = [user EXCEPT ![c] = u]
  /\ UNCHANGED <<up, users, reloads, clients, start, server, conn, pipe, flight, got, want>>

\* A failed upgrade is fatal: logger.Fatalln ends the process.
UpgradeError(c) ==
  /\ up
  /\ phase[c] = "granted"
  /\ up' = FALSE
  /\ UNCHANGED <<users, reloads, clients, phase, user, start, server, conn, pipe,
                 flight, got, want>>

(***************************************************************************)
(* start = now - 1000 * the seconds the request asks for, in messages: the *)
(* message that is due next is already older than now. Before the first    *)
(* message every start is alike.                                           *)
(***************************************************************************)
Since(window) == IF nextPm + 1 > window THEN nextPm + 1 - window ELSE 1

\* start is 0 only for a request that counts back to 1970.
Upgrade(c, st) ==
  /\ up
  /\ phase[c] = "granted"
  /\ phase' = [phase EXCEPT ![c] = "upgraded"]
  /\ start' = [start EXCEPT ![c] = st]
  /\ open' = [open EXCEPT ![c] = TRUE]
  /\ UNCHANGED <<up, users, reloads, clients, user, server, reader, heartbeat, pipe,
                 flight, got, want>>

\* Under s.mtx. The user's earlier client is kicked: its connection is closed.
Register(c) ==
  /\ up
  /\ phase[c] = "upgraded"
  /\ smtx = "free"
  /\ phase' = [phase EXCEPT ![c] = "registered"]
  /\ open' = [x \in Clients |-> open[x] /\ x # clients[user[c]]]
  /\ clients' = [clients EXCEPT ![user[c]] = c]
  /\ UNCHANGED <<up, users, reloads, user, start, server, reader, heartbeat, pipe,
                 flight, got, want>>

\* reloadUsers empties the list before it reads the file.
ReloadBegin ==
  /\ up
  /\ reloads < Reloads
  /\ smtx = "free"
  /\ smtx' = "reload"
  /\ users' = {}
  /\ reloads' = reloads + 1
  /\ UNCHANGED <<up, clients, phase, user, start, dataQueue, nextPm, todo, conn, pipe,
                 flight, got, want>>

\* The list stays empty when the file cannot be read or parsed.
ReloadEnd(list) ==
  /\ up
  /\ smtx = "reload"
  /\ smtx' = "free"
  /\ users' = list
  /\ UNCHANGED <<up, reloads, clients, phase, user, start, dataQueue, nextPm, todo,
                 conn, pipe, flight, got, want>>

-----------------------------------------------------------------------------
(* run: the start, and the select loop *)

\* Without a start timestamp there is nothing to replay.
RunStart(c) ==
  /\ up
  /\ phase[c] = "registered"
  /\ phase' = [phase EXCEPT ![c] = "running"]
  /\ reader' = [reader EXCEPT ![c] = "reading"]
  /\ heartbeat' = [heartbeat EXCEPT ![c] = TRUE]
  /\ pipe' = [pipe EXCEPT ![c].loop = "select",
                          ![c].pre_sync_ok = (start[c] = 0),
                          ![c].sync = IF start[c] = 0 THEN "off" ELSE "copy"]
  /\ UNCHANGED <<up, users, reloads, clients, user, start, server, open, flight, got, want>>

\* case pm := <-c.msgCh: a goroutine of its own sends the message.
LoopSend(c) ==
  /\ up
  /\ pipe[c].loop = "select"
  /\ pipe[c].msgCh # <<>>
  /\ pipe' = [pipe EXCEPT ![c].msgCh = Tail(@)]
  /\ flight' = [flight EXCEPT ![c][Head(pipe[c].msgCh)] = @ + 1]
  /\ UNCHANGED <<registry, server, conn, got, want>>

\* case pm := <-c.msgLiveCh: pre_sync_ok decides where the message goes.
LoopTake(c) ==
  /\ up
  /\ pipe[c].loop = "select"
  /\ pipe[c].msgLiveCh # <<>>
  /\ pipe' = [pipe EXCEPT ![c].msgLiveCh = Tail(@),
                          ![c].hold = Head(pipe[c].msgLiveCh),
                          ![c].loop = IF pipe[c].pre_sync_ok THEN "forward"
                                                             ELSE "accumulate"]
  /\ UNCHANGED <<registry, server, conn, flight, got, want>>

\* c.msgCh <- pm, in the goroutine that empties msgCh.
LoopForward(c) ==
  /\ up
  /\ pipe[c].loop = "forward"
  /\ Len(pipe[c].msgCh) < Cache
  /\ pipe' = [pipe EXCEPT ![c].msgCh = Append(@, pipe[c].hold),
                          ![c].hold = 0,
                          ![c].loop = "select"]
  /\ UNCHANGED <<registry, server, conn, flight, got, want>>

LoopAccumulate(c) ==
  /\ up
  /\ pipe[c].loop = "accumulate"
  /\ MtxFree(c)
  /\ pipe' = [pipe EXCEPT ![c].accmsg = Append(@, pipe[c].hold),
                          ![c].hold = 0,
                          ![c].loop = "select"]
  /\ UNCHANGED <<registry, server, conn, flight, got, want>>

\* case <-timer_hb: fires once, the timer is not set again. A ping that fails
\* closes a connection that has failed already.
Heartbeat(c) ==
  /\ up
  /\ pipe[c].loop = "select"
  /\ heartbeat[c]
  /\ heartbeat' = [heartbeat EXCEPT ![c] = FALSE]
  /\ UNCHANGED <<registry, server, open, reader, pipe, flight, got, want>>

\* WriteMessage: a message for a connection that failed is dropped.
Send(c, m) ==
  /\ up
  /\ flight[c][m] > 0
  /\ flight' = [flight EXCEPT ![c][m] = @ - 1]
  /\ got' = IF open[c] THEN [got EXCEPT ![c][m] = @ + 1] ELSE got
  /\ UNCHANGED <<registry, server, conn, pipe, want>>

(***************************************************************************)
(* Nothing keeps two senders, or a sender and the ping, from writing at    *)
(* the same time; the websocket library ends the process with a panic when *)
(* it notices.                                                             *)
(***************************************************************************)
ConcurrentWrite(c) ==
  /\ up
  /\ open[c]
  /\ \E m, n \in Msgs : /\ flight[c][m] > 0
                        /\ \/ n # m /\ flight[c][n] > 0
                           \/ flight[c][m] > 1
                           \/ pipe[c].loop = "select" /\ heartbeat[c]
  /\ up' = FALSE
  /\ UNCHANGED <<users, reloads, clients, phase, user, start, server, conn, pipe,
                 flight, got, want>>

-----------------------------------------------------------------------------
(* The sync goroutine of run *)

\* Mutant: only the messages after start.
CachedAfter(queue, st) ==
  LET i == SelectInSeq(queue, LAMBDA m : st < m)
  IN  IF i = 0 THEN <<>> ELSE SubSeq(queue, i, Len(queue))

\* The messages since st. The cache holds them in the order of their numbers,
\* so they are the rest of the queue from the first of them on.
CachedSince(queue, st) ==
  LET i == SelectInSeq(queue, LAMBDA m : st <= m)
  IN  IF i = 0 THEN <<>> ELSE SubSeq(queue, i, Len(queue))

\* Under the read lock: the cached messages since start.
SyncCopy(c) ==
  /\ up
  /\ pipe[c].sync = "copy"
  /\ smtx = "free"
  /\ LET pms == CachedSince(dataQueue, start[c])
     IN  /\ pipe' = [pipe EXCEPT ![c].pms = pms, ![c].sync = "push"]
         /\ want' = [want EXCEPT ![c] =
                       [m \in Msgs |-> @[m] + IF m \in ToSet(pms) THEN 1 ELSE 0]]
  /\ UNCHANGED <<registry, server, conn, flight, got>>

SyncPush(c) ==
  /\ up
  /\ pipe[c].sync = "push"
  /\ pipe[c].pms # <<>>
  /\ Len(pipe[c].msgCh) < Cache
  /\ pipe' = [pipe EXCEPT ![c].msgCh = Append(@, Head(pipe[c].pms)),
                          ![c].pms = Tail(@)]
  /\ UNCHANGED <<registry, server, conn, flight, got, want>>

\* c.mtx.Lock()
SyncLock(c) ==
  /\ up
  /\ pipe[c].sync = "push"
  /\ pipe[c].pms = <<>>
  /\ pipe' = [pipe EXCEPT ![c].sync = "drain"]
  /\ UNCHANGED <<registry, server, conn, flight, got, want>>

SyncDrain(c) ==
  /\ up
  /\ pipe[c].sync = "drain"
  /\ pipe[c].accmsg # <<>>
  /\ Len(pipe[c].msgCh) < Cache
  /\ pipe' = [pipe EXCEPT ![c].msgCh = Append(@, Head(pipe[c].accmsg)),
                          ![c].accmsg = Tail(@)]
  /\ UNCHANGED <<registry, server, conn, flight, got, want>>

\* c.mtx.Unlock()
SyncUnlock(c) ==
  /\ up
  /\ pipe[c].sync = "drain"
  /\ pipe[c].accmsg = <<>>
  /\ pipe' = [pipe EXCEPT ![c].sync = "flag"]
  /\ UNCHANGED <<registry, server, conn, flight, got, want>>

\* Mutant: accmsg is freed after the unlock.
SyncFlagFrees(c) ==
  /\ up
  /\ pipe[c].sync = "flag"
  /\ pipe' = [pipe EXCEPT ![c].sync = "done", ![c].pre_sync_ok = TRUE,
                          ![c].accmsg = <<>>]
  /\ UNCHANGED <<registry, server, conn, flight, got, want>>

\* Mutant: run is not told that the history is complete.
SyncFlagNot(c) ==
  /\ up
  /\ pipe[c].sync = "flag"
  /\ pipe' = [pipe EXCEPT ![c].sync = "done"]
  /\ UNCHANGED <<registry, server, conn, flight, got, want>>

\* c.pre_sync_ok.Store(true)
SyncFlag(c) ==
  /\ up
  /\ pipe[c].sync = "flag"
  /\ pipe' = [pipe EXCEPT ![c].sync = "done", ![c].pre_sync_ok = TRUE]
  /\ UNCHANGED <<registry, server, conn, flight, got, want>>

-----------------------------------------------------------------------------
(* The end of a connection *)

\* The peer goes away.
PeerGone(c) ==
  /\ up
  /\ open[c]
  /\ open' = [open EXCEPT ![c] = FALSE]
  /\ UNCHANGED <<registry, server, reader, heartbeat, pipe, flight, got, want>>

\* handleMessages: ReadMessage fails on a connection that was closed.
ReadError(c) ==
  /\ up
  /\ reader[c] = "reading"
  /\ ~open[c]
  /\ reader' = [reader EXCEPT ![c] = "closing"]
  /\ UNCHANGED <<registry, server, open, heartbeat, pipe, flight, got, want>>

\* Mutant: whichever client the user has now is removed.
oncloseAny(c) ==
  /\ up
  /\ reader[c] = "closing"
  /\ smtx = "free"
  /\ reader' = [reader EXCEPT ![c] = "done"]
  /\ clients' = [clients EXCEPT ![user[c]] = None]
  /\ UNCHANGED <<up, users, reloads, phase, user, start, server, open, heartbeat, pipe,
                 flight, got, want>>

\* Mutant: the client stays registered until its user comes back.
oncloseKeeps(c) ==
  /\ up
  /\ reader[c] = "closing"
  /\ smtx = "free"
  /\ reader' = [reader EXCEPT ![c] = "done"]
  /\ UNCHANGED <<registry, server, open, heartbeat, pipe, flight, got, want>>

\* Only the user's current client is removed, not the one that kicked it.
onclose(c) ==
  /\ up
  /\ reader[c] = "closing"
  /\ smtx = "free"
  /\ reader' = [reader EXCEPT ![c] = "done"]
  /\ clients' = IF clients[user[c]] = c THEN [clients EXCEPT ![user[c]] = None]
                                        ELSE clients
  /\ UNCHANGED <<up, users, reloads, phase, user, start, server, open, heartbeat, pipe,
                 flight, got, want>>

-----------------------------------------------------------------------------
Enqueue == \/ EnqueueBegin
           \/ \E c \in Clients : Delivery(c)
           \/ EnqueueEnd

Request == \/ \E c \in Clients, u \in Users : Access(c, u)
           \/ \E c \in Clients : UpgradeError(c) \/ Register(c)
           \/ \E c \in Clients, st \in {0} \cup {Since(w) : w \in Windows} :
                Upgrade(c, st)

Reload == ReloadBegin \/ \E list \in {Users, {}} : ReloadEnd(list)

Loop(c) == LoopSend(c) \/ LoopTake(c) \/ LoopForward(c) \/ LoopAccumulate(c)

Sync(c) == \/ SyncCopy(c) \/ SyncPush(c) \/ SyncLock(c)
           \/ SyncDrain(c) \/ SyncUnlock(c) \/ SyncFlag(c)

Close(c) == ReadError(c) \/ onclose(c)

Next == \/ Enqueue
        \/ Request
        \/ Reload
        \/ \E c \in Clients : \/ RunStart(c)
                              \/ Loop(c)
                              \/ Heartbeat(c)
                              \/ \E m \in Msgs : Send(c, m)
                              \/ ConcurrentWrite(c)
                              \/ Sync(c)
                              \/ PeerGone(c)
                              \/ Close(c)

Spec == Init /\ [][Next]_vars

(***************************************************************************)
(* Every goroutine that can run eventually does. A goroutine that waits    *)
(* for s.mtx gets it once it is released often enough: sync.RWMutex does   *)
(* not starve its waiters. Requests, reloads, messages and failures of the *)
(* peer need not happen. A select with several ready cases picks one at    *)
(* random, so msgCh gets its turn.                                         *)
(***************************************************************************)
FairSpec ==
  /\ Spec
  /\ WF_vars(EnqueueEnd)
  /\ WF_vars(\E list \in {Users, {}} : ReloadEnd(list))
  /\ \A c \in Clients :
       /\ WF_vars(Delivery(c))
       /\ WF_vars(RunStart(c))
       /\ WF_vars(Loop(c))
       /\ WF_vars(\E m \in Msgs : Send(c, m))
       /\ WF_vars(Sync(c))
       /\ WF_vars(ReadError(c))
       /\ SF_vars(LoopSend(c))
       /\ SF_vars(SyncCopy(c))
       /\ SF_vars(onclose(c))

-----------------------------------------------------------------------------
(* Properties *)

\* The queue, the channels and the buffers stay within their sizes.
TypeOK ==
  /\ up \in BOOLEAN
  /\ users \subseteq Users
  /\ reloads \in 0 .. Reloads
  /\ smtx \in {"free", "enqueue", "reload"}
  /\ dataQueue \in Seq(Msgs) /\ Len(dataQueue) <= Cache
  /\ nextPm \in 1 .. MaxMsg + 1
  /\ todo \subseteq Clients
  /\ clients \in [Users -> Clients \cup {None}]
  /\ phase \in [Clients -> Phases]
  /\ user \in [Clients -> Users \cup {None}]
  /\ start \in [Clients -> Nat]
  /\ open \in [Clients -> BOOLEAN]
  /\ reader \in [Clients -> {"off", "reading", "closing", "done"}]
  /\ heartbeat \in [Clients -> BOOLEAN]
  /\ pipe \in [Clients -> Pipes]
  /\ \A c \in Clients : /\ Len(pipe[c].msgLiveCh) <= LiveCap
                        /\ Len(pipe[c].msgCh) <= Cache
  /\ \A f \in {flight, got, want} : f \in [Clients -> [Msgs -> Nat]]

(***************************************************************************)
(* A user has one stream: a client with a working connection that got past *)
(* registration is the registered one, whatever the order in which kicked  *)
(* clients run onclose.                                                    *)
(***************************************************************************)
Exclusive ==
  \A c \in Clients :
    open[c] /\ phase[c] \in {"registered", "running"} => clients[user[c]] = c

\* How often m is in the sequence seq.
Copies(seq, m) == Cardinality({i \in DOMAIN seq : seq[i] = m})

\* The sync goroutine has read accmsg for the last time; nobody else reads it.
Drained(c) == pipe[c].sync \in {"flag", "done"}

\* What some goroutine still has to move towards the connection of c.
OnTheWay(c) ==
  pipe[c].msgLiveCh \o <<pipe[c].hold>> \o (IF Drained(c) THEN <<>> ELSE pipe[c].accmsg)
    \o pipe[c].pms \o pipe[c].msgCh

\* What is lost to c: run put it into accmsg after that was emptied.
Stranded(c) == IF Drained(c) THEN pipe[c].accmsg ELSE <<>>

(***************************************************************************)
(* What becomes of a message after delivery or the copy of the cache: it   *)
(* is on its way, in a sender, written, or stranded in accmsg, and no      *)
(* interleaving of run, the sync goroutine and the senders doubles it or   *)
(* loses it in another place. A client that asked for no history loses     *)
(* nothing.                                                                *)
(***************************************************************************)
Conserved ==
  \A c \in Clients : open[c] =>
    /\ \A m \in Msgs :
         want[c][m] = Copies(OnTheWay(c), m) + Copies(Stranded(c), m)
                      + flight[c][m] + got[c][m]
    /\ start[c] = 0 => Stranded(c) = <<>>

\* run takes no message of a client to accmsg, whose replay is over.
NoMoreStranded ==
  \A c \in Clients :
    pipe[c].sync = "done" /\ pipe[c].loop # "accumulate"
    => pipe'[c].loop # "accumulate" /\ pipe'[c].accmsg = pipe[c].accmsg

(***************************************************************************)
(* The loss has an end: once the flag is up and run has put away the       *)
(* message it held then, run takes no message to accmsg any more.          *)
(***************************************************************************)
LossEnds == [][NoMoreStranded]_vars

(***************************************************************************)
(* No gap between the replayed and the live messages: a registered client  *)
(* that copied the cache was given every cached message since its start,   *)
(* also one that entered the cache between registration and the copy.      *)
(***************************************************************************)
NoGap ==
  \A c \in Clients :
    /\ phase[c] = "running"
    /\ clients[user[c]] = c
    /\ pipe[c].sync \notin {"off", "copy"}
    /\ c \notin todo
    => \A m \in ToSet(dataQueue) : m >= start[c] => want[c][m] >= 1

(***************************************************************************)
(* The run loop of c waits for itself: it sends to the full channel that   *)
(* it alone empties, or waits for c.mtx, whose holder sends to it.         *)
(***************************************************************************)
Jammed(c) ==
  /\ Len(pipe[c].msgCh) = Cache
  /\ \/ pipe[c].loop = "forward"
     \/ pipe[c].loop = "accumulate" /\ pipe[c].sync = "drain" /\ pipe[c].accmsg # <<>>

(***************************************************************************)
(* A client whose connection has failed does not stay registered, unless   *)
(* the run loop of some client waits for itself: then enqueue can fill     *)
(* that client's msgLiveCh and keep s.mtx, which onclose needs.            *)
(***************************************************************************)
Reaped ==
  \A c \in Clients :
    phase[c] = "running" /\ ~open[c]
    ~> \/ ~up
       \/ \A u \in Users : clients[u] # c
       \/ \E d \in Clients : Jammed(d)

(***************************************************************************)
(* "several users, each with a data stream of its own" (version.go:62): no *)
(* client keeps enqueue, which feeds all of them, from returning.          *)
(***************************************************************************)
EnqueueReturns == smtx = "enqueue" ~> ~up \/ smtx # "enqueue"
=============================================================================
