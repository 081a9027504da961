-------------------------- MODULE ServiceStartProofs --------------------------
(***************************************************************************)
(* One instance per pid file, the symbols a process serves, and types, for *)
(* any number of processes, symbols, starts, failed requests and changes   *)
(* of the exchange.                                                        *)
(***************************************************************************)
EXTENDS ServiceStart, TLAPS

(***************************************************************************)
(* The pid files. Who holds a lock is past Flock; two who hold one do not  *)
(* hold it on the same file; and until the name has been removed once, an  *)
(* open file is the one the name leads to.                                 *)
(***************************************************************************)
PidInv ==
  /\ pc \in [Procs -> Labels]
  /\ files \in Nat
  /\ path \in [Services -> Nat]
  /\ handle \in [Procs -> Nat]
  /\ removals \in [Services -> Nat]
  /\ locked = Inside
  /\ \A p \in Procs : handle[p] # 0 <=> pc[p] = "flock" \/ p \in Inside
  /\ \A p, q \in Inside : p # q => handle[p] # handle[q]
  /\ \A p \in Procs : removals[Service[p]] = 0 /\ handle[p] # 0 => handle[p] = path[Service[p]]

\* Steps of p that keep it past Lock, or start it, and leave the pid files alone.
Within(p) ==
  /\ \E l \in Labels : pc' = [pc EXCEPT ![p] = l]
  /\ p \in Inside <=> (p \in Inside)'
  /\ pc[p] # "flock" /\ pc'[p] # "flock"
  /\ UNCHANGED pidfile

LEMMA WithinStep ==
  ASSUME PidInv, NEW p \in Procs, Within(p) PROVE PidInv'
  <1>1. PICK l \in Labels : pc' = [pc EXCEPT ![p] = l]
    BY DEF Within
  <1>2. /\ pc' \in [Procs -> Labels]
        /\ \A q \in Procs : q # p => pc'[q] = pc[q]
    BY <1>1 DEF PidInv
  <1>3. Inside' = Inside
    BY <1>2 DEF Within, Inside
  <1>4. /\ files' = files /\ path' = path /\ handle' = handle
        /\ removals' = removals /\ locked' = locked
    BY DEF Within, pidfile
  <1>5. \A q \in Procs : pc'[q] = "flock" <=> pc[q] = "flock"
    BY <1>2 DEF Within
  <1>6. QED
    BY <1>2, <1>3, <1>4, <1>5 DEF PidInv

\* OpenFile: p gets the file that the name leads to, or a new one.
LEMMA OpenStep ==
  ASSUME PidInv, NEW p \in Procs, OpenFile(p) PROVE PidInv'
  <1> DEFINE s == Service[p]
  <1>1. s \in Services
    BY StartAssumption
  <1>2. /\ pc[p] = "open"
        /\ pc' = [pc EXCEPT ![p] = "flock"]
        /\ path' = [path EXCEPT ![s] = IF path[s] = 0 THEN files + 1 ELSE path[s]]
        /\ files' = IF path[s] = 0 THEN files + 1 ELSE files
        /\ handle' = [handle EXCEPT ![p] = path'[s]]
        /\ locked' = locked /\ removals' = removals
    BY DEF OpenFile, Goto
  <1> HIDE DEF s
  <1>3. /\ path'[s] \in Nat \ {0}
        /\ \A r \in Services : r # s => path'[r] = path[r]
        /\ path[s] # 0 => path'[s] = path[s]
        /\ path' \in [Services -> Nat]
        /\ files' \in Nat
    BY <1>1, <1>2 DEF PidInv
  <1>4. /\ handle' \in [Procs -> Nat]
        /\ handle'[p] = path'[s]
        /\ \A q \in Procs : q # p => handle'[q] = handle[q]
        /\ pc' \in [Procs -> Labels]
        /\ pc'[p] = "flock"
        /\ \A q \in Procs : q # p => pc'[q] = pc[q]
    BY <1>2, <1>3 DEF PidInv, Labels
  <1>5. Inside' = Inside /\ p \notin Inside
    BY <1>2, <1>4 DEF Inside
  <1>6. ASSUME NEW q \in Procs, removals'[Service[q]] = 0, handle'[q] # 0
        PROVE  handle'[q] = path'[Service[q]]
    <2>1. CASE q = p
      BY <1>4, <2>1 DEF s
    <2>2. CASE q # p
      <3>1. handle'[q] = handle[q] /\ handle[q] = path[Service[q]]
        BY <1>2, <1>4, <1>6, <2>2 DEF PidInv
      <3>2. Service[q] \in Services
        BY StartAssumption
      <3>3. QED
        BY <1>3, <1>6, <3>1, <3>2
    <2>3. QED
      BY <2>1, <2>2
  <1>7. QED
    BY <1>2, <1>3, <1>4, <1>5, <1>6 DEF PidInv

\* A process that closes its file: to leave it for good or to remove it.
LEMMA CloseStep ==
  ASSUME PidInv, NEW p \in Procs, CloseFile(p),
         NEW l \in {"off", "remove"}, pc' = [pc EXCEPT ![p] = l],
         UNCHANGED <<path, files, removals>>
  PROVE  PidInv'
  <1>1. /\ handle' = [handle EXCEPT ![p] = 0]
        /\ locked' = locked \ {p}
    BY DEF CloseFile
  <1>2. /\ handle' \in [Procs -> Nat]
        /\ handle'[p] = 0
        /\ \A q \in Procs : q # p => handle'[q] = handle[q]
        /\ pc' \in [Procs -> Labels]
        /\ pc'[p] = l
        /\ \A q \in Procs : q # p => pc'[q] = pc[q]
    BY <1>1 DEF PidInv, Labels
  <1>3. Inside' = Inside \ {p}
    BY <1>2 DEF Inside
  <1>4. \A q \in Procs : handle'[q] # 0 <=> pc'[q] = "flock" \/ q \in Inside'
    BY <1>2, <1>3 DEF PidInv
  <1>5. \A q, r \in Inside' : q # r => handle'[q] # handle'[r]
    BY <1>2, <1>3 DEF PidInv, Inside
  <1>6. \A q \in Procs : removals'[Service[q]] = 0 /\ handle'[q] # 0 => handle'[q] = path'[Service[q]]
    BY <1>2 DEF PidInv
  <1>7. QED
    BY <1>1, <1>2, <1>3, <1>4, <1>5, <1>6 DEF PidInv

\* Flock: the lock is taken on a file that nobody holds.
LEMMA LockStep ==
  ASSUME PidInv, NEW p \in Procs, pc[p] = "flock", Free(handle[p]),
         locked' = locked \cup {p}, pc' = [pc EXCEPT ![p] = "write"],
         UNCHANGED <<path, files, handle, removals>>
  PROVE  PidInv'
  <1>1. /\ pc' \in [Procs -> Labels]
        /\ pc'[p] = "write"
        /\ \A q \in Procs : q # p => pc'[q] = pc[q]
    BY DEF PidInv, Labels
  <1>2. Inside' = Inside \cup {p}
    BY <1>1 DEF Inside
  <1>3. \A q \in Inside : handle[q] # handle[p]
    BY DEF Free, PidInv
  <1>4. \A q \in Procs : handle'[q] # 0 <=> pc'[q] = "flock" \/ q \in Inside'
    BY <1>1, <1>2 DEF PidInv
  <1>5. \A q, r \in Inside' : q # r => handle'[q] # handle'[r]
    BY <1>2, <1>3 DEF PidInv
  <1>6. QED
    BY <1>1, <1>2, <1>4, <1>5 DEF PidInv

\* UnlockRemove: from now on files may be open that the name does not lead to.
LEMMA RemoveStep ==
  ASSUME PidInv, NEW p \in Procs, UnlockRemove(p) PROVE PidInv'
  <1> DEFINE s == Service[p]
  <1>1. s \in Services /\ \A q \in Procs : Service[q] \in Services
    BY StartAssumption
  <1>2. /\ pc[p] = "remove"
        /\ pc' = [pc EXCEPT ![p] = "off"]
        /\ path' = [path EXCEPT ![s] = 0]
        /\ removals' = [removals EXCEPT ![s] = removals[s] + 1]
        /\ files' = files /\ handle' = handle /\ locked' = locked
    BY DEF UnlockRemove, Exit, Goto
  <1> HIDE DEF s
  <1>3. /\ path' \in [Services -> Nat]
        /\ \A r \in Services : r # s => path'[r] = path[r] /\ removals'[r] = removals[r]
        /\ removals' \in [Services -> Nat]
        /\ removals'[s] # 0
    BY <1>1, <1>2 DEF PidInv
  <1>4. /\ pc' \in [Procs -> Labels]
        /\ pc'[p] = "off"
        /\ \A q \in Procs : q # p => pc'[q] = pc[q]
    BY <1>2 DEF PidInv, Labels
  <1>5. Inside' = Inside
    BY <1>2, <1>4 DEF Inside
  <1>6. \A q \in Procs : removals'[Service[q]] = 0 /\ handle'[q] # 0 => handle'[q] = path'[Service[q]]
    BY <1>1, <1>2, <1>3 DEF PidInv
  <1>7. \A q \in Procs : handle'[q] # 0 <=> pc'[q] = "flock" \/ q \in Inside'
    BY <1>2, <1>4, <1>5 DEF PidInv
  <1>8. QED
    BY <1>2, <1>3, <1>4, <1>5, <1>6, <1>7 DEF PidInv

\* The process goes on within Lock or before it.
LEMMA MainStep ==
  ASSUME PidInv, NEW p \in Procs,
         \/ AggrMain(p) \/ RecvMain(p) \/ AggrAccount(p) \/ RecvAccount(p)
         \/ AggrLoad(p) \/ RecvLoad(p) \/ AggrFanoutInit(p) \/ RecvFanoutInit(p)
         \/ AggrRun(p) \/ RecvRun(p)
  PROVE  PidInv'
  <1>1. PICK l \in Labels : pc' = [pc EXCEPT ![p] = l] /\ (pc[p] = "off" <=> l = "open")
                           /\ l \notin {"off", "flock", "remove"}
                           /\ pc[p] \notin {"open", "flock", "remove"}
    BY DEF AggrMain, RecvMain, AggrAccount, RecvAccount, AggrLoad, RecvLoad, AggrFanoutInit,
           RecvFanoutInit, AggrRun, RecvRun, At, Goto, Panic, Labels
  <1>2. UNCHANGED pidfile
    BY DEF AggrMain, RecvMain, AggrAccount, RecvAccount, AggrLoad, RecvLoad, AggrFanoutInit,
           RecvFanoutInit, AggrRun, RecvRun, Launch
  <1>3. pc'[p] = l
    BY <1>1 DEF PidInv
  <1>4. p \in Inside <=> (p \in Inside)'
    BY <1>1, <1>3 DEF Inside
  <1>5. Within(p)
    BY <1>1, <1>2, <1>3, <1>4 DEF Within
  <1>6. QED
    BY <1>5, WithinStep

\* OpenFile fails: no file is open, and none is created.
LEMMA RefuseStep ==
  ASSUME PidInv, NEW p \in Procs, OpenError(p) PROVE PidInv'
  <1>1. pc[p] = "open" /\ pc' = [pc EXCEPT ![p] = "off"] /\ "off" \in Labels /\ UNCHANGED pidfile
    BY DEF OpenError, Exit, Goto, Labels
  <1>2. pc'[p] = "off"
    BY <1>1 DEF PidInv
  <1>3. Within(p)
    BY <1>1, <1>2 DEF Within, Inside
  <1>4. QED
    BY <1>3, WithinStep

\* Steps that change neither the pid files nor where a process is.
LEMMA PidStutter ==
  ASSUME PidInv, UNCHANGED <<pc, pidfile>> PROVE PidInv'
  BY DEF PidInv, pidfile, Inside

\* Requests to the exchange are repeated or answered.
LEMMA RequestStep ==
  ASSUME PidInv, NEW p \in Procs,
         AggrExchangeInfo(p) \/ RecvExchangeInfo(p) \/ GetOrNewWsClient(p)
  PROVE  PidInv'
  <1>1. UNCHANGED pidfile
    BY DEF AggrExchangeInfo, RecvExchangeInfo, GetOrNewWsClient
  <1>2. pc' = pc \/ \E l \in {"load", "run"} : pc' = [pc EXCEPT ![p] = l]
    BY DEF AggrExchangeInfo, RecvExchangeInfo, GetOrNewWsClient, Goto
  <1>3. pc[p] \in {"info", "client"}
    BY DEF AggrExchangeInfo, RecvExchangeInfo, GetOrNewWsClient, At
  <1>4. CASE pc' = pc
    BY <1>1, <1>4, PidStutter
  <1>5. ASSUME NEW l \in {"load", "run"}, pc' = [pc EXCEPT ![p] = l] PROVE PidInv'
    <2>1. pc'[p] = l
      BY <1>5 DEF PidInv
    <2>2. Within(p)
      BY <1>1, <1>3, <1>5, <2>1 DEF Within, Inside, Labels
    <2>3. QED
      BY <2>2, WithinStep
  <1>6. QED
    BY <1>2, <1>4, <1>5

\* Flock and the pid that is written or not.
LEMMA FlockStep ==
  ASSUME PidInv, NEW p \in Procs, Flock(p) PROVE PidInv'
  <1>1. CASE Free(handle[p])
    BY <1>1, LockStep DEF Flock, Goto
  <1>2. CASE ~Free(handle[p])
    BY <1>2, CloseStep DEF Flock, Exit, Goto
  <1>3. QED
    BY <1>1, <1>2

LEMMA WriteStep ==
  ASSUME PidInv, NEW p \in Procs, WritePid(p) PROVE PidInv'
  <1>1. UNCHANGED <<path, files, removals>> /\ pc[p] = "write"
    BY DEF WritePid
  <1>2. CASE Goto(p, "init") /\ UNCHANGED <<handle, locked, loaded>>
    <2>1. pc' = [pc EXCEPT ![p] = "init"] /\ pc'[p] = "init" /\ "init" \in Labels
      BY <1>2 DEF PidInv, Goto, Labels
    <2>2. Within(p)
      BY <1>1, <1>2, <2>1 DEF Within, Inside, pidfile
    <2>3. QED
      BY <2>2, WithinStep
  <1>3. CASE CloseFile(p) /\ Exit(p)
    BY <1>1, <1>3, CloseStep DEF Exit, Goto
  <1>4. QED
    BY <1>2, <1>3 DEF WritePid

\* The steps that lock, close and remove pid files keep PidInv.
LEMMA PidAlways == Spec => []PidInv
  <1>1. Init => PidInv
    <2> SUFFICES ASSUME Init PROVE PidInv
      OBVIOUS
    <2>1. Inside = {}
      BY DEF Init, Inside
    <2>2. QED
      BY <2>1 DEF Init, PidInv, Labels
  <1>2. PidInv /\ [Next]_vars => PidInv'
    <2> SUFFICES ASSUME PidInv, [Next]_vars PROVE PidInv'
      OBVIOUS
    <2>1. ASSUME NEW p \in Procs, Unlock(p) \/ Kill(p) PROVE PidInv'
      <3>1. CASE UnlockClose(p)
        BY <3>1, CloseStep DEF UnlockClose, Goto
      <3>2. CASE Kill(p)
        BY <3>2, CloseStep DEF Kill, Exit, Goto
      <3>3. QED
        BY <2>1, <3>1, <3>2, RemoveStep DEF Unlock
    <2>2. ASSUME NEW p \in Procs, Proceed(p) PROVE PidInv'
      BY <2>1, <2>2, OpenStep, RefuseStep, FlockStep, WriteStep, MainStep, RequestStep
         DEF Proceed, Lock, AggrUp, RecvUp
    <2>3. ASSUME NEW s \in Symbols, Flip(s) PROVE PidInv'
      BY <2>3, PidStutter DEF Flip
    <2>4. CASE UNCHANGED vars
      BY <2>4, PidStutter DEF vars
    <2>5. QED
      BY <2>1, <2>2, <2>3, <2>4, MainStep DEF Next
  <1>3. QED
    BY <1>1, <1>2, PTL DEF Spec

(***************************************************************************)
(* OneInstance holds for every number of processes and starts: the lock on *)
(* the pid file keeps out a second instance until the file's name has been *)
(* removed, and two processes never hold the lock of one file.             *)
(***************************************************************************)
THEOREM OneInstanceRuns == Spec => []OneInstance
  <1>1. PidInv => OneInstance
    <2> SUFFICES ASSUME PidInv,
                        NEW p \in Inside, NEW q \in Inside, p # q, Service[p] = Service[q]
                 PROVE  handle[p] # handle[q] /\ removals[Service[p]] > 0
      BY DEF OneInstance
    <2>1. p \in Procs /\ q \in Procs /\ handle[p] # handle[q] /\ handle[p] # 0 /\ handle[q] # 0
      BY DEF PidInv, Inside
    <2>2. removals[Service[p]] \in Nat /\ removals[Service[p]] # 0
      BY <2>1, StartAssumption DEF PidInv
    <2>3. QED
      BY <2>1, <2>2
  <1>2. QED
    BY <1>1, PidAlways, PTL

-----------------------------------------------------------------------------
(* The symbols *)

Loaded   == {"fanout", "client", "run", "running"}
Informed == Loaded \cup {"load"}
Early    == Labels \ (Loaded \cup {"unlock", "remove"})

\* What the processes know, apart from where it came from.
KnowType ==
  /\ pc \in [Procs -> Labels]
  /\ flips \in Nat
  /\ exchange \in [Symbols -> States]
  /\ info \in [Procs -> UNION {[D -> States] : D \in SUBSET Symbols}]
  /\ asked \in [Procs -> Nat]
  /\ symbols \in [Procs -> SUBSET Symbols]

(***************************************************************************)
(* A process that has its answer holds the exchange as it was after asked  *)
(* changes; its symbols are empty until it loads them from there.          *)
(***************************************************************************)
KnowInv ==
  /\ KnowType
  /\ \A p \in Procs : asked[p] <= flips
  /\ \A p \in Procs : pc[p] \in Informed /\ asked[p] = flips => info[p] = exchange
  /\ \A p, q \in Procs :
       pc[p] \in Informed /\ pc[q] \in Informed /\ asked[p] = asked[q] => info[p] = info[q]
  /\ \A p \in Procs : pc[p] \in Early => symbols[p] = {}
  /\ \A p \in Procs : pc[p] \in Loaded => symbols[p] = Selected(conf[p].list, info[p])

\* A process goes on and learns nothing.
Idle(p) ==
  /\ \E l \in Labels : /\ pc' = [pc EXCEPT ![p] = l]
                       /\ l \in Informed => pc[p] \in Informed
                       /\ l \in Loaded => pc[p] \in Loaded
                       /\ l \in Early => pc[p] \in Early
  /\ UNCHANGED <<conf, market, loaded>>

LEMMA IdleStep ==
  ASSUME KnowInv, NEW p \in Procs, Idle(p) PROVE KnowInv'
  <1>1. PICK l \in Labels : /\ pc' = [pc EXCEPT ![p] = l]
                            /\ l \in Informed => pc[p] \in Informed
                            /\ l \in Loaded => pc[p] \in Loaded
                            /\ l \in Early => pc[p] \in Early
    BY DEF Idle
  <1>2. /\ pc' \in [Procs -> Labels]
        /\ \A q \in Procs : pc'[q] = IF q = p THEN l ELSE pc[q]
    <2>1. pc \in [Procs -> Labels]
      BY DEF KnowInv, KnowType
    <2>2. pc' = [pc EXCEPT ![p] = l]
      BY <1>1
    <2>3. QED
      BY <2>1, <2>2
  <1>3. \A q \in Procs : /\ pc'[q] \in Informed => pc[q] \in Informed
                         /\ pc'[q] \in Loaded => pc[q] \in Loaded
                         /\ pc'[q] \in Early => pc[q] \in Early
    <2> SUFFICES ASSUME NEW q \in Procs
                 PROVE  /\ pc'[q] \in Informed => pc[q] \in Informed
                        /\ pc'[q] \in Loaded => pc[q] \in Loaded
                        /\ pc'[q] \in Early => pc[q] \in Early
      OBVIOUS
    <2>1. pc'[q] = IF q = p THEN l ELSE pc[q]
      BY <1>2
    <2>2. CASE q = p
      BY <1>1, <2>1, <2>2, Zenon
    <2>3. CASE q # p
      BY <2>1, <2>3, Zenon
    <2>4. QED
      BY <2>2, <2>3
  <1>4. /\ conf' = conf /\ exchange' = exchange /\ flips' = flips
        /\ info' = info /\ asked' = asked /\ symbols' = symbols
    BY DEF Idle, market, loaded
  <1>5. \A q \in Procs : Selected(conf[q].list, info[q])' = Selected(conf[q].list, info[q])
    BY <1>4 DEF Selected
  <1>6. KnowType'
    BY <1>2, <1>4 DEF KnowInv, KnowType
  <1>7. QED
    BY <1>3, <1>4, <1>5, <1>6 DEF KnowInv

\* A process ends and forgets.
LEMMA ExitStep ==
  ASSUME KnowInv, NEW p \in Procs, Exit(p), UNCHANGED <<conf, market>> PROVE KnowInv'
  <1>1. /\ pc' = [pc EXCEPT ![p] = "off"]
        /\ info' = [info EXCEPT ![p] = Nothing]
        /\ asked' = [asked EXCEPT ![p] = 0]
        /\ symbols' = [symbols EXCEPT ![p] = {}]
        /\ conf' = conf /\ exchange' = exchange /\ flips' = flips
    BY DEF Exit, Goto, market
  <1>2. Nothing \in [{} -> States]
    BY DEF Nothing
  <1>3. Nothing \in UNION {[D -> States] : D \in SUBSET Symbols}
    BY <1>2
  <1>4. KnowType'
    BY <1>1, <1>3 DEF KnowInv, KnowType, Labels
  <1>5. \A q \in Procs : q # p => /\ pc'[q] = pc[q] /\ info'[q] = info[q]
                                  /\ asked'[q] = asked[q] /\ symbols'[q] = symbols[q]
    BY <1>1 DEF KnowInv, KnowType
  <1>6. pc'[p] = "off" /\ asked'[p] = 0 /\ symbols'[p] = {}
    BY <1>1 DEF KnowInv, KnowType
  <1>7. "off" \notin Informed /\ "off" \notin Loaded
    BY DEF Informed, Loaded
  <1>8. \A q \in Procs : q # p => Selected(conf[q].list, info[q])' = Selected(conf[q].list, info[q])
    BY <1>1, <1>5 DEF Selected
  <1>9. flips \in Nat
    BY DEF KnowInv, KnowType
  <1>10. \A q \in Procs : asked'[q] <= flips'
    BY <1>1, <1>5, <1>6, <1>9 DEF KnowInv
  <1>11. \A q \in Procs : pc'[q] \in Early => symbols'[q] = {}
    BY <1>5, <1>6 DEF KnowInv
  <1>12. \A q \in Procs : pc'[q] \in Loaded => symbols'[q] = Selected(conf[q].list, info[q])'
    BY <1>5, <1>6, <1>7, <1>8 DEF KnowInv
  <1>13. \A q \in Procs : pc'[q] \in Informed /\ asked'[q] = flips' => info'[q] = exchange'
    BY <1>1, <1>5, <1>6, <1>7 DEF KnowInv
  <1>14. \A q, r \in Procs : pc'[q] \in Informed /\ pc'[r] \in Informed /\ asked'[q] = asked'[r]
                                => info'[q] = info'[r]
    BY <1>5, <1>6, <1>7 DEF KnowInv
  <1>15. QED
    BY <1>4, <1>10, <1>11, <1>12, <1>13, <1>14 DEF KnowInv

\* The exchange answers: the aggregator replaces its map, the receiver adds.
LEMMA AnswerStep ==
  ASSUME KnowInv, NEW p \in Procs, pc[p] = "info",
         pc' = [pc EXCEPT ![p] = "load"],
         info' = [info EXCEPT ![p] = exchange],
         asked' = [asked EXCEPT ![p] = flips],
         UNCHANGED <<conf, market, symbols>>
  PROVE  KnowInv'
  <1>1. conf' = conf /\ exchange' = exchange /\ flips' = flips /\ symbols' = symbols
    BY DEF market
  <1>2. exchange \in UNION {[D -> States] : D \in SUBSET Symbols} /\ flips \in Nat
    BY DEF KnowInv, KnowType
  <1>3. KnowType'
    BY <1>1, <1>2 DEF KnowInv, KnowType, Labels
  <1>4. \A q \in Procs : q # p => pc'[q] = pc[q] /\ info'[q] = info[q] /\ asked'[q] = asked[q]
    BY DEF KnowInv, KnowType
  <1>5. pc'[p] = "load" /\ asked'[p] = flips /\ info'[p] = exchange
    BY DEF KnowInv, KnowType
  <1>6. "load" \notin Loaded /\ "info" \in Early
    BY DEF Loaded, Early, Labels
  <1>7. \A q \in Procs : q # p => Selected(conf[q].list, info[q])' = Selected(conf[q].list, info[q])
    BY <1>1, <1>4 DEF Selected
  <1>8. \A q \in Procs : asked'[q] <= flips'
    BY <1>1, <1>2, <1>4, <1>5 DEF KnowInv
  <1>9. \A q \in Procs : pc'[q] \in Informed /\ asked'[q] = flips' => info'[q] = exchange'
    BY <1>1, <1>4, <1>5 DEF KnowInv
  <1>10. \A q, r \in Procs : pc'[q] \in Informed /\ pc'[r] \in Informed /\ asked'[q] = asked'[r]
                                => info'[q] = info'[r]
    BY <1>1, <1>4, <1>5 DEF KnowInv
  <1>11. \A q \in Procs : pc'[q] \in Early => symbols'[q] = {}
    BY <1>1, <1>4, <1>6 DEF KnowInv
  <1>12. \A q \in Procs : pc'[q] \in Loaded => symbols'[q] = Selected(conf[q].list, info[q])'
    BY <1>1, <1>4, <1>5, <1>6, <1>7 DEF KnowInv
  <1>13. QED
    BY <1>3, <1>8, <1>9, <1>10, <1>11, <1>12 DEF KnowInv

\* The symbols are loaded from what the exchange said.
LEMMA LoadStep ==
  ASSUME KnowInv, NEW p \in Procs, pc[p] = "load",
         pc' = [pc EXCEPT ![p] = "fanout"],
         symbols' = [symbols EXCEPT ![p] = Selected(conf[p].list, info[p])],
         UNCHANGED <<conf, market, info, asked>>
  PROVE  KnowInv'
  <1>1. conf' = conf /\ exchange' = exchange /\ flips' = flips /\ info' = info /\ asked' = asked
    BY DEF market
  <1>2. Selected(conf[p].list, info[p]) \subseteq Symbols
    <2>1. PICK D \in SUBSET Symbols : info[p] \in [D -> States]
      BY DEF KnowInv, KnowType
    <2>2. QED
      BY <2>1 DEF Selected
  <1>3. KnowType'
    BY <1>1, <1>2 DEF KnowInv, KnowType, Labels
  <1>4. \A q \in Procs : q # p => pc'[q] = pc[q] /\ symbols'[q] = symbols[q]
    BY DEF KnowInv, KnowType
  <1>5. pc'[p] = "fanout" /\ symbols'[p] = Selected(conf[p].list, info[p])
    BY DEF KnowInv, KnowType
  <1>6. "fanout" \notin Early /\ "load" \in Informed
    BY DEF Loaded, Early, Informed
  <1>7. \A q \in Procs : Selected(conf[q].list, info[q])' = Selected(conf[q].list, info[q])
    BY <1>1 DEF Selected
  <1>8. \A q \in Procs : pc'[q] \in Informed => pc[q] \in Informed
    BY <1>4, <1>6
  <1>9. \A q \in Procs : pc'[q] \in Early => symbols'[q] = {}
    BY <1>4, <1>5, <1>6 DEF KnowInv
  <1>10. \A q \in Procs : pc'[q] \in Loaded => symbols'[q] = Selected(conf[q].list, info[q])'
    BY <1>4, <1>5, <1>7 DEF KnowInv
  <1>11. QED
    BY <1>1, <1>3, <1>8, <1>9, <1>10 DEF KnowInv

\* The exchange changes: what the processes know is older than that.
LEMMA FlipStep ==
  ASSUME KnowInv, NEW s \in Symbols, Flip(s) PROVE KnowInv'
  <1>1. /\ pc' = pc /\ conf' = conf /\ info' = info /\ asked' = asked /\ symbols' = symbols
        /\ flips' = flips + 1
    BY DEF Flip, loaded
  <1>2. exchange' \in [Symbols -> States]
    BY DEF Flip, KnowInv, KnowType
  <1>3. KnowType'
    BY <1>1, <1>2 DEF KnowInv, KnowType
  <1>4. \A q \in Procs : asked[q] \in Nat /\ flips \in Nat /\ asked[q] <= flips
    BY DEF KnowInv, KnowType
  <1>5. \A q \in Procs : asked'[q] <= flips' /\ asked'[q] # flips'
    BY <1>1, <1>4
  <1>6. \A q \in Procs : Selected(conf[q].list, info[q])' = Selected(conf[q].list, info[q])
    BY <1>1 DEF Selected
  <1>7. QED
    BY <1>1, <1>3, <1>5, <1>6 DEF KnowInv

\* Steps that change nothing of this.
LEMMA KnowStutter ==
  ASSUME KnowInv, UNCHANGED <<pc, conf, market, loaded>> PROVE KnowInv'
  <1>1. /\ pc' = pc /\ conf' = conf /\ exchange' = exchange /\ flips' = flips
        /\ info' = info /\ asked' = asked /\ symbols' = symbols
    BY DEF market, loaded
  <1>2. \A q \in Procs : Selected(conf[q].list, info[q])' = Selected(conf[q].list, info[q])
    BY <1>1 DEF Selected
  <1>3. QED
    BY <1>1, <1>2 DEF KnowInv, KnowType

\* updateExchangeInfo of both services, with an answer or an error.
LEMMA InfoStep ==
  ASSUME KnowInv, NEW p \in Procs, AggrExchangeInfo(p) \/ RecvExchangeInfo(p) PROVE KnowInv'
  <1>1. pc[p] = "info" /\ UNCHANGED <<conf, market, symbols>>
    BY DEF AggrExchangeInfo, RecvExchangeInfo, At
  <1>2. [s \in DOMAIN info[p] \cup Symbols |-> exchange[s]] = exchange
    <2>1. PICK D \in SUBSET Symbols : info[p] \in [D -> States]
      BY DEF KnowInv, KnowType
    <2>2. DOMAIN info[p] \cup Symbols = Symbols
      BY <2>1
    <2>3. exchange = [s \in Symbols |-> exchange[s]]
      BY DEF KnowInv, KnowType
    <2>4. QED
      BY <2>2, <2>3
  <1>3. CASE UNCHANGED <<pc, info, asked>>
    BY <1>1, <1>3, KnowStutter DEF loaded
  <1>4. CASE /\ pc' = [pc EXCEPT ![p] = "load"]
             /\ info' = [info EXCEPT ![p] = exchange]
             /\ asked' = [asked EXCEPT ![p] = flips]
    BY <1>1, <1>4, AnswerStep
  <1>5. CASE AggrExchangeInfo(p)
    BY <1>3, <1>4, <1>5 DEF AggrExchangeInfo, Goto
  <1>6. CASE RecvExchangeInfo(p)
    <2>1. CASE UNCHANGED <<pc, info, asked>>
      BY <1>3, <2>1
    <2>2. CASE /\ info' = [info EXCEPT ![p] = [s \in DOMAIN info[p] \cup Symbols |-> exchange[s]]]
               /\ asked' = [asked EXCEPT ![p] = flips]
               /\ pc' = [pc EXCEPT ![p] = "load"]
      BY <1>2, <1>4, <2>2
    <2>3. QED
      BY <1>6, <2>1, <2>2 DEF RecvExchangeInfo, Goto
  <1>7. QED
    BY <1>5, <1>6

\* loadTradingSymbol of both services: the receiver's set is empty before it.
LEMMA TakeStep ==
  ASSUME KnowInv, NEW p \in Procs, AggrLoad(p) \/ RecvLoad(p) PROVE KnowInv'
  <1> DEFINE chosen == Selected(conf[p].list, info[p])
  <1>1. pc[p] = "load" /\ UNCHANGED <<conf, market, info, asked>>
    BY DEF AggrLoad, RecvLoad, At
  <1>2. symbols[p] = {} /\ symbols \in [Procs -> SUBSET Symbols]
    BY <1>1 DEF KnowInv, KnowType, Early, Labels, Loaded
  <1>3. \/ /\ pc' = [pc EXCEPT ![p] = "fanout"]
           /\ symbols' = [symbols EXCEPT ![p] = chosen] \/ symbols' = [symbols EXCEPT ![p] = symbols[p] \cup chosen]
        \/ pc' = [pc EXCEPT ![p] = "unlock"] /\ symbols' = symbols
    BY DEF AggrLoad, RecvLoad, Goto, Panic
  <1>4. {} \cup chosen = chosen
    OBVIOUS
  <1> HIDE DEF chosen
  <1>5. CASE pc' = [pc EXCEPT ![p] = "fanout"] /\ symbols' = [symbols EXCEPT ![p] = chosen]
    BY <1>1, <1>5, LoadStep DEF chosen
  <1>6. CASE pc' = [pc EXCEPT ![p] = "unlock"] /\ symbols' = symbols
    <2>1. "unlock" \in Labels /\ "unlock" \notin Informed /\ "unlock" \notin Loaded /\ "unlock" \notin Early
      BY DEF Labels, Informed, Loaded, Early
    <2>2. Idle(p)
      BY <1>1, <1>6, <2>1 DEF Idle, loaded
    <2>3. QED
      BY <2>2, IdleStep
  <1>7. QED
    BY <1>2, <1>3, <1>4, <1>5, <1>6

\* The steps of a start that learn nothing about the symbols.
LEMMA OnwardStep ==
  ASSUME KnowInv, NEW p \in Procs, NEW from \in Labels, NEW to \in Labels, pc[p] = from,
         <<from, to>> \in {<<"off", "open">>, <<"open", "flock">>, <<"flock", "write">>,
                           <<"write", "init">>, <<"init", "info">>, <<"init", "unlock">>,
                           <<"fanout", "client">>, <<"fanout", "unlock">>, <<"client", "run">>,
                           <<"run", "running">>, <<"run", "unlock">>, <<"unlock", "remove">>},
         pc' = [pc EXCEPT ![p] = to], UNCHANGED <<conf, market, loaded>>
  PROVE  KnowInv'
  <1>1. /\ to \in Informed => from \in Informed
        /\ to \in Loaded => from \in Loaded
        /\ to \in Early => from \in Early
    BY DEF Informed, Loaded, Early, Labels
  <1>2. Idle(p)
    BY <1>1 DEF Idle
  <1>3. QED
    BY <1>2, IdleStep

\* The start up to the pid file, and the end.
LEMMA LockKnow ==
  ASSUME KnowInv, NEW p \in Procs,
         AggrMain(p) \/ RecvMain(p) \/ Lock(p) \/ Unlock(p) \/ Kill(p)
  PROVE  KnowInv'
  <1>0. {"off", "open", "flock", "write", "init", "unlock", "remove"} \subseteq Labels
    BY DEF Labels
  <1>1. CASE AggrMain(p) \/ RecvMain(p)
    BY <1>0, <1>1, OnwardStep DEF AggrMain, RecvMain, Launch, At, Goto
  <1>2. CASE OpenFile(p)
    BY <1>0, <1>2, OnwardStep DEF OpenFile, Goto
  <1>3. CASE Flock(p)
    <2>1. CASE Free(handle[p])
      BY <1>0, <1>3, <2>1, OnwardStep DEF Flock, Goto
    <2>2. CASE ~Free(handle[p])
      BY <1>3, <2>2, ExitStep DEF Flock
    <2>3. QED
      BY <2>1, <2>2
  <1>4. CASE WritePid(p)
    <2>1. pc[p] = "write" /\ UNCHANGED <<conf, market>>
      BY <1>4 DEF WritePid
    <2>2. CASE Goto(p, "init") /\ UNCHANGED loaded
      BY <1>0, <2>1, <2>2, OnwardStep DEF Goto
    <2>3. CASE Exit(p)
      BY <2>1, <2>3, ExitStep
    <2>4. QED
      BY <1>4, <2>2, <2>3 DEF WritePid
  <1>5. CASE UnlockClose(p)
    BY <1>0, <1>5, OnwardStep DEF UnlockClose, Goto
  <1>6. CASE OpenError(p) \/ UnlockRemove(p) \/ Kill(p)
    BY <1>6, ExitStep DEF OpenError, UnlockRemove, Kill
  <1>7. QED
    BY <1>1, <1>2, <1>3, <1>4, <1>5, <1>6 DEF Lock, Unlock

\* controller.init and run.
LEMMA UpKnow ==
  ASSUME KnowInv, NEW p \in Procs, AggrUp(p) \/ RecvUp(p) \/ GetOrNewWsClient(p)
  PROVE  KnowInv'
  <1>0. {"init", "info", "fanout", "client", "run", "running", "unlock"} \subseteq Labels
    BY DEF Labels
  <1>1. CASE AggrAccount(p) \/ RecvAccount(p)
    <2>1. pc[p] = "init" /\ UNCHANGED <<conf, market, loaded>>
      BY <1>1 DEF AggrAccount, RecvAccount, At
    <2>2. pc' = [pc EXCEPT ![p] = "info"] \/ pc' = [pc EXCEPT ![p] = "unlock"]
      BY <1>1 DEF AggrAccount, RecvAccount, Goto, Panic
    <2>3. QED
      BY <1>0, <2>1, <2>2, OnwardStep
  <1>2. CASE AggrFanoutInit(p) \/ RecvFanoutInit(p)
    <2>1. pc[p] = "fanout" /\ UNCHANGED <<conf, market, loaded>>
      BY <1>2 DEF AggrFanoutInit, RecvFanoutInit, At
    <2>2. pc' = [pc EXCEPT ![p] = "client"] \/ pc' = [pc EXCEPT ![p] = "unlock"]
      BY <1>2 DEF AggrFanoutInit, RecvFanoutInit, Goto, Panic
    <2>3. QED
      BY <1>0, <2>1, <2>2, OnwardStep
  <1>3. CASE AggrRun(p) \/ RecvRun(p)
    <2>1. pc[p] = "run" /\ UNCHANGED <<conf, market, loaded>>
      BY <1>3 DEF AggrRun, RecvRun, At
    <2>2. pc' = [pc EXCEPT ![p] = "running"] \/ pc' = [pc EXCEPT ![p] = "unlock"]
      BY <1>3 DEF AggrRun, RecvRun, Goto, Panic
    <2>3. QED
      BY <1>0, <2>1, <2>2, OnwardStep
  <1>4. CASE GetOrNewWsClient(p)
    <2>1. pc[p] = "client" /\ UNCHANGED <<conf, market, loaded>>
      BY <1>4 DEF GetOrNewWsClient
    <2>2. pc' = pc \/ pc' = [pc EXCEPT ![p] = "run"]
      BY <1>4 DEF GetOrNewWsClient, Goto
    <2>3. QED
      BY <1>0, <2>1, <2>2, OnwardStep, KnowStutter
  <1>5. QED
    BY <1>1, <1>2, <1>3, <1>4, InfoStep, TakeStep DEF AggrUp, RecvUp

\* The steps of a start and the changes of the exchange keep KnowInv.
LEMMA KnowAlways == Spec => []KnowInv
  <1>1. Init => KnowInv
    <2> SUFFICES ASSUME Init PROVE KnowInv
      OBVIOUS
    <2>1. /\ pc = [p \in Procs |-> "off"]
          /\ exchange = [s \in Symbols |-> "trading"]
          /\ flips = 0
          /\ info = [p \in Procs |-> Nothing]
          /\ asked = [p \in Procs |-> 0]
          /\ symbols = [p \in Procs |-> {}]
      BY DEF Init
    <2>2. Nothing \in [{} -> States]
      BY DEF Nothing
    <2>3. Nothing \in UNION {[D -> States] : D \in SUBSET Symbols}
      BY <2>2
    <2>4. KnowType
      BY <2>1, <2>3 DEF KnowType, Labels, States
    <2>5. "off" \notin Informed /\ "off" \notin Loaded
      BY DEF Informed, Loaded
    <2>6. QED
      BY <2>1, <2>4, <2>5 DEF KnowInv
  <1>2. KnowInv /\ [Next]_vars => KnowInv'
    <2> SUFFICES ASSUME KnowInv, [Next]_vars PROVE KnowInv'
      OBVIOUS
    <2>1. CASE UNCHANGED vars
      BY <2>1, KnowStutter DEF vars
    <2>2. QED
      BY <2>1, LockKnow, UpKnow, FlipStep DEF Next, Proceed
  <1>3. QED
    BY <1>1, <1>2, PTL DEF Spec

(***************************************************************************)
(* SymbolsAgree holds for every number of processes, symbols, failed       *)
(* requests and changes of the exchange: updateExchangeInfo leaves its     *)
(* loop with a whole answer only, and the symbols come from that answer.   *)
(***************************************************************************)
THEOREM SymbolsAsConfigured == Spec => []SymbolsAgree
  <1>1. KnowInv => SymbolsAgree
    <2> SUFFICES ASSUME KnowInv,
                        NEW p \in Procs, NEW q \in Procs, pc[p] = "running", pc[q] = "running"
                 PROVE  /\ asked[p] = flips => symbols[p] = Selected(conf[p].list, exchange)
                        /\ conf[p].list = conf[q].list /\ asked[p] = asked[q] => symbols[p] = symbols[q]
      BY DEF SymbolsAgree
    <2>1. pc[p] \in Loaded /\ pc[q] \in Loaded /\ pc[p] \in Informed /\ pc[q] \in Informed
      BY DEF Loaded, Informed
    <2>2. /\ symbols[p] = Selected(conf[p].list, info[p])
          /\ symbols[q] = Selected(conf[q].list, info[q])
      BY <2>1 DEF KnowInv
    <2>3. asked[p] = flips => info[p] = exchange
      BY <2>1 DEF KnowInv
    <2>4. asked[p] = asked[q] => info[p] = info[q]
      BY <2>1 DEF KnowInv
    <2>5. QED
      BY <2>2, <2>3, <2>4
  <1>2. QED
    BY <1>1, KnowAlways, PTL

-----------------------------------------------------------------------------
(* Types *)

(***************************************************************************)
(* What the two invariants do not say: names and processes lead to files   *)
(* that were created, and the rest keeps its type.                         *)
(***************************************************************************)
FileInv ==
  /\ conf \in Confs
  /\ starts \in Nat /\ fails \in Nat
  /\ \A s \in Services : path[s] <= files
  /\ \A p \in Procs : handle[p] <= files

\* The steps but OpenFile create no file; they keep, close or remove.
LEMMA FileKept ==
  ASSUME PidInv, FileInv, conf' = conf, files' = files,
         starts' \in Nat, fails' \in Nat,
         path' = path \/ \E s \in Services : path' = [path EXCEPT ![s] = 0],
         handle' = handle \/ \E p \in Procs : handle' = [handle EXCEPT ![p] = 0]
  PROVE  FileInv'
  <1>1. files \in Nat /\ path \in [Services -> Nat] /\ handle \in [Procs -> Nat]
    BY DEF PidInv
  <1>2. \A s \in Services : path'[s] = path[s] \/ path'[s] = 0
    BY <1>1
  <1>3. \A p \in Procs : handle'[p] = handle[p] \/ handle'[p] = 0
    BY <1>1
  <1>4. (\A s \in Services : path'[s] <= files) /\ (\A p \in Procs : handle'[p] <= files)
    BY <1>1, <1>2, <1>3 DEF FileInv
  <1>5. QED
    BY <1>4 DEF FileInv

LEMMA FileOpened ==
  ASSUME PidInv, FileInv, NEW p \in Procs, OpenFile(p) PROVE FileInv'
  <1> DEFINE s == Service[p]
             f == IF path[s] = 0 THEN files + 1 ELSE path[s]
  <1>1. files \in Nat /\ path \in [Services -> Nat] /\ handle \in [Procs -> Nat] /\ s \in Services
    BY StartAssumption DEF PidInv
  <1>2. /\ path' = [path EXCEPT ![s] = f] /\ handle' = [handle EXCEPT ![p] = f]
        /\ files' = (IF path[s] = 0 THEN files + 1 ELSE files)
        /\ UNCHANGED <<conf, starts, fails>>
    BY <1>1 DEF OpenFile
  <1>3. f \in Nat /\ f <= files' /\ files' \in Nat /\ files <= files'
    BY <1>1, <1>2 DEF FileInv
  <1> HIDE DEF s, f
  <1>4. \A t \in Services : path'[t] = path[t] \/ path'[t] = f
    BY <1>1, <1>2
  <1>5. \A q \in Procs : handle'[q] = handle[q] \/ handle'[q] = f
    BY <1>1, <1>2
  <1>6. (\A t \in Services : path'[t] <= files') /\ (\A q \in Procs : handle'[q] <= files')
    BY <1>1, <1>3, <1>4, <1>5 DEF FileInv
  <1>7. QED
    BY <1>2, <1>6 DEF FileInv

LEMMA FileNext == PidInv /\ FileInv /\ [Next]_vars => FileInv'
  <1> SUFFICES ASSUME PidInv, FileInv, [Next]_vars PROVE FileInv'
    OBVIOUS
  <1>0. starts \in Nat /\ fails \in Nat
    BY DEF FileInv
  <1>1. ASSUME NEW p \in Procs, AggrMain(p) \/ RecvMain(p) PROVE FileInv'
    <2>1. UNCHANGED <<conf, path, files, handle, fails>> /\ starts' = starts + 1
      BY <1>1 DEF AggrMain, RecvMain, Launch, pidfile
    <2>2. QED
      BY <1>0, <2>1, FileKept
  <1>2. ASSUME NEW p \in Procs, OpenError(p) \/ Flock(p) \/ WritePid(p) \/ UnlockClose(p) \/ Kill(p) PROVE FileInv'
    <2>1. /\ UNCHANGED <<conf, path, files, starts, fails>>
          /\ handle' = handle \/ handle' = [handle EXCEPT ![p] = 0]
      BY <1>2 DEF OpenError, Flock, WritePid, UnlockClose, Kill, CloseFile, pidfile
    <2>2. QED
      BY <1>0, <2>1, FileKept
  <1>3. ASSUME NEW p \in Procs, UnlockRemove(p) PROVE FileInv'
    <2>1. /\ UNCHANGED <<conf, handle, files, starts, fails>>
          /\ path' = [path EXCEPT ![Service[p]] = 0]
          /\ Service[p] \in Services
      BY <1>3, StartAssumption DEF UnlockRemove
    <2>2. QED
      BY <1>0, <2>1, FileKept
  <1>4. ASSUME NEW p \in Procs, AggrUp(p) \/ RecvUp(p) \/ GetOrNewWsClient(p) PROVE FileInv'
    <2>1. UNCHANGED <<conf, path, files, handle, starts>>
      BY <1>4 DEF AggrUp, RecvUp, AggrAccount, RecvAccount, AggrExchangeInfo, RecvExchangeInfo,
                  AggrLoad, RecvLoad, AggrFanoutInit, RecvFanoutInit, AggrRun, RecvRun,
                  GetOrNewWsClient, pidfile
    <2>2. fails' = fails \/ fails' = fails + 1
      BY <1>4 DEF AggrUp, RecvUp, AggrAccount, RecvAccount, AggrExchangeInfo, RecvExchangeInfo,
                  AggrLoad, RecvLoad, AggrFanoutInit, RecvFanoutInit, AggrRun, RecvRun,
                  GetOrNewWsClient, Retry
    <2>3. QED
      BY <1>0, <2>1, <2>2, FileKept
  <1>5. CASE (\E s \in Symbols : Flip(s)) \/ UNCHANGED vars
    <2>1. UNCHANGED <<conf, path, files, handle, starts, fails>>
      BY <1>5 DEF Flip, pidfile, vars
    <2>2. QED
      BY <1>0, <2>1, FileKept
  <1>6. QED
    BY <1>1, <1>2, <1>3, <1>4, <1>5, FileOpened DEF Next, Proceed, Lock, Unlock

(***************************************************************************)
(* TypeOK holds for every number of processes and starts: whoever is past  *)
(* ProcessOnce has its pid file open and locked, and nobody else has it,   *)
(* also where a start is refused, panics or is killed.                     *)
(***************************************************************************)
THEOREM TypeCorrect == Spec => []TypeOK
  <1>1. Init => FileInv
    BY DEF Init, FileInv
  <1>2. PidInv /\ KnowInv /\ FileInv => TypeOK
    <2> SUFFICES ASSUME PidInv, KnowInv, FileInv PROVE TypeOK
      OBVIOUS
    <2>1. path \in [Services -> 0 .. files] /\ handle \in [Procs -> 0 .. files]
      BY DEF PidInv, FileInv
    <2>2. \A p \in locked : handle[p] # 0
      BY DEF PidInv, Inside
    <2>3. \A p \in Procs : DOMAIN info[p] \subseteq Symbols
      BY DEF KnowInv, KnowType
    <2>4. QED
      BY <2>1, <2>2, <2>3 DEF TypeOK, PidInv, KnowInv, KnowType, FileInv
  <1>3. QED
    BY <1>1, <1>2, FileNext, PidAlways, KnowAlways, PTL DEF Spec
=============================================================================
