----------------------------- MODULE ServiceStart -----------------------------
(***************************************************************************)
(* How the processes of the two services start and end: main up to the pid *)
(* file (main.go), ProcessOnce (utils/env.go), controller.init with its    *)
(* retry loops, and run up to the point where the goroutines that the      *)
(* other modules describe are started. Several processes of a service may  *)
(* be started at once, be killed at any point and be started again; the    *)
(* exchange changes the state of its symbols meanwhile.                    *)
(***************************************************************************)
EXTENDS Integers, FiniteSets

CONSTANTS Procs,     \* processes, by the slot the operator starts them in
          Service,   \* the service each of them runs
          Symbols,   \* symbols of the exchange
          Confs,     \* what the processes may be configured with
          MaxStarts, \* bound: how often a process is started
          MaxFails,  \* bound: how often a request to the exchange fails
          MaxFlips   \* bound: how often the exchange changes a symbol

Services == {"recv", "aggr"}

(***************************************************************************)
(* Of the settings only these decide how a start goes: the symbols listed  *)
(* under trading_symbols, none meaning all, and what is wrong with the     *)
(* settings or the environment: the file does not parse or the log cannot  *)
(* be opened, AMBER is not set (receiver), the account is not among the    *)
(* accounts, a producer has a name nobody knows (aggregator).              *)
(***************************************************************************)
Faults == {"none", "file", "env", "account", "producer"}
Config == [list : SUBSET Symbols, fault : Faults]

ASSUME StartAssumption == /\ Service \in [Procs -> Services]
                          /\ Confs \subseteq [Procs -> Config]
                          /\ MaxStarts \in Nat
                          /\ MaxFails \in Nat
                          /\ MaxFlips \in Nat

(***************************************************************************)
(* What the exchange says of a symbol: it trades, it does not (a symbol it *)
(* no longer lists is one of these), or it trades and one of its filters   *)
(* lacks a value.                                                          *)
(***************************************************************************)
States == {"trading", "halted", "unfiltered"}

VARIABLES pc,        \* what each process does next
          conf,      \* its configuration
          path,      \* the file the pid file's name leads to, 0 if none
          files,     \* how many files were created
          handle,    \* the file each process has open, 0 if none
          locked,    \* processes that hold the lock of the file they have open
          removals,  \* history: how often a pid file was removed
          exchange,  \* state of the symbols
          flips,     \* how often the exchange changed it
          info,      \* exchangeSymbols of each process
          asked,     \* history: flips when info was fetched
          symbols,   \* tradingSymbols, and periodSymbols of the aggregator
          starts,    \* how often a process was started
          fails      \* how often a request failed

pidfile == <<path, files, handle, locked, removals>>
market  == <<exchange, flips>>
loaded  == <<info, asked, symbols>>
vars == <<pc, conf, pidfile, market, loaded, starts, fails>>

\* exchangeSymbols of a process that has not asked.
Nothing == [s \in {} |-> "halted"]

Init ==
  /\ pc = [p \in Procs |-> "off"]
  /\ conf \in Confs
  /\ path = [s \in Services |-> 0]
  /\ files = 0
  /\ handle = [p \in Procs |-> 0]
  /\ locked = {}
  /\ removals = [s \in Services |-> 0]
  /\ exchange = [s \in Symbols |-> "trading"]
  /\ flips = 0
  /\ info = [p \in Procs |-> Nothing]
  /\ asked = [p \in Procs |-> 0]
  /\ symbols = [p \in Procs |-> {}]
  /\ starts = 0
  /\ fails = 0

Goto(p, label) == pc' = [pc EXCEPT ![p] = label]

\* The process ends; what it had in memory is gone.
Exit(p) ==
  /\ Goto(p, "off")
  /\ info' = [info EXCEPT ![p] = Nothing]
  /\ asked' = [asked EXCEPT ![p] = 0]
  /\ symbols' = [symbols EXCEPT ![p] = {}]

At(p, service, label) == Service[p] = service /\ pc[p] = label

-----------------------------------------------------------------------------
(* main *)

Launch ==
  /\ starts < MaxStarts
  /\ starts' = starts + 1
  /\ UNCHANGED <<conf, pidfile, market, loaded, fails>>

\* Up to the pid file nothing is left behind that a return has to undo.
AggrMain(p) ==
  /\ At(p, "aggr", "off")
  /\ Launch
  /\ conf[p].fault # "file"
  /\ Goto(p, "open")

\* The receiver looks at the environment before the configuration.
RecvMain(p) ==
  /\ At(p, "recv", "off")
  /\ Launch
  /\ conf[p].fault \notin {"env", "file"}
  /\ Goto(p, "open")

-----------------------------------------------------------------------------
(* ProcessOnce *)

\* OpenFile creates the file where there is none.
OpenFile(p) ==
  LET s == Service[p] IN
  /\ pc[p] = "open"
  /\ path' = [path EXCEPT ![s] = IF @ = 0 THEN files + 1 ELSE @]
  /\ files' = IF path[s] = 0 THEN files + 1 ELSE files
  /\ handle' = [handle EXCEPT ![p] = path'[s]]
  /\ Goto(p, "flock")
  /\ UNCHANGED <<conf, locked, removals, market, loaded, starts, fails>>

\* The file cannot be opened or created: the start is refused.
OpenError(p) ==
  /\ pc[p] = "open"
  /\ Exit(p)
  /\ UNCHANGED <<conf, pidfile, market, starts, fails>>

\* Mutant: the file is left open.
CloseFileKeeps(p) ==
  /\ handle' = handle
  /\ locked' = locked

\* Closing the file gives the lock back.
CloseFile(p) ==
  /\ handle' = [handle EXCEPT ![p] = 0]
  /\ locked' = locked \ {p}

Free(f) == \A q \in locked : handle[q] # f

\* Mutant: the error of Flock is not looked at.
FlockIgnored(p) ==
  /\ pc[p] = "flock"
  /\ locked' = locked \cup {p}
  /\ Goto(p, "write")
  /\ UNCHANGED <<conf, path, files, handle, removals, market, loaded, starts, fails>>

\* Mutant: Flock without LOCK_NB waits for the other instance to end.
FlockWaits(p) ==
  /\ pc[p] = "flock"
  /\ Free(handle[p])
  /\ locked' = locked \cup {p}
  /\ Goto(p, "write")
  /\ UNCHANGED <<conf, path, files, handle, removals, market, loaded, starts, fails>>

\* "Another instance is already running" when the lock is taken.
Flock(p) ==
  /\ pc[p] = "flock"
  /\ \/ /\ Free(handle[p])
        /\ locked' = locked \cup {p}
        /\ Goto(p, "write")
        /\ UNCHANGED <<handle, loaded>>
     \/ /\ ~Free(handle[p])
        /\ CloseFile(p)
        /\ Exit(p)
  /\ UNCHANGED <<conf, path, files, removals, market, starts, fails>>

\* A pid that cannot be written ends the start; the file stays.
WritePid(p) ==
  /\ pc[p] = "write"
  /\ \/ Goto(p, "init") /\ UNCHANGED <<handle, locked, loaded>>
     \/ CloseFile(p) /\ Exit(p)
  /\ UNCHANGED <<conf, path, files, removals, market, starts, fails>>

\* Unlock, which main defers, first closes the file ...
UnlockClose(p) ==
  /\ pc[p] = "unlock"
  /\ CloseFile(p)
  /\ Goto(p, "remove")
  /\ UNCHANGED <<conf, path, files, removals, market, loaded, starts, fails>>

\* ... and then removes whatever file has the name.
UnlockRemove(p) ==
  /\ pc[p] = "remove"
  /\ path' = [path EXCEPT ![Service[p]] = 0]
  /\ removals' = [removals EXCEPT ![Service[p]] = @ + 1]
  /\ Exit(p)
  /\ UNCHANGED <<conf, files, handle, locked, market, starts, fails>>

\* A kill, a Fatal, or a panic of a goroutine that is not main's: nothing is
\* deferred.
Kill(p) ==
  /\ pc[p] # "off"
  /\ CloseFile(p)
  /\ Exit(p)
  /\ UNCHANGED <<conf, path, files, removals, market, starts, fails>>

-----------------------------------------------------------------------------
(* controller.init *)

\* A panic of main's goroutine runs the deferred Unlock.
Panic(p) == Goto(p, "unlock")

AggrAccount(p) ==
  /\ At(p, "aggr", "init")
  /\ IF conf[p].fault = "account" THEN Panic(p) ELSE Goto(p, "info")
  /\ UNCHANGED <<conf, pidfile, market, loaded, starts, fails>>

RecvAccount(p) ==
  /\ At(p, "recv", "init")
  /\ IF conf[p].fault = "account" THEN Panic(p) ELSE Goto(p, "info")
  /\ UNCHANGED <<conf, pidfile, market, loaded, starts, fails>>

\* A request fails; the loop tries again after two seconds.
Retry == fails < MaxFails /\ fails' = fails + 1

\* Mutant: the loop ends with the first answer, an error too.
AggrExchangeInfoOnce(p) ==
  /\ At(p, "aggr", "info")
  /\ \/ Retry /\ info' = info
     \/ info' = [info EXCEPT ![p] = exchange] /\ fails' = fails
  /\ Goto(p, "load")
  /\ asked' = [asked EXCEPT ![p] = flips]
  /\ UNCHANGED <<conf, pidfile, market, symbols, starts>>

\* updateExchangeInfo replaces the map.
AggrExchangeInfo(p) ==
  /\ At(p, "aggr", "info")
  /\ \/ Retry /\ UNCHANGED <<pc, info, asked>>
     \/ /\ info' = [info EXCEPT ![p] = exchange]
        /\ asked' = [asked EXCEPT ![p] = flips]
        /\ fails' = fails
        /\ Goto(p, "load")
  /\ UNCHANGED <<conf, pidfile, market, symbols, starts>>

\* The receiver adds to the map, which is empty at the start.
RecvExchangeInfo(p) ==
  /\ At(p, "recv", "info")
  /\ \/ Retry /\ UNCHANGED <<pc, info, asked>>
     \/ /\ info' = [info EXCEPT ![p] = [s \in DOMAIN @ \cup Symbols |-> exchange[s]]]
        /\ asked' = [asked EXCEPT ![p] = flips]
        /\ fails' = fails
        /\ Goto(p, "load")
  /\ UNCHANGED <<conf, pidfile, market, symbols, starts>>

\* The symbols a service takes from what the exchange said.
Selected(list, said) ==
  {s \in DOMAIN said : said[s] # "halted" /\ (list = {} \/ s \in list)}

\* NewTradingSymbol takes the filters' values to be strings, or panics.
Readable(said, chosen) == \A s \in chosen : said[s] # "unfiltered"

\* loadTradingSymbol, and updateAggrSymbols, which gives each a SymbolDef.
AggrLoad(p) ==
  LET chosen == Selected(conf[p].list, info[p]) IN
  /\ At(p, "aggr", "load")
  /\ IF Readable(info[p], chosen)
     THEN symbols' = [symbols EXCEPT ![p] = chosen] /\ Goto(p, "fanout")
     ELSE symbols' = symbols /\ Panic(p)
  /\ UNCHANGED <<conf, pidfile, market, info, asked, starts, fails>>

\* loadTradingSymbol adds; the managers' Init takes the symbols from there.
RecvLoad(p) ==
  LET chosen == Selected(conf[p].list, info[p]) IN
  /\ At(p, "recv", "load")
  /\ IF Readable(info[p], chosen)
     THEN symbols' = [symbols EXCEPT ![p] = @ \cup chosen] /\ Goto(p, "fanout")
     ELSE symbols' = symbols /\ Panic(p)
  /\ UNCHANGED <<conf, pidfile, market, info, asked, starts, fails>>

\* A socket that cannot be made or connected is a panic.
AggrFanoutInit(p) ==
  /\ At(p, "aggr", "fanout")
  /\ Goto(p, "client") \/ Panic(p)
  /\ UNCHANGED <<conf, pidfile, market, loaded, starts, fails>>

RecvFanoutInit(p) ==
  /\ At(p, "recv", "fanout")
  /\ Goto(p, "client") \/ Panic(p)
  /\ UNCHANGED <<conf, pidfile, market, loaded, starts, fails>>

GetOrNewWsClient(p) ==
  /\ pc[p] = "client"
  /\ \/ Retry /\ pc' = pc
     \/ Goto(p, "run") /\ fails' = fails
  /\ UNCHANGED <<conf, pidfile, market, loaded, starts>>

\* fanoutMgr.open calls a method of every producer; one whose name nobody
\* knows is nil. Then QuoteReceiver.Open panics if it gets no SUB socket.
AggrRun(p) ==
  /\ At(p, "aggr", "run")
  /\ \/ Panic(p)
     \/ conf[p].fault # "producer" /\ Goto(p, "running")
  /\ UNCHANGED <<conf, pidfile, market, loaded, starts, fails>>

RecvRun(p) ==
  /\ At(p, "recv", "run")
  /\ Goto(p, "running")
  /\ UNCHANGED <<conf, pidfile, market, loaded, starts, fails>>

-----------------------------------------------------------------------------
\* The exchange halts, lists or changes a symbol.
Flip(s) ==
  /\ flips < MaxFlips
  /\ flips' = flips + 1
  /\ \E state \in States \ {exchange[s]} : exchange' = [exchange EXCEPT ![s] = state]
  /\ UNCHANGED <<pc, conf, pidfile, loaded, starts, fails>>

Lock(p)    == OpenFile(p) \/ OpenError(p) \/ Flock(p) \/ WritePid(p)
Unlock(p)  == UnlockClose(p) \/ UnlockRemove(p)
AggrUp(p)  == AggrAccount(p) \/ AggrExchangeInfo(p) \/ AggrLoad(p)
                \/ AggrFanoutInit(p) \/ AggrRun(p)
RecvUp(p)  == RecvAccount(p) \/ RecvExchangeInfo(p) \/ RecvLoad(p)
                \/ RecvFanoutInit(p) \/ RecvRun(p)
Proceed(p) == Lock(p) \/ Unlock(p) \/ AggrUp(p) \/ RecvUp(p) \/ GetOrNewWsClient(p)

Next ==
  \/ \E p \in Procs : AggrMain(p) \/ RecvMain(p) \/ Proceed(p) \/ Kill(p)
  \/ \E s \in Symbols : Flip(s)

Spec == Init /\ [][Next]_vars

\* A process that is not killed goes on; nobody has to start or to kill one.
\* Requests to the exchange return in the end: the code gives them no deadline.
FairSpec == Spec /\ \A p \in Procs : WF_vars(Proceed(p))

-----------------------------------------------------------------------------
(* Properties *)

Labels == {"off", "open", "flock", "write", "init", "info", "load", "fanout",
           "client", "run", "running", "unlock", "remove"}

\* Past Lock, up to Unlock.
Inside == {p \in Procs : pc[p] \notin {"off", "open", "flock", "remove"}}

\* Every variable has its type; who is past Lock has its pid file open.
TypeOK ==
  /\ pc \in [Procs -> Labels]
  /\ conf \in Confs
  /\ files \in Nat
  /\ path \in [Services -> 0 .. files]
  /\ handle \in [Procs -> 0 .. files]
  /\ locked = Inside
  /\ \A p \in locked : handle[p] # 0
  /\ removals \in [Services -> Nat]
  /\ exchange \in [Symbols -> States]
  /\ flips \in Nat
  /\ \A p \in Procs : DOMAIN info[p] \subseteq Symbols
  /\ asked \in [Procs -> Nat]
  /\ symbols \in [Procs -> SUBSET Symbols]
  /\ starts \in Nat
  /\ fails \in Nat

(***************************************************************************)
(* "Another instance is already running": two processes of a service never *)
(* run on one pid file, and as long as none has removed the file, never at *)
(* all, however they were started, refused, killed and started again.      *)
(***************************************************************************)
OneInstance ==
  \A p, q \in Inside :
    p # q /\ Service[p] = Service[q] =>
      handle[p] # handle[q] /\ removals[Service[p]] > 0

(***************************************************************************)
(* A process that runs serves exactly the symbols its settings ask for, as *)
(* the exchange had them when it answered, whatever requests failed before *)
(* that; so a receiver and an aggregator with the same settings agree when *)
(* the exchange changed nothing between their starts.                      *)
(***************************************************************************)
SymbolsAgree ==
  \A p, q \in {r \in Procs : pc[r] = "running"} :
    /\ asked[p] = flips => symbols[p] = Selected(conf[p].list, exchange)
    /\ conf[p].list = conf[q].list /\ asked[p] = asked[q] => symbols[p] = symbols[q]

(***************************************************************************)
(* A start never hangs: it comes up, or the process ends, also when other  *)
(* instances run and when requests to the exchange fail for a while.       *)
(***************************************************************************)
ComesUp == \A p \in Procs : (pc[p] = "open") ~> (pc[p] \in {"running", "off"})
=============================================================================
