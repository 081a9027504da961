------------------------------- MODULE Monitor -------------------------------
(***************************************************************************)
(* ServiceMonManager of core/qmon.go: one goroutine reports the status of  *)
(* the service every ReportInterval, and every call of SendLog starts a    *)
(* goroutine that sends a warning and then keeps the mutex for Delay       *)
(* seconds. Both write messages of two frames to the same zmq socket; only *)
(* the warnings take the mutex.                                            *)
(***************************************************************************)
EXTENDS Integers, SequencesExt

CONSTANTS Logs,        \* bound: goroutines of SendLog at one time
          Delay,       \* SendLog's delay in clock units
          MaxTime,     \* bound: where the clock stops
          MaxReports,  \* bound: how often the status timer fires
          MaxErrors    \* bound: how often SendFrame fails

ASSUME MonitorAssumption == /\ Logs \subseteq Nat \ {0}
                            /\ Delay \in Nat
                            /\ MaxTime \in Nat
                            /\ MaxReports \in Nat
                            /\ MaxErrors \in Nat

VARIABLES clock,     \* seconds
          statusPc,  \* the goroutine of Open
          fired,     \* how often the status timer fired
          mtx,       \* the SendLog goroutine that holds m.mtx, 0 if none
          logPc,     \* the goroutines of SendLog
          wake,      \* when a sleeping SendLog goroutine wakes up
          warned,    \* history: when warnings were sent
          part,      \* frames on the socket whose message is not complete
          torn,      \* history: a message left that is not topic and body
          mixed,     \* history: a status and a warning shared a message, or
                     \* a message was given up after its first frame
          errors,    \* how often SendFrame failed
          up         \* the process runs

status  == <<statusPc, fired>>
logs    == <<mtx, logPc, wake, warned>>
socket  == <<part, torn, mixed, errors>>
monitor == <<clock, status, logs, socket, up>>

\* Stands for the status goroutine where the warnings have their own number.
StatusId == 0

Frame(g, what) == [from |-> g, what |-> what]

MonInit ==
  /\ clock = 0
  /\ statusPc = "off"
  /\ fired = 0
  /\ mtx = 0
  /\ logPc = [l \in Logs |-> "none"]
  /\ wake = [l \in Logs |-> 0]
  /\ warned = <<>>
  /\ part = <<>>
  /\ torn = FALSE
  /\ mixed = FALSE
  /\ errors = 0
  /\ up = TRUE

MonTick ==
  /\ clock < MaxTime
  /\ clock' = clock + 1
  /\ UNCHANGED <<status, logs, socket, up>>

-----------------------------------------------------------------------------
(* The socket *)

\* Goroutine g adds to a message that one of the other kind has begun.
Meets(g) == \E i \in DOMAIN part : (part[i].from = StatusId) # (g = StatusId)

\* SendFrame(topic, FlagMore): the frame waits for the rest of its message.
SendTopic(g) ==
  /\ part' = Append(part, Frame(g, "topic"))
  /\ mixed' = (mixed \/ Meets(g))
  /\ UNCHANGED <<torn, errors>>

\* SendFrame(jsondata, FlagNone): everything that waits leaves as one message.
SendBody(g) ==
  /\ part' = <<>>
  /\ mixed' = (mixed \/ Meets(g))
  /\ torn' = (torn \/ part # <<Frame(g, "topic")>>)
  /\ UNCHANGED errors

\* SendFrame fails; a first frame sent before stays behind.
SendFails ==
  /\ errors < MaxErrors
  /\ errors' = errors + 1
  /\ mixed' = (mixed \/ part # <<>>)
  /\ UNCHANGED <<part, torn>>

\* A zmq socket serves one thread: two that send at once may end the process.
SocketRace ==
  /\ statusPc \in {"topic", "body"}
  /\ \E l \in Logs : logPc[l] \in {"topic", "body"}
  /\ up' = FALSE
  /\ UNCHANGED <<clock, status, logs, socket>>

-----------------------------------------------------------------------------
(* Open and SendStatus *)

MonOpen ==
  /\ statusPc = "off"
  /\ statusPc' = "topic"
  /\ UNCHANGED <<clock, fired, logs, socket, up>>

StatusTopic ==
  /\ statusPc = "topic"
  /\ \/ SendTopic(StatusId) /\ statusPc' = "body"
     \/ SendFails /\ statusPc' = "timer"
  /\ UNCHANGED <<clock, fired, logs, up>>

StatusBody ==
  /\ statusPc = "body"
  /\ SendBody(StatusId) \/ SendFails
  /\ statusPc' = "timer"
  /\ UNCHANGED <<clock, fired, logs, up>>

StatusTimer ==
  /\ statusPc = "timer"
  /\ fired < MaxReports
  /\ fired' = fired + 1
  /\ statusPc' = "topic"
  /\ UNCHANGED <<clock, logs, socket, up>>

-----------------------------------------------------------------------------
(* SendLog *)

\* The call starts a goroutine and returns.
SendLog(l) ==
  /\ logPc[l] = "none"
  /\ logPc' = [logPc EXCEPT ![l] = "try"]
  /\ UNCHANGED <<mtx, wake, warned>>

\* Mutant: the result of TryLock is not looked at.
LogTryIgnored(l) ==
  /\ logPc[l] = "try"
  /\ mtx' = l
  /\ logPc' = [logPc EXCEPT ![l] = "topic"]
  /\ UNCHANGED <<clock, status, wake, warned, socket, up>>

\* TryLock: a warning that comes while another is under way is dropped.
LogTry(l) ==
  /\ logPc[l] = "try"
  /\ mtx' = IF mtx = 0 THEN l ELSE mtx
  /\ logPc' = [logPc EXCEPT ![l] = IF mtx = 0 THEN "topic" ELSE "none"]
  /\ UNCHANGED <<clock, status, wake, warned, socket, up>>

\* Mutant: the mutex is not released.
LogReturnLocked(l) ==
  /\ mtx' = mtx
  /\ logPc' = [logPc EXCEPT ![l] = "none"]

\* The deferred Unlock and the end of the goroutine.
LogReturn(l) ==
  /\ mtx' = 0
  /\ logPc' = [logPc EXCEPT ![l] = "none"]

LogTopic(l) ==
  /\ logPc[l] = "topic"
  /\ \/ /\ SendTopic(l)
        /\ logPc' = [logPc EXCEPT ![l] = "body"]
        /\ mtx' = mtx
     \/ SendFails /\ LogReturn(l)
  /\ UNCHANGED <<clock, status, wake, warned, up>>

\* Mutant: the mutex is released before the delay.
LogBodyReleases(l) ==
  /\ logPc[l] = "body"
  /\ \/ /\ SendBody(l)
        /\ warned' = Append(warned, clock)
        /\ wake' = wake
     \/ SendFails /\ UNCHANGED <<wake, warned>>
  /\ LogReturn(l)
  /\ UNCHANGED <<clock, status, up>>

\* After the warning the goroutine keeps the mutex for the delay.
LogBody(l) ==
  /\ logPc[l] = "body"
  /\ \/ /\ SendBody(l)
        /\ warned' = Append(warned, clock)
        /\ wake' = [wake EXCEPT ![l] = clock + Delay]
        /\ logPc' = [logPc EXCEPT ![l] = "sleep"]
        /\ mtx' = mtx
     \/ SendFails /\ LogReturn(l) /\ UNCHANGED <<wake, warned>>
  /\ UNCHANGED <<clock, status, up>>

LogWake(l) ==
  /\ logPc[l] = "sleep"
  /\ clock >= wake[l]
  /\ LogReturn(l)
  /\ UNCHANGED <<clock, status, wake, warned, socket, up>>

-----------------------------------------------------------------------------
StatusStep == StatusTopic \/ StatusBody
LogStep(l) == LogTry(l) \/ LogTopic(l) \/ LogBody(l) \/ LogWake(l)

MonNext == \/ MonTick
           \/ MonOpen
           \/ StatusStep
           \/ StatusTimer
           \/ SocketRace
           \/ \E l \in Logs : LogStep(l)

-----------------------------------------------------------------------------
(* Properties *)

MonTypeOK ==
  /\ clock \in Nat
  /\ statusPc \in {"off", "topic", "body", "timer"}
  /\ fired \in Nat
  /\ mtx \in Logs \cup {0}
  /\ logPc \in [Logs -> {"none", "try", "topic", "body", "sleep"}]
  /\ wake \in [Logs -> Nat]
  /\ warned \in Seq(Nat)
  /\ part \in Seq([from : Logs \cup {0}, what : {"topic", "body"}])
  /\ torn \in BOOLEAN
  /\ mixed \in BOOLEAN
  /\ errors \in Nat
  /\ up \in BOOLEAN

(***************************************************************************)
(* "Consecutive warnings are delayed by 5 s" (version.go:27 of the         *)
(* aggregator): whatever fails, and however many calls of SendLog overlap, *)
(* two warnings leave at least Delay apart.                                *)
(***************************************************************************)
WarningsApart ==
  \A i \in 1 .. Len(warned) - 1 : warned[i + 1] >= warned[i] + Delay

(***************************************************************************)
(* Warnings never tear each other's messages: a message that is not topic  *)
(* and body has a status report or a failed second frame behind it.        *)
(***************************************************************************)
TornOnlyByStatus == torn => mixed
=============================================================================
