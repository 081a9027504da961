--------------------------- MODULE QuotePathProofs ---------------------------
(***************************************************************************)
(* The warnings of the monitor, the order of the quotes, and what the      *)
(* failure of a producer costs, for any deployments, any number of         *)
(* overlapping warnings and any failures.                                  *)
(***************************************************************************)
EXTENDS QuotePath, TLAPS

(***************************************************************************)
(* The mutex is with the one goroutine that sends or sleeps, and only a    *)
(* goroutine that sleeps may have sent a warning less than Delay ago.      *)
(***************************************************************************)
Holds(l) == logPc[l] \in {"topic", "body", "sleep"}

LastWarned == warned[Len(warned)]

DelayInv ==
  /\ clock \in Nat
  /\ mtx \in Nat
  /\ logPc \in [Logs -> {"none", "try", "topic", "body", "sleep"}]
  /\ wake \in [Logs -> Nat]
  /\ warned \in Seq(Nat)
  /\ \A l \in Logs : Holds(l) <=> mtx = l
  /\ warned # <<>> => \/ LastWarned + Delay <= clock
                      \/ \E l \in Logs : logPc[l] = "sleep" /\ LastWarned + Delay <= wake[l]
  /\ WarningsApart

\* The clock goes on, or nothing of this changes.
LEMMA DelayStutter ==
  ASSUME DelayInv, clock' \in Nat, clock' >= clock, UNCHANGED logs PROVE DelayInv'
  <1>1. mtx' = mtx /\ logPc' = logPc /\ wake' = wake /\ warned' = warned
    BY DEF logs
  <1>2. ASSUME warned # <<>>
        PROVE  \/ LastWarned + Delay <= clock'
               \/ \E l \in Logs : logPc[l] = "sleep" /\ LastWarned + Delay <= wake[l]
    <2>1. LastWarned \in Nat /\ clock \in Nat /\ Delay \in Nat
      BY <1>2, MonitorAssumption DEF DelayInv, LastWarned
    <2>2. QED
      BY <1>2, <2>1 DEF DelayInv
  <1>3. QED
    BY <1>1, <1>2 DEF DelayInv, Holds, LastWarned, WarningsApart

\* While nobody sleeps, the last warning is Delay ago.
LEMMA Rested ==
  ASSUME DelayInv, \A l \in Logs : logPc[l] # "sleep", warned # <<>>
  PROVE  LastWarned \in Nat /\ LastWarned + Delay <= clock
  BY DEF DelayInv, LastWarned

\* A goroutine of SendLog gets from one label to another without a warning;
\* the mutex says whether one sends, and a goroutine that stops sleeping has
\* slept long enough.
LEMMA MoveStep ==
  ASSUME DelayInv, NEW l \in Logs,
         NEW x \in {"none", "try", "topic", "body"},
         logPc' = [logPc EXCEPT ![l] = x],
         mtx' \in Nat,
         x \in {"topic", "body"} => mtx' = l /\ (mtx = l \/ mtx = 0),
         x \notin {"topic", "body"} => IF Holds(l) THEN mtx' = 0 ELSE mtx' = mtx,
         logPc[l] = "sleep" => clock >= wake[l],
         UNCHANGED <<clock, wake, warned>>
  PROVE  DelayInv'
  <1>1. /\ logPc' \in [Logs -> {"none", "try", "topic", "body", "sleep"}]
        /\ logPc'[l] = x
        /\ \A k \in Logs : k # l => logPc'[k] = logPc[k]
    BY DEF DelayInv
  <1>2. Logs \subseteq Nat \ {0}
    BY MonitorAssumption
  <1>3. \A k \in Logs : Holds(k) <=> mtx = k
    BY DEF DelayInv
  <1>4. ASSUME NEW k \in Logs PROVE Holds(k)' <=> mtx' = k
    <2>1. CASE k = l
      BY <1>1, <1>2, <1>3, <2>1 DEF Holds
    <2>2. CASE k # l
      <3>1. Holds(k)' <=> mtx = k
        BY <1>1, <1>3, <2>2 DEF Holds
      <3>2. QED
        BY <1>2, <1>3, <2>2, <3>1
    <2>3. QED
      BY <2>1, <2>2
  <1>5. ASSUME warned # <<>>
        PROVE  \/ LastWarned + Delay <= clock
               \/ \E k \in Logs : logPc'[k] = "sleep" /\ LastWarned + Delay <= wake[k]
    <2>1. LastWarned \in Nat /\ Delay \in Nat /\ clock \in Nat /\ wake[l] \in Nat
      BY <1>5, MonitorAssumption DEF DelayInv, LastWarned
    <2>2. CASE LastWarned + Delay <= clock
      BY <2>2
    <2>3. ASSUME NEW k \in Logs, logPc[k] = "sleep", LastWarned + Delay <= wake[k]
          PROVE  \/ LastWarned + Delay <= clock
                 \/ logPc'[k] = "sleep"
      <3>1. CASE k = l
        BY <2>1, <2>3, <3>1
      <3>2. CASE k # l
        BY <1>1, <2>3, <3>2
      <3>3. QED
        BY <3>1, <3>2
    <2>4. QED
      BY <1>5, <2>2, <2>3 DEF DelayInv
  <1>6. WarningsApart' /\ LastWarned' = LastWarned
    BY DEF DelayInv, WarningsApart, LastWarned
  <1>7. QED
    BY <1>1, <1>4, <1>5, <1>6 DEF DelayInv

\* A warning leaves: whoever holds the mutex and sends finds the others awake.
LEMMA WarnStep ==
  ASSUME DelayInv, NEW l \in Logs, logPc[l] = "body",
         logPc' = [logPc EXCEPT ![l] = "sleep"],
         warned' = Append(warned, clock),
         wake' = [wake EXCEPT ![l] = clock + Delay],
         UNCHANGED <<clock, mtx>>
  PROVE  DelayInv'
  <1>1. /\ logPc' \in [Logs -> {"none", "try", "topic", "body", "sleep"}]
        /\ logPc'[l] = "sleep"
        /\ \A k \in Logs : k # l => logPc'[k] = logPc[k]
    BY DEF DelayInv
  <1>2. /\ clock \in Nat /\ Delay \in Nat
        /\ wake' \in [Logs -> Nat]
        /\ wake'[l] = clock + Delay
        /\ warned \in Seq(Nat)
    BY MonitorAssumption DEF DelayInv
  <1>3. \A k \in Logs : logPc[k] # "sleep"
    <2>1. mtx = l /\ \A k \in Logs : logPc[k] = "sleep" => mtx = k
      BY DEF DelayInv, Holds
    <2>2. QED
      BY <2>1
  <1>4. \A k \in Logs : Holds(k)' <=> mtx' = k
    BY <1>1 DEF DelayInv, Holds
  <1>5. /\ warned' \in Seq(Nat)
        /\ Len(warned') = Len(warned) + 1
        /\ warned'[Len(warned')] = clock
        /\ \A i \in 1 .. Len(warned) : warned'[i] = warned[i]
    BY <1>2
  <1>6. WarningsApart'
    <2> SUFFICES ASSUME NEW i \in 1 .. Len(warned') - 1
                 PROVE  warned'[i + 1] >= warned'[i] + Delay
      BY DEF WarningsApart
    <2>1. Len(warned) \in Nat
      BY <1>2
    <2>2. CASE i < Len(warned)
      <3>1. i \in 1 .. Len(warned) - 1 /\ i + 1 \in 1 .. Len(warned) /\ i \in 1 .. Len(warned)
        BY <1>5, <2>1, <2>2
      <3>2. QED
        BY <1>5, <3>1 DEF DelayInv, WarningsApart
    <2>3. CASE i = Len(warned)
      <3>1. warned # <<>> /\ i \in 1 .. Len(warned)
        BY <1>2, <2>1, <2>3
      <3>2. LastWarned \in Nat /\ LastWarned + Delay <= clock
        BY <1>3, <3>1, Rested
      <3>3. warned'[i] = LastWarned /\ warned'[i + 1] = clock
        BY <1>5, <2>3, <3>1 DEF LastWarned
      <3>4. QED
        BY <1>2, <3>2, <3>3
    <2>4. QED
      BY <1>5, <2>1, <2>2, <2>3
  <1>7. LastWarned' = clock
    BY <1>5 DEF LastWarned
  <1>8. \E k \in Logs : logPc'[k] = "sleep" /\ LastWarned' + Delay <= wake'[k]
    BY <1>1, <1>2, <1>7
  <1>9. QED
    BY <1>1, <1>2, <1>4, <1>5, <1>6, <1>8 DEF DelayInv

\* The goroutines of SendLog, step by step.
LEMMA LogDelay ==
  ASSUME DelayInv, NEW l \in Logs,
         \/ SendLog(l) /\ clock' = clock
         \/ LogStep(l)
  PROVE  DelayInv'
  <1>1. /\ \A k \in Logs : Holds(k) <=> mtx = k
        /\ mtx \in Nat /\ l \in Nat \ {0}
    BY MonitorAssumption DEF DelayInv
  <1>2. CASE SendLog(l) /\ clock' = clock
    <2>1. ~Holds(l)
      BY <1>2 DEF SendLog, Holds
    <2>2. QED
      BY <1>1, <1>2, <2>1, MoveStep DEF SendLog
  <1>3. CASE LogTry(l)
    <2>1. ~Holds(l) /\ logPc[l] # "sleep" /\ UNCHANGED <<clock, wake, warned>>
      BY <1>3 DEF LogTry, Holds
    <2>2. CASE mtx = 0
      <3>1. mtx' = l /\ logPc' = [logPc EXCEPT ![l] = "topic"]
        BY <1>3, <2>2 DEF LogTry
      <3>2. QED
        BY <1>1, <2>1, <2>2, <3>1, MoveStep
    <2>3. CASE mtx # 0
      <3>1. mtx' = mtx /\ logPc' = [logPc EXCEPT ![l] = "none"]
        BY <1>3, <2>3 DEF LogTry
      <3>2. QED
        BY <1>1, <2>1, <3>1, MoveStep
    <2>4. QED
      BY <2>2, <2>3
  <1>4. ASSUME LogReturn(l), Holds(l), logPc[l] = "sleep" => clock >= wake[l],
               UNCHANGED <<clock, wake, warned>>
        PROVE  DelayInv'
    BY <1>1, <1>4, MoveStep DEF LogReturn
  <1>5. CASE LogTopic(l)
    <2>1. Holds(l) /\ logPc[l] = "topic" /\ mtx = l /\ UNCHANGED <<clock, wake, warned>>
      BY <1>1, <1>5 DEF LogTopic, Holds
    <2>2. CASE logPc' = [logPc EXCEPT ![l] = "body"] /\ mtx' = mtx
      BY <1>1, <2>1, <2>2, MoveStep
    <2>3. QED
      BY <1>4, <1>5, <2>1, <2>2 DEF LogTopic
  <1>6. CASE LogBody(l)
    <2>1. Holds(l) /\ logPc[l] = "body" /\ UNCHANGED clock
      BY <1>6 DEF LogBody, Holds
    <2>2. CASE LogReturn(l) /\ UNCHANGED <<wake, warned>>
      BY <1>4, <2>1, <2>2
    <2>3. CASE /\ warned' = Append(warned, clock)
               /\ wake' = [wake EXCEPT ![l] = clock + Delay]
               /\ logPc' = [logPc EXCEPT ![l] = "sleep"]
               /\ mtx' = mtx
      BY <2>1, <2>3, WarnStep
    <2>4. QED
      BY <1>6, <2>2, <2>3 DEF LogBody
  <1>7. CASE LogWake(l)
    BY <1>4, <1>7 DEF LogWake, Holds
  <1>8. QED
    BY <1>2, <1>3, <1>5, <1>6, <1>7 DEF LogStep

\* Steps of the other parts leave the monitor alone.
LEMMA MonitorApart ==
  ASSUME \/ \E r \in Receivers : DrainRecv(r) \/ Fanout(r) \/ Link(r) \/ Cut(r)
         \/ DrainPush \/ Handle \/ RoundMessage \/ Send \/ SendError \/ Enqueue \/ UNCHANGED vars
  PROVE  UNCHANGED monitor
  BY DEF DrainRecv, Fanout, Link, Cut, DrainPush, Handle, RoundMessage, Send, SendError, Enqueue, vars

\* DelayInv holds at the start, and every step keeps it.
LEMMA DelayInit == Init => DelayInv
  BY MonitorAssumption DEF Init, MonInit, DelayInv, Holds, WarningsApart

LEMMA DelayNext == DelayInv /\ [Next]_vars => DelayInv'
  <1> SUFFICES ASSUME DelayInv, [Next]_vars PROVE DelayInv'
    OBVIOUS
  <1>1. clock \in Nat
    BY DEF DelayInv
  <1>2. CASE UNCHANGED monitor
    BY <1>1, <1>2, DelayStutter DEF monitor
  <1>3. CASE MonNext
    <2>1. ASSUME NEW l \in Logs, LogStep(l) PROVE DelayInv'
      BY <2>1, LogDelay
    <2>2. CASE MonTick \/ MonOpen \/ StatusStep \/ StatusTimer \/ SocketRace
      <3>1. UNCHANGED logs /\ clock' \in {clock, clock + 1}
        BY <2>2 DEF MonTick, MonOpen, StatusStep, StatusTopic, StatusBody, StatusTimer, SocketRace
      <3>2. QED
        BY <1>1, <3>1, DelayStutter
    <2>3. QED
      BY <1>3, <2>1, <2>2 DEF MonNext
  <1>4. CASE RoundEmpty
    <2>1. PICK l \in Logs : SendLog(l) /\ clock' = clock
      BY <1>4 DEF RoundEmpty
    <2>2. QED
      BY <2>1, LogDelay
  <1>5. QED
    BY <1>2, <1>3, <1>4, MonitorApart DEF Next, Running

(***************************************************************************)
(* WarningsApart holds for every number of overlapping calls of SendLog,   *)
(* every delay and every failure of the socket.                            *)
(***************************************************************************)
THEOREM WarningsKeepDistance == Spec => []WarningsApart
  <1>1. DelayInv => WarningsApart
    BY DEF DelayInv
  <1>2. QED
    BY <1>1, DelayInit, DelayNext, PTL DEF Spec

-----------------------------------------------------------------------------
(* The socket of the monitor *)

\* Between the frames of a message: who has sent the first one.
Begun(g) == part = <<Frame(g, "topic")>>

StatusIn == statusPc = "body"
LogIn(l) == logPc[l] = "body"

(***************************************************************************)
(* As long as status and warnings have not met, at most one goroutine is   *)
(* between its two frames, and the socket holds its first frame only.      *)
(***************************************************************************)
Orderly ==
  \/ part = <<>> /\ ~StatusIn /\ \A l \in Logs : ~LogIn(l)
  \/ Begun(StatusId) /\ StatusIn /\ \A l \in Logs : ~LogIn(l)
  \/ \E l \in Logs : Begun(l) /\ ~StatusIn /\ LogIn(l) /\ \A k \in Logs : LogIn(k) => k = l

SocketInv ==
  /\ torn \in BOOLEAN /\ mixed \in BOOLEAN
  /\ mixed \/ (~torn /\ Orderly)

\* A first frame goes out while nobody is in between.
LEMMA TopicAlone ==
  ASSUME NEW g \in Logs \cup {StatusId}, Orderly, ~Meets(g),
         g = StatusId => ~StatusIn,
         g # StatusId => \A k \in Logs : ~LogIn(k)
  PROVE  part = <<>> /\ ~StatusIn /\ \A k \in Logs : ~LogIn(k)
  <1>1. Logs \subseteq Nat \ {0}
    BY MonitorAssumption
  <1>2. CASE Begun(StatusId) /\ StatusIn
    <2>1. 1 \in DOMAIN part /\ part[1].from = StatusId
      BY <1>2 DEF Begun, Frame
    <2>2. g # StatusId
      BY <1>2
    <2>3. QED
      BY <2>1, <2>2 DEF Meets
  <1>3. ASSUME NEW l \in Logs, Begun(l), ~StatusIn, LogIn(l), \A k \in Logs : LogIn(k) => k = l
        PROVE  part = <<>> /\ ~StatusIn /\ \A k \in Logs : ~LogIn(k)
    <2>1. 1 \in DOMAIN part /\ part[1].from = l
      BY <1>3 DEF Begun, Frame
    <2>2. l # StatusId
      BY <1>1 DEF StatusId
    <2>3. g = StatusId
      BY <1>3
    <2>4. QED
      BY <2>1, <2>2, <2>3 DEF Meets
  <1>4. QED
    BY <1>2, <1>3 DEF Orderly

\* Who is between its frames finds its own first frame and nothing else.
LEMMA BodyAlone ==
  ASSUME NEW g \in Logs \cup {StatusId}, Orderly,
         g = StatusId => StatusIn,
         g # StatusId => LogIn(g)
  PROVE  /\ Begun(g)
         /\ g # StatusId => ~StatusIn
         /\ \A k \in Logs : LogIn(k) => k = g
  BY DEF Orderly, Begun, Frame

\* The steps of a goroutine that sends a first frame, a second one, or fails.
\* This is about the status report ...
LEMMA StatusSocket ==
  ASSUME SocketInv, StatusTopic \/ StatusBody PROVE SocketInv'
  <1> SUFFICES ASSUME ~mixed' PROVE ~torn' /\ Orderly'
    <2>1. torn' \in BOOLEAN /\ mixed' \in BOOLEAN
      BY DEF SocketInv, StatusTopic, StatusBody, SendTopic, SendBody, SendFails
    <2>2. QED
      BY <2>1 DEF SocketInv
  <1>1. logPc' = logPc /\ StatusId \in Logs \cup {StatusId}
    BY DEF StatusTopic, StatusBody, logs
  <1>2. ~mixed /\ ~torn /\ Orderly
    BY DEF SocketInv, StatusTopic, StatusBody, SendTopic, SendBody, SendFails
  <1>3. CASE StatusTopic
    <2>1. ~StatusIn
      BY <1>3 DEF StatusTopic, StatusIn
    <2>2. CASE SendTopic(StatusId) /\ statusPc' = "body"
      <3>1. ~Meets(StatusId)
        BY <2>2 DEF SendTopic
      <3>2. part = <<>> /\ \A k \in Logs : ~LogIn(k)
        BY <1>1, <1>2, <2>1, <3>1, TopicAlone
      <3>3. part' = <<Frame(StatusId, "topic")>> /\ torn' = torn
        BY <2>2, <3>2 DEF SendTopic
      <3>4. QED
        BY <1>1, <1>2, <2>2, <3>2, <3>3 DEF Orderly, Begun, StatusIn, LogIn, Frame
    <2>3. CASE SendFails /\ statusPc' = "timer"
      <3>1. part = <<>> /\ part' = part /\ torn' = torn
        BY <2>3 DEF SendFails
      <3>2. \A k \in Logs : ~LogIn(k)
        BY <1>2, <2>1, <3>1 DEF Orderly, Begun
      <3>3. QED
        BY <1>1, <1>2, <2>3, <3>1, <3>2 DEF Orderly, StatusIn, LogIn
    <2>4. QED
      BY <1>3, <2>2, <2>3 DEF StatusTopic
  <1>4. CASE StatusBody
    <2>1. StatusIn /\ statusPc' = "timer"
      BY <1>4 DEF StatusBody, StatusIn
    <2>2. Begun(StatusId) /\ \A k \in Logs : ~LogIn(k)
      BY <1>2, <2>1 DEF Orderly
    <2>3. CASE SendBody(StatusId)
      <3>1. part' = <<>> /\ ~torn'
        BY <1>2, <2>2, <2>3 DEF SendBody, Begun
      <3>2. QED
        BY <1>1, <2>1, <2>2, <3>1 DEF Orderly, StatusIn, LogIn
    <2>4. CASE SendFails
      BY <2>2, <2>4 DEF SendFails, Begun
    <2>5. QED
      BY <1>4, <2>3, <2>4 DEF StatusBody
  <1>5. QED
    BY <1>3, <1>4

\* ... and this about the warnings, whose mutex keeps them apart.
LEMMA LogSocket ==
  ASSUME SocketInv, DelayInv, NEW l \in Logs, LogTopic(l) \/ LogBody(l) PROVE SocketInv'
  <1> SUFFICES ASSUME ~mixed' PROVE ~torn' /\ Orderly'
    <2>1. torn' \in BOOLEAN /\ mixed' \in BOOLEAN
      BY DEF SocketInv, LogTopic, LogBody, SendTopic, SendBody, SendFails
    <2>2. QED
      BY <2>1 DEF SocketInv
  <1>1. /\ statusPc' = statusPc
        /\ l # StatusId
        /\ logPc \in [Logs -> {"none", "try", "topic", "body", "sleep"}]
    BY MonitorAssumption DEF LogTopic, LogBody, status, StatusId, DelayInv
  <1>2. ~mixed /\ ~torn /\ Orderly
    BY DEF SocketInv, LogTopic, LogBody, SendTopic, SendBody, SendFails
  <1>3. \A k \in Logs : LogIn(k) => k = l
    <2>1. Holds(l)
      BY DEF LogTopic, LogBody, Holds
    <2>2. \A k \in Logs : LogIn(k) => Holds(k)
      BY DEF LogIn, Holds
    <2>3. QED
      BY <2>1, <2>2 DEF DelayInv
  <1>4. ASSUME NEW x \in {"none", "sleep"}, logPc' = [logPc EXCEPT ![l] = x],
               part' = <<>>, ~torn', ~StatusIn
        PROVE  ~torn' /\ Orderly'
    BY <1>1, <1>3, <1>4 DEF Orderly, StatusIn, LogIn
  <1>5. CASE LogTopic(l)
    <2>1. \A k \in Logs : ~LogIn(k)
      BY <1>3, <1>5 DEF LogTopic, LogIn
    <2>2. CASE SendTopic(l) /\ logPc' = [logPc EXCEPT ![l] = "body"]
      <3>1. ~Meets(l)
        BY <2>2 DEF SendTopic
      <3>2. part = <<>> /\ ~StatusIn
        BY <1>1, <1>2, <2>1, <3>1, TopicAlone
      <3>3. part' = <<Frame(l, "topic")>> /\ torn' = torn
        BY <2>2, <3>2 DEF SendTopic
      <3>4. \A k \in Logs : LogIn(k)' <=> k = l
        BY <1>1, <2>1, <2>2 DEF LogIn
      <3>5. Begun(l)' /\ ~StatusIn'
        BY <1>1, <3>2, <3>3 DEF Begun, Frame, StatusIn
      <3>6. QED
        BY <1>2, <3>3, <3>4, <3>5 DEF Orderly
    <2>3. CASE SendFails /\ LogReturn(l)
      <3>1. part = <<>> /\ part' = part /\ torn' = torn
        BY <2>3 DEF SendFails
      <3>2. ~StatusIn
        BY <1>2, <3>1 DEF Orderly, Begun
      <3>3. QED
        BY <1>2, <1>4, <2>3, <3>1, <3>2 DEF LogReturn
    <2>4. QED
      BY <1>5, <2>2, <2>3 DEF LogTopic
  <1>6. CASE LogBody(l)
    <2>1. LogIn(l)
      BY <1>6 DEF LogBody, LogIn
    <2>2. Begun(l) /\ ~StatusIn
      BY <1>1, <1>2, <2>1, BodyAlone
    <2>3. CASE SendBody(l) /\ logPc' = [logPc EXCEPT ![l] = "sleep"]
      <3>1. part' = <<>> /\ ~torn'
        BY <1>2, <2>2, <2>3 DEF SendBody, Begun
      <3>2. QED
        BY <1>4, <2>2, <2>3, <3>1
    <2>4. CASE SendFails
      BY <2>2, <2>4 DEF SendFails, Begun
    <2>5. QED
      BY <1>6, <2>3, <2>4 DEF LogBody
  <1>7. QED
    BY <1>5, <1>6

\* Steps that write nothing and bring nobody between its frames.
LEMMA QuietSocket ==
  ASSUME SocketInv, UNCHANGED <<part, torn, mixed>>,
         StatusIn' <=> StatusIn, \A l \in Logs : LogIn(l)' <=> LogIn(l)
  PROVE  SocketInv'
  <1>1. \A g : Begun(g)' <=> Begun(g)
    BY DEF Begun, Frame
  <1>2. Orderly' <=> Orderly
    BY <1>1 DEF Orderly
  <1>3. QED
    BY <1>2 DEF SocketInv

(***************************************************************************)
(* TornOnlyByStatus holds for every number of overlapping warnings and     *)
(* every failure: the mutex of SendLog keeps warnings from tearing each    *)
(* other's messages.                                                       *)
(***************************************************************************)
THEOREM WarningsWhole == Spec => []TornOnlyByStatus
  <1>1. Init => SocketInv
    BY DEF Init, MonInit, SocketInv, Orderly, StatusIn, LogIn
  <1>2. DelayInv /\ SocketInv /\ [Next]_vars => SocketInv'
    <2> SUFFICES ASSUME DelayInv, SocketInv, [Next]_vars PROVE SocketInv'
      OBVIOUS
    <2>1. CASE UNCHANGED monitor
      <3>1. /\ part' = part /\ torn' = torn /\ mixed' = mixed
            /\ statusPc' = statusPc /\ logPc' = logPc
        BY <2>1 DEF monitor, socket, logs, status
      <3>2. QED
        BY <3>1, QuietSocket DEF StatusIn, LogIn
    <2>2. CASE MonTick \/ MonOpen \/ StatusTimer \/ SocketRace
      <3>1. /\ part' = part /\ torn' = torn /\ mixed' = mixed /\ logPc' = logPc
            /\ StatusIn' <=> StatusIn
        BY <2>2 DEF MonTick, MonOpen, StatusTimer, SocketRace, socket, logs, status, StatusIn
      <3>2. QED
        BY <3>1, QuietSocket DEF LogIn
    <2>3. ASSUME NEW l \in Logs, LogTry(l) \/ LogWake(l) \/ (RoundEmpty /\ SendLog(l))
          PROVE  SocketInv'
      <3>1. part' = part /\ torn' = torn /\ mixed' = mixed /\ statusPc' = statusPc
        BY <2>3 DEF LogTry, LogWake, RoundEmpty, socket, status
      <3>2. PICK x \in {"none", "try", "topic"} : logPc' = [logPc EXCEPT ![l] = x]
        BY <2>3 DEF LogTry, LogWake, LogReturn, SendLog
      <3>3. logPc[l] # "body"
        BY <2>3 DEF LogTry, LogWake, SendLog
      <3>4. \A k \in Logs : LogIn(k)' <=> LogIn(k)
        BY <3>2, <3>3 DEF LogIn, DelayInv
      <3>5. QED
        BY <3>1, <3>4, QuietSocket DEF StatusIn
    <2>4. CASE RoundEmpty
      <3>1. PICK l \in Logs : SendLog(l)
        BY <2>4 DEF RoundEmpty
      <3>2. QED
        BY <2>3, <2>4, <3>1
    <2>5. CASE MonNext
      BY <2>2, <2>3, <2>5, StatusSocket, LogSocket DEF MonNext, StatusStep, LogStep
    <2>6. QED
      BY <2>1, <2>4, <2>5, MonitorApart DEF Next, Running
  <1>3. SocketInv => TornOnlyByStatus
    BY DEF SocketInv, TornOnlyByStatus
  <1>4. QED
    BY <1>1, <1>2, <1>3, DelayInit, DelayNext, PTL DEF Spec

-----------------------------------------------------------------------------
(* The order of the quotes *)

Packet  == [from : Receivers, n : Nat, enc : {"gob", "flate", "pb", "topic"}]
Message == {m \in Seq(Packet) : m # <<>>}

\* What the aggregator will see of the message at place i from receiver r.
First(r, i) == pipe[r][i][1]

\* A frame of r that a decoder may take for gob comes from a gob receiver.
Honest(r, f) == f.from = r /\ f.n \in Nat /\ f.n <= next[r] /\ (f.enc = "gob" => conf.encoding[r] = "gob")

FeedType ==
  /\ conf \in Deployments
  /\ next \in [Receivers -> Nat]
  /\ pipe \in [Receivers -> Seq(Message)]
  /\ handled \in [Receivers -> Seq(Nat)]
  /\ drain \subseteq Packet
  /\ handler \subseteq Packet

\* On the way: in the order of the receiver.
PipeInv ==
  \A r \in Receivers :
    /\ \A i \in 1 .. Len(pipe[r]) : Honest(r, First(r, i))
    /\ \A i, j \in 1 .. Len(pipe[r]) : i < j => First(r, i).n < First(r, j).n

\* In the drain: before everything that is on the way.
DrainInv ==
  \A f \in drain : /\ Honest(f.from, f)
                   /\ \A i \in 1 .. Len(pipe[f.from]) : f.n < First(f.from, i).n
                   /\ \A g \in drain : f = g

\* In the handler: before the drain, too.
HandlerInv ==
  \A f \in handler : /\ Honest(f.from, f)
                     /\ \A i \in 1 .. Len(pipe[f.from]) : f.n < First(f.from, i).n
                     /\ \A g \in drain : g.from = f.from => f.n < g.n
                     /\ \A g \in handler : f = g

\* Handled: before all of these.
HandledInv ==
  \A r \in Receivers :
    /\ conf.encoding[r] # "gob" => handled[r] = <<>>
    /\ \A i, j \in 1 .. Len(handled[r]) : i < j => handled[r][i] < handled[r][j]
    /\ \A i \in 1 .. Len(handled[r]) :
         /\ handled[r][i] <= next[r]
         /\ \A j \in 1 .. Len(pipe[r]) : handled[r][i] < First(r, j).n
         /\ \A f \in drain \cup handler : f.from = r => handled[r][i] < f.n

FeedInv == FeedType /\ PipeInv /\ DrainInv /\ HandlerInv /\ HandledInv

\* What fanout gives to the socket.
LEMMA EncodeHead ==
  ASSUME conf \in Deployments, NEW r \in Receivers, NEW n \in Nat
  PROVE  /\ Encode(r, n) \in Message
         /\ Encode(r, n)[1].from = r
         /\ Encode(r, n)[1].n = n
         /\ Encode(r, n)[1].enc = "gob" => conf.encoding[r] = "gob"
  <1>1. conf.encoding[r] \in {"gob", "flate", "pb"}
    BY PathAssumption DEF IsDeployment, Receivers
  <1>2. CASE conf.encoding[r] = "pb"
    <2>1. Encode(r, n) = <<Sent(r, n, "topic"), Sent(r, n, "pb")>>
      BY <1>2 DEF Encode, encodePb
    <2>2. Sent(r, n, "topic") \in Packet /\ Sent(r, n, "pb") \in Packet
      BY DEF Sent, Packet
    <2>3. Encode(r, n) \in Message
      BY <2>1, <2>2 DEF Message
    <2>4. QED
      BY <2>1, <2>3 DEF Sent
  <1>3. CASE conf.encoding[r] # "pb"
    <2>1. Encode(r, n) = <<Sent(r, n, conf.encoding[r])>>
      BY <1>3 DEF Encode, encodeGob
    <2>2. Sent(r, n, conf.encoding[r]) \in Packet
      BY <1>1 DEF Sent, Packet
    <2>3. Encode(r, n) \in Message
      BY <2>1, <2>2 DEF Message
    <2>4. QED
      BY <2>1, <2>3 DEF Sent
  <1>4. QED
    BY <1>2, <1>3

\* A quote goes out, or is dropped because nobody is connected.
LEMMA FanoutFeed ==
  ASSUME FeedInv, NEW r \in Receivers, Fanout(r), conf' = conf PROVE FeedInv'
  <1>a. PICK n : n = next[r] + 1
    OBVIOUS
  <1>b. PICK m : m = Encode(r, n)
    OBVIOUS
  <1>1. /\ next[r] \in Nat /\ n = next[r] + 1 /\ n \in Nat
        /\ next' = [next EXCEPT ![r] = next[r] + 1]
        /\ pipe' = pipe \/ pipe' = [pipe EXCEPT ![r] = Append(pipe[r], m)]
        /\ drain' = drain /\ handler' = handler /\ handled' = handled
    BY <1>a, <1>b DEF Fanout, FeedInv, FeedType, intake
  <1>2. m \in Message /\ m[1].from = r /\ m[1].n = n /\ (m[1].enc = "gob" => conf.encoding[r] = "gob")
    BY <1>1, <1>b, EncodeHead DEF FeedInv, FeedType
  <1>3. Receivers' = Receivers /\ Packet' = Packet /\ Message' = Message
    BY DEF Receivers, Packet, Message
  <1>4. /\ next' \in [Receivers -> Nat]
        /\ next'[r] = n
        /\ \A q \in Receivers : q # r => next'[q] = next[q]
        /\ \A q \in Receivers : next[q] <= next'[q] /\ next[q] \in Nat
    BY <1>1 DEF FeedInv, FeedType
  <1>5. /\ pipe' \in [Receivers -> Seq(Message)]
        /\ \A q \in Receivers : q # r => pipe'[q] = pipe[q]
        /\ pipe'[r] = pipe[r] \/ pipe'[r] = Append(pipe[r], m)
        /\ \A q \in Receivers : pipe[q] \in Seq(Message)
    <2>1. pipe \in [Receivers -> Seq(Message)]
      BY DEF FeedInv, FeedType
    <2>2. Append(pipe[r], m) \in Seq(Message)
      BY <1>2, <2>1
    <2>3. QED
      BY <1>1, <2>1, <2>2
  <1>6. ASSUME NEW q \in Receivers, NEW i \in 1 .. Len(pipe'[q])
        PROVE  \/ i \in 1 .. Len(pipe[q]) /\ First(q, i)' = First(q, i)
               \/ q = r /\ First(q, i)' = m[1] /\ i = Len(pipe[q]) + 1
    <2>1. CASE pipe'[q] = pipe[q]
      BY <2>1 DEF First
    <2>2. CASE q = r /\ pipe'[r] = Append(pipe[r], m)
      <3>1. /\ Len(pipe'[q]) = Len(pipe[q]) + 1
            /\ pipe'[q][Len(pipe[q]) + 1] = m
            /\ \A j \in 1 .. Len(pipe[q]) : pipe'[q][j] = pipe[q][j]
            /\ Len(pipe[q]) \in Nat
        BY <1>2, <1>5, <2>2
      <3>2. QED
        BY <2>2, <3>1 DEF First
    <2>3. QED
      BY <1>5, <2>1, <2>2
  <1>7. \A f : \A q \in Receivers : Honest(q, f) => Honest(q, f)'
    BY <1>3, <1>4 DEF Honest
  <1>8. Honest(r, m[1])'
    BY <1>1, <1>2, <1>4 DEF Honest
  <1>9. FeedType'
    BY <1>1, <1>3, <1>4, <1>5 DEF FeedInv, FeedType
  <1>10. \A q \in Receivers : Len(pipe[q]) \in Nat
    BY DEF FeedInv, FeedType
  <1>11. PipeInv'
    <2> SUFFICES ASSUME NEW q \in Receivers
                 PROVE  /\ \A i \in 1 .. Len(pipe'[q]) : Honest(q, First(q, i))'
                        /\ \A i, j \in 1 .. Len(pipe'[q]) : i < j => First(q, i)'.n < First(q, j)'.n
      BY <1>3 DEF PipeInv
    <2>1. ASSUME NEW i \in 1 .. Len(pipe'[q]) PROVE Honest(q, First(q, i))'
      BY <1>6, <1>7, <1>8 DEF FeedInv, PipeInv
    <2>2. ASSUME NEW i \in 1 .. Len(pipe'[q]), NEW j \in 1 .. Len(pipe'[q]), i < j
          PROVE  First(q, i)'.n < First(q, j)'.n
      <3>1. i \in 1 .. Len(pipe[q]) /\ First(q, i)' = First(q, i)
        BY <1>5, <1>6, <1>10, <2>2
      <3>2. First(q, i).n \in Nat /\ First(q, i).n <= next[q]
        BY <3>1 DEF FeedInv, PipeInv, Honest
      <3>3. CASE j \in 1 .. Len(pipe[q]) /\ First(q, j)' = First(q, j)
        BY <2>2, <3>1, <3>3 DEF FeedInv, PipeInv
      <3>4. CASE q = r /\ First(q, j)' = m[1]
        BY <1>1, <1>2, <3>1, <3>2, <3>4
      <3>5. QED
        BY <1>6, <3>3, <3>4
    <2>3. QED
      BY <2>1, <2>2
  <1>12. ASSUME NEW q \in Receivers, NEW k \in Nat, k <= next[q],
                \A i \in 1 .. Len(pipe[q]) : k < First(q, i).n
         PROVE  \A i \in 1 .. Len(pipe'[q]) : k < First(q, i)'.n
    <2> TAKE i \in 1 .. Len(pipe'[q])
    <2>1. CASE i \in 1 .. Len(pipe[q]) /\ First(q, i)' = First(q, i)
      BY <1>12, <2>1
    <2>2. CASE q = r /\ First(q, i)' = m[1]
      BY <1>1, <1>2, <1>12, <2>2
    <2>3. QED
      BY <1>6, <2>1, <2>2
  <1>13. \A f \in drain \cup handler : f.from \in Receivers
    BY DEF FeedInv, FeedType, Packet
  <1>14. DrainInv'
    BY <1>1, <1>7, <1>12, <1>13 DEF FeedInv, DrainInv, Honest
  <1>15. HandlerInv'
    BY <1>1, <1>7, <1>12, <1>13 DEF FeedInv, HandlerInv, Honest
  <1>16. HandledInv'
    <2> SUFFICES ASSUME NEW q \in Receivers, NEW i \in 1 .. Len(handled[q])
                 PROVE  /\ handled[q][i] <= next'[q]
                        /\ \A j \in 1 .. Len(pipe'[q]) : handled[q][i] < First(q, j)'.n
      BY <1>1, <1>3 DEF FeedInv, HandledInv
    <2>1. handled[q][i] \in Nat
      BY DEF FeedInv, FeedType
    <2>2. /\ handled[q][i] <= next[q]
          /\ \A j \in 1 .. Len(pipe[q]) : handled[q][i] < First(q, j).n
      BY DEF FeedInv, HandledInv
    <2>3. handled[q][i] <= next'[q]
      BY <1>1, <1>4, <2>1, <2>2
    <2>4. \A j \in 1 .. Len(pipe'[q]) : handled[q][i] < First(q, j)'.n
      BY <1>12, <2>1, <2>2
    <2>5. QED
      BY <2>3, <2>4
  <1>17. QED
    BY <1>9, <1>11, <1>14, <1>15, <1>16 DEF FeedInv

\* A connection breaks: the pipe is cut short.
LEMMA CutFeed ==
  ASSUME FeedInv, NEW r \in Receivers, Cut(r), conf' = conf PROVE FeedInv'
  <1>1. PICK k \in 0 .. Len(pipe[r]) : pipe' = [pipe EXCEPT ![r] = SubSeq(pipe[r], 1, k)]
    BY DEF Cut
  <1>2. next' = next /\ drain' = drain /\ handler' = handler /\ handled' = handled
    BY DEF Cut, intake
  <1>3. Receivers' = Receivers /\ Packet' = Packet /\ Message' = Message
    BY DEF Receivers, Packet, Message
  <1>4. pipe \in [Receivers -> Seq(Message)]
    BY DEF FeedInv, FeedType
  <1>5. /\ SubSeq(pipe[r], 1, k) \in Seq(Message)
        /\ Len(SubSeq(pipe[r], 1, k)) = k
        /\ \A i \in 1 .. k : SubSeq(pipe[r], 1, k)[i] = pipe[r][i]
    BY <1>4
  <1>6. /\ pipe' \in [Receivers -> Seq(Message)]
        /\ \A q \in Receivers : q # r => pipe'[q] = pipe[q]
        /\ pipe'[r] = SubSeq(pipe[r], 1, k)
        /\ Len(pipe[r]) \in Nat
    BY <1>1, <1>4, <1>5
  <1>7. \A q \in Receivers : \A i \in 1 .. Len(pipe'[q]) :
          i \in 1 .. Len(pipe[q]) /\ First(q, i)' = First(q, i)
    BY <1>5, <1>6 DEF First
  <1>8. \A q, f : Honest(q, f)' <=> Honest(q, f)
    BY <1>2 DEF Honest
  <1>9. FeedType'
    BY <1>2, <1>3, <1>6 DEF FeedInv, FeedType
  <1>10. PipeInv'
    <2>1. PipeInv
      BY DEF FeedInv
    <2>2. ASSUME NEW q \in Receivers, NEW i \in 1 .. Len(pipe'[q]) PROVE Honest(q, First(q, i))'
      <3>1. Honest(q, First(q, i))
        BY <1>7, <2>1 DEF PipeInv
      <3>2. QED
        BY <1>2, <1>7, <3>1 DEF Honest
    <2>3. QED
      BY <1>3, <1>7, <2>1, <2>2 DEF PipeInv
  <1>11. \A f \in drain \cup handler : f.from \in Receivers
    BY DEF FeedInv, FeedType, Packet
  <1>12. DrainInv'
    BY <1>2, <1>7, <1>8, <1>11 DEF FeedInv, DrainInv
  <1>13. HandlerInv'
    BY <1>2, <1>7, <1>8, <1>11 DEF FeedInv, HandlerInv
  <1>14. HandledInv'
    BY <1>2, <1>3, <1>7 DEF FeedInv, HandledInv
  <1>15. QED
    BY <1>9, <1>10, <1>12, <1>13, <1>14 DEF FeedInv

\* A message is received: its first frame was before all others on the way.
LEMMA DrainFeed ==
  ASSUME FeedInv, NEW r \in Receivers, DrainRecv(r), conf' = conf PROVE FeedInv'
  <1>1. /\ drain = {} /\ pipe[r] # <<>>
        /\ pipe' = [pipe EXCEPT ![r] = Tail(pipe[r])]
        /\ drain' = {Head(pipe[r])[1]}
        /\ next' = next /\ handler' = handler /\ handled' = handled
    BY DEF DrainRecv
  <1>2. Receivers' = Receivers /\ Packet' = Packet /\ Message' = Message
    BY DEF Receivers, Packet, Message
  <1>3. pipe \in [Receivers -> Seq(Message)]
    BY DEF FeedInv, FeedType
  <1>4. /\ Tail(pipe[r]) \in Seq(Message)
        /\ Len(Tail(pipe[r])) = Len(pipe[r]) - 1
        /\ \A i \in 1 .. Len(pipe[r]) - 1 : Tail(pipe[r])[i] = pipe[r][i + 1]
        /\ Head(pipe[r]) = pipe[r][1]
        /\ Len(pipe[r]) \in Nat \ {0}
    BY <1>1, <1>3
  <1>5. /\ pipe' \in [Receivers -> Seq(Message)]
        /\ \A q \in Receivers : q # r => pipe'[q] = pipe[q]
        /\ pipe'[r] = Tail(pipe[r])
    BY <1>1, <1>3, <1>4
  <1>6. PICK f : f = First(r, 1)
    OBVIOUS
  <1>7. drain' = {f} /\ 1 \in 1 .. Len(pipe[r])
    BY <1>1, <1>4, <1>6 DEF First
  <1>8. \A i \in 1 .. Len(pipe'[r]) :
          i + 1 \in 1 .. Len(pipe[r]) /\ First(r, i)' = First(r, i + 1) /\ 1 < i + 1
    BY <1>4, <1>5 DEF First
  <1>9. \A q \in Receivers : q # r => \A i \in 1 .. Len(pipe'[q]) :
          i \in 1 .. Len(pipe[q]) /\ First(q, i)' = First(q, i)
    BY <1>5 DEF First
  <1>10. \A q, g : Honest(q, g)' <=> Honest(q, g)
    BY <1>1 DEF Honest
  <1>11. Honest(r, f) /\ f.from = r
    BY <1>6, <1>7 DEF FeedInv, PipeInv, Honest
  <1>12. \A i \in 1 .. Len(pipe'[r]) : f.n < First(r, i)'.n
    BY <1>6, <1>7, <1>8 DEF FeedInv, PipeInv
  <1>13. f \in Packet
    <2>1. pipe[r][1] \in Message
      BY <1>3, <1>7
    <2>2. QED
      BY <1>6, <2>1 DEF Message, First
  <1>14. FeedType'
    BY <1>1, <1>2, <1>5, <1>7, <1>13 DEF FeedInv, FeedType
  <1>15. PipeInv'
    <2> SUFFICES ASSUME NEW q \in Receivers
                 PROVE  /\ \A i \in 1 .. Len(pipe'[q]) : Honest(q, First(q, i))'
                        /\ \A i, j \in 1 .. Len(pipe'[q]) : i < j => First(q, i)'.n < First(q, j)'.n
      BY <1>2 DEF PipeInv
    <2>1. CASE q # r
      <3>1. \A i \in 1 .. Len(pipe'[q]) : Honest(q, First(q, i)')
        BY <1>9, <2>1 DEF FeedInv, PipeInv
      <3>2. \A i \in 1 .. Len(pipe'[q]) : Honest(q, First(q, i))'
        BY <1>1, <3>1 DEF Honest
      <3>3. QED
        BY <1>9, <2>1, <3>2 DEF FeedInv, PipeInv
    <2>2. CASE q = r
      <3>1. \A i \in 1 .. Len(pipe'[q]) : Honest(q, First(q, i)')
        BY <1>8, <2>2 DEF FeedInv, PipeInv
      <3>2. \A i \in 1 .. Len(pipe'[q]) : Honest(q, First(q, i))'
        BY <1>1, <3>1 DEF Honest
      <3>3. \A i, j \in 1 .. Len(pipe'[q]) : i < j => i + 1 < j + 1
        OBVIOUS
      <3>4. QED
        BY <1>8, <2>2, <3>2, <3>3 DEF FeedInv, PipeInv
    <2>3. QED
      BY <2>1, <2>2
  <1>16. ASSUME NEW q \in Receivers, NEW k \in Nat, \A i \in 1 .. Len(pipe[q]) : k < First(q, i).n
         PROVE  /\ \A i \in 1 .. Len(pipe'[q]) : k < First(q, i)'.n
                /\ q = r => k < f.n
    BY <1>6, <1>7, <1>8, <1>9, <1>16
  <1>17. DrainInv'
    BY <1>7, <1>10, <1>11, <1>12 DEF DrainInv
  <1>18. HandlerInv'
    <2> SUFFICES ASSUME NEW g \in handler
                 PROVE  /\ Honest(g.from, g)
                        /\ \A i \in 1 .. Len(pipe'[g.from]) : g.n < First(g.from, i)'.n
                        /\ f.from = g.from => g.n < f.n
                        /\ \A h \in handler : g = h
      BY <1>1, <1>7, <1>10 DEF HandlerInv
    <2>1. g.from \in Receivers /\ g.n \in Nat
      BY DEF FeedInv, FeedType, Packet
    <2>2. /\ Honest(g.from, g)
          /\ \A i \in 1 .. Len(pipe[g.from]) : g.n < First(g.from, i).n
          /\ \A h \in handler : g = h
      BY DEF FeedInv, HandlerInv
    <2>3. QED
      BY <1>11, <1>16, <2>1, <2>2
  <1>19. HandledInv'
    <2>1. ASSUME NEW q \in Receivers, NEW i \in 1 .. Len(handled[q])
          PROVE  /\ handled[q][i] <= next[q]
                 /\ \A j \in 1 .. Len(pipe'[q]) : handled[q][i] < First(q, j)'.n
                 /\ \A g \in {f} \cup handler : g.from = q => handled[q][i] < g.n
      <3>1. handled[q][i] \in Nat
        BY DEF FeedInv, FeedType
      <3>2. /\ handled[q][i] <= next[q]
            /\ \A j \in 1 .. Len(pipe[q]) : handled[q][i] < First(q, j).n
            /\ \A g \in handler : g.from = q => handled[q][i] < g.n
        BY DEF FeedInv, HandledInv
      <3>3. QED
        BY <1>11, <1>16, <3>1, <3>2
    <2>2. \A q \in Receivers :
            /\ conf.encoding[q] # "gob" => handled[q] = <<>>
            /\ \A i, j \in 1 .. Len(handled[q]) : i < j => handled[q][i] < handled[q][j]
      BY DEF FeedInv, HandledInv
    <2>3. QED
      <3>1. drain' \cup handler' = {f} \cup handler
        BY <1>1, <1>7
      <3>2. next' = next /\ handled' = handled /\ conf' = conf /\ Receivers' = Receivers
        BY <1>1, <1>2
      <3>3. QED
        BY <2>1, <2>2, <3>1, <3>2 DEF HandledInv
  <1>20. QED
    BY <1>14, <1>15, <1>17, <1>18, <1>19 DEF FeedInv

\* The bytes are handed over.
LEMMA PushFeed ==
  ASSUME FeedInv, DrainPush, conf' = conf PROVE FeedInv'
  <1>1. /\ handler = {} /\ handler' = drain /\ drain' = {}
        /\ next' = next /\ pipe' = pipe /\ handled' = handled
    BY DEF DrainPush, network
  <1>2. Receivers' = Receivers /\ Packet' = Packet /\ Message' = Message
    BY DEF Receivers, Packet, Message
  <1>3. \A q, g : Honest(q, g)' <=> Honest(q, g)
    BY <1>1 DEF Honest
  <1>4. \A q, i : First(q, i)' = First(q, i)
    BY <1>1 DEF First
  <1>5. FeedType'
    BY <1>1, <1>2 DEF FeedInv, FeedType
  <1>6. PipeInv'
    BY <1>1, <1>2, <1>4 DEF FeedInv, PipeInv, Honest
  <1>7. DrainInv'
    BY <1>1 DEF DrainInv
  <1>8. HandlerInv'
    BY <1>1, <1>3, <1>4 DEF FeedInv, DrainInv, HandlerInv
  <1>9. HandledInv'
    BY <1>1, <1>2, <1>4 DEF FeedInv, HandledInv
  <1>10. QED
    BY <1>5, <1>6, <1>7, <1>8, <1>9 DEF FeedInv

\* The handler is done with its bytes, and has put the quote in or not.
LEMMA HandleFeed ==
  ASSUME FeedInv, Handle, conf' = conf PROVE FeedInv'
  <1>1. PICK f \in handler :
          /\ \/ handled' = handled
             \/ Decodes(f) /\ handled' = [handled EXCEPT ![f.from] = Append(handled[f.from], f.n)]
          /\ handler' = {}
          /\ drain' = drain /\ next' = next /\ pipe' = pipe
    <2>1. PICK f : f = CHOOSE g \in handler : TRUE
      OBVIOUS
    <2>2. handler # {} /\ f \in handler
      BY <2>1 DEF Handle
    <2>3. QED
      BY <2>1, <2>2 DEF Handle, network
  <1>2. Receivers' = Receivers /\ Packet' = Packet /\ Message' = Message
    BY DEF Receivers, Packet, Message
  <1>3. \A q, g : Honest(q, g)' <=> Honest(q, g)
    BY <1>1 DEF Honest
  <1>4. \A q, i : First(q, i)' = First(q, i)
    BY <1>1 DEF First
  <1>5. /\ f.from \in Receivers /\ f.n \in Nat /\ f.n <= next[f.from]
        /\ handled \in [Receivers -> Seq(Nat)]
    BY DEF FeedInv, FeedType, Packet, HandlerInv, Honest
  <1>6. Decodes(f) => conf.encoding[f.from] = "gob"
    BY DEF FeedInv, HandlerInv, Honest, Decodes
  <1>7. handled' \in [Receivers -> Seq(Nat)]
    <2>1. Append(handled[f.from], f.n) \in Seq(Nat)
      BY <1>5
    <2>2. QED
      BY <1>1, <1>5, <2>1
  <1>8. FeedType'
    BY <1>1, <1>2, <1>7 DEF FeedInv, FeedType
  <1>9. PipeInv'
    BY <1>1, <1>2, <1>4 DEF FeedInv, PipeInv, Honest
  <1>10. DrainInv'
    BY <1>1, <1>3, <1>4 DEF FeedInv, DrainInv
  <1>11. HandlerInv'
    BY <1>1 DEF HandlerInv
  <1>12. HandledInv'
    <2> SUFFICES ASSUME NEW q \in Receivers
                 PROVE  /\ conf.encoding[q] # "gob" => handled'[q] = <<>>
                        /\ \A i, j \in 1 .. Len(handled'[q]) : i < j => handled'[q][i] < handled'[q][j]
                        /\ \A i \in 1 .. Len(handled'[q]) :
                             /\ handled'[q][i] <= next[q]
                             /\ \A j \in 1 .. Len(pipe[q]) : handled'[q][i] < First(q, j).n
                             /\ \A g \in drain : g.from = q => handled'[q][i] < g.n
      BY <1>1, <1>2, <1>4 DEF HandledInv
    <2>1. CASE handled'[q] = handled[q]
      BY <2>1 DEF FeedInv, HandledInv
    <2>2. CASE q = f.from /\ Decodes(f) /\ handled'[q] = Append(handled[q], f.n)
      <3>1. /\ Len(handled'[q]) = Len(handled[q]) + 1
            /\ handled'[q][Len(handled[q]) + 1] = f.n
            /\ \A i \in 1 .. Len(handled[q]) : handled'[q][i] = handled[q][i]
            /\ Len(handled[q]) \in Nat
        BY <1>5, <2>2
      <3>2. \A i \in 1 .. Len(handled[q]) : handled[q][i] < f.n
        BY <2>2 DEF FeedInv, HandledInv
      <3>3. \A i, j \in 1 .. Len(handled[q]) : i < j => handled[q][i] < handled[q][j]
        BY DEF FeedInv, HandledInv
      <3>4. \A i, j \in 1 .. Len(handled'[q]) : i < j => handled'[q][i] < handled'[q][j]
        <4> SUFFICES ASSUME NEW i \in 1 .. Len(handled'[q]), NEW j \in 1 .. Len(handled'[q]), i < j
                     PROVE  handled'[q][i] < handled'[q][j]
          OBVIOUS
        <4>1. i \in 1 .. Len(handled[q])
          BY <3>1
        <4>2. CASE j = Len(handled[q]) + 1
          BY <3>1, <3>2, <4>1, <4>2
        <4>3. CASE j \in 1 .. Len(handled[q])
          BY <3>1, <3>3, <4>1, <4>3
        <4>4. QED
          BY <3>1, <4>2, <4>3
      <3>5. ASSUME NEW i \in 1 .. Len(handled'[q])
            PROVE  /\ handled'[q][i] <= next[q]
                   /\ \A j \in 1 .. Len(pipe[q]) : handled'[q][i] < First(q, j).n
                   /\ \A g \in drain : g.from = q => handled'[q][i] < g.n
        <4>1. CASE i = Len(handled[q]) + 1
          BY <1>5, <2>2, <3>1, <4>1 DEF FeedInv, HandlerInv
        <4>2. CASE i \in 1 .. Len(handled[q])
          BY <3>1, <4>2 DEF FeedInv, HandledInv
        <4>3. QED
          BY <3>1, <4>1, <4>2
      <3>6. QED
        BY <1>6, <2>2, <3>4, <3>5
    <2>3. QED
      BY <1>1, <1>5, <2>1, <2>2
  <1>13. QED
    BY <1>8, <1>9, <1>10, <1>11, <1>12 DEF FeedInv

\* Steps of the monitor, the collector and the producers change none of this.
LEMMA FeedStutter ==
  ASSUME FeedInv, UNCHANGED <<conf, next, pipe, drain, handler, handled>> PROVE FeedInv'
  <1>1. Receivers' = Receivers /\ Packet' = Packet /\ Message' = Message
    BY DEF Receivers, Packet, Message
  <1>2. \A q, i : First(q, i)' = First(q, i)
    BY DEF First
  <1>3. \A q, g : Honest(q, g)' <=> Honest(q, g)
    BY DEF Honest
  <1>4. FeedType' /\ PipeInv'
    BY <1>1, <1>2 DEF FeedInv, FeedType, PipeInv, Honest
  <1>5. DrainInv' /\ HandlerInv'
    BY <1>2, <1>3 DEF FeedInv, DrainInv, HandlerInv
  <1>6. HandledInv'
    BY <1>1, <1>2 DEF FeedInv, HandledInv
  <1>7. QED
    BY <1>4, <1>5, <1>6 DEF FeedInv

(***************************************************************************)
(* FeedOrder holds for all deployments: any number of receivers with any   *)
(* encodings, streams of any length, and connections that break as often   *)
(* as they like.                                                           *)
(***************************************************************************)
THEOREM QuotesInOrder == Spec => []FeedOrder
  <1>1. Init => FeedInv
    <2> SUFFICES ASSUME Init PROVE FeedInv
      OBVIOUS
    <2>1. FeedType
      BY DEF Init, FeedType
    <2>2. PipeInv /\ DrainInv /\ HandlerInv /\ HandledInv
      BY DEF Init, PipeInv, DrainInv, HandlerInv, HandledInv
    <2>3. QED
      BY <2>1, <2>2 DEF FeedInv
  <1>2. FeedInv /\ [Next]_vars => FeedInv'
    <2> SUFFICES ASSUME FeedInv, [Next]_vars PROVE FeedInv'
      OBVIOUS
    <2>1. conf' = conf
      BY DEF Next, vars
    <2>2. ASSUME NEW r \in Receivers, DrainRecv(r) \/ Fanout(r) \/ Link(r) \/ Cut(r) PROVE FeedInv'
      <3>1. CASE Link(r)
        BY <2>1, <3>1, FeedStutter DEF Link, intake
      <3>2. QED
        BY <2>1, <2>2, <3>1, DrainFeed, FanoutFeed, CutFeed
    <2>3. CASE DrainPush \/ Handle
      BY <2>1, <2>3, PushFeed, HandleFeed
    <2>4. CASE (MonNext /\ MonitorOnly) \/ RoundEmpty \/ RoundMessage \/ Send \/ SendError \/ Enqueue \/ UNCHANGED vars
      <3>1. UNCHANGED <<next, pipe, drain, handler, handled>>
        BY <2>4 DEF MonitorOnly, RoundEmpty, RoundMessage, Send, SendError, Enqueue, vars, network, intake
      <3>2. QED
        BY <2>1, <3>1, FeedStutter
    <2>5. QED
      BY <2>2, <2>3, <2>4 DEF Next, Running
  <1>3. FeedInv => FeedOrder
    <2> SUFFICES ASSUME FeedInv, NEW r \in Receivers
                 PROVE  /\ \A i, j \in DOMAIN handled[r] : i < j => handled[r][i] < handled[r][j]
                        /\ conf.encoding[r] # "gob" => handled[r] = <<>>
      BY DEF FeedOrder
    <2>1. DOMAIN handled[r] = 1 .. Len(handled[r])
      BY DEF FeedInv, FeedType
    <2>2. QED
      BY <2>1 DEF FeedInv, HandledInv
  <1>4. QED
    BY <1>1, <1>2, <1>3, PTL DEF Spec

-----------------------------------------------------------------------------
(* Types *)

\* What a deployment fixes.
LEMMA ConfParts ==
  ASSUME conf \in Deployments
  PROVE  /\ Events = 1 .. Len(conf.stream) /\ Len(conf.stream) \in Nat
         /\ Outlets = 1 .. Len(conf.producers) /\ Len(conf.producers) \in Nat
         /\ \A r \in Receivers : conf.encoding[r] \in {"gob", "flate", "pb"}
  <1>1. IsDeployment(conf)
    BY PathAssumption
  <1>2. QED
    BY <1>1 DEF IsDeployment, Events, Outlets, Receivers

\* A message on the way has a first frame.
Whole == {m \in Seq(Frames) : m # <<>>}

Single(held) == held = {} \/ \E f \in Frames : held = {f}

NetType ==
  /\ next \in [Receivers -> 0 .. Len(conf.stream)]
  /\ linked \subseteq Receivers
  /\ pipe \in [Receivers -> Seq(Whole)]
  /\ lost \subseteq Receivers \X Events
  /\ cuts \in Nat

IntakeType ==
  /\ Single(drain) /\ Single(handler)
  /\ handled \in [Receivers -> Seq(Events)]
  /\ buffer \subseteq Events

OutletType ==
  /\ pc \in 0 .. Len(conf.producers) + 1
  /\ last_period_ts \in Nat
  /\ sent \in Nat
  /\ pc # 0 => sent > 0
  /\ unfit \subseteq 1 .. sent
  /\ begun \in [Outlets -> Nat]
  /\ got \in [Outlets -> Seq([n : Nat, whole : BOOLEAN])]
  /\ ws \in Seq(Nat)
  /\ failed \subseteq Outlets \X (1 .. sent)

(***************************************************************************)
(* TypeOK is not inductive: the drain keeps the first frame of a message,  *)
(* so the messages on the way must have one; and a send that fails is one  *)
(* of a message that the collector had.                                    *)
(***************************************************************************)
PathType == conf \in Deployments /\ MonTypeOK /\ NetType /\ IntakeType /\ OutletType

LEMMA PathTypeOK == PathType => TypeOK
  <1> SUFFICES ASSUME PathType PROVE TypeOK
    OBVIOUS
  <1>1. pipe \in [Receivers -> Seq(Seq(Frames))]
    <2>1. \A r \in Receivers : pipe[r] \in Seq(Seq(Frames))
      <3> SUFFICES ASSUME NEW r \in Receivers PROVE pipe[r] \in Seq(Seq(Frames))
        OBVIOUS
      <3>1. pipe[r] \in Seq(Whole)
        BY DEF PathType, NetType
      <3>2. \A i \in 1 .. Len(pipe[r]) : pipe[r][i] \in Seq(Frames)
        <4>1. \A i \in 1 .. Len(pipe[r]) : pipe[r][i] \in Whole
          BY <3>1
        <4>2. QED
          BY <4>1 DEF Whole
      <3>3. QED
        BY <3>1, <3>2
    <2>2. QED
      BY <2>1 DEF PathType, NetType
  <1>2. QED
    BY <1>1 DEF PathType, TypeOK, NetType, IntakeType, OutletType, Single

\* Nothing in these sets changes with the state of a deployment.
LEMMA SameConf ==
  ASSUME conf' = conf
  PROVE  /\ Receivers' = Receivers /\ Events' = Events /\ Outlets' = Outlets
         /\ Frames' = Frames /\ Whole' = Whole
         /\ \A held : Single(held)' <=> Single(held)
  BY DEF Receivers, Events, Outlets, Frames, Whole, Single

LEMMA EncodeWhole ==
  ASSUME conf \in Deployments, NEW r \in Receivers, NEW n \in Events
  PROVE  Encode(r, n) \in Whole
  <1>1. conf.encoding[r] \in {"gob", "flate", "pb"}
    BY ConfParts
  <1>2. CASE conf.encoding[r] = "pb"
    <2>1. Encode(r, n) = <<Sent(r, n, "topic"), Sent(r, n, "pb")>>
      BY <1>2 DEF Encode, encodePb
    <2>2. Sent(r, n, "topic") \in Frames /\ Sent(r, n, "pb") \in Frames
      BY DEF Sent, Frames
    <2>3. QED
      BY <2>1, <2>2 DEF Whole
  <1>3. CASE conf.encoding[r] # "pb"
    <2>1. Encode(r, n) = <<Sent(r, n, conf.encoding[r])>>
      BY <1>3 DEF Encode, encodeGob
    <2>2. Sent(r, n, conf.encoding[r]) \in Frames
      BY <1>1 DEF Sent, Frames
    <2>3. QED
      BY <2>1, <2>2 DEF Whole
  <1>4. QED
    BY <1>2, <1>3

\* The socket of the monitor.
LEMMA SocketType ==
  ASSUME MonTypeOK, NEW g \in Logs \cup {0}, SendTopic(g) \/ SendBody(g) \/ SendFails
  PROVE  /\ part' \in Seq([from : Logs \cup {0}, what : {"topic", "body"}])
         /\ torn' \in BOOLEAN /\ mixed' \in BOOLEAN /\ errors' \in Nat
  <1> DEFINE F == [from : Logs \cup {0}, what : {"topic", "body"}]
  <1>1. part \in Seq(F) /\ torn \in BOOLEAN /\ mixed \in BOOLEAN /\ errors \in Nat
    BY DEF MonTypeOK
  <1>2. Frame(g, "topic") \in F
    BY DEF Frame
  <1>3. part' \in Seq(F)
    <2> HIDE DEF F
    <2>1. CASE SendTopic(g)
      BY <1>1, <1>2, <2>1 DEF SendTopic
    <2>2. CASE SendBody(g) \/ SendFails
      <3>1. part' = <<>> \/ part' = part
        BY <2>2 DEF SendBody, SendFails
      <3>2. <<>> \in Seq(F)
        OBVIOUS
      <3>3. QED
        BY <1>1, <3>1, <3>2
    <2>3. QED
      BY <2>1, <2>2
  <1>4. torn' \in BOOLEAN /\ mixed' \in BOOLEAN
    BY <1>1, Zenon DEF SendTopic, SendBody, SendFails
  <1>5. errors' \in Nat
    BY <1>1 DEF SendTopic, SendBody, SendFails
  <1>6. QED
    BY <1>3, <1>4, <1>5

LEMMA MonType ==
  ASSUME MonTypeOK,
         \/ MonNext
         \/ (\E l \in Logs : SendLog(l)) /\ UNCHANGED <<clock, status, socket, up>>
  PROVE  MonTypeOK'
  <1>0. 0 \in Logs \cup {0} /\ \A l \in Logs : l \in Logs \cup {0}
    OBVIOUS
  <1>1. CASE MonTick \/ MonOpen \/ StatusTimer \/ SocketRace
    <2>1. /\ UNCHANGED <<mtx, logPc, wake, warned, part, torn, mixed, errors>>
          /\ statusPc' \in {statusPc, "topic"}
      BY <1>1 DEF MonTick, MonOpen, StatusTimer, SocketRace, status, logs, socket
    <2>2. (clock' = clock \/ clock' = clock + 1) /\ (fired' = fired \/ fired' = fired + 1)
      BY <1>1 DEF MonTick, MonOpen, StatusTimer, SocketRace, status
    <2>3. (up' = up \/ up' = FALSE)
      BY <1>1 DEF MonTick, MonOpen, StatusTimer, SocketRace
    <2>4. clock' \in Nat /\ fired' \in Nat
      BY <2>2 DEF MonTypeOK
    <2>5. up' \in BOOLEAN
      BY <2>3, Zenon DEF MonTypeOK
    <2>6. QED
      BY <2>1, <2>4, <2>5 DEF MonTypeOK
  <1>2. CASE StatusStep
    <2>1. SendTopic(StatusId) \/ SendBody(StatusId) \/ SendFails
      BY <1>2 DEF StatusStep, StatusTopic, StatusBody
    <2>2. /\ part' \in Seq([from : Logs \cup {0}, what : {"topic", "body"}])
          /\ torn' \in BOOLEAN /\ mixed' \in BOOLEAN /\ errors' \in Nat
      BY <1>0, <2>1, SocketType DEF StatusId
    <2>3. statusPc' \in {"body", "timer"} /\ UNCHANGED <<clock, fired, mtx, logPc, wake, warned, up>>
      BY <1>2 DEF StatusStep, StatusTopic, StatusBody, logs
    <2>4. QED
      BY <2>2, <2>3 DEF MonTypeOK
  <1>3. ASSUME NEW l \in Logs, LogTopic(l) \/ LogBody(l) PROVE MonTypeOK'
    <2>1. SendTopic(l) \/ SendBody(l) \/ SendFails
      BY <1>3 DEF LogTopic, LogBody
    <2>2. /\ part' \in Seq([from : Logs \cup {0}, what : {"topic", "body"}])
          /\ torn' \in BOOLEAN /\ mixed' \in BOOLEAN /\ errors' \in Nat
      BY <2>1, SocketType
    <2>3. UNCHANGED <<clock, statusPc, fired, up>>
      BY <1>3 DEF LogTopic, LogBody, status
    <2>4. mtx' \in Logs \cup {0} /\ logPc' \in [Logs -> {"none", "try", "topic", "body", "sleep"}]
      <3>1. mtx' \in {mtx, 0} /\ \E x \in {"none", "body", "sleep"} : logPc' = [logPc EXCEPT ![l] = x]
        BY <1>3 DEF LogTopic, LogBody, LogReturn
      <3>2. QED
        BY <3>1 DEF MonTypeOK
    <2>5. wake' \in [Logs -> Nat] /\ warned' \in Seq(Nat)
      <3>1. wake \in [Logs -> Nat] /\ warned \in Seq(Nat) /\ clock \in Nat /\ clock + Delay \in Nat
        BY MonitorAssumption DEF MonTypeOK
      <3>2. (wake' = wake \/ wake' = [wake EXCEPT ![l] = clock + Delay])
        BY <1>3 DEF LogTopic, LogBody
      <3>3. (warned' = warned \/ warned' = Append(warned, clock))
        BY <1>3 DEF LogTopic, LogBody
      <3>4. wake' \in [Logs -> Nat]
        <4> DEFINE t == clock + Delay
        <4>1. t \in Nat /\ (wake' = wake \/ wake' = [wake EXCEPT ![l] = t])
          BY <3>1, <3>2
        <4> HIDE DEF t
        <4>2. QED
          BY <3>1, <4>1
      <3>5. warned' \in Seq(Nat)
        <4>1. warned \in Seq(Nat) /\ clock \in Nat
          BY <3>1
        <4>2. Append(warned, clock) \in Seq(Nat)
          BY <4>1
        <4>3. QED
          BY <3>3, <4>1, <4>2
      <3>6. QED
        BY <3>4, <3>5
    <2>6. QED
      BY <2>2, <2>3, <2>4, <2>5 DEF MonTypeOK
  <1>4. ASSUME NEW l \in Logs,
               LogTry(l) \/ LogWake(l) \/ (SendLog(l) /\ UNCHANGED <<clock, status, socket, up>>)
        PROVE  MonTypeOK'
    BY <1>4 DEF LogTry, LogWake, LogReturn, SendLog, MonTypeOK, status, socket
  <1>5. QED
    BY <1>1, <1>2, <1>3, <1>4 DEF MonNext, LogStep

\* What a step leaves alone keeps its type.
LEMMA TypeStays ==
  ASSUME conf' = conf
  PROVE  /\ MonTypeOK /\ UNCHANGED monitor => MonTypeOK'
         /\ NetType /\ UNCHANGED network => NetType'
         /\ IntakeType /\ UNCHANGED intake => IntakeType'
         /\ OutletType /\ UNCHANGED <<collector, outlets>> => OutletType'
  <1>1. ASSUME MonTypeOK, UNCHANGED monitor PROVE MonTypeOK'
    BY <1>1 DEF MonTypeOK, monitor, status, logs, socket
  <1>2. ASSUME NetType, UNCHANGED network PROVE NetType'
    BY <1>2, SameConf DEF NetType, network
  <1>3. ASSUME IntakeType, UNCHANGED intake PROVE IntakeType'
    BY <1>3, SameConf DEF IntakeType, intake
  <1>4. ASSUME OutletType, UNCHANGED <<collector, outlets>> PROVE OutletType'
    BY <1>4, SameConf DEF OutletType, collector, outlets
  <1>5. QED
    BY <1>1, <1>2, <1>3, <1>4

LEMMA FanoutType ==
  ASSUME PathType, conf' = conf, NEW r \in Receivers, Fanout(r) PROVE NetType'
  <1> DEFINE n == next[r] + 1
             e == Encode(r, n)
             q == Append(pipe[r], e)
  <1>1. next \in [Receivers -> 0 .. Len(conf.stream)] /\ Len(conf.stream) \in Nat /\ Events = 1 .. Len(conf.stream)
    BY ConfParts DEF PathType, NetType
  <1>2. n \in 0 .. Len(conf.stream) /\ n \in Events
    BY <1>1 DEF Fanout
  <1>3. e \in Whole
    BY <1>2, EncodeWhole DEF PathType
  <1>4. next' = [next EXCEPT ![r] = n] /\ linked' = linked /\ cuts' = cuts
    BY DEF Fanout
  <1>5. (pipe' = pipe \/ pipe' = [pipe EXCEPT ![r] = q])
    BY DEF Fanout
  <1>6. (lost' = lost \/ lost' = lost \cup {<<r, n>>})
    BY DEF Fanout
  <1> HIDE DEF n, e
  <1>7. q \in Seq(Whole)
    BY <1>3 DEF PathType, NetType
  <1> HIDE DEF q
  <1>8. next' \in [Receivers -> 0 .. Len(conf.stream)]
    BY <1>1, <1>2, <1>4
  <1>9. pipe' \in [Receivers -> Seq(Whole)]
    BY <1>5, <1>7 DEF PathType, NetType
  <1>10. lost' \subseteq Receivers \X Events
    BY <1>2, <1>6 DEF PathType, NetType
  <1>11. linked' \subseteq Receivers /\ cuts' \in Nat
    BY <1>4 DEF PathType, NetType
  <1>12. QED
    BY <1>8, <1>9, <1>10, <1>11, SameConf DEF NetType

LEMMA CutType ==
  ASSUME PathType, conf' = conf, NEW r \in Receivers, Cut(r) PROVE NetType'
  <1>1. pipe[r] \in Seq(Whole) /\ Len(pipe[r]) \in Nat
    BY DEF PathType, NetType
  <1>2. \A i \in 1 .. Len(pipe[r]) : pipe[r][i][1].n \in Events
    <2> SUFFICES ASSUME NEW i \in 1 .. Len(pipe[r]) PROVE pipe[r][i][1].n \in Events
      OBVIOUS
    <2>1. pipe[r][i] \in Whole
      BY <1>1
    <2>2. pipe[r][i][1] \in Frames
      BY <2>1 DEF Whole
    <2>3. QED
      BY <2>2 DEF Frames
  <1>3. PICK k \in 0 .. Len(pipe[r]) :
               /\ pipe' = [pipe EXCEPT ![r] = SubSeq(@, 1, k)]
               /\ lost' = lost \cup {<<r, pipe[r][i][1].n>> : i \in k + 1 .. Len(pipe[r])}
    BY DEF Cut
  <1>4. SubSeq(pipe[r], 1, k) \in Seq(Whole)
    BY <1>1
  <1>5. pipe' \in [Receivers -> Seq(Whole)]
    BY <1>3, <1>4 DEF PathType, NetType
  <1>6. lost' \subseteq Receivers \X Events
    <2>1. \A i \in k + 1 .. Len(pipe[r]) : i \in 1 .. Len(pipe[r])
      BY <1>1
    <2>2. \A i \in k + 1 .. Len(pipe[r]) : <<r, pipe[r][i][1].n>> \in Receivers \X Events
      BY <1>2, <2>1
    <2>3. QED
      BY <1>3, <2>2 DEF PathType, NetType
  <1>7. next' \in [Receivers -> 0 .. Len(conf.stream)] /\ linked' \subseteq Receivers /\ cuts' \in Nat
    BY DEF Cut, PathType, NetType
  <1>8. QED
    BY <1>5, <1>6, <1>7, SameConf DEF NetType

LEMMA DrainType ==
  ASSUME PathType, conf' = conf, NEW r \in Receivers, DrainRecv(r) PROVE NetType' /\ IntakeType'
  <1>1. pipe[r] \in Seq(Whole) /\ pipe[r] # <<>>
    BY DEF PathType, NetType, DrainRecv
  <1>2. Head(pipe[r]) \in Whole /\ Tail(pipe[r]) \in Seq(Whole)
    BY <1>1
  <1>3. Head(pipe[r])[1] \in Frames
    BY <1>2 DEF Whole
  <1>4. pipe' \in [Receivers -> Seq(Whole)]
    BY <1>2 DEF PathType, NetType, DrainRecv
  <1>5. Single(drain')
    BY <1>3 DEF Single, DrainRecv
  <1>6. UNCHANGED <<next, linked, lost, cuts, handler, handled, buffer>>
    BY DEF DrainRecv
  <1>7. NetType'
    BY <1>4, <1>6, SameConf DEF PathType, NetType
  <1>8. IntakeType'
    BY <1>5, <1>6, SameConf DEF PathType, IntakeType
  <1>9. QED
    BY <1>7, <1>8

LEMMA HandleType ==
  ASSUME PathType, conf' = conf, Handle PROVE IntakeType'
  <1> DEFINE f == CHOOSE f \in handler : TRUE
  <1>1. f \in Frames
    BY DEF PathType, IntakeType, Single, Handle
  <1>2. f.from \in Receivers /\ f.n \in Events
    BY <1>1 DEF Frames
  <1>3. drain' = drain /\ handler' = {}
    BY DEF Handle
  <1>4. /\ handled' = handled \/ handled' = [handled EXCEPT ![f.from] = Append(@, f.n)]
        /\ buffer' = buffer \/ buffer' = buffer \cup {f.n}
    BY DEF Handle
  <1> HIDE DEF f
  <1>5. handled' \in [Receivers -> Seq(Events)] /\ buffer' \subseteq Events
    <2>1. handled[f.from] \in Seq(Events)
      BY <1>2 DEF PathType, IntakeType
    <2>2. Append(handled[f.from], f.n) \in Seq(Events)
      BY <1>2, <2>1
    <2>3. handled' \in [Receivers -> Seq(Events)]
      BY <1>4, <2>2 DEF PathType, IntakeType
    <2>4. buffer' \subseteq Events
      BY <1>2, <1>4 DEF PathType, IntakeType
    <2>5. QED
      BY <2>3, <2>4
  <1>6. Single(drain') /\ Single(handler')
    BY <1>3 DEF PathType, IntakeType, Single
  <1>7. QED
    BY <1>5, <1>6, SameConf DEF IntakeType

\* Producer k passes the message on.
Passed(k, w) == got' = [got EXCEPT ![k] = Append(got[k], [n |-> sent, whole |-> w])]

(***************************************************************************)
(* What a producer does with the message it is called with: it passes the  *)
(* message on, torn only if a topic was waiting or a frame failed, or the  *)
(* send failed; and a topic waits afterwards only if the send failed.      *)
(***************************************************************************)
LEMMA SendOutcome ==
  ASSUME PathType, Send
  PROVE  /\ pc \in Outlets /\ pc' = pc + 1 /\ sent \notin unfit
         /\ UNCHANGED <<monitor, network, intake, last_period_ts, sent, unfit, ws>>
         /\ failed' = failed \/ failed' = failed \cup {<<pc, sent>>}
         /\ begun' \in [Outlets -> Nat]
         /\ \A k \in Outlets : k # pc => begun'[k] = begun[k]
         /\ Topics(pc) = 0 /\ begun[pc] = 0 => begun'[pc] = 0
         /\ \/ begun'[pc] = 0
            \/ <<pc, sent>> \in failed'
            \/ Topics(pc) = 0 /\ begun'[pc] = begun[pc]
         /\ \/ got' = got /\ <<pc, sent>> \in failed'
            \/ \E w \in BOOLEAN : /\ Passed(pc, w)
                                  /\ w \/ begun[pc] > 0 \/ <<pc, sent>> \in failed'
  <1>1. begun \in [Outlets -> Nat]
    BY DEF PathType, OutletType
  <1>2. /\ pc \in Outlets /\ pc' = pc + 1 /\ sent \notin unfit
        /\ UNCHANGED <<monitor, network, intake, last_period_ts, sent, unfit, ws>>
    BY DEF Send
  <1>3. \/ KafkaSend(pc) /\ Topics(pc) = 0
        \/ ZmqSend(pc)
    BY DEF Send, Topics
  <1>4. Topics(pc) \in {0, 1}
    BY DEF Topics
  <1>5. CASE KafkaSend(pc) /\ Topics(pc) = 0
    <2>1. begun' = begun
      BY <1>5 DEF KafkaSend
    <2>2. \/ Took(pc, 0) /\ failed' = failed
          \/ got' = got /\ failed' = failed \cup {<<pc, sent>>}
      BY <1>5 DEF KafkaSend
    <2>3. Took(pc, 0) => \E w \in BOOLEAN : Passed(pc, w) /\ w
      <3>1. Took(pc, 0) => Passed(pc, TRUE)
        <4>1. (0 = Topics(pc)) = TRUE
          BY <1>5
        <4>2. QED
          BY <4>1 DEF Took, Passed
      <3>2. QED
        BY <3>1, Zenon
    <2>4. QED
      BY <1>1, <1>2, <1>5, <2>1, <2>2, <2>3
  <1>6. CASE ZmqSend(pc)
    <2>1. PICK topic \in 0 .. Topics(pc), data \in BOOLEAN :
             /\ IF topic = Topics(pc) /\ data
                THEN failed' = failed
                ELSE failed' = failed \cup {<<pc, sent>>}
             /\ IF data
                THEN Took(pc, begun[pc] + topic) /\ begun' = [begun EXCEPT ![pc] = 0]
                ELSE got' = got /\ begun' = [begun EXCEPT ![pc] = @ + topic]
      BY <1>6 DEF ZmqSend
    <2>2. topic \in Nat /\ topic <= Topics(pc) /\ begun[pc] \in Nat
      BY <1>1, <1>2, <1>4, <2>1
    <2>3. failed' = failed \/ failed' = failed \cup {<<pc, sent>>}
      BY <2>1, Zenon
    <2>4. ~data \/ topic # Topics(pc) => <<pc, sent>> \in failed'
      BY <2>1
    <2>5. /\ begun' \in [Outlets -> Nat]
          /\ \A k \in Outlets : k # pc => begun'[k] = begun[k]
          /\ data => begun'[pc] = 0
          /\ ~data => begun'[pc] = begun[pc] + topic
      BY <1>1, <1>2, <2>1, <2>2
    <2>6. /\ Topics(pc) = 0 /\ begun[pc] = 0 => begun'[pc] = 0
          /\ begun'[pc] = 0 \/ <<pc, sent>> \in failed'
      BY <2>2, <2>4, <2>5
    <2>7. CASE data
      <3> DEFINE w == begun[pc] + topic = Topics(pc)
      <3>1. w \in BOOLEAN /\ Passed(pc, w)
        BY <2>1, <2>7 DEF Took, Passed
      <3>2. w \/ begun[pc] > 0 \/ topic # Topics(pc)
        BY <2>2
      <3> HIDE DEF w
      <3>3. \E v \in BOOLEAN : /\ Passed(pc, v)
                               /\ v \/ begun[pc] > 0 \/ <<pc, sent>> \in failed'
        BY <2>4, <3>1, <3>2, Zenon
      <3>4. QED
        BY <1>2, <2>3, <2>5, <2>6, <3>3
    <2>8. CASE ~data
      BY <1>2, <2>1, <2>3, <2>4, <2>5, <2>6, <2>8
    <2>9. QED
      BY <2>7, <2>8
  <1>7. QED
    BY <1>3, <1>5, <1>6

LEMMA SendType ==
  ASSUME PathType, conf' = conf, Send PROVE OutletType'
  <1> DEFINE G == [n : Nat, whole : BOOLEAN]
  <1>1. Outlets = 1 .. Len(conf.producers) /\ Len(conf.producers) \in Nat
    BY ConfParts DEF PathType
  <1>2. /\ pc \in Outlets /\ pc' = pc + 1 /\ UNCHANGED <<last_period_ts, sent, unfit, ws>>
        /\ failed' = failed \/ failed' = failed \cup {<<pc, sent>>}
        /\ begun' \in [Outlets -> Nat]
        /\ got' = got \/ \E w \in BOOLEAN : Passed(pc, w)
    BY SendOutcome
  <1>3. pc' \in 0 .. Len(conf.producers) + 1 /\ pc # 0
    BY <1>1, <1>2
  <1>4. got \in [Outlets -> Seq(G)] /\ sent \in Nat /\ sent > 0
    BY <1>3 DEF PathType, OutletType
  <1>5. got' \in [Outlets -> Seq(G)]
    <2>1. CASE got' = got
      BY <1>4, <2>1
    <2>2. ASSUME NEW w \in BOOLEAN, Passed(pc, w) PROVE got' \in [Outlets -> Seq(G)]
      <3> DEFINE m == [n |-> sent, whole |-> w]
                 q == Append(got[pc], m)
      <3>1. m \in G
        BY <1>4
      <3>2. got' = [got EXCEPT ![pc] = q]
        BY <2>2 DEF Passed
      <3> HIDE DEF m, G
      <3>3. q \in Seq(G)
        BY <1>2, <1>4, <3>1
      <3> HIDE DEF q
      <3>4. QED
        BY <1>2, <1>4, <3>2, <3>3
    <2>3. QED
      BY <1>2, <2>1, <2>2
  <1>6. failed' \subseteq Outlets \X (1 .. sent)
    <2>1. sent \in 1 .. sent
      BY <1>4
    <2>2. failed \subseteq Outlets \X (1 .. sent)
      BY DEF PathType, OutletType
    <2>3. QED
      BY <1>2, <2>1, <2>2
  <1>7. QED
    BY <1>2, <1>3, <1>4, <1>5, <1>6, SameConf DEF PathType, OutletType

LEMMA PathTypeNext == PathType /\ [Next]_vars => PathType'
  <1> SUFFICES ASSUME PathType, [Next]_vars PROVE PathType'
    OBVIOUS
  <1>1. conf' = conf /\ conf' \in Deployments
    BY DEF Next, vars, PathType
  <1>2. MonTypeOK /\ NetType /\ IntakeType /\ OutletType
    BY DEF PathType
  <1>3. SUFFICES MonTypeOK' /\ NetType' /\ IntakeType' /\ OutletType'
    BY <1>1 DEF PathType
  <1>4. CASE UNCHANGED vars
    BY <1>1, <1>2, <1>4, TypeStays DEF vars
  <1>5. CASE (MonNext /\ MonitorOnly) \/ RoundEmpty
    <2>1. UNCHANGED <<network, intake, collector, outlets>>
      BY <1>5 DEF MonitorOnly, RoundEmpty
    <2>2. \/ MonNext
          \/ (\E l \in Logs : SendLog(l)) /\ UNCHANGED <<clock, status, socket, up>>
      BY <1>5 DEF RoundEmpty
    <2>3. QED
      BY <1>1, <1>2, <2>1, <2>2, TypeStays, MonType
  <1>6. ASSUME NEW r \in Receivers, Fanout(r) \/ Cut(r) \/ Link(r) PROVE PathType'
    <2>1. UNCHANGED <<monitor, intake, collector, outlets>>
      BY <1>6 DEF Fanout, Cut, Link
    <2>2. NetType'
      <3>1. CASE Link(r)
        BY <1>1, <1>2, <3>1, SameConf DEF Link, NetType
      <3>2. QED
        BY <1>1, <1>6, <3>1, FanoutType, CutType
    <2>3. QED
      BY <1>1, <1>2, <2>1, <2>2, TypeStays DEF PathType
  <1>7. ASSUME NEW r \in Receivers, DrainRecv(r) PROVE PathType'
    <2>1. UNCHANGED <<monitor, collector, outlets>>
      BY <1>7 DEF DrainRecv
    <2>2. NetType' /\ IntakeType'
      BY <1>1, <1>7, DrainType
    <2>3. QED
      BY <1>1, <1>2, <2>1, <2>2, TypeStays DEF PathType
  <1>8. CASE DrainPush \/ Handle
    <2>1. UNCHANGED <<monitor, network, collector, outlets>>
      BY <1>8 DEF DrainPush, Handle
    <2>2. IntakeType'
      <3>1. CASE DrainPush
        BY <1>1, <1>2, <3>1, SameConf DEF DrainPush, IntakeType, Single
      <3>2. QED
        BY <1>1, <1>8, <3>1, HandleType
    <2>3. QED
      BY <1>1, <1>2, <2>1, <2>2, TypeStays
  <1>9. CASE RoundMessage
    <2>1. /\ UNCHANGED <<monitor, network, drain, handler, handled, begun, got, ws, failed>>
          /\ last_period_ts' = clock /\ sent' = sent + 1 /\ pc' = 1 /\ buffer' \subseteq buffer
          /\ unfit' \subseteq unfit \cup {sent + 1}
      BY <1>9 DEF RoundMessage
    <2>2. IntakeType'
      BY <1>1, <1>2, <2>1, SameConf DEF IntakeType
    <2>3. last_period_ts' \in Nat /\ sent' \in Nat /\ sent' > 0
      BY <1>2, <2>1 DEF MonTypeOK, OutletType
    <2>7. 1 .. sent \subseteq 1 .. sent' /\ sent + 1 \in 1 .. sent'
      BY <1>2, <2>1 DEF OutletType
    <2>8. unfit' \subseteq 1 .. sent' /\ failed' \subseteq Outlets \X (1 .. sent')
      BY <1>2, <2>1, <2>7 DEF OutletType
    <2>4. pc' \in 0 .. Len(conf.producers) + 1
      BY <2>1, ConfParts DEF PathType
    <2>5. OutletType'
      BY <1>1, <1>2, <2>1, <2>3, <2>4, <2>8, SameConf DEF OutletType
    <2>6. QED
      BY <1>1, <1>2, <2>1, <2>2, <2>5, TypeStays
  <1>10. CASE Send
    <2>1. UNCHANGED <<monitor, network, intake>>
      BY <1>10 DEF Send
    <2>2. QED
      BY <1>1, <1>2, <1>10, <2>1, SendType, TypeStays
  <1>11. CASE Enqueue
    <2>1. /\ UNCHANGED <<monitor, network, intake, last_period_ts, sent, unfit, begun, got, failed>>
          /\ ws' = (IF sent \in unfit THEN ws ELSE Append(ws, sent)) /\ pc' = 0
      BY <1>11 DEF Enqueue
    <2>2. ws' \in Seq(Nat)
      BY <1>2, <2>1 DEF OutletType
    <2>3. pc' \in 0 .. Len(conf.producers) + 1
      BY <2>1, ConfParts DEF PathType
    <2>4. OutletType'
      BY <1>1, <1>2, <2>1, <2>2, <2>3, SameConf DEF OutletType
    <2>5. QED
      BY <1>1, <1>2, <2>1, <2>4, TypeStays
  <1>12. CASE SendError
    <2>1. /\ UNCHANGED <<monitor, network, intake, last_period_ts, sent, outlets>>
          /\ pc' = Len(conf.producers) + 1 /\ pc \in Outlets
      BY <1>12 DEF SendError
    <2>2. pc' \in 0 .. Len(conf.producers) + 1 /\ pc # 0
      BY <2>1, ConfParts DEF PathType
    <2>3. OutletType'
      BY <1>1, <1>2, <2>1, <2>2, SameConf DEF OutletType, outlets
    <2>4. QED
      BY <1>1, <1>2, <2>1, <2>3, TypeStays
  <1>13. QED
    BY <1>3, <1>4, <1>5, <1>6, <1>7, <1>8, <1>9, <1>10, <1>11, <1>12 DEF Next, Running, PathType

LEMMA PathTypeInit == Init => PathType
  <1> SUFFICES ASSUME Init PROVE PathType
    OBVIOUS
  <1>1. conf \in Deployments
    BY DEF Init
  <1>2. MonTypeOK
    <2>1. torn \in BOOLEAN /\ mixed \in BOOLEAN /\ up \in BOOLEAN
      BY Zenon DEF Init, MonInit
    <2>2. /\ wake \in [Logs -> Nat] /\ warned \in Seq(Nat)
          /\ logPc \in [Logs -> {"none", "try", "topic", "body", "sleep"}]
          /\ part \in Seq([from : Logs \cup {0}, what : {"topic", "body"}])
      BY DEF Init, MonInit
    <2>3. QED
      BY <2>1, <2>2 DEF Init, MonInit, MonTypeOK
  <1>3. NetType
    BY <1>1, ConfParts DEF Init, NetType
  <1>4. IntakeType
    BY DEF Init, IntakeType, Single
  <1>5. OutletType
    BY <1>1, ConfParts DEF Init, OutletType
  <1>6. QED
    BY <1>1, <1>2, <1>3, <1>4, <1>5 DEF PathType

(***************************************************************************)
(* TypeOK holds for all deployments and any bounds: no goroutine of the    *)
(* aggregator and no socket leaves a variable outside its type, and        *)
(* QuoteReceiver and the handler never hold more than one frame.           *)
(***************************************************************************)
THEOREM TypeCorrect == Spec => []TypeOK
  BY PathTypeInit, PathTypeNext, PathTypeOK, PTL DEF Spec

-----------------------------------------------------------------------------
(* The producers *)

(***************************************************************************)
(* Distribution is not inductive: a topic waits on a socket only if the    *)
(* last send to that producer failed, and never on one without a topic.    *)
(***************************************************************************)
Reached(k) == IF pc \in 1 .. k THEN sent - 1 ELSE sent

BegunInv(k) ==
  \/ begun[k] = 0
  \/ /\ Topics(k) # 0
     /\ \E m \in 1 .. Reached(k) : <<k, m>> \in failed /\ (m + 1 .. Reached(k)) \subseteq unfit

DistInv == Distribution /\ \A k \in Outlets : BegunInv(k)

\* A step in which no producer is called, nor should have had a message.
LEMMA DistIdle ==
  ASSUME DistInv, conf' = conf, UNCHANGED <<begun, got, ws, failed>>, unfit \subseteq unfit',
         \A k \in Outlets :
           /\ \/ Reached(k)' = Reached(k)
              \/ Reached(k) \in Int /\ Reached(k)' = Reached(k) + 1 /\ Reached(k)' \in unfit'
           /\ Due(k)' = Due(k),
         Range(ws) = (1 .. IF pc' = 0 THEN sent' ELSE sent' - 1) \ unfit'
  PROVE  DistInv'
  <1>1. ASSUME NEW k \in Outlets PROVE Served(k)' /\ BegunInv(k)'
    <2>1. Served(k) /\ BegunInv(k)
      BY DEF DistInv, Distribution
    <2>2. \A n : Spoilt(k, n) => Spoilt(k, n)'
      BY DEF Spoilt
    <2>3. Due(k)' = Due(k)
      OBVIOUS
    <2>4. Served(k)'
      BY <2>1, <2>2, <2>3 DEF Served
    <2>5. Topics(k)' = Topics(k)
      BY DEF Topics
    <2>6. CASE begun[k] = 0
      BY <2>4, <2>6 DEF BegunInv
    <2>7. CASE begun[k] # 0
      <3>1. Topics(k) # 0
        BY <2>1, <2>7 DEF BegunInv
      <3>2. PICK m \in 1 .. Reached(k) : <<k, m>> \in failed /\ (m + 1 .. Reached(k)) \subseteq unfit
        BY <2>1, <2>7 DEF BegunInv
      <3>3. m \in 1 .. Reached(k)' /\ (m + 1 .. Reached(k)') \subseteq unfit'
        <4>1. CASE Reached(k)' = Reached(k)
          BY <3>2, <4>1
        <4>2. CASE Reached(k) \in Int /\ Reached(k)' = Reached(k) + 1 /\ Reached(k)' \in unfit'
          BY <3>2, <4>2
        <4>3. QED
          BY <4>1, <4>2
      <3>4. QED
        BY <2>4, <2>5, <3>1, <3>2, <3>3 DEF BegunInv
    <2>8. QED
      BY <2>6, <2>7
  <1>2. Outlets' = Outlets
    BY DEF Outlets
  <1>3. QED
    BY <1>1, <1>2 DEF DistInv, Distribution

\* A step that leaves the collector and the producers alone.
LEMMA DistStutter ==
  ASSUME DistInv, UNCHANGED <<conf, pc, sent, unfit, begun, got, ws, failed>> PROVE DistInv'
  <1>1. Outlets' = Outlets
    BY DEF Outlets
  <1>2. \A k \in Outlets : (Served(k)' <=> Served(k)) /\ (BegunInv(k)' <=> BegunInv(k))
    BY DEF Served, BegunInv, Due, Reached, Spoilt, Topics
  <1>3. QED
    BY <1>1, <1>2 DEF DistInv, Distribution

\* The collector has a message, and no producer was called with it yet.
LEMMA DistRound ==
  ASSUME PathType, DistInv, conf' = conf, RoundMessage PROVE DistInv'
  <1>1. /\ pc = 0 /\ pc' = 1 /\ sent' = sent + 1
        /\ UNCHANGED <<begun, got, ws, failed>>
        /\ unfit' = unfit \/ unfit' = unfit \cup {sent + 1}
    BY DEF RoundMessage
  <1>2. sent \in Nat /\ Outlets' = Outlets /\ \A k \in Outlets : k \in Nat /\ k >= 1
    BY ConfParts, SameConf DEF PathType, OutletType
  <1>3. \A k \in Outlets : Reached(k) = sent /\ Reached(k)' = sent
    BY <1>1, <1>2 DEF Reached
  <1>4. (1 .. sent) \ unfit' = (1 .. sent) \ unfit
    BY <1>1, <1>2
  <1>5. \A k \in Outlets : Due(k) = (1 .. sent) \ unfit /\ Due(k)' = (1 .. sent) \ unfit'
    BY <1>1, <1>2 DEF Due
  <1>6. Range(ws) = (1 .. IF pc' = 0 THEN sent' ELSE sent' - 1) \ unfit'
    <2>1. Range(ws) = (1 .. sent) \ unfit
      BY <1>1 DEF DistInv, Distribution
    <2>2. sent' - 1 = sent
      BY <1>1, <1>2
    <2>3. QED
      BY <1>1, <1>4, <2>1, <2>2
  <1>7. unfit \subseteq unfit' /\ \A k \in Outlets : Reached(k)' = Reached(k) /\ Due(k)' = Due(k)
    BY <1>1, <1>3, <1>4, <1>5
  <1>8. QED
    BY <1>1, <1>6, <1>7, DistIdle

\* A message that does not marshal: nobody should have it.
LEMMA DistError ==
  ASSUME PathType, DistInv, conf' = conf, SendError PROVE DistInv'
  <1>1. /\ pc \in Outlets /\ sent \in unfit /\ pc' = Len(conf.producers) + 1
        /\ UNCHANGED <<sent, unfit, begun, got, ws, failed>>
    BY DEF SendError, outlets
  <1>2. /\ sent \in Nat /\ Outlets' = Outlets /\ Len(conf.producers) \in Nat
        /\ \A k \in Outlets : k \in Nat /\ k >= 1 /\ k <= Len(conf.producers)
    BY ConfParts, SameConf DEF PathType, OutletType
  <1>3. \A k \in Outlets : /\ Reached(k) = sent \/ Reached(k) = sent - 1
                           /\ Reached(k)' = sent
    BY <1>1, <1>2 DEF Reached
  <1>4. ASSUME NEW k \in Outlets
        PROVE  /\ \/ Reached(k)' = Reached(k)
                  \/ Reached(k) \in Int /\ Reached(k)' = Reached(k) + 1 /\ Reached(k)' \in unfit'
               /\ Due(k)' = Due(k)
    <2>1. \/ Reached(k)' = Reached(k)
          \/ Reached(k) \in Int /\ Reached(k)' = Reached(k) + 1 /\ Reached(k)' \in unfit'
      BY <1>1, <1>2, <1>3
    <2>2. Due(k) = (1 .. Reached(k)) \ unfit /\ Due(k)' = (1 .. Reached(k)') \ unfit'
      BY DEF Due, Reached
    <2>3. (1 .. sent - 1) \ unfit = (1 .. sent) \ unfit
      BY <1>1, <1>2
    <2>4. Due(k)' = Due(k)
      BY <1>1, <1>3, <2>2, <2>3
    <2>5. QED
      BY <2>1, <2>4
  <1>5. pc # 0 /\ pc' # 0
    BY <1>1, <1>2
  <1>6. Range(ws) = (1 .. IF pc' = 0 THEN sent' ELSE sent' - 1) \ unfit'
    BY <1>1, <1>5 DEF DistInv, Distribution
  <1>7. QED
    BY <1>1, <1>4, <1>6, DistIdle

\* The websocket server gets the message after all producers.
LEMMA DistEnqueue ==
  ASSUME PathType, DistInv, conf' = conf, Enqueue PROVE DistInv'
  <1>1. /\ pc = Len(conf.producers) + 1 /\ pc' = 0
        /\ ws' = IF sent \in unfit THEN ws ELSE Append(ws, sent)
        /\ UNCHANGED <<sent, unfit, begun, got, failed>>
    BY DEF Enqueue
  <1>2. /\ sent \in Nat /\ ws \in Seq(Nat) /\ Outlets' = Outlets /\ Len(conf.producers) \in Nat
        /\ \A k \in Outlets : k \in Nat /\ k <= Len(conf.producers)
    BY ConfParts, SameConf DEF PathType, OutletType
  <1>3. pc # 0 /\ sent > 0
    BY <1>1, <1>2 DEF PathType, OutletType
  <1>4. Range(ws) = (1 .. sent - 1) \ unfit
    BY <1>3 DEF DistInv, Distribution
  <1>5. \A k \in Outlets : Due(k)' = Due(k) /\ Reached(k)' = Reached(k)
    BY <1>1, <1>2 DEF Due, Reached
  <1>6. ASSUME NEW k \in Outlets PROVE Served(k)' /\ BegunInv(k)'
    <2>1. Served(k) /\ BegunInv(k)
      BY DEF DistInv, Distribution
    <2>2. /\ \A n : Spoilt(k, n)' <=> Spoilt(k, n)
          /\ Topics(k)' = Topics(k)
      BY <1>1 DEF Spoilt, Topics
    <2>3. Served(k)'
      BY <1>1, <1>5, <2>1, <2>2 DEF Served
    <2>4. BegunInv(k)'
      BY <1>1, <1>5, <2>1, <2>2 DEF BegunInv
    <2>5. QED
      BY <2>3, <2>4
  <1>7. /\ \A i, j \in DOMAIN ws' : i < j => ws'[i] < ws'[j]
        /\ Range(ws') = (1 .. sent) \ unfit
    <2>1. \A i, j \in DOMAIN ws : i < j => ws[i] < ws[j]
      BY DEF DistInv, Distribution
    <2>2. CASE sent \in unfit
      <3>1. (1 .. sent - 1) \ unfit = (1 .. sent) \ unfit
        BY <1>2, <2>2
      <3>2. QED
        BY <1>1, <1>4, <2>1, <2>2, <3>1
    <2>3. CASE sent \notin unfit
      <3> DEFINE n == Len(ws)
      <3>1. /\ n \in Nat /\ DOMAIN ws = 1 .. n /\ DOMAIN ws' = 1 .. n + 1
            /\ ws'[n + 1] = sent /\ \A i \in 1 .. n : ws'[i] = ws[i]
        BY <1>1, <1>2, <2>3
      <3> HIDE DEF n
      <3>2. \A i \in 1 .. n : ws[i] \in (1 .. sent - 1) \ unfit
        BY <1>4, <3>1 DEF Range
      <3>3. Range(ws') = Range(ws) \cup {sent}
        <4>1. Range(ws) = {ws[i] : i \in 1 .. n}
          BY <3>1 DEF Range
        <4>2. Range(ws') = {ws'[i] : i \in 1 .. n + 1}
          BY <3>1 DEF Range
        <4>3. 1 .. n + 1 = (1 .. n) \cup {n + 1}
          BY <3>1
        <4>4. QED
          BY <3>1, <4>1, <4>2, <4>3
      <3>4. (1 .. sent) \ unfit = ((1 .. sent - 1) \ unfit) \cup {sent}
        BY <1>2, <1>3, <2>3
      <3>5. ASSUME NEW i \in 1 .. n + 1, NEW j \in 1 .. n + 1, i < j PROVE ws'[i] < ws'[j]
        <4>1. i \in 1 .. n /\ (j \in 1 .. n \/ j = n + 1)
          BY <3>1, <3>5
        <4>2. CASE j \in 1 .. n
          BY <2>1, <3>1, <3>5, <4>1, <4>2
        <4>3. CASE j = n + 1
          <5>1. ws'[i] \in 1 .. sent - 1 /\ ws'[j] = sent
            BY <3>1, <3>2, <4>1, <4>3
          <5>2. QED
            BY <1>2, <5>1
        <4>4. QED
          BY <4>1, <4>2, <4>3
      <3>6. QED
        BY <1>4, <3>1, <3>3, <3>4, <3>5
    <2>4. QED
      BY <2>2, <2>3
  <1>8. QED
    BY <1>1, <1>2, <1>6, <1>7 DEF DistInv, Distribution

LEMMA GotNumbers ==
  ASSUME PathType PROVE \A k \in Outlets : \A i \in DOMAIN got[k] : got[k][i].n \in Nat
  <1> DEFINE G == [n : Nat, whole : BOOLEAN]
  <1>1. got \in [Outlets -> Seq(G)]
    BY DEF PathType, OutletType
  <1>2. \A k \in Outlets : \A i \in DOMAIN got[k] : got[k][i] \in G
    <2> HIDE DEF G
    <2> QED
      BY <1>1
  <1>3. QED
    BY <1>2

\* A producer is called: it passes the message on, or a failure stands for it.
LEMMA DistSend ==
  ASSUME PathType, DistInv, conf' = conf, Send PROVE DistInv'
  <1>1. /\ pc \in Outlets /\ pc' = pc + 1 /\ sent \notin unfit
        /\ UNCHANGED <<sent, unfit, ws>>
        /\ failed' = failed \/ failed' = failed \cup {<<pc, sent>>}
        /\ \A k \in Outlets : k # pc => begun'[k] = begun[k]
        /\ Topics(pc) = 0 /\ begun[pc] = 0 => begun'[pc] = 0
        /\ \/ begun'[pc] = 0
           \/ <<pc, sent>> \in failed'
           \/ Topics(pc) = 0 /\ begun'[pc] = begun[pc]
        /\ \/ got' = got /\ <<pc, sent>> \in failed'
           \/ \E w \in BOOLEAN : /\ Passed(pc, w)
                                 /\ w \/ begun[pc] > 0 \/ <<pc, sent>> \in failed'
    BY SendOutcome
  <1>2. /\ sent \in Nat /\ Outlets' = Outlets /\ \A k \in Outlets : k \in Nat /\ k >= 1
        /\ got \in [Outlets -> Seq([n : Nat, whole : BOOLEAN])]
    BY ConfParts, SameConf DEF PathType, OutletType
  <1>3. pc # 0 /\ pc' # 0 /\ sent > 0
    BY <1>1, <1>2 DEF PathType, OutletType
  <1>4. ASSUME NEW k \in Outlets
        PROVE  /\ Served(k) /\ BegunInv(k)
               /\ \A n : Spoilt(k, n) => Spoilt(k, n)'
               /\ Topics(k)' = Topics(k)
               /\ k = pc => /\ Reached(k) = sent - 1 /\ Reached(k)' = sent
                            /\ Due(k) = (1 .. sent - 1) \ unfit
                            /\ Due(k)' = ((1 .. sent - 1) \ unfit) \cup {sent}
               /\ k # pc => Reached(k)' = Reached(k) /\ Due(k)' = Due(k)
    <2>1. Served(k) /\ BegunInv(k)
      BY DEF DistInv, Distribution
    <2>2. \A n : Spoilt(k, n) => Spoilt(k, n)'
      BY <1>1 DEF Spoilt
    <2>3. Topics(k)' = Topics(k)
      BY DEF Topics
    <2>4. /\ k = pc => pc \in 1 .. k /\ pc' \notin 1 .. k
          /\ k # pc => (pc' \in 1 .. k <=> pc \in 1 .. k)
      BY <1>1, <1>2
    <2>5. (1 .. sent) \ unfit = ((1 .. sent - 1) \ unfit) \cup {sent}
      BY <1>1, <1>2, <1>3
    <2>6. QED
      BY <1>1, <2>1, <2>2, <2>3, <2>4, <2>5 DEF Due, Reached
  <1>5. ASSUME NEW k \in Outlets PROVE BegunInv(k)'
    <2>1. CASE k # pc
      <3>1. begun'[k] = begun[k] /\ failed \subseteq failed' /\ Reached(k)' = Reached(k)
        BY <1>1, <1>4, <2>1
      <3>2. QED
        BY <1>1, <1>4, <3>1 DEF BegunInv
    <2>2. CASE k = pc
      <3>1. Topics(k) = 0 => begun[k] = 0
        BY <1>4 DEF BegunInv
      <3>2. begun'[k] = 0 \/ (<<k, sent>> \in failed' /\ Topics(k) # 0)
        BY <1>1, <2>2, <3>1
      <3>3. sent \in 1 .. sent /\ sent + 1 .. sent = {}
        BY <1>2, <1>3
      <3>4. QED
        BY <1>4, <2>2, <3>2, <3>3 DEF BegunInv
    <2>3. QED
      BY <2>1, <2>2
  <1>6. ASSUME NEW k \in Outlets, got'[k] = got[k], k = pc => <<k, sent>> \in failed'
        PROVE  Served(k)'
    <2>1. Due(k) \subseteq Due(k)' /\ Due(k)' \subseteq Due(k) \cup (IF k = pc THEN {sent} ELSE {})
      BY <1>4
    <2>2. failed \subseteq failed'
      BY <1>1
    <2>3. QED
      BY <1>4, <1>6, <2>1, <2>2 DEF Served
  <1>7. ASSUME NEW w \in BOOLEAN, Passed(pc, w), w \/ begun[pc] > 0 \/ <<pc, sent>> \in failed',
               NEW k \in Outlets, k = pc
        PROVE  Served(k)'
    <2> DEFINE m == [n |-> sent, whole |-> w]
               L == Len(got[k])
               G == [n : Nat, whole : BOOLEAN]
               spoilt(n) == \E r \in 1 .. n : <<k, r>> \in failed' /\ (r + 1 .. n - 1) \subseteq unfit'
    <2>1. m \in G /\ m.n = sent /\ m.whole = w
      BY <1>2
    <2>2. got \in [Outlets -> Seq(G)] /\ got' = [got EXCEPT ![k] = Append(got[k], m)]
      BY <1>2, <1>7 DEF Passed
    <2>3. \A i \in DOMAIN got[k] : got[k][i].n \in Nat
      BY GotNumbers
    <2> HIDE DEF m, G
    <2>4. /\ L \in Nat /\ DOMAIN got[k] = 1 .. L /\ DOMAIN got'[k] = 1 .. L + 1
          /\ got'[k][L + 1] = m /\ \A i \in 1 .. L : got'[k][i] = got[k][i]
      BY <2>1, <2>2
    <2> HIDE DEF L
    <2>5. Served(k) /\ Due(k) = (1 .. sent - 1) \ unfit /\ Due(k)' = Due(k) \cup {sent}
      BY <1>4, <1>7
    <2>6. \A i \in 1 .. L : got[k][i].n \in Due(k) /\ got[k][i].n < sent
      <3>1. \A i \in 1 .. L : got[k][i].n \in Due(k)
        BY <2>4, <2>5 DEF Served
      <3>2. \A n \in Due(k) : n < sent
        BY <1>2, <2>5
      <3>3. QED
        BY <3>1, <3>2
    <2>7. \A i, j \in DOMAIN got'[k] : i < j => got'[k][i].n < got'[k][j].n
      <3> SUFFICES ASSUME NEW i \in 1 .. L + 1, NEW j \in 1 .. L + 1, i < j
                   PROVE  got'[k][i].n < got'[k][j].n
        BY <2>4
      <3>1. i \in 1 .. L /\ (j \in 1 .. L \/ j = L + 1)
        BY <2>4
      <3>2. CASE j = L + 1
        BY <2>1, <2>4, <2>6, <3>1, <3>2
      <3>3. CASE j \in 1 .. L
        BY <2>4, <2>5, <3>1, <3>3 DEF Served
      <3>4. QED
        BY <3>1, <3>2, <3>3
    <2>8. \A i \in DOMAIN got'[k] : i \in 1 .. L \/ i = L + 1
      BY <2>4
    <2>9. \A i \in DOMAIN got'[k] : got'[k][i].n \in Due(k)'
      BY <2>1, <2>4, <2>5, <2>6, <2>8
    <2>10. \A n \in Due(k)' : (\E i \in DOMAIN got'[k] : got'[k][i].n = n) \/ <<k, n>> \in failed'
      <3> SUFFICES ASSUME NEW n \in Due(k)', <<k, n>> \notin failed'
                   PROVE  \E i \in DOMAIN got'[k] : got'[k][i].n = n
        OBVIOUS
      <3>1. CASE n = sent
        <4>1. L + 1 \in DOMAIN got'[k]
          BY <2>4
        <4>2. QED
          BY <2>1, <2>4, <3>1, <4>1
      <3>2. CASE n \in Due(k)
        <4>1. PICK i \in DOMAIN got[k] : got[k][i].n = n
          BY <1>1, <2>5, <3>2 DEF Served
        <4>2. i \in DOMAIN got'[k] /\ got'[k][i] = got[k][i]
          BY <2>4
        <4>3. QED
          BY <4>1, <4>2
      <3>3. QED
        BY <2>5, <3>1, <3>2
    <2>11. w \/ spoilt(sent)
      <3>1. CASE begun[k] > 0
        <4>1. begun[k] # 0
          BY <3>1
        <4>2. PICK r \in 1 .. sent - 1 : <<k, r>> \in failed /\ (r + 1 .. sent - 1) \subseteq unfit
          BY <1>4, <1>7, <4>1 DEF BegunInv
        <4>3. r \in 1 .. sent /\ <<k, r>> \in failed'
          BY <1>1, <1>2, <4>2
        <4>4. QED
          BY <1>1, <4>2, <4>3
      <3>2. CASE <<k, sent>> \in failed'
        <4>1. sent \in 1 .. sent /\ sent + 1 .. sent - 1 = {}
          BY <1>2, <1>3
        <4>2. QED
          BY <1>1, <3>2, <4>1
      <3>3. QED
        BY <1>7, <3>1, <3>2
    <2>12. \A i \in DOMAIN got'[k] : got'[k][i].whole \/ spoilt(got'[k][i].n)
      <3> SUFFICES ASSUME NEW i \in DOMAIN got'[k]
                   PROVE  got'[k][i].whole \/ spoilt(got'[k][i].n)
        OBVIOUS
      <3> HIDE DEF spoilt
      <3>1. CASE i = L + 1
        BY <2>1, <2>4, <2>11, <3>1
      <3>2. CASE i \in 1 .. L
        <4>1. got'[k][i] = got[k][i] /\ (got[k][i].whole \/ Spoilt(k, got[k][i].n))
          BY <2>4, <2>5, <3>2 DEF Served
        <4>2. Spoilt(k, got[k][i].n) => spoilt(got[k][i].n)
          BY <1>1 DEF Spoilt, spoilt
        <4>3. QED
          BY <4>1, <4>2
      <3>3. QED
        BY <2>8, <3>1, <3>2
    <2>13. QED
      BY <2>7, <2>9, <2>10, <2>12 DEF Served, Spoilt
  <1>8. ASSUME NEW k \in Outlets PROVE Served(k)'
    <2>1. CASE k # pc
      <3>1. got'[k] = got[k]
        BY <1>1, <1>2, <2>1 DEF Passed
      <3>2. QED
        BY <1>6, <2>1, <3>1
    <2>2. CASE k = pc
      BY <1>1, <1>6, <1>7, <2>2
    <2>3. QED
      BY <2>1, <2>2
  <1>9. QED
    BY <1>1, <1>2, <1>3, <1>5, <1>8 DEF DistInv, Distribution

(***************************************************************************)
(* Distribution holds for any number of producers of every kind, any       *)
(* number of messages and any failures of proto.Marshal, SendFrame and     *)
(* WriteMessages: a producer lacks only messages whose send to it failed,  *)
(* tears only such a message or the next one, and a failure reaches        *)
(* neither the other producers nor the websocket server.                   *)
(***************************************************************************)
THEOREM FailuresStayLocal == Spec => []Distribution
  <1>1. Init => DistInv
    <2> SUFFICES ASSUME Init PROVE DistInv
      OBVIOUS
    <2>1. /\ pc = 0 /\ sent = 0 /\ unfit = {} /\ ws = <<>>
          /\ begun = [k \in Outlets |-> 0] /\ got = [k \in Outlets |-> <<>>]
      BY DEF Init
    <2>2. \A k \in Outlets : DOMAIN got[k] = {} /\ begun[k] = 0
      BY <2>1
    <2>3. \A k \in Outlets : Due(k) = {}
      BY <2>1 DEF Due
    <2>4. \A k \in Outlets : Served(k)
      BY <2>2, <2>3 DEF Served
    <2>5. \A k \in Outlets : BegunInv(k)
      BY <2>2 DEF BegunInv
    <2>6. DOMAIN ws = {} /\ Range(ws) = {} /\ 1 .. sent = {}
      BY <2>1 DEF Range
    <2>7. QED
      BY <2>1, <2>4, <2>5, <2>6 DEF DistInv, Distribution
  <1>2. PathType /\ DistInv /\ [Next]_vars => DistInv'
    <2> SUFFICES ASSUME PathType, DistInv, [Next]_vars PROVE DistInv'
      OBVIOUS
    <2>1. conf' = conf
      BY DEF Next, vars
    <2>2. CASE RoundMessage \/ Send \/ SendError \/ Enqueue
      BY <2>1, <2>2, DistRound, DistSend, DistError, DistEnqueue
    <2>3. ASSUME NEW r \in Receivers, DrainRecv(r) \/ Fanout(r) \/ Link(r) \/ Cut(r) PROVE DistInv'
      <3>1. UNCHANGED <<pc, sent, unfit, begun, got, ws, failed>>
        BY <2>3 DEF DrainRecv, Fanout, Link, Cut, collector, outlets
      <3>2. QED
        BY <2>1, <3>1, DistStutter
    <2>4. CASE (MonNext /\ MonitorOnly) \/ RoundEmpty \/ DrainPush \/ Handle \/ UNCHANGED vars
      <3>1. UNCHANGED <<pc, sent, unfit, begun, got, ws, failed>>
        BY <2>4 DEF MonitorOnly, RoundEmpty, DrainPush, Handle, vars, collector, outlets
      <3>2. QED
        BY <2>1, <3>1, DistStutter
    <2>5. QED
      BY <2>2, <2>3, <2>4 DEF Next, Running
  <1>3. DistInv => Distribution
    BY DEF DistInv
  <1>4. QED
    BY <1>1, <1>2, <1>3, PathTypeInit, PathTypeNext, PTL DEF Spec
=============================================================================
