---------------------------- MODULE SessionProofs ---------------------------
(***************************************************************************)
(* Proofs about module Session, for any number of sessions, commands and   *)
(* timers, lost chargers and time-outs: with an app that unsubscribes only *)
(* when its commands are done the message thread meets no failing          *)
(* assertion; and if it ends every session before the next one there is    *)
(* one status loop.                                                        *)
(***************************************************************************)
EXTENDS Session, TLAPS

WellBehaved == ~StopsEarly

-----------------------------------------------------------------------------
(* What holds for every app.                                               *)

(* The message thread has told an earlier loop to exit.                    *)
Dismissing == pc.msg \in {"check", "waiting", "restore"}

(* While there is an app, or work left by one, _notifying is set, unless   *)
(* the message thread waits for an earlier loop.                           *)
NotifyingOK ==
  ~Dismissing /\ (app # "off" \/ queue # <<>> \/ pc.msg # "idle") => notifying

(* The thread is where its command takes it, with _running set by its own  *)
(* status loop.                                                            *)
MessageThreadOK ==
  /\ MessageThreadLives
  /\ pc.msg \in ConnectSteps => command = "connect"
  /\ pc.msg \in {"return", "addTimer"} => running

(* The timers' status loop runs for a timer.                               *)
TimersOK == pc.glib # "idle" => timers > 0

(* If the charger is not lost it is linked but while the message thread is *)
(* about to connect, and no timer dies.                                    *)
LinkOK ==
  ~MayLose =>
    /\ failed = {}
    /\ pc.msg \in {"mark", "return", "addTimer"} => linked
    /\ ~linked => \/ pc.glib = "idle" /\ timers = 0
                  \/ pc.msg \in {"enter", "body"} /\ command = "connect"

SafeInv == TypeOK /\ NotifyingOK /\ MessageThreadOK /\ TimersOK /\ LinkOK

-----------------------------------------------------------------------------
(* What holds for a patient app: its connect request is the first command  *)
(* of the session, and meets no earlier loop, but may wait for one that    *)
(* has died; the other ones are handled beside the loop.                   *)
Connecting == pc.msg \in ConnectSteps \/ (pc.msg \in LoopSteps /\ command = "connect")

NoConnectFrom(n) == \A i \in n..Len(queue) : queue[i] = "other"

PatientApp ==
  /\ app = "off" => Quiet
  /\ app = "subscribed" => Over
  /\ app = "connected" /\ Quiet => timers = 1 \/ TimerDied
  /\ app = "connected" /\ queue # <<>> /\ pc.msg = "idle" =>
       IF Head(queue) = "connect" THEN timers = 0 ELSE timers = 1 \/ TimerDied

PatientThreads ==
  /\ timers \in {0, 1}
  /\ pc.msg = "idle" => NoConnectFrom(2)
  /\ pc.msg # "idle" => NoConnectFrom(1)
  /\ Connecting => timers = 0
  /\ pc.msg # "idle" /\ ~Connecting => timers = 1 \/ TimerDied

PatientRunning ==
  /\ timers = 1 /\ pc.glib # "return" => running
  /\ pc.glib = "return" => (running <=> notifying)
  /\ timers = 0 /\ pc.msg \notin {"return", "addTimer"} => ~running \/ TimerDied
  /\ pc.msg # "waiting" \/ TimerDied

PatientInv == patient => PatientApp /\ PatientThreads /\ PatientRunning

-----------------------------------------------------------------------------
(* The queue: what is put into it and taken out of it.                     *)
Command == {"connect", "other"}

LEMMA QueueFacts ==
  ASSUME queue \in Seq(Command)
  PROVE  /\ \A c \in Command :
              /\ Append(queue, c) \in Seq(Command) /\ Append(queue, c) # <<>>
              /\ Len(Append(queue, c)) = Len(queue) + 1
              /\ Append(queue, c)[Len(queue) + 1] = c
              /\ \A i \in 1..Len(queue) : Append(queue, c)[i] = queue[i]
         /\ queue # <<>> =>
              /\ Head(queue) \in Command /\ Head(queue) = queue[1]
              /\ Tail(queue) \in Seq(Command)
              /\ Len(Tail(queue)) = Len(queue) - 1 /\ Len(queue) >= 1
              /\ \A i \in 1..Len(Tail(queue)) : Tail(queue)[i] = queue[i + 1]
<1>. HIDE DEF Command
<1>1. \A c \in Command :
         /\ Append(queue, c) \in Seq(Command) /\ Append(queue, c) # <<>>
         /\ Len(Append(queue, c)) = Len(queue) + 1
         /\ Append(queue, c)[Len(queue) + 1] = c
         /\ \A i \in 1..Len(queue) : Append(queue, c)[i] = queue[i]
  OBVIOUS
<1>2. queue # <<>> =>
         /\ Head(queue) \in Command /\ Head(queue) = queue[1]
         /\ Tail(queue) \in Seq(Command)
         /\ Len(Tail(queue)) = Len(queue) - 1 /\ Len(queue) >= 1
         /\ \A i \in 1..Len(Tail(queue)) : Tail(queue)[i] = queue[i + 1]
  OBVIOUS
<1>. QED
  BY <1>1, <1>2

-----------------------------------------------------------------------------
(* Every app.                                                              *)
LEMMA SafeInit == Init => SafeInv
<1>. SUFFICES ASSUME Init PROVE SafeInv
  OBVIOUS
<1>1. queue \in Seq(Command)
  BY DEF Init
<1>2. TypeOK
  BY <1>1 DEF Init, TypeOK, Threads, LoopSteps, ConnectSteps, Command
<1>. QED
  BY <1>2 DEF Init, SafeInv, NotifyingOK, MessageThreadOK, TimersOK, LinkOK,
              MessageThreadLives, Dismissing, LoopSteps, ConnectSteps

LEMMA SafeApp ==
  ASSUME SafeInv, WellBehaved, App
  PROVE  SafeInv'
<1>. USE DEF SafeInv, TypeOK, NotifyingOK, MessageThreadOK, TimersOK, LinkOK,
             MessageThreadLives, Dismissing, shared
<1>1. queue \in Seq(Command)
  BY DEF Command
<1>2. CASE StartNotify
  BY <1>2 DEF StartNotify
<1>3. CASE StopNotify
  BY <1>3 DEF StopNotify, WellBehaved, Quiet
<1>4. CASE Vanish
  BY <1>4 DEF Vanish
<1>5. CASE WriteConnect
  BY <1>1, <1>5, QueueFacts DEF WriteConnect, WriteValue, Command
<1>6. CASE WriteOther
  BY <1>1, <1>6, QueueFacts DEF WriteOther, WriteValue, Command
<1>. QED
  BY <1>2, <1>3, <1>4, <1>5, <1>6 DEF App

LEMMA SafeLoop ==
  ASSUME SafeInv, WellBehaved, TimerFires \/ \E t \in Threads : StatusLoop(t)
  PROVE  SafeInv'
<1>. USE DEF SafeInv, TypeOK, NotifyingOK, MessageThreadOK, TimersOK, LinkOK,
             MessageThreadLives, Dismissing, shared, Goto, LoopSteps, ConnectSteps, Threads
<1>1. CASE TimerFires
  BY <1>1 DEF TimerFires
<1>2. ASSUME NEW t \in Threads, TakeLock(t) PROVE SafeInv'
  BY <1>2 DEF TakeLock
<1>3. ASSUME NEW t \in Threads, Body(t) PROVE SafeInv'
  <2>1. \/ /\ linked' \in BOOLEAN /\ (~MayLose => linked') /\ Goto(t, "mark")
           /\ UNCHANGED <<timers, lock, failed>>
        \/ /\ ~linked /\ ~notifying /\ Dies(t) /\ lock' = "nobody"
           /\ failed' = failed \cup {"notifyingAtGreeting"} /\ UNCHANGED linked
    BY <1>3 DEF Body
  <2>2. pc[t] = "body" /\ UNCHANGED <<app, queue, notifying, running, woken, command, patient>>
    BY <1>3 DEF Body
  <2>3. CASE Goto(t, "mark") /\ UNCHANGED <<timers, lock, failed>>
    BY <2>1, <2>2, <2>3
  <2>4. CASE ~linked /\ ~notifying /\ Dies(t) /\ failed' = failed \cup {"notifyingAtGreeting"}
    <3>1. t = "glib"
      BY <2>2, <2>4
    <3>2. Goto("glib", "idle") /\ timers' = timers - 1
      BY <2>4, <3>1 DEF Dies
    <3>. QED
      BY <2>1, <2>2, <2>4, <3>1, <3>2 DEF Assertions
  <2>. QED
    BY <2>1, <2>3, <2>4
<1>4. ASSUME NEW t \in Threads, Mark(t) PROVE SafeInv'
  BY <1>4 DEF Mark, SetRunning
<1>5. ASSUME NEW t \in Threads, Return(t) PROVE SafeInv'
  BY <1>5 DEF Return, TimersAfter, AfterLoop
<1>. QED
  BY <1>1, <1>2, <1>3, <1>4, <1>5 DEF StatusLoop

LEMMA SafeMessageThread ==
  ASSUME SafeInv,
         NextCommand \/ Begin \/ Check \/ Wake \/ Restore \/ Reset \/ AddTimer \/ WaitTimesOut
  PROVE  SafeInv'
<1>. USE DEF SafeInv, TypeOK, NotifyingOK, MessageThreadOK, TimersOK, LinkOK,
             MessageThreadLives, Dismissing, shared, Goto, LoopSteps, ConnectSteps, Threads
<1>1. CASE NextCommand
  <2>1. queue \in Seq(Command)
    BY DEF Command
  <2>2. Tail(queue) \in Seq(Command) /\ Head(queue) \in Command
    BY <1>1, <2>1, QueueFacts DEF NextCommand
  <2>. QED
    BY <1>1, <2>2 DEF NextCommand, Command
<1>2. CASE Begin
  BY <1>2, ZenonT(60) DEF Begin
<1>3. CASE Check
  BY <1>3 DEF Check
<1>4. CASE Wake
  BY <1>4 DEF Wake
<1>5. CASE Restore
  BY <1>5 DEF Restore, Restored
<1>6. CASE Reset
  BY <1>6 DEF Reset
<1>7. CASE AddTimer
  BY <1>7 DEF AddTimer
<1>8. CASE WaitTimesOut
  BY <1>8 DEF WaitTimesOut
<1>. QED
  BY <1>1, <1>2, <1>3, <1>4, <1>5, <1>6, <1>7, <1>8

LEMMA SafeStep ==
  ASSUME SafeInv, WellBehaved, [Next]_vars
  PROVE  SafeInv'
<1>1. CASE UNCHANGED vars
  BY <1>1 DEF vars, SafeInv, TypeOK, NotifyingOK, MessageThreadOK, TimersOK, LinkOK,
              MessageThreadLives, Dismissing
<1>. QED
  BY <1>1, SafeApp, SafeLoop, SafeMessageThread DEF Next, MessageThread, Threads

LEMMA AlwaysSafe == WellBehaved => (Spec => []SafeInv)
<1>. SUFFICES ASSUME WellBehaved PROVE Spec => []SafeInv
  OBVIOUS
<1>1. SafeInv /\ [Next]_vars => SafeInv'
  BY SafeStep
<1>. QED
  BY <1>1, SafeInit, PTL DEF Spec

(* With an app that unsubscribes only when its commands are done, whether  *)
(* it says so or not when it goes, the message thread meets no failing     *)
(* assertion in connect_request or _charger_connected, though the charger  *)
(* is lost and found again at any time.                                    *)
THEOREM MessageThreadAlwaysLives == WellBehaved => (Spec => []MessageThreadLives)
<1>1. SafeInv => MessageThreadLives
  BY DEF SafeInv, MessageThreadOK
<1>. QED
  BY <1>1, AlwaysSafe, PTL

(* And with a charger that is not lost no assertion fails on a timer       *)
(* either.                                                                 *)
THEOREM AssertionsAlwaysHold == WellBehaved /\ ~MayLose => (Spec => []AssertionsHold)
<1>. SUFFICES ASSUME WellBehaved, ~MayLose PROVE Spec => []AssertionsHold
  OBVIOUS
<1>1. SafeInv => AssertionsHold
  BY DEF SafeInv, LinkOK, AssertionsHold
<1>. QED
  BY <1>1, AlwaysSafe, PTL

-----------------------------------------------------------------------------
(* The patient app.                                                        *)
LEMMA PatientInit == Init => PatientInv
BY DEF Init, PatientInv, PatientApp, PatientThreads, PatientRunning, Quiet, Over, TimerDied, Connecting,
       NoConnectFrom, LoopSteps, ConnectSteps

LEMMA PatientAppStep ==
  ASSUME SafeInv, PatientInv, WellBehaved, App
  PROVE  PatientInv'
<1>. USE DEF PatientInv, PatientApp, PatientThreads, PatientRunning, Quiet, Over, TimerDied, Connecting,
             LoopSteps, ConnectSteps, SafeInv, TypeOK, shared
<1>1. queue \in Seq(Command)
  BY DEF Command
<1>2. CASE StartNotify
  BY <1>2 DEF StartNotify, NoConnectFrom, TimersOK
<1>3. CASE StopNotify
  BY <1>3 DEF StopNotify, WellBehaved, NoConnectFrom
<1>4. CASE Vanish
  BY <1>4 DEF Vanish
<1>5. ASSUME patient, NEW c \in Command, WriteValue(c), c = "connect" => queue = <<>>
      PROVE  /\ pc.msg = "idle" => NoConnectFrom(2)'
             /\ pc.msg # "idle" /\ c = "other" => NoConnectFrom(1)'
             /\ queue' # <<>> /\ Head(queue') = IF queue = <<>> THEN c ELSE Head(queue)
  <2>1. queue' = Append(queue, c)
    BY <1>5 DEF WriteValue
  <2>2. queue = <<>> <=> Len(queue) = 0
    BY <1>1
  <2>3. Len(queue) \in Nat
    BY <1>1
  <2>4. queue' # <<>> /\ Head(queue') = IF queue = <<>> THEN c ELSE Head(queue)
    BY <1>1, <2>1
  <2>5. /\ Len(queue') = Len(queue) + 1 /\ queue'[Len(queue) + 1] = c
        /\ \A i \in 1..Len(queue) : queue'[i] = queue[i]
    BY <1>1, <2>1, QueueFacts
  <2>6. pc.msg = "idle" => NoConnectFrom(2)'
    BY <1>5, <2>2, <2>3, <2>5 DEF NoConnectFrom, Command
  <2>7. pc.msg # "idle" /\ c = "other" => NoConnectFrom(1)'
    BY <1>5, <2>2, <2>3, <2>5 DEF NoConnectFrom
  <2>. QED
    BY <2>4, <2>6, <2>7
<1>6. CASE WriteConnect
  BY <1>5, <1>6 DEF WriteConnect, WriteValue, Command
<1>7. CASE WriteOther
  BY <1>5, <1>7 DEF WriteOther, WriteValue, Command
<1>. QED
  BY <1>2, <1>3, <1>4, <1>6, <1>7 DEF App

LEMMA PatientLoopStep ==
  ASSUME SafeInv, PatientInv, WellBehaved, TimerFires \/ \E t \in Threads : StatusLoop(t)
  PROVE  PatientInv'
<1>. USE DEF PatientInv, PatientApp, PatientThreads, PatientRunning, Quiet, Over, TimerDied, Connecting,
             NoConnectFrom, LoopSteps, ConnectSteps, SafeInv, TypeOK, shared, Goto, Threads,
             TimersOK, NotifyingOK, Dismissing, MessageThreadOK
<1>1. CASE TimerFires
  BY <1>1 DEF TimerFires
<1>2. ASSUME NEW t \in Threads, TakeLock(t) PROVE PatientInv'
  BY <1>2 DEF TakeLock
<1>3. ASSUME NEW t \in Threads, Body(t) PROVE PatientInv'
  <2>1. \/ /\ linked' \in BOOLEAN /\ (~MayLose => linked') /\ Goto(t, "mark")
           /\ UNCHANGED <<timers, lock, failed>>
        \/ /\ ~linked /\ ~notifying /\ Dies(t) /\ lock' = "nobody"
           /\ failed' = failed \cup {"notifyingAtGreeting"} /\ UNCHANGED linked
    BY <1>3 DEF Body
  <2>2. pc[t] = "body" /\ UNCHANGED <<app, queue, notifying, running, woken, command, patient>>
    BY <1>3 DEF Body
  <2>3. CASE Goto(t, "mark") /\ UNCHANGED <<timers, lock, failed>>
    BY <2>1, <2>2, <2>3
  <2>4. CASE ~linked /\ ~notifying /\ Dies(t) /\ failed' = failed \cup {"notifyingAtGreeting"}
    <3>1. t = "glib"
      BY <2>2, <2>4
    <3>2. Goto("glib", "idle") /\ timers' = timers - 1
      BY <2>4, <3>1 DEF Dies
    <3>. QED
      BY <2>1, <2>2, <2>4, <3>1, <3>2 DEF Assertions
  <2>. QED
    BY <2>1, <2>3, <2>4
<1>4. ASSUME NEW t \in Threads, Mark(t) PROVE PatientInv'
  BY <1>4 DEF Mark, SetRunning
<1>5. ASSUME NEW t \in Threads, Return(t) PROVE PatientInv'
  BY <1>5 DEF Return, TimersAfter, AfterLoop
<1>. QED
  BY <1>1, <1>2, <1>3, <1>4, <1>5 DEF StatusLoop

LEMMA PatientMessageThreadStep ==
  ASSUME SafeInv, PatientInv,
         NextCommand \/ Begin \/ Check \/ Wake \/ Restore \/ Reset \/ AddTimer \/ WaitTimesOut
  PROVE  PatientInv'
<1>. USE DEF PatientInv, PatientApp, PatientThreads, PatientRunning, Quiet, Over, TimerDied, Connecting,
             LoopSteps, ConnectSteps, SafeInv, TypeOK, shared, Goto, TimersOK, MessageThreadOK
<1>1. CASE NextCommand
  <2>1. queue \in Seq(Command)
    BY DEF Command
  <2>2. /\ Head(queue) \in Command /\ Len(queue') = Len(queue) - 1 /\ Len(queue) \in Nat
        /\ \A i \in 1..Len(queue') : queue'[i] = queue[i + 1]
    BY <1>1, <2>1, QueueFacts DEF NextCommand
  <2>3. patient => NoConnectFrom(1)'
    BY <1>1, <2>2 DEF NextCommand, NoConnectFrom
  <2>. QED
    BY <1>1, <2>2, <2>3 DEF NextCommand, Command
<1>. USE DEF NoConnectFrom
<1>2. CASE Begin
  <2>1. notifying
    BY <1>2 DEF Begin, NotifyingOK, Dismissing
  <2>2. /\ pc.msg = "begin" /\ pc'.msg = "check" /\ pc'.glib = pc.glib
        /\ UNCHANGED <<app, queue, running, timers, command, failed, patient>>
    BY <1>2, <2>1 DEF Begin
  <2>3. patient => timers = 0 /\ pc.glib = "idle"
    BY <2>2
  <2>. QED
    BY <2>2, <2>3
<1>3. CASE Check
  BY <1>3 DEF Check
<1>4. CASE Wake
  BY <1>4 DEF Wake
<1>5. CASE Restore
  BY <1>5 DEF Restore, Restored
<1>6. CASE Reset
  BY <1>6 DEF Reset
<1>7. CASE AddTimer
  BY <1>7 DEF AddTimer
<1>8. CASE WaitTimesOut
  BY <1>8 DEF WaitTimesOut
<1>. QED
  BY <1>1, <1>2, <1>3, <1>4, <1>5, <1>6, <1>7, <1>8

LEMMA PatientStep ==
  ASSUME SafeInv, PatientInv, WellBehaved, [Next]_vars
  PROVE  PatientInv'
<1>1. CASE UNCHANGED vars
  BY <1>1 DEF vars, PatientInv, PatientApp, PatientThreads, PatientRunning, Quiet, Over, TimerDied,
              Connecting, NoConnectFrom
<1>. QED
  BY <1>1, PatientAppStep, PatientLoopStep, PatientMessageThreadStep
  DEF Next, MessageThread, Threads

LEMMA AlwaysInvariant == WellBehaved => (Spec => [](SafeInv /\ PatientInv))
<1>. SUFFICES ASSUME WellBehaved PROVE Spec => [](SafeInv /\ PatientInv)
  OBVIOUS
<1>1. SafeInv /\ PatientInv /\ [Next]_vars => (SafeInv /\ PatientInv)'
  BY SafeStep, PatientStep
<1>. QED
  BY <1>1, SafeInit, PatientInit, PTL DEF Spec

(* There is one status loop if sessions do not overlap.                    *)
THEOREM AlwaysOneStatusLoop == WellBehaved => (Spec => []OneStatusLoop)
<1>. SUFFICES ASSUME WellBehaved PROVE Spec => []OneStatusLoop
  OBVIOUS
<1>1. SafeInv /\ PatientInv => OneStatusLoop
  BY DEF PatientInv, PatientThreads, OneStatusLoop
<1>. QED
  BY <1>1, AlwaysInvariant, PTL

(* Then, with both threads at rest, _running tells whether there is one.   *)
THEOREM RunningAlwaysMeansLoop == WellBehaved => (Spec => []RunningMeansLoop)
<1>. SUFFICES ASSUME WellBehaved PROVE Spec => []RunningMeansLoop
  OBVIOUS
<1>1. SafeInv /\ PatientInv => RunningMeansLoop
  BY DEF PatientInv, PatientThreads, PatientRunning, RunningMeansLoop, TimerDied
<1>. QED
  BY <1>1, AlwaysInvariant, PTL
=============================================================================
