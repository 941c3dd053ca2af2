------------------------------ MODULE Session -------------------------------
(***************************************************************************)
(* How a session of the app starts and stops the status loop.  Two threads *)
(* share _notifying, _running and the timers of the main loop:             *)
(*                                                                         *)
(*   glib  the main loop: StartNotify, StopNotify and WriteValue called by *)
(*         bluez, and the timers, which call status_loop;                  *)
(*   msg   the message thread: connect_request, and the other handlers,    *)
(*         which run a status_loop of their own.                           *)
(*                                                                         *)
(* _lock serialises the status loops only: connect_request changes         *)
(* _notifying without it, and status_loop reads _notifying three times: in *)
(* the assertion of _charger_connected, for _running, and for its result.  *)
(***************************************************************************)
EXTENDS Naturals, Sequences

CONSTANTS
  StopsEarly,  \* bluez may report StopNotify while commands are on their way
  Vanishes,    \* the app may go without StopNotify and connect again at once
  MayLose,     \* the charger may be lost, or not be reachable
  MayTimeOut,  \* the wait of connect_request may time out
  MaxQueue,    \* bound: commands on their way to the message thread
  MaxTimers    \* bound: the app does not connect once there are that many

ASSUME SessionAssumption ==
  /\ {StopsEarly, Vanishes, MayLose, MayTimeOut} \subseteq BOOLEAN
  /\ MaxQueue \in Nat \ {0} /\ MaxTimers \in Nat \ {0}

Threads == {"glib", "msg"}

VARIABLES
  app,        \* "off", "subscribed" or "connected": how far the app is
  queue,      \* the message thread's queue
  notifying,  \* _notifying
  running,    \* _running
  woken,      \* the message thread was notified of _running_cond
  timers,     \* how many timers of the main loop call status_loop
  lock,       \* the holder of _lock, or "nobody"
  linked,     \* the state is not Disconnected
  pc,         \* where each thread is
  command,    \* what the message thread works at
  failed,     \* the assertions that have failed
  patient     \* the app has never begun a session before the last was over

vars == <<app, queue, notifying, running, woken, timers, lock, linked, pc, command, failed,
          patient>>

(* The steps of status_loop, of connect_request before and after it.       *)
LoopSteps == {"enter", "body", "mark", "return"}
ConnectSteps == {"begin", "check", "waiting", "restore", "init", "addTimer"}
Assertions == {"notifyingAtRequest", "notifyingAtGreeting", "runningAfterLoop"}

(* What the variables hold (see module SessionProofs).                     *)
TypeOK ==
  /\ app \in {"off", "subscribed", "connected"}
  /\ queue \in Seq({"connect", "other"})
  /\ notifying \in BOOLEAN /\ running \in BOOLEAN /\ woken \in BOOLEAN
  /\ timers \in Nat
  /\ lock \in Threads \cup {"nobody"}
  /\ linked \in BOOLEAN
  /\ pc \in [glib : {"idle"} \cup LoopSteps,
             msg : {"idle", "dead"} \cup LoopSteps \cup ConnectSteps]
  /\ command \in {"connect", "other"}
  /\ failed \subseteq Assertions
  /\ patient \in BOOLEAN

Init ==
  /\ app = "off" /\ queue = <<>>
  /\ notifying = FALSE /\ running = FALSE /\ woken = FALSE
  /\ timers = 0 /\ lock = "nobody" /\ linked = FALSE
  /\ pc = [glib |-> "idle", msg |-> "idle"] /\ command = "other"
  /\ failed = {} /\ patient = TRUE

Goto(t, step) == pc' = [pc EXCEPT ![t] = step]

shared == <<notifying, running, woken, timers, lock, linked>>

-----------------------------------------------------------------------------
(* The app and bluez, whose calls the main loop makes between two ticks.   *)

(* No command is on its way or at work, and no loop of an earlier session  *)
(* is left: what an app that takes its time can count on.                  *)
Quiet == queue = <<>> /\ pc.msg = "idle"
Over == Quiet /\ timers = 0

StartNotify ==
  /\ pc.glib = "idle" /\ app = "off" /\ (Vanishes \/ StopsEarly \/ Over)
  /\ app' = "subscribed" /\ notifying' = TRUE
  /\ patient' = (patient /\ Over)
  /\ UNCHANGED <<queue, running, woken, timers, lock, linked, pc, command, failed>>

StopNotify ==
  /\ pc.glib = "idle" /\ app # "off" /\ (StopsEarly \/ Quiet)
  /\ app' = "off" /\ notifying' = FALSE
  /\ UNCHANGED <<queue, running, woken, timers, lock, linked, pc, command, failed, patient>>

(* The app is gone without a word.                                         *)
Vanish ==
  /\ Vanishes /\ app # "off"
  /\ app' = "off"
  /\ patient' = FALSE
  /\ UNCHANGED <<queue, shared, pc, command, failed>>

(* WriteValue: the bytes of a command go to the message thread's queue.    *)
WriteValue(c) ==
  /\ pc.glib = "idle" /\ Len(queue) < MaxQueue
  /\ queue' = Append(queue, c)
  /\ UNCHANGED <<shared, pc, command, failed, patient>>

WriteConnect ==
  app = "subscribed" /\ timers < MaxTimers /\ WriteValue("connect") /\ app' = "connected"

WriteOther == app = "connected" /\ WriteValue("other") /\ UNCHANGED app

-----------------------------------------------------------------------------
(* status_loop, on either thread.                                          *)

(* A timer is due.                                                         *)
TimerFires ==
  /\ pc.glib = "idle" /\ timers > 0
  /\ Goto("glib", "enter")
  /\ UNCHANGED <<app, queue, shared, command, failed, patient>>

TakeLock(t) ==
  /\ pc[t] = "enter" /\ lock = "nobody"
  /\ lock' = t /\ Goto(t, "body")
  /\ UNCHANGED <<app, queue, notifying, running, woken, timers, linked, command, failed, patient>>

(* An exception out of status_loop: the main loop removes the timer, the   *)
(* message thread ends.                                                    *)
Dies(t) ==
  IF t = "glib" THEN Goto(t, "idle") /\ timers' = timers - 1
                ELSE Goto(t, "dead") /\ UNCHANGED timers

(* The exchange with the charger.  When it comes to _charger_connected,    *)
(* which it does without a link, the assertion at its end is evaluated.    *)
Body(t) ==
  /\ pc[t] = "body"
  /\ \/ /\ linked \/ MayLose
        /\ linked' \in {linked} \cup (IF MayLose THEN {FALSE} ELSE {})
        /\ Goto(t, "mark")
        /\ UNCHANGED <<timers, lock, failed>>
     \/ /\ ~linked /\ notifying
        /\ linked' = TRUE
        /\ Goto(t, "mark")
        /\ UNCHANGED <<timers, lock, failed>>
     \/ /\ ~linked /\ ~notifying
        /\ Dies(t)
        /\ failed' = failed \cup {"notifyingAtGreeting"}
        /\ lock' = "nobody"
        /\ UNCHANGED linked
  /\ UNCHANGED <<app, queue, notifying, running, woken, command, patient>>

(* _running takes the value of _notifying; a wait for it to end is woken.  *)
(* (The longer names, here and below, are variants with a mistake, there   *)
(* to see that the properties notice.)                                     *)
SetRunningAlways(value) == running' = TRUE /\ UNCHANGED woken

SetRunningSilently(value) == running' = value /\ UNCHANGED woken

SetRunning(value) ==
  /\ running' = value
  /\ woken' = (woken \/ (~value /\ pc.msg = "waiting"))

Mark(t) ==
  /\ pc[t] = "mark"
  /\ SetRunning(notifying)
  /\ Goto(t, "return")
  /\ UNCHANGED <<app, queue, notifying, timers, lock, linked, command, failed, patient>>

(* The result is _notifying, read again; the main loop keeps the timer if  *)
(* it is true.  The message thread has no use for it.                      *)
TimersAfterKept(t) == timers
TimersAfter(t) == IF t = "glib" /\ ~notifying THEN timers - 1 ELSE timers

AfterLoopAdding(t) == IF t = "msg" THEN "addTimer" ELSE "idle"
AfterLoop(t) == IF t = "msg" /\ command = "connect" THEN "addTimer" ELSE "idle"

Return(t) ==
  /\ pc[t] = "return"
  /\ timers' = TimersAfter(t)
  /\ lock' = "nobody"
  /\ Goto(t, AfterLoop(t))
  /\ UNCHANGED <<app, queue, notifying, running, woken, linked, command, failed, patient>>

-----------------------------------------------------------------------------
(* The message thread.                                                     *)
NextCommand ==
  /\ pc.msg = "idle" /\ queue # <<>>
  /\ command' = Head(queue) /\ queue' = Tail(queue)
  /\ Goto("msg", IF Head(queue) = "connect" THEN "begin" ELSE "enter")
  /\ UNCHANGED <<app, shared, failed, patient>>

(* connect_request: assert _notifying, then _notifying is cleared to make  *)
(* the loop of an earlier connection exit.                                 *)
Begin ==
  /\ pc.msg = "begin"
  /\ IF notifying
       THEN Goto("msg", "check") /\ notifying' = FALSE /\ UNCHANGED failed
       ELSE /\ Goto("msg", "dead") /\ UNCHANGED notifying
            /\ failed' = failed \cup {"notifyingAtRequest"}
  /\ UNCHANGED <<app, queue, running, woken, timers, lock, linked, command, patient>>

(* while _running: wait.                                                   *)
Check ==
  /\ pc.msg = "check"
  /\ Goto("msg", IF running THEN "waiting" ELSE "restore")
  /\ woken' = FALSE
  /\ UNCHANGED <<app, queue, notifying, running, timers, lock, linked, command, failed, patient>>

Wake ==
  /\ pc.msg = "waiting" /\ woken
  /\ Goto("msg", "check")
  /\ UNCHANGED <<app, queue, shared, command, failed, patient>>

(* Timed out: the request is given up, its finally clause sets _notifying. *)
WaitTimesOut ==
  /\ MayTimeOut /\ pc.msg = "waiting" /\ ~woken
  /\ notifying' = TRUE
  /\ Goto("msg", "idle")
  /\ UNCHANGED <<app, queue, running, woken, timers, lock, linked, command, failed, patient>>

RestoredNever == notifying
Restored == TRUE

Restore ==
  /\ pc.msg = "restore"
  /\ notifying' = Restored
  /\ Goto("msg", "init")
  /\ UNCHANGED <<app, queue, running, woken, timers, lock, linked, command, failed, patient>>

(* _init, which closes the charger, and on to the first status loop.       *)
Reset ==
  /\ pc.msg = "init"
  /\ linked' = FALSE
  /\ Goto("msg", "enter")
  /\ UNCHANGED <<app, queue, notifying, running, woken, timers, lock, command, failed, patient>>

(* assert _running, and the timer.                                         *)
AddTimer ==
  /\ pc.msg = "addTimer"
  /\ IF running
       THEN Goto("msg", "idle") /\ timers' = timers + 1 /\ UNCHANGED failed
       ELSE /\ Goto("msg", "dead") /\ UNCHANGED timers
            /\ failed' = failed \cup {"runningAfterLoop"}
  /\ UNCHANGED <<app, queue, notifying, running, woken, lock, linked, command, patient>>

-----------------------------------------------------------------------------
App == StartNotify \/ StopNotify \/ Vanish \/ WriteConnect \/ WriteOther

StatusLoop(t) == TakeLock(t) \/ Body(t) \/ Mark(t) \/ Return(t)

MessageThread ==
  NextCommand \/ Begin \/ Check \/ Wake \/ Restore \/ Reset \/ AddTimer \/ StatusLoop("msg")

Next == App \/ TimerFires \/ StatusLoop("glib") \/ MessageThread \/ WaitTimesOut

Spec == Init /\ [][Next]_vars

(* Both threads go on as long as they can; _lock goes to each of them in   *)
(* the end, since the other releases it every time and sleeps in between.  *)
(* A time out, and what the app does, may never happen.                    *)
Fairness ==
  /\ SF_vars(TimerFires)
  /\ SF_vars(StatusLoop("glib"))
  /\ WF_vars(NextCommand \/ Begin \/ Check \/ Wake \/ Restore \/ Reset \/ AddTimer)
  /\ SF_vars(StatusLoop("msg"))

FairSpec == Spec /\ Fairness

-----------------------------------------------------------------------------
(* The assertions about _notifying and _running hold.                      *)
AssertionsHold == failed = {}

(* An app that unsubscribes only when its commands are done, though it may *)
(* vanish and the charger be lost at any time, never meets a failing       *)
(* assertion on the message thread.  A timer may, the one at the end of    *)
(* _charger_connected: it finds a lost charger again when nobody listens.  *)
MessageThreadLives == pc.msg # "dead"

TimerDied == "notifyingAtGreeting" \in failed

(* "Wait for a status loop from a previous connection to exit": there is   *)
(* never more than one timer that calls it, for an app that has ended      *)
(* every session with StopNotify and begun the next one after the loop had *)
(* noticed.                                                                *)
OneStatusLoop == patient => timers <= 1

(* For such an app, with both threads at rest, _running tells whether      *)
(* there is a loop to wait for: it is set when there is one, and set       *)
(* without one only after a timer has died of the assertion.               *)
RunningMeansLoop ==
  patient /\ pc.glib = "idle" /\ pc.msg = "idle" =>
    (timers > 0 => running) /\ (running => timers > 0 \/ TimerDied)

(* A connect request gets a status loop of its own, one too that has to    *)
(* wait for the loop of a session the app has left without a word: unless  *)
(* it times out, which it need not, it is woken when that loop leaves      *)
(* _running clear.  It waits in vain only where _running is set but the    *)
(* loop gone, or kept by an app that has subscribed again meanwhile; and   *)
(* that of a patient app only after a timer has died of the assertion.     *)
WaitsInVain == pc.msg = "waiting" /\ running /\ (timers = 0 \/ notifying)

ConnectIsServed ==
  /\ pc.msg = "begin" ~> (pc.msg \in {"addTimer", "idle"} \/ WaitsInVain)
  /\ (patient /\ pc.msg = "begin") ~> (pc.msg = "addTimer" \/ TimerDied \/ ~patient)

(* When a patient app is gone for good the status loop ends.               *)
SessionEnds == <>[](patient /\ app = "off") => <>[](timers = 0)
=============================================================================
