---------------------------- MODULE ChargerState ----------------------------
(***************************************************************************)
(* The table behind controller/state_machine: the states an operation of   *)
(* the charger goes through as the app is shown them, the events that move *)
(* it, and the event a status record of the charger stands for.            *)
(*                                                                         *)
(* Every on_event method of state.py is a list of "event -> new state"     *)
(* lines that ends in "return self", and one event leads to the same new   *)
(* state wherever it is listed.  So the table splits into the events a     *)
(* state listens to (Accepts) and the state an event leads to (Target).    *)
(***************************************************************************)
EXTENDS Naturals

States == {"Disconnected", "Idle", "Starting", "Charging", "Discharging",
           "Monitoring", "Completed", "Stopped", "Error", "HaltForSafety"}

Events == {"NONE", "CONNECTED", "DISCONNECTED", "IDLE", "STARTING", "CHARGING",
           "DISCHARGING", "MONITORING", "STOP", "CHARGING_COMPLETE",
           "DISCHARGING_COMPLETE", "DISMISS", "ERROR", "HALT_FOR_SAFETY"}

(* The states an operation ends in; they show an outcome to the user.      *)
Outcomes == {"Completed", "Stopped", "Error"}

(* The events every state with a live charger but no outcome listens to.   *)
EndEvents == {"STOP", "CHARGING_COMPLETE", "DISCHARGING_COMPLETE", "ERROR",
              "DISCONNECTED"}

Target ==
  [e \in Events |->
     CASE e \in {"CONNECTED", "IDLE", "DISMISS"} -> "Idle"
       [] e = "STARTING"        -> "Starting"
       [] e = "CHARGING"        -> "Charging"
       [] e = "DISCHARGING"     -> "Discharging"
       [] e = "MONITORING"      -> "Monitoring"
       [] e = "STOP"            -> "Stopped"
       [] e = "ERROR"           -> "Error"
       [] e = "HALT_FOR_SAFETY" -> "HaltForSafety"
       [] e \in {"CHARGING_COMPLETE", "DISCHARGING_COMPLETE"} -> "Completed"
       [] OTHER                 -> "Disconnected"]

(* The lines of the on_event methods: the pairs of a state and an event it *)
(* listens to.                                                             *)
LiveStates == States \ ({"Disconnected"} \cup Outcomes)

Lines ==
  (LiveStates \X EndEvents)
    \cup (Outcomes \X {"DISMISS", "DISCONNECTED"})
    \cup ({"Disconnected"} \X {"CONNECTED"})
    \cup ((LiveStates \ {"Charging"}) \X {"CHARGING"})
    \cup ((LiveStates \ {"Discharging"}) \X {"DISCHARGING"})
    \cup ((LiveStates \ {"Starting", "HaltForSafety"}) \X {"STARTING"})
    \cup ((LiveStates \ {"Idle"}) \X {"IDLE"})
    \cup ({"Idle", "HaltForSafety"} \X {"MONITORING"})
    \cup ({"Idle", "Starting"} \X {"HALT_FOR_SAFETY"})

(* Variants with a mistake, to see that the properties notice: a line too  *)
(* many or a line too few.                                                 *)
AcceptsAfterOutcome == Lines \cup {<<"Completed", "CHARGING">>}
AcceptsNoChargeWhenMonitoring == Lines \ {<<"Monitoring", "CHARGING">>}
AcceptsNoErrorWhenHalted == Lines \ {<<"HaltForSafety", "ERROR">>}
AcceptsNoHaltWhenStarting == Lines \ {<<"Starting", "HALT_FOR_SAFETY">>}
AcceptsNoDisconnectInError == Lines \ {<<"Error", "DISCONNECTED">>}

Accepts == Lines

(* state.on_event: the next state; an event not listened to changes nothing. *)
OnEvent(s, e) == IF <<s, e>> \in Accepts THEN Target[e] ELSE s

-----------------------------------------------------------------------------
(* The modes the charger reports in a status record.                       *)
READY_TO_START == 0
DETECTING_PACK == 1
TRICKLE_CHARGING == 7
DISCHARGING == 8
MONITORING == 9
HALT_FOR_SAFETY == 10
ERROR == 99

(* A status as far as the state machine reads it: the mode byte and the    *)
(* "charge/discharge complete" flag.                                       *)
Reading(m, done) == [mode |-> m, complete |-> done]

(* The comparison of the first branch of get_from_charge_status is one of  *)
(* the mode, a number, with the enumeration member READY_TO_START and not  *)
(* with its value: it is never true, so a charger that is ready reads as   *)
(* NONE.                                                                   *)
IsReady(mode) == FALSE

(* Event.get_from_charge_status.                                           *)
EventOf(reading) ==
  LET m == reading.mode IN
  CASE IsReady(m) -> "IDLE"
    [] m = DETECTING_PACK -> "STARTING"
    [] m \in (DETECTING_PACK + 1)..TRICKLE_CHARGING ->
         IF reading.complete THEN "CHARGING_COMPLETE" ELSE "CHARGING"
    [] m = DISCHARGING ->
         IF reading.complete THEN "DISCHARGING_COMPLETE" ELSE "DISCHARGING"
    [] m = MONITORING -> "MONITORING"
    [] m = HALT_FOR_SAFETY -> "HALT_FOR_SAFETY"
    [] m = ERROR -> "ERROR"
    [] OTHER -> "NONE"
=============================================================================
