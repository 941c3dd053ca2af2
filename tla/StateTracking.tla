---------------------------- MODULE StateTracking ---------------------------
(***************************************************************************)
(* How what the app is shown follows the charger.  The emulator never asks *)
(* the charger for its history: once per status interval it reads one      *)
(* status record, feeds the event it stands for to the state machine and   *)
(* sends the app a message made of both.  What the charger did between two *)
(* readings is never seen, and a record that does not fit into the message *)
(* is not shown.                                                           *)
(*                                                                         *)
(* One action per status loop or app command, the commands with the status *)
(* loop they end in (_set_event, _set_forced_error).  The details of       *)
(* connecting, presets and sessions are left to module Emulator.           *)
(***************************************************************************)
EXTENDS StatusReport

CONSTANTS
  Records,       \* the status records the charger may report
  EnterMayFail   \* whether an ENTER may get lost, or the answer to it

ASSUME RecordsAssumption == Records \subseteq StatusRecord

ASSUME EnterAssumption == EnterMayFail \in BOOLEAN

VARIABLES
  state,    \* the state object of the emulator
  charger,  \* what the charger would report now
  forced,   \* whether an error of the emulator's own is shown: a command was
            \* refused
  shown     \* the last status message the app was sent

vars == <<state, charger, forced, shown>>

TypeOK ==
  /\ state \in States
  /\ charger \in StatusRecord
  /\ forced \in BOOLEAN
  /\ shown \in Messages

Init ==
  /\ state = "Disconnected"
  /\ charger \in Records
  /\ forced = FALSE
  /\ shown = NoMessage

-----------------------------------------------------------------------------
(* The charger: it moves from mode to mode on its own or by its panel, but *)
(* stays halted for safety until it gets an ENTER.                         *)
ChargerMoves ==
  /\ charger.mode # HALT_FOR_SAFETY
  /\ charger' \in Records
  /\ UNCHANGED <<state, forced, shown>>

(* ENTER confirms a safety halt and ends whatever else the charger does.   *)
Entered(r) ==
  [r EXCEPT !.mode = IF r.mode = HALT_FOR_SAFETY THEN 6 ELSE READY_TO_START,
            !.complete = FALSE]

(* The constructor of HaltForSafety sends one ENTER, with its retries; an  *)
(* exception is logged and forgotten.                                      *)
HaltConfirmation(before, after, r) ==
  IF after = "HaltForSafety" /\ before # "HaltForSafety"
    THEN {Entered(r)} \cup (IF EnterMayFail THEN {r} ELSE {})
    ELSE {r}

(* The state after the record r, the connection being made first where     *)
(* there is none.                                                          *)
Follow(s, r) ==
  OnEvent(IF s = "Disconnected" THEN OnEvent(s, "CONNECTED") ELSE s, EventOf(r))

(* What the app has been sent after a status loop.  (Here and below the    *)
(* definition with the longer name is a variant with a mistake, there to   *)
(* see that the properties notice.)                                        *)
SentOnChange(r, before, after, f) ==
  IF Serializes(r, after, f) /\ (before # after \/ shown = Gone)
    THEN StatusMessage(r, after, f) ELSE shown

Sent(r, before, after, f) ==
  IF Serializes(r, after, f) THEN StatusMessage(r, after, f) ELSE shown

(* A status loop that begins in state s with the forced error f and reads  *)
(* the record r.                                                           *)
LoopReads(s, r, f) ==
  /\ forced' = f
  /\ state' = Follow(s, Overwritten(r, f))
  /\ charger' \in HaltConfirmation(s, state', r)
  /\ shown' = Sent(r, state, state', f)

(* One that makes no connection, or makes one, and fails to read a status: *)
(* one such read in five takes the link down, and only a lost link is told *)
(* to the app.                                                             *)
LoopFails(s, r, f) ==
  /\ forced' = f
  /\ state' \in {s, OnEvent(s, "CONNECTED"), OnEvent(s, "DISCONNECTED")}
  /\ charger' = r
  /\ shown' = IF state' = "Disconnected" THEN Gone ELSE shown

Loop(s, r, f) == LoopReads(s, r, f) \/ LoopFails(s, r, f)

StatusLoop == LoopReads(state, charger, forced)

StatusLoopFails == LoopFails(state, charger, forced)

(* operation_stop, dismiss, and clear_error where no error is forced: an   *)
(* ENTER, and only if it is answered the event and a status loop, which    *)
(* reads what the charger does by then.                                    *)
Command(event) ==
  \/ Loop(OnEvent(state, event), Entered(charger), forced)
  \/ EnterMayFail /\ charger' = Entered(charger) /\ UNCHANGED <<state, forced, shown>>

Stop == Command("STOP")

Dismiss == Command("DISMISS")

(* A command that is refused (_set_forced_error).                          *)
Refuse == Loop(state, charger, TRUE)

(* clear_error where one is: nothing is sent to the charger, but the error *)
(* is dismissed in the state machine too, which took it for the charger's. *)
ClearedStaying(s) == s
Cleared(s) == OnEvent(s, "DISMISS")

ClearError == forced /\ Loop(Cleared(state), charger, FALSE)

Next ==
  ChargerMoves \/ StatusLoop \/ StatusLoopFails \/ Stop \/ Dismiss \/ Refuse \/ ClearError

(* The timer of the main loop calls status_loop for as long as the app is  *)
(* connected, and an intact link answers it.                               *)
Fairness == WF_vars(StatusLoop)

Spec == Init /\ [][Next]_vars /\ Fairness

-----------------------------------------------------------------------------
(* The charger reports a record that can be shown in any state.            *)
Showable(r) == \A s \in States : Serializes(r, s, FALSE)

(* A charger that keeps charging or discharging is shown doing so, again   *)
(* and again, whatever state the emulator was in when that began, however  *)
(* many commands it refused and records it could not show before; the      *)
(* state follows unless an outcome waits to be dismissed.                  *)
OperationIsShown ==
  \A e \in {"CHARGING", "DISCHARGING"} :
    <>[](EventOf(charger) = e /\ Showable(charger) /\ ~forced) =>
      []<>(/\ state \in {Target[e]} \cup Outcomes
           /\ shown.kind = "status" /\ shown.mode = ModeRunning(charger.mode))

(* A refused command is no event of the charger: one that charges or       *)
(* discharges all the while the refusal is shown is shown doing so again   *)
(* once that is cleared, as a running operation, although status_loop has  *)
(* given the state machine an error of the charger in its place.           *)
RefusalPasses ==
  \A e \in {"CHARGING", "DISCHARGING"} :
    (/\ <>(forced /\ [](EventOf(charger) = e /\ Showable(charger)))
     /\ <>[]~forced) =>
      []<>(/\ state = Target[e] /\ shown.kind = "status"
           /\ shown.mode = ModeRunning(charger.mode) /\ shown.flags = "NONE")

(* The end of an operation is not missed.  A charger that goes on          *)
(* reporting an error is shown with it, in a state that waits for the user *)
(* to dismiss it; one that goes on reporting a complete charge or          *)
(* discharge is shown as completed, or as stopped by a command that came   *)
(* first, unless an error from before it still waits to be dismissed.      *)
EndIsShown ==
  /\ <>[](EventOf(charger) = "ERROR" /\ Showable(charger) /\ ~forced) =>
       []<>(state \in Outcomes /\ shown.kind = "status" /\ shown.mode = ERROR)
  /\ <>[](/\ EventOf(charger) \in {"CHARGING_COMPLETE", "DISCHARGING_COMPLETE"}
          /\ Showable(charger) /\ ~forced /\ state # "Error") =>
       []<>(/\ state \in {"Completed", "Stopped"} /\ shown.kind = "status"
            /\ shown.flags = OperationFlags(state))

(* A safety halt found from the idle or the starting state is confirmed    *)
(* (clear_halt_for_safety); if the one ENTER sent for it is lost it is at  *)
(* least shown as one, unless a refused command is.                        *)
HaltIsHandled ==
  (/\ state \in {"Idle", "Starting"} /\ ~forced
   /\ charger.mode = HALT_FOR_SAFETY /\ Showable(charger)) ~>
    (\/ charger.mode # HALT_FOR_SAFETY \/ forced
     \/ state = "HaltForSafety" /\ shown.mode = HALT_FOR_SAFETY)

(* A record that cannot be shown delays the display, though the state has  *)
(* moved on: once the charger's records fit the message again it agrees    *)
(* with the state, again and again.                                        *)
ShowsState ==
  /\ (shown = Gone) <=> (state = "Disconnected")
  /\ (shown = Idle) <=> (state = "Idle")
  /\ shown.flags = OperationFlags(state)
  /\ (shown.error = "refusal") <=> (forced /\ state # "Disconnected")

DisplayCatchesUp == <>[]Showable(charger) => []<>ShowsState
=============================================================================
