------------------------------ MODULE Emulator ------------------------------
(***************************************************************************)
(* The emulator itself: class RxChrc of controller/emulator.py.  The app's *)
(* commands arrive one at a time on the message thread, the status loop    *)
(* runs from the timer of the main loop, and _lock keeps them apart; every *)
(* command that changes something ends in a status loop of its own, run    *)
(* before the lock is released.                                            *)
(*                                                                         *)
(* A status loop takes several exchanges with the charger, any of which    *)
(* may fail, so it is a small program here: pc is the step the holder of   *)
(* the lock is at, frames the suspended preset checks below it (see        *)
(* CheckChemistry), cont what is left to do after it.  Between two steps   *)
(* the world outside goes on: the charger is unplugged, its panel used.    *)
(*                                                                         *)
(* How the app's session starts and stops the timer is module Session.     *)
(***************************************************************************)
EXTENDS ChargerState, Sequences

CONSTANTS
  Slots,          \* the presets of the charger, by number
  Ops,            \* the operations of the presets configuration
  Analyze,        \* the one of them that is not supported
  Unmapped,       \* operations the app may name that the configuration lacks
  PresetOf,       \* _operation_to_preset_idx
  Exact,          \* whether a preset can hold the battery's values as they are
                  \* and not only rounded (module Presets)
  OddSlots,       \* slots whose preset may be for another chemistry than the
                  \* battery's
  HasBattery,     \* whether a battery file was given
  Readings,       \* what a status record may say
  CommandFaults,  \* how a command to a plugged charger may fail after its
                  \* retries: "refused" (not done) or "lost" (done, no answer)
  ReadFaults,     \* whether connecting or reading may fail though plugged
  MayUnplug,      \* whether the charger may be switched off or unplugged
  PanelUser,      \* whether somebody selects presets on the charger's panel
  CountRequests,  \* the battery counts the app may ask for
  MaxParallel,    \* the largest count a preset can hold (8)
  NoStatusLimit,  \* failed status readings in a row that end the link (5)
  MaxNesting,     \* bound: status loops nested deeper than this fail to connect
  None,           \* no value
  Erased          \* the presets memory of the charger after ErsP

(* A preset, as far as it matters: whether it has the battery's values but  *)
(* for the count, its count, and whether it is for another chemistry.      *)
PresetData == [tuned : BOOLEAN, par : 1..MaxParallel, odd : BOOLEAN]
Memory == [Slots -> PresetData]
Selectable == Ops \ {Analyze}
ActivePresets == [num : Slots, frozen : 0..MaxParallel]
ErrorCodes == {"badChemistry", "notAllowed", "notIdle"}

ASSUME ConfigurationAssumption ==
  /\ Analyze \in Ops
  /\ Selectable # {}
  /\ Unmapped \cap Ops = {}
  /\ PresetOf \in [Ops -> Slots]
  /\ OddSlots \subseteq Slots
  /\ HasBattery \in BOOLEAN /\ Exact \in BOOLEAN

ASSUME BoundsAssumption ==
  /\ MaxParallel \in Nat \ {0}
  /\ NoStatusLimit \in Nat \ {0}
  /\ MaxNesting \in Nat
  /\ CountRequests \subseteq Nat

ASSUME EnvironmentAssumption ==
  /\ \A r \in Readings : r.mode \in Nat /\ r.complete \in BOOLEAN
  /\ CommandFaults \subseteq {"refused", "lost"}
  /\ {ReadFaults, MayUnplug, PanelUser} \subseteq BOOLEAN

ASSUME NoneAssumption ==
  /\ None \notin Ops \cup Memory \cup ActivePresets \cup ErrorCodes \cup Slots
  /\ Erased \notin Memory

VARIABLES
  state,     \* _state, by the name of its class
  options,   \* whether _charger_options is set
  mem,       \* _presets: None, or the presets as last read and modified since
  active,    \* _active_preset: None, or a preset object; frozen is 0 while the
             \* object is one of _presets, else the num_parallel it was left with
  forced,    \* _forced_error_code
  disallow,  \* _disallow_operations
  noStatus,  \* _no_status_count
  count,     \* _battery_group.battery_count
  selOp      \* _selected_operation

VARIABLES
  flash,     \* the presets in the charger's memory
  chActive,  \* the preset the charger has selected
  job,       \* the preset the charger was last told to run, None if it was
             \* stopped since
  plugged,   \* whether the charger answers at all
  link,      \* "open"; "closed"; or "orphaned": no port, but a reader thread
  leaked     \* whether an abandoned reader thread takes bytes off the line

VARIABLES
  pc,      \* the step the holder of _lock is at
  frames,  \* for every suspended _check_preset_chemistries the operations it
           \* has still to reject, innermost first
  cont,    \* what follows the outermost status loop
  timer,   \* "never" started, "on", or "dead" of an exception
  alive,   \* whether the message thread still runs
  calm     \* a record of the session, not in the code: it has been connected
           \* to the charger without a fault, no answer to a selection was
           \* lost, nobody used the panel and no command asked for an operation
           \* or a count there cannot be

gateVars    == <<active, disallow>>
appVars     == <<count, selOp>>
chargerVars == <<flash, chActive, job>>
lineVars    == <<plugged, link, leaked, calm>>
threadVars  == <<timer, alive>>

vars == <<state, options, mem, active, forced, disallow, noStatus, count, selOp,
          flash, chActive, job, plugged, link, leaked,
          pc, frames, cont, timer, alive, calm>>

(* The presets some operation of the app is mapped to, and the operations  *)
(* whose preset is for another chemistry than the battery's.               *)
Configured == {PresetOf[op] : op \in Ops}
BadOps(m) == IF HasBattery THEN {op \in Ops : m[PresetOf[op]].odd} ELSE {}

(* num_parallel of an active preset, the presets in memory being m.        *)
Parallel(preset, m) ==
  IF preset.frozen = 0 THEN m[preset.num].par ELSE preset.frozen

TypeOK ==
  /\ state \in States
  /\ options \in BOOLEAN
  /\ mem \in Memory \cup {None}
  /\ active \in ActivePresets \cup {None}
  /\ forced \in ErrorCodes \cup {None}
  /\ disallow \in BOOLEAN
  /\ noStatus \in 0..(NoStatusLimit - 1)
  /\ count \in 1..MaxParallel
  /\ selOp \in IF HasBattery THEN Selectable ELSE {None}
  /\ flash \in Memory \cup {Erased}
  /\ chActive \in Slots
  /\ job \in Slots \cup {None}
  /\ plugged \in BOOLEAN
  /\ link \in {"open", "closed", "orphaned"}
  /\ leaked \in BOOLEAN
  /\ pc \in {"free", "connect", "presets", "chem", "status", "settings", "timer"}
  /\ frames \in Seq(SUBSET Ops)
  /\ cont \in {"handler", "tick", "settings", "timer"}
  /\ timer \in {"never", "on", "dead"}
  /\ alive \in BOOLEAN
  /\ calm \in BOOLEAN

-----------------------------------------------------------------------------
(* The line to the charger.  A command comes back "ok", or, with its       *)
(* retries used up, it was "refused" or its answer was "lost".  A reader   *)
(* thread left over from an earlier connection takes answers away.         *)
Answers ==
  IF plugged /\ link = "open"
    THEN {"ok"} \cup CommandFaults \cup (IF leaked THEN {"lost"} ELSE {})
    ELSE {"refused"}

Done(answer) == answer \in {"ok", "lost"}

ReadWorks == plugged /\ link = "open"
ReadMayFail == ~ReadWorks \/ ReadFaults \/ leaked

(* A status as status_loop goes on with it: a forced error hides it.       *)
Forced(r) == IF forced # None THEN Reading(ERROR, r.complete) ELSE r

-----------------------------------------------------------------------------
(* Control.  A status loop begins by connecting, if it has to.  Here and   *)
(* below a definition with a longer name than its neighbour is a variant   *)
(* with a mistake in it, there to see that the properties notice.          *)
LoopEntryConnected(s) == "status"
LoopEntry(s) == IF s = "Disconnected" THEN "connect" ELSE "status"

(* The lock is held from here to the end of what c says is left to do.     *)
EnterLoop(s, c) == pc' = LoopEntry(s) /\ cont' = c

(* status_loop returns: to the preset check that called it, or to the      *)
(* outermost caller.                                                       *)
LeaveLoop ==
  IF frames # <<>>
    THEN pc' = "chem" /\ UNCHANGED cont
    ELSE /\ pc' = IF cont \in {"tick", "handler"} THEN "free" ELSE cont
         /\ cont' = "handler"

(* An exception nobody catches: the timer is removed, or the message       *)
(* thread ends.                                                            *)
Crash ==
  /\ pc' = "free" /\ frames' = <<>> /\ cont' = "handler"
  /\ IF cont = "tick" THEN timer' = "dead" /\ UNCHANGED alive
                      ELSE alive' = FALSE /\ UNCHANGED timer

Tick ==
  /\ pc = "free" /\ timer = "on"
  /\ EnterLoop(state, "tick")
  /\ UNCHANGED <<state, options, mem, gateVars, forced, noStatus, appVars,
                 chargerVars, lineVars, frames, threadVars>>

(* _init, which forgets everything about the last session; and what it     *)
(* would be without shutting the gate.                                     *)
ForgetState ==
  /\ state' = "Disconnected" /\ options' = FALSE /\ mem' = None
  /\ active' = None /\ forced' = None /\ noStatus' = 0

ForgetSessionKeepingGate == ForgetState /\ UNCHANGED disallow /\ link' = "closed"

ForgetSession == ForgetState /\ disallow' = TRUE /\ link' = "closed"

(* connect_request, from the moment the previous status loop has gone:     *)
(* the last session is forgotten and the first status loop of the new one  *)
(* begins.                                                                 *)
ConnectRequest ==
  /\ pc = "free" /\ alive /\ timer # "dead"
  /\ ForgetSession
  /\ timer' = "never" /\ calm' = TRUE
  /\ EnterLoop("Disconnected", "timer")
  /\ UNCHANGED <<appVars, chargerVars, plugged, leaked, frames, alive>>

(* GLib.timeout_add, the end of connect_request.                           *)
StartTimer ==
  /\ pc = "timer"
  /\ timer' = "on" /\ pc' = "free"
  /\ UNCHANGED <<state, options, mem, gateVars, forced, noStatus, appVars,
                 chargerVars, lineVars, frames, cont, alive>>

-----------------------------------------------------------------------------
(* The status loop.                                                        *)

(* charger.connect: a new port and a new reader thread.  A reader thread   *)
(* that is there already is not stopped, only forgotten.                   *)
Connects ==
  /\ pc = "connect" /\ plugged /\ Len(frames) <= MaxNesting
  /\ options' = TRUE
  /\ link' = "open" /\ leaked' = (leaked \/ link # "closed")
  /\ pc' = "presets"
  /\ UNCHANGED <<state, mem, gateVars, forced, noStatus, appVars, chargerVars,
                 plugged, calm, frames, cont, threadVars>>

(* ConnectFailedException, which status_loop passes over.  A port is       *)
(* closed only if this call opened it, and a forgotten reader thread, which *)
(* read_options still listens to, may sit on a port that is gone.          *)
ConnectFails ==
  /\ pc = "connect"
  /\ ReadFaults \/ ~plugged \/ leaked \/ link # "closed" \/ Len(frames) > MaxNesting
  /\ link' \in {link, IF link = "closed" THEN "closed" ELSE "orphaned"}
  /\ calm' = FALSE
  /\ LeaveLoop
  /\ UNCHANGED <<state, options, mem, gateVars, forced, noStatus, appVars,
                 chargerVars, plugged, leaked, frames, threadVars>>

(* read_presets makes new preset objects: an active preset is left with    *)
(* the values it has.                                                      *)
Freeze ==
  IF active = None THEN None ELSE [active EXCEPT !.frozen = Parallel(active, mem)]

ReadsPresets ==
  /\ pc = "presets" /\ ReadWorks /\ flash # Erased
  /\ mem' = flash
  /\ active' = Freeze
  /\ frames' = <<BadOps(flash)>> \o frames
  /\ pc' = "chem"
  /\ UNCHANGED <<state, options, disallow, forced, noStatus, appVars,
                 chargerVars, lineVars, cont, threadVars>>

(* The presets cannot be read, or their checksums are wrong because they   *)
(* were erased: the state stays Disconnected, the port open.               *)
ReadPresetsFails ==
  /\ pc = "presets" /\ (ReadMayFail \/ flash = Erased)
  /\ calm' = FALSE
  /\ LeaveLoop
  /\ UNCHANGED <<state, options, mem, gateVars, forced, noStatus, appVars,
                 chargerVars, plugged, link, leaked, frames, threadVars>>

(* _check_preset_chemistries, one operation with a wrong preset: the error *)
(* is forced, and _set_forced_error runs a status loop, which starts with  *)
(* another connect because the state is still Disconnected.                *)
CheckChemistry ==
  /\ pc = "chem"
  /\ \E op \in Head(frames) :
       frames' = <<Head(frames) \ {op}>> \o Tail(frames)
  /\ forced' = "badChemistry"
  /\ pc' = LoopEntry(state)
  /\ UNCHANGED <<state, options, mem, gateVars, noStatus, appVars, chargerVars,
                 lineVars, cont, threadVars>>

(* The rest of _charger_connected: the app is told the settings, which     *)
(* takes the charger's options, and the charger counts as connected.       *)
ChargerConnected ==
  /\ pc = "chem" /\ Head(frames) = {} /\ options
  /\ frames' = Tail(frames)
  /\ state' = OnEvent(state, "CONNECTED")
  /\ pc' = "status"
  /\ UNCHANGED <<options, mem, gateVars, forced, noStatus, appVars, chargerVars,
                 lineVars, cont, threadVars>>

(* bump_settings without options: a nested loop has lost the charger.      *)
SettingsFail ==
  /\ pc = "chem" /\ Head(frames) = {} /\ ~options
  /\ Crash
  /\ UNCHANGED <<state, options, mem, gateVars, forced, noStatus, appVars,
                 chargerVars, lineVars>>

(* _update_presets in the idle state gives every configured preset the     *)
(* battery's values.  Had any to be changed, the call of the method        *)
(* can_change_preset, which there is not, raises an exception: the presets *)
(* are never written.                                                      *)
TunedButCount ==
  [s \in Slots |-> IF s \in Configured THEN [mem[s] EXCEPT !.tuned = TRUE] ELSE mem[s]]

Tuned ==
  [s \in Slots |->
     IF s \in Configured THEN [mem[s] EXCEPT !.tuned = TRUE, !.par = count] ELSE mem[s]]

(* A value that was rounded differs from the battery's ever after.         *)
NeedsUpdateInFlash == flash # Tuned \/ ~Exact
NeedsUpdate == mem # Tuned \/ ~Exact

(* check_preset is only concerned when the charger has another preset      *)
(* selected than the active one.                                           *)
PresetDiffers == active = None \/ active.num # chActive

Live(slot) == [num |-> slot, frozen |-> 0]

(* The gate after an answered or a failed command_set_active_preset.       *)
GateClosed(answer) == answer # "ok" \/ ~HasBattery \/ forced # None

CheckPreset(s) ==
  IF ~PresetDiffers
    THEN UNCHANGED <<mem, gateVars, chActive>>
    ELSE IF ~HasBattery \/ s # "Idle"
      THEN disallow' = TRUE /\ UNCHANGED <<mem, active, chActive>>
      ELSE /\ mem' = Tuned
           /\ IF NeedsUpdate
                THEN disallow' = TRUE /\ UNCHANGED <<active, chActive>>
                ELSE \E answer \in Answers :
                       /\ active' = Live(PresetOf[selOp])
                       /\ chActive' = IF Done(answer) THEN PresetOf[selOp] ELSE chActive
                       /\ disallow' = GateClosed(answer)

(* A status record: the state follows it and the preset is checked.  The   *)
(* ENTER sent on the way into HaltForSafety lets a halted job go on.       *)
StatusRead ==
  /\ pc = "status" /\ ReadWorks
  /\ noStatus' = 0
  /\ \E r \in Readings : state' = OnEvent(state, EventOf(Forced(r)))
  /\ CheckPreset(state')
  /\ LeaveLoop
  /\ UNCHANGED <<options, forced, appVars, flash, job, lineVars, frames, threadVars>>

LastFailureTooLate == noStatus + 1 > NoStatusLimit
LastFailure == noStatus + 1 >= NoStatusLimit

(* No status record; the last of NoStatusLimit in a row ends the link.     *)
StatusFails ==
  /\ pc = "status" /\ ReadMayFail
  /\ IF ~LastFailure
       THEN /\ noStatus' = noStatus + 1
            /\ UNCHANGED <<state, options, link>>
       ELSE /\ noStatus' = 0
            /\ options' = FALSE
            /\ link' = "closed"
            /\ state' = OnEvent(state, "DISCONNECTED")
  /\ calm' = FALSE
  /\ LeaveLoop
  /\ UNCHANGED <<mem, gateVars, forced, appVars, chargerVars, plugged, leaked,
                 frames, threadVars>>

-----------------------------------------------------------------------------
(* The commands of the app.  Only a session that has begun sends them.     *)
MayHandle == pc = "free" /\ alive /\ timer # "never"

(* _set_forced_error, and what the handler does after it.                  *)
Refuse(code, c) ==
  /\ forced' = code
  /\ EnterLoop(state, c)
  /\ UNCHANGED <<state, options, mem, gateVars, noStatus, appVars, chargerVars,
                 lineVars, frames, threadVars>>

(* charger_settings, the last thing two handlers do: it takes the          *)
(* charger's options, and raises an exception without them.                *)
SendSettings ==
  /\ pc = "settings"
  /\ IF HasBattery /\ ~options
       THEN Crash
       ELSE pc' = "free" /\ UNCHANGED <<frames, cont, threadVars>>
  /\ UNCHANGED <<state, options, mem, gateVars, forced, noStatus, appVars,
                 chargerVars, lineVars>>

(* Why operation_start, monitor and selected_operation refuse, in the      *)
(* order they ask; the checks that cannot fail behind these are left out.  *)
RefusalWhenShut == IF disallow THEN "notAllowed" ELSE None

Refusal ==
  IF disallow THEN "notAllowed" ELSE IF state # "Idle" THEN "notIdle" ELSE None

SelectionRefusal(op) ==
  IF Refusal # None THEN Refusal ELSE IF op = Analyze THEN "notAllowed" ELSE None

ManualOperation == MayHandle /\ Refuse("notAllowed", "handler")

RefuseStart == MayHandle /\ Refusal # None /\ Refuse(Refusal, "handler")

(* operation_start and monitor: the charger runs the preset it has         *)
(* selected.                                                               *)
OperationStart ==
  /\ MayHandle /\ Refusal = None
  /\ \E answer \in Answers : job' = IF Done(answer) THEN chActive ELSE job
  /\ UNCHANGED <<state, options, mem, gateVars, forced, noStatus, appVars, flash,
                 chActive, lineVars, pc, frames, cont, threadVars>>

(* An ENTER to end what the charger does or shows, and only if it was      *)
(* answered the event and a status loop.                                   *)
EnterAnd(event) ==
  /\ \E answer \in Answers :
       /\ job' = IF Done(answer) THEN None ELSE job
       /\ IF answer = "ok"
            THEN state' = OnEvent(state, event) /\ EnterLoop(state', "handler")
            ELSE UNCHANGED <<state, pc, cont>>
  /\ UNCHANGED <<options, mem, gateVars, forced, noStatus, appVars, flash, chActive,
                 lineVars, frames, threadVars>>

OperationStop == MayHandle /\ EnterAnd("STOP")

Dismiss == MayHandle /\ EnterAnd("DISMISS")

(* clear_error clears a forced error, unless it is the one about the       *)
(* chemistry, and dismisses; the charger gets an ENTER for its own errors. *)
NotClearable == {"badChemistry"}

ClearedForced == IF forced \in NotClearable THEN forced ELSE None

ClearError ==
  /\ MayHandle
  /\ IF forced = None
       THEN EnterAnd("DISMISS")
       ELSE /\ forced' = ClearedForced
            /\ state' = OnEvent(state, "DISMISS")
            /\ EnterLoop(state', "handler")
            /\ UNCHANGED <<options, mem, gateVars, noStatus, appVars, chargerVars,
                           lineVars, frames, threadVars>>

(* selected_operation.  The new preset becomes the active one only if the  *)
(* charger said it has selected it.                                        *)
RefuseSelection(op) ==
  /\ MayHandle /\ SelectionRefusal(op) # None
  /\ Refuse(SelectionRefusal(op), "settings")

AdoptAnyway(op, answer) == selOp' = op /\ active' = Live(PresetOf[op])

AdoptHalf(op, answer) ==
  selOp' = op /\ active' = IF answer = "ok" THEN Live(PresetOf[op]) ELSE active

Adopt(op, answer) ==
  IF answer = "ok"
    THEN selOp' = op /\ active' = Live(PresetOf[op])
    ELSE UNCHANGED <<selOp, active>>

SelectOperation(op) ==
  /\ MayHandle /\ SelectionRefusal(op) = None
  /\ IF op \in Unmapped
       THEN Crash /\ calm' = FALSE /\ UNCHANGED <<active, selOp, chActive>>
       ELSE /\ \E answer \in Answers :
                 /\ chActive' = IF Done(answer) THEN PresetOf[op] ELSE chActive
                 /\ Adopt(op, answer)
                 /\ calm' = (calm /\ answer # "lost")
            /\ pc' = "settings" /\ UNCHANGED <<frames, cont, threadVars>>
  /\ UNCHANGED <<state, options, mem, disallow, forced, noStatus, count, flash, job,
                 plugged, link, leaked>>

(* set_battery_group_count.                                                *)
RefuseCount ==
  MayHandle /\ state # "Idle" /\ Refuse("notIdle", "settings")

(* update_preset_counts.                                                   *)
WithCountOfOne(n) ==
  [s \in Slots |-> IF s = chActive THEN [mem[s] EXCEPT !.par = n] ELSE mem[s]]

WithCount(n) ==
  [s \in Slots |-> IF s \in Configured THEN [mem[s] EXCEPT !.par = n] ELSE mem[s]]

(* write_presets erases the memory first: when it fails the charger may    *)
(* have the old presets, none, or the new ones with the answer lost.       *)
Written(answer, new) ==
  IF Done(answer) THEN {new} ELSE {flash} \cup (IF ReadWorks THEN {Erased} ELSE {})

(* Whether the count is taken over.                                        *)
StoredAnyway(answer) == TRUE
Stored(answer) == answer = "ok"

(* No battery, or a count no preset can hold: an exception.                *)
CountFails(n) == ~HasBattery \/ (n # count /\ n \notin 1..MaxParallel)

SetBatteryGroupCount(n) ==
  /\ MayHandle /\ state = "Idle" /\ ~CountFails(n)
  /\ \/ /\ n = count
        /\ pc' = "settings"
        /\ UNCHANGED <<mem, count, flash, frames, cont, threadVars>>
     \/ /\ n # count
        /\ \E answer \in Answers :
             /\ flash' \in Written(answer, WithCount(n))
             /\ IF Stored(answer)
                  THEN /\ mem' = WithCount(n) /\ count' = n
                       /\ IF active # None /\ Parallel(active, WithCount(n)) # n
                            THEN Crash   \* assert battery_count == num_parallel
                            ELSE pc' = "settings" /\ UNCHANGED <<frames, cont, threadVars>>
                  ELSE /\ mem' = WithCount(count)
                       /\ pc' = "settings" /\ UNCHANGED <<count, frames, cont, threadVars>>
  /\ UNCHANGED <<state, options, gateVars, forced, noStatus, selOp, chActive, job,
                 lineVars>>

CountRequestFails(n) ==
  /\ MayHandle /\ state = "Idle" /\ CountFails(n)
  /\ calm' = FALSE
  /\ Crash
  /\ UNCHANGED <<state, options, mem, gateVars, forced, noStatus, appVars,
                 chargerVars, plugged, link, leaked>>

-----------------------------------------------------------------------------
(* The world outside.                                                      *)
outside == <<state, options, mem, gateVars, forced, noStatus, appVars, flash,
             link, leaked, pc, frames, cont, threadVars>>

SwitchCharger ==
  /\ MayUnplug
  /\ plugged' = ~plugged /\ calm' = FALSE
  /\ UNCHANGED <<outside, chActive, job>>

SelectOnPanel ==
  /\ PanelUser /\ plugged
  /\ \E s \in Slots : chActive' = s
  /\ calm' = FALSE
  /\ UNCHANGED <<outside, job, plugged>>

JobEnds ==
  /\ job' = None
  /\ UNCHANGED <<outside, chActive, plugged, calm>>

-----------------------------------------------------------------------------
Init ==
  /\ state = "Disconnected" /\ options = FALSE /\ mem = None /\ active = None
  /\ forced = None /\ disallow = TRUE /\ noStatus = 0
  /\ count \in 1..MaxParallel
  /\ selOp \in IF HasBattery THEN Selectable ELSE {None}
  /\ flash \in Memory /\ (\A s \in Slots \ OddSlots : ~flash[s].odd)
  /\ chActive \in Slots /\ job = None
  /\ plugged = TRUE /\ link = "closed" /\ leaked = FALSE
  /\ pc = "free" /\ frames = <<>> /\ cont = "handler"
  /\ timer = "never" /\ alive = TRUE /\ calm = TRUE

StatusLoopStep ==
  \/ Connects \/ ConnectFails \/ ReadsPresets \/ ReadPresetsFails
  \/ CheckChemistry \/ ChargerConnected \/ SettingsFail
  \/ StatusRead \/ StatusFails

Handler ==
  \/ ManualOperation \/ RefuseStart \/ OperationStart
  \/ OperationStop \/ Dismiss \/ ClearError
  \/ \E op \in Ops : RefuseSelection(op)
  \/ \E op \in Ops \cup Unmapped : SelectOperation(op)
  \/ RefuseCount
  \/ \E n \in CountRequests : SetBatteryGroupCount(n)
  \/ \E n \in CountRequests : CountRequestFails(n)

Environment == SwitchCharger \/ SelectOnPanel \/ JobEnds

Next ==
  \/ Tick \/ ConnectRequest \/ StartTimer \/ SendSettings
  \/ StatusLoopStep \/ Handler \/ Environment

Spec == Init /\ [][Next]_vars

(* What the code does with the lock held it goes through with, and the     *)
(* main loop's timer gets the lock again and again: the message thread     *)
(* holds it for one command at a time.                                     *)
Fairness ==
  /\ WF_vars(StatusLoopStep) /\ WF_vars(SendSettings) /\ WF_vars(StartTimer)
  /\ SF_vars(Tick)

FairSpec == Spec /\ Fairness

-----------------------------------------------------------------------------
(* Safety.                                                                 *)

(* Whatever the link went through, a state other than Disconnected comes   *)
(* with the options and presets its handlers take for granted              *)
(* (charger_settings, _update_presets, set_battery_group_count).           *)
ConnectedHasData == state # "Disconnected" => options /\ mem # None

(* The preset made active is the one of the selected operation: through    *)
(* selections that fail, reconnects and status loops in between.           *)
ActiveFollowsSelection == active # None => active.num = PresetOf[selOp]

(* The assertions of operation_start and monitor: with the gate open there *)
(* is a battery and an active preset.                                      *)
GateHasPreset == ~disallow => HasBattery /\ active # None

(* The battery count is only taken over when the charger has every mapped  *)
(* preset stored with it; a write that fails or whose answer is lost       *)
(* leaves it (set_battery_group_count).                                    *)
CountIsStored ==
  [][count' # count =>
       (flash' # Erased /\ (\A s \in Configured : flash'[s].par = count'))]_vars

(* An outcome on the display is dismissed by the user or lost with the     *)
(* charger or the session; a status loop, which is what runs while the     *)
(* lock is taken, never clears it.                                         *)
OutcomeIsKept ==
  [][(state \in Outcomes /\ state' \notin Outcomes) =>
       (pc = "free" \/ state' = "Disconnected")]_vars

(* What the charger is told to run: a job begins.                          *)
JobStarts == job # job' /\ job' # None

(* As long as nothing has gone wrong in the session the charger runs the   *)
(* preset of the operation that is selected in the app, and not one        *)
(* selected before or after.                                               *)
RunsSelectedPreset == [][(calm /\ JobStarts) => job' = PresetOf[selOp]]_vars

(* Likewise, an open gate means the presets in memory have the battery's   *)
(* values and its count (_update_presets, set_battery_group_count).        *)
GateMeansTuned ==
  (calm /\ ~disallow) => \A s \in Configured : mem[s].tuned /\ mem[s].par = count

(* No command takes a thread down in a session in which nothing has gone   *)
(* wrong, refused commands and failed writes of the presets included: the  *)
(* settings a command answers with are there.                              *)
ThreadsSurvive == calm => alive /\ timer # "dead"

(* And what does, whatever goes wrong.  The timer ends only where a nested *)
(* status loop has lost the charger while a chemistry error was reported.  *)
(* The message thread ends only with a lost charger, whose settings cannot *)
(* be sent, by a count that is stored while the active preset is still one *)
(* read over an earlier connection, or by a command that asks for an       *)
(* operation or a count there cannot be.                                   *)
ImpossibleRequest ==
  \/ \E op \in Unmapped : SelectOperation(op)
  \/ \E n \in CountRequests : CountRequestFails(n)

ThreadsEndByLoss ==
  [][/\ (timer # "dead" /\ timer' = "dead") =>
          ~options /\ state = "Disconnected" /\ forced = "badChemistry"
     /\ (alive /\ ~alive') =>
          \/ ~options /\ state = "Disconnected"
          \/ active # None /\ active.frozen # 0
          \/ ImpossibleRequest]_vars

(* "assert self._battery_group.battery_count ==                            *)
(* self._active_preset.num_parallel" (set_battery_group_count): a count    *)
(* that is taken over is the active preset's.                              *)
CountMatchesActive ==
  [][(count' # count /\ active # None) => Parallel(active', mem') = count']_vars

(* "Don't allow any operations until we've done error checking and set     *)
(* everything up properly": the charger is told to run a preset that it    *)
(* has stored with the battery's values.                                   *)
RunsStoredPreset ==
  [][JobStarts => (flash # Erased /\ flash[job'].tuned /\ flash[job'].par = count)]_vars

(* The charger is not told to run a preset for another chemistry.          *)
RunsRightChemistry == [][(JobStarts /\ flash # Erased) => ~flash[job'].odd]_vars

-----------------------------------------------------------------------------
(* Refinement: the promise of OperationGate.                               *)
PhaseOf(s) ==
  CASE s = "Disconnected" -> "offline"
    [] s = "Idle" -> "ready"
    [] s \in Outcomes -> "ended"
    [] OTHER -> "running"

Gate == INSTANCE OperationGate WITH
          phase <- PhaseOf(state), permit <- ~disallow, running <- (job # None)

ImplementsGate == Gate!Spec

-----------------------------------------------------------------------------
(* Liveness.                                                               *)

(* No attempt to connect starts from an open port.                         *)
ConnectsAfterClose == [](pc = "connect" => link = "closed")

(* A charger that stays plugged in is connected in the end and stays so,   *)
(* whatever the app sends and however often it was unplugged before,       *)
(* provided attempts to connect start from a closed port.                  *)
LinkComesUp ==
  (ConnectsAfterClose /\ <>[](plugged /\ timer = "on")) => <>[](state # "Disconnected")

(* An idle charger without a forced error is ready for operations: the     *)
(* gate a session begins with shut opens, once the presets are up to date; *)
(* and one that is open with such presets is found open again and again,   *)
(* with the active preset selected, whatever is selected on the panel or   *)
(* by a selection whose answer got lost.                                   *)
GateOpens ==
  ConnectsAfterClose =>
    []((/\ [](plugged /\ timer = "on" /\ state = "Idle" /\ forced = None)
        /\ active = None \/ (~disallow /\ ~NeedsUpdate)) =>
          []<>(~disallow /\ ~PresetDiffers))
=============================================================================
