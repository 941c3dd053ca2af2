--------------------------- MODULE EmulatorProofs ---------------------------
(***************************************************************************)
(* Proofs about module Emulator, for every configuration, fault and bound. *)
(* The first part is about its states: type correctness, and that a        *)
(* connected emulator has the data its handlers use and an open gate the   *)
(* preset it is for.  The second is about single steps: that they          *)
(* implement OperationGate, when the battery count changes, when an        *)
(* outcome leaves the display, and what ends a thread.  The third is about *)
(* sessions in which nothing has gone wrong: no command takes a thread     *)
(* down, an open gate means tuned presets and the selected operation's     *)
(* preset, which is the one that is run.                                   *)
(***************************************************************************)
EXTENDS Emulator, TLAPS

(* What holds at the steps of a status loop: preset checks are only        *)
(* suspended inside one, presets have been read when one is,               *)
(* and only a connected emulator reads the status.                         *)
ControlOK ==
  /\ pc = "chem" => frames # <<>>
  /\ pc \in {"free", "settings", "timer"} => frames = <<>>
  /\ frames # <<>> => mem # None
  /\ pc = "presets" => options
  /\ pc = "status" => state # "Disconnected"
  /\ active # None => mem # None

IInv ==
  /\ TypeOK
  /\ ControlOK
  /\ ConnectedHasData
  /\ ActiveFollowsSelection
  /\ GateHasPreset

-----------------------------------------------------------------------------
(* The table of the state machine.                                         *)

(* on_event returns a state whatever the event.                            *)
LEMMA OnEventType ==
  ASSUME NEW s \in States, NEW e \in Events
  PROVE  OnEvent(s, e) \in States
BY DEF OnEvent, Accepts, Lines, LiveStates, Outcomes, Target, States, Events, EndEvents

(* Every status record stands for some event.                              *)
LEMMA EventOfType ==
  ASSUME NEW r, r.mode \in Nat, r.complete \in BOOLEAN
  PROVE  EventOf(r) \in Events \ {"CONNECTED", "DISCONNECTED"}
BY DEF EventOf, Events, DETECTING_PACK, TRICKLE_CHARGING, DISCHARGING, MONITORING,
       HALT_FOR_SAFETY, ERROR

(* Every state but Disconnected itself listens to DISCONNECTED.            *)
LEMMA DisconnectedEvent ==
  ASSUME NEW s \in States
  PROVE  OnEvent(s, "DISCONNECTED") = "Disconnected"
BY DEF OnEvent, Accepts, Lines, LiveStates, Outcomes, Target, States, Events, EndEvents

(* CONNECTED leaves the state Disconnected.                                *)
LEMMA ConnectedEvent ==
  ASSUME NEW s \in States
  PROVE  OnEvent(s, "CONNECTED") \in States \ {"Disconnected"}
BY DEF OnEvent, Accepts, Lines, LiveStates, Outcomes, Target, States, Events, EndEvents

(* No other event leads to the state Disconnected or out of it.            *)
LEMMA OtherEvent ==
  ASSUME NEW s \in States, NEW e \in Events \ {"CONNECTED", "DISCONNECTED"}
  PROVE  (OnEvent(s, e) = "Disconnected") <=> (s = "Disconnected")
BY DEF OnEvent, Accepts, Lines, LiveStates, Outcomes, Target, States, Events, EndEvents

-----------------------------------------------------------------------------
(* The presets.                                                            *)

(* Changed presets, and an erased or rewritten memory, are memories.       *)
LEMMA MemoryType ==
  ASSUME mem \in Memory
  PROVE  /\ count \in 1..MaxParallel => Tuned \in Memory
         /\ \A n \in 1..MaxParallel : WithCount(n) \in Memory
BY DEF Tuned, WithCount, Memory, PresetData

(* An active preset keeps its number when the presets are read again.      *)
LEMMA FreezeType ==
  ASSUME mem \in Memory \cup {None}, active \in ActivePresets \cup {None},
         active # None => mem # None
  PROVE  /\ Freeze \in ActivePresets \cup {None}
         /\ Freeze = None <=> active = None
         /\ active # None => Freeze.num = active.num
<1>1. CASE active = None
  BY <1>1 DEF Freeze
<1>2. CASE active # None
  <2>1. active \in ActivePresets /\ mem \in Memory
    BY <1>2
  <2>2. Parallel(active, mem) \in 0..MaxParallel
    BY <2>1, BoundsAssumption DEF Parallel, ActivePresets, Memory, PresetData
  <2>3. Freeze = [active EXCEPT !.frozen = Parallel(active, mem)]
    BY <1>2 DEF Freeze
  <2>4. Freeze \in ActivePresets /\ Freeze.num = active.num
    BY <2>1, <2>2, <2>3 DEF ActivePresets
  <2>. QED
    BY <1>2, <2>4, NoneAssumption
<1>. QED
  BY <1>1, <1>2

(* The preset of a supported operation is a live active preset.            *)
LEMMA LiveType ==
  ASSUME NEW op \in Ops
  PROVE  /\ Live(PresetOf[op]) \in ActivePresets
         /\ Live(PresetOf[op]) # None
         /\ Live(PresetOf[op]).num = PresetOf[op]
<1>1. PresetOf[op] \in Slots
  BY ConfigurationAssumption
<1>2. Live(PresetOf[op]) \in ActivePresets
  BY <1>1, BoundsAssumption DEF Live, ActivePresets
<1>3. Live(PresetOf[op]).num = PresetOf[op]
  BY DEF Live
<1>. QED
  BY <1>2, <1>3, NoneAssumption

(* No preset check is suspended.                                           *)
LEMMA NoFrames == <<>> \in Seq(SUBSET Ops)
<1>. DEFINE S == SUBSET Ops
<1>1. <<>> \in Seq(S)
  <2>. HIDE DEF S
  <2>. QED OBVIOUS
<1>. QED
  BY <1>1

(* The control part of returning from a status loop and of an exception.   *)
LEMMA LeaveLoopControl ==
  ASSUME TypeOK, LeaveLoop
  PROVE  /\ pc' \in {"free", "chem", "settings", "timer"}
         /\ cont' \in {"handler", "tick", "settings", "timer"}
         /\ (pc' = "chem") <=> (frames # <<>>)
BY DEF LeaveLoop, TypeOK

LEMMA CrashControl ==
  ASSUME TypeOK, Crash
  PROVE  /\ pc' = "free" /\ frames' = <<>> /\ frames' \in Seq(SUBSET Ops)
         /\ cont' \in {"handler", "tick", "settings", "timer"}
         /\ timer' \in {"never", "on", "dead"} /\ alive' \in BOOLEAN
BY NoFrames DEF Crash, TypeOK

(* The events a status can stand for, a forced error's included.           *)
LEMMA ForcedEvent ==
  ASSUME NEW r \in Readings
  PROVE  EventOf(Forced(r)) \in Events \ {"CONNECTED", "DISCONNECTED"}
<1>1. r.mode \in Nat /\ r.complete \in BOOLEAN
  BY EnvironmentAssumption
<1>2. CASE forced # None
  <2>1. /\ Reading(ERROR, r.complete).mode \in Nat
        /\ Reading(ERROR, r.complete).complete \in BOOLEAN
    BY <1>1 DEF Reading, ERROR
  <2>. QED
    BY <1>2, <2>1, EventOfType DEF Forced
<1>3. CASE forced = None
  BY <1>1, <1>3, EventOfType DEF Forced
<1>. QED
  BY <1>2, <1>3

(* An operation rejected, and a finished preset check.                     *)
LEMMA RejectedFrames ==
  ASSUME NEW fs \in Seq(SUBSET Ops), fs # <<>>
  PROVE  /\ Tail(fs) \in Seq(SUBSET Ops)
         /\ \A op : /\ <<Head(fs) \ {op}>> \o Tail(fs) \in Seq(SUBSET Ops)
                   /\ <<Head(fs) \ {op}>> \o Tail(fs) # <<>>
<1>. DEFINE S == SUBSET Ops
<1>1. Tail(fs) \in Seq(S) /\ Head(fs) \in S
  <2>. HIDE DEF S
  <2>1. fs \in Seq(S)
    BY DEF S
  <2>. QED
    BY <2>1
<1>2. \A op : Head(fs) \ {op} \in S
  BY <1>1
<1>3. \A x \in S : <<x>> \o Tail(fs) \in Seq(S) /\ <<x>> \o Tail(fs) # <<>>
  <2>. HIDE DEF S
  <2>. QED
    BY <1>1
<1>. QED
  BY <1>1, <1>2, <1>3

(* What check_preset does to the presets, the active one and the gate.     *)
LEMMA CheckPresetEffect ==
  ASSUME TypeOK, ActiveFollowsSelection, GateHasPreset, mem # None,
         NEW s \in States, CheckPreset(s), UNCHANGED <<selOp, count>>
  PROVE  /\ mem' \in Memory /\ mem' # None
         /\ active' \in ActivePresets \cup {None} /\ disallow' \in BOOLEAN
         /\ chActive' \in Slots
         /\ active' # None => active'.num = PresetOf[selOp]
         /\ ~disallow' => HasBattery /\ active' # None
<1>1. mem \in Memory /\ count \in 1..MaxParallel /\ chActive \in Slots
  BY DEF TypeOK
<1>2. Tuned \in Memory /\ Tuned # None
  BY <1>1, MemoryType, NoneAssumption
<1>3. CASE ~PresetDiffers
  BY <1>1, <1>3 DEF CheckPreset, gateVars, TypeOK, ActiveFollowsSelection, GateHasPreset
<1>4. CASE PresetDiffers /\ (~HasBattery \/ s # "Idle")
  BY <1>1, <1>4 DEF CheckPreset, TypeOK, ActiveFollowsSelection
<1>5. CASE PresetDiffers /\ HasBattery /\ s = "Idle"
  <2>1. CASE NeedsUpdate
    BY <1>1, <1>2, <1>5, <2>1 DEF CheckPreset, TypeOK, ActiveFollowsSelection
  <2>2. CASE ~NeedsUpdate
    <3>1. selOp \in Ops
      BY <1>5 DEF TypeOK, Selectable
    <3>2. PICK answer \in Answers :
            /\ active' = Live(PresetOf[selOp])
            /\ chActive' = IF Done(answer) THEN PresetOf[selOp] ELSE chActive
            /\ disallow' = GateClosed(answer)
      BY <1>5, <2>2 DEF CheckPreset
    <3>3. chActive' \in Slots
      BY <1>1, <3>1, <3>2, ConfigurationAssumption
    <3>4. disallow' \in BOOLEAN
      BY <3>2 DEF GateClosed
    <3>5. mem' = Tuned
      BY <1>5, <2>2 DEF CheckPreset
    <3>. QED
      BY <1>2, <1>5, <3>1, <3>2, <3>3, <3>4, <3>5, LiveType
  <2>. QED
    BY <2>1, <2>2
<1>. QED
  BY <1>3, <1>4, <1>5

-----------------------------------------------------------------------------
(* The invariant is inductive: one lemma for the initial states, one for   *)
(* each group of actions.                                                  *)
LEMMA InitInvariant == Init => IInv
<1>. SUFFICES ASSUME Init PROVE IInv
  OBVIOUS
<1>1. 0 \in 0..(NoStatusLimit - 1)
  BY BoundsAssumption
<1>2. frames \in Seq(SUBSET Ops)
  BY NoFrames DEF Init
<1>3. TypeOK
  BY <1>1, <1>2 DEF Init, TypeOK, States
<1>. QED
  BY <1>3 DEF Init, IInv, ControlOK, ConnectedHasData, ActiveFollowsSelection, GateHasPreset

LEMMA ControlInvariant ==
  ASSUME IInv, Tick \/ ConnectRequest \/ StartTimer \/ SendSettings
  PROVE  IInv'
<1>. USE DEF gateVars, appVars, chargerVars, lineVars, threadVars
<1>1. CASE Tick
  BY <1>1 DEF Tick, EnterLoop, LoopEntry, IInv, TypeOK,
      ControlOK, ConnectedHasData, ActiveFollowsSelection, GateHasPreset
<1>2. CASE ConnectRequest
  <2>1. 0 \in 0..(NoStatusLimit - 1)
    BY BoundsAssumption
  <2>2. frames = <<>>
    BY <1>2 DEF ConnectRequest, IInv, ControlOK
  <2>. QED
    BY <1>2, <2>1, <2>2
    DEF ConnectRequest, ForgetSession, ForgetState, EnterLoop, LoopEntry, States, IInv, TypeOK,
      ControlOK, ConnectedHasData, ActiveFollowsSelection, GateHasPreset
<1>3. CASE StartTimer
  BY <1>3 DEF StartTimer, IInv, TypeOK,
      ControlOK, ConnectedHasData, ActiveFollowsSelection, GateHasPreset
<1>4. CASE SendSettings
  <2>1. CASE Crash
    BY <1>4, <2>1, CrashControl DEF SendSettings, IInv, TypeOK,
      ControlOK, ConnectedHasData, ActiveFollowsSelection, GateHasPreset
  <2>2. CASE pc' = "free" /\ UNCHANGED <<frames, cont, threadVars>>
    BY <1>4, <2>2 DEF SendSettings, IInv, TypeOK,
      ControlOK, ConnectedHasData, ActiveFollowsSelection, GateHasPreset
  <2>. QED
    BY <1>4, <2>1, <2>2 DEF SendSettings
<1>. QED
  BY <1>1, <1>2, <1>3, <1>4

LEMMA ConnectingInvariant ==
  ASSUME IInv, Connects \/ ConnectFails \/ ReadsPresets \/ ReadPresetsFails
  PROVE  IInv'
<1>. USE DEF gateVars, appVars, chargerVars, lineVars, threadVars
<1>1. CASE Connects
  BY <1>1 DEF Connects, IInv, TypeOK,
      ControlOK, ConnectedHasData, ActiveFollowsSelection, GateHasPreset
<1>2. CASE ConnectFails
  <2>1. calm' \in BOOLEAN
    BY <1>2 DEF ConnectFails
  <2>. QED
    BY <1>2, <2>1, LeaveLoopControl DEF ConnectFails, IInv, TypeOK,
      ControlOK, ConnectedHasData, ActiveFollowsSelection, GateHasPreset
<1>3. CASE ReadsPresets
  <2>1. Freeze \in ActivePresets \cup {None} /\ (Freeze = None <=> active = None)
        /\ (active # None => Freeze.num = active.num)
    BY FreezeType DEF IInv, TypeOK,
      ControlOK, ConnectedHasData, ActiveFollowsSelection, GateHasPreset
  <2>2. flash \in Memory /\ flash # None
    BY <1>3, NoneAssumption DEF ReadsPresets, IInv, TypeOK
  <2>3. frames' \in Seq(SUBSET Ops) /\ frames' # <<>>
    BY <1>3 DEF ReadsPresets, BadOps, IInv, TypeOK
  <2>. QED
    BY <1>3, <2>1, <2>2, <2>3 DEF ReadsPresets, IInv, TypeOK,
      ControlOK, ConnectedHasData, ActiveFollowsSelection, GateHasPreset
<1>4. CASE ReadPresetsFails
  <2>1. calm' \in BOOLEAN
    BY <1>4 DEF ReadPresetsFails
  <2>. QED
    BY <1>4, <2>1, LeaveLoopControl DEF ReadPresetsFails, IInv, TypeOK,
      ControlOK, ConnectedHasData, ActiveFollowsSelection, GateHasPreset
<1>. QED
  BY <1>1, <1>2, <1>3, <1>4

LEMMA ChemistryInvariant ==
  ASSUME IInv, CheckChemistry \/ ChargerConnected \/ SettingsFail
  PROVE  IInv'
<1>. USE DEF gateVars, appVars, chargerVars, lineVars, threadVars
<1>1. CASE CheckChemistry
  <2>1. frames \in Seq(SUBSET Ops) /\ frames # <<>>
    BY <1>1 DEF CheckChemistry, IInv, TypeOK, ControlOK
  <2>2. frames' \in Seq(SUBSET Ops) /\ frames' # <<>>
    BY <1>1, <2>1, RejectedFrames DEF CheckChemistry
  <2>. QED
    BY <1>1, <2>1, <2>2 DEF CheckChemistry, LoopEntry, ErrorCodes, IInv, TypeOK,
      ControlOK, ConnectedHasData, ActiveFollowsSelection, GateHasPreset
<1>2. CASE ChargerConnected
  <2>1. frames \in Seq(SUBSET Ops) /\ frames # <<>>
    BY <1>2 DEF ChargerConnected, IInv, TypeOK, ControlOK
  <2>2. Tail(frames) \in Seq(SUBSET Ops)
    BY <2>1, RejectedFrames
  <2>3. state' \in States /\ state' # "Disconnected"
    BY <1>2, ConnectedEvent DEF ChargerConnected, IInv, TypeOK
  <2>. QED
    BY <1>2, <2>1, <2>2, <2>3 DEF ChargerConnected, IInv, TypeOK,
      ControlOK, ConnectedHasData, ActiveFollowsSelection, GateHasPreset
<1>3. CASE SettingsFail
  BY <1>3, CrashControl DEF SettingsFail, IInv, TypeOK,
      ControlOK, ConnectedHasData, ActiveFollowsSelection, GateHasPreset
<1>. QED
  BY <1>1, <1>2, <1>3

LEMMA StatusInvariant ==
  ASSUME IInv, StatusRead \/ StatusFails
  PROVE  IInv'
<1>. USE DEF gateVars, appVars, chargerVars, lineVars, threadVars
<1>0. 0 \in 0..(NoStatusLimit - 1)
  BY BoundsAssumption
<1>1. CASE StatusRead
  <2>1. state \in States /\ state # "Disconnected"
    BY <1>1 DEF StatusRead, IInv, TypeOK, ControlOK
  <2>2. options /\ mem # None /\ mem \in Memory /\ count \in 1..MaxParallel
    BY <2>1 DEF IInv, TypeOK, ConnectedHasData
  <2>3. state' \in States /\ state' # "Disconnected"
    <3>1. PICK r \in Readings : state' = OnEvent(state, EventOf(Forced(r)))
      BY <1>1 DEF StatusRead
    <3>2. EventOf(Forced(r)) \in Events \ {"CONNECTED", "DISCONNECTED"}
      BY <3>1, ForcedEvent
    <3>. QED
      BY <2>1, <3>1, <3>2, OtherEvent, OnEventType
  <2>4. /\ mem' \in Memory /\ mem' # None
        /\ active' \in ActivePresets \cup {None} /\ disallow' \in BOOLEAN
        /\ chActive' \in Slots
        /\ active' # None => active'.num = PresetOf[selOp]
        /\ ~disallow' => HasBattery /\ active' # None
    <3>1. CheckPreset(state') /\ UNCHANGED <<selOp, count>>
      BY <1>1 DEF StatusRead
    <3>2. TypeOK /\ ActiveFollowsSelection /\ GateHasPreset
      BY DEF IInv
    <3>. QED
      BY <2>2, <2>3, <3>1, <3>2, CheckPresetEffect
  <2>. QED
    BY <1>0, <1>1, <2>2, <2>3, <2>4, LeaveLoopControl DEF StatusRead, IInv, TypeOK,
      ControlOK, ConnectedHasData, ActiveFollowsSelection, GateHasPreset
<1>2. CASE StatusFails
  <2>1. /\ noStatus' \in 0..(NoStatusLimit - 1)
        /\ state' \in States /\ options' \in BOOLEAN
        /\ link' \in {"open", "closed", "orphaned"}
        /\ state' # "Disconnected" => state' = state /\ options' = options
    <3>1. CASE ~LastFailure
      BY <1>2, <3>1, BoundsAssumption DEF StatusFails, LastFailure, IInv, TypeOK
    <3>2. CASE LastFailure
      BY <1>0, <1>2, <3>2, DisconnectedEvent DEF StatusFails, IInv, TypeOK, States
    <3>. QED
      BY <3>1, <3>2
  <2>2. /\ LeaveLoop
        /\ UNCHANGED <<mem, gateVars, forced, appVars, chargerVars, plugged, leaked,
                       frames, threadVars>>
    BY <1>2 DEF StatusFails
  <2>3. calm' \in BOOLEAN
    BY <1>2 DEF StatusFails
  <2>. QED
    BY <2>1, <2>2, <2>3, LeaveLoopControl DEF IInv, TypeOK,
      ControlOK, ConnectedHasData, ActiveFollowsSelection, GateHasPreset
<1>. QED
  BY <1>1, <1>2

LEMMA RefusalInvariant ==
  ASSUME IInv, MayHandle, NEW code \in ErrorCodes, NEW c \in {"handler", "settings"},
         Refuse(code, c)
  PROVE  IInv'
<1>. USE DEF gateVars, appVars, chargerVars, lineVars, threadVars
<1>. QED
  BY DEF Refuse, MayHandle, EnterLoop, LoopEntry, IInv, TypeOK,
      ControlOK, ConnectedHasData, ActiveFollowsSelection, GateHasPreset

LEMMA EnterInvariant ==
  ASSUME IInv, MayHandle, NEW e \in {"STOP", "DISMISS"}, EnterAnd(e)
  PROVE  IInv'
<1>. USE DEF gateVars, appVars, chargerVars, lineVars, threadVars
<1>1. state \in States /\ pc = "free" /\ frames = <<>> /\ job \in Slots \cup {None}
  BY DEF MayHandle, IInv, TypeOK, ControlOK
<1>2. job' \in Slots \cup {None}
  BY <1>1 DEF EnterAnd
<1>3. /\ state' \in States /\ (state' = "Disconnected" <=> state = "Disconnected")
      /\ pc' \in {"free", "connect", "status"} /\ cont' \in {"handler", cont}
      /\ pc' = "status" => state' # "Disconnected"
  <2>1. /\ OnEvent(state, e) \in States
        /\ OnEvent(state, e) = "Disconnected" <=> state = "Disconnected"
    BY <1>1, OnEventType, OtherEvent DEF Events
  <2>. QED
    BY <1>1, <2>1 DEF EnterAnd, EnterLoop, LoopEntry
<1>4. UNCHANGED <<options, mem, gateVars, forced, noStatus, appVars, flash, chActive,
                  lineVars, frames, threadVars>>
  BY DEF EnterAnd
<1>. QED
  BY <1>1, <1>2, <1>3, <1>4 DEF IInv, TypeOK,
      ControlOK, ConnectedHasData, ActiveFollowsSelection, GateHasPreset

LEMMA OperationInvariant ==
  ASSUME IInv, ManualOperation \/ RefuseStart \/ OperationStart
  PROVE  IInv'
<1>1. CASE ManualOperation
  BY <1>1, RefusalInvariant DEF ManualOperation, ErrorCodes
<1>2. CASE RefuseStart
  <2>1. Refusal \in ErrorCodes
    BY <1>2 DEF RefuseStart, Refusal, ErrorCodes
  <2>. QED
    BY <1>2, <2>1, RefusalInvariant DEF RefuseStart
<1>3. CASE OperationStart
  <2>1. job' \in Slots \cup {None}
    BY <1>3 DEF OperationStart, IInv, TypeOK
  <2>. QED
    BY <1>3, <2>1 DEF OperationStart, gateVars, appVars, lineVars, threadVars, IInv, TypeOK,
      ControlOK, ConnectedHasData, ActiveFollowsSelection, GateHasPreset
<1>. QED
  BY <1>1, <1>2, <1>3

LEMMA AcknowledgeInvariant ==
  ASSUME IInv, OperationStop \/ Dismiss \/ ClearError
  PROVE  IInv'
<1>1. CASE OperationStop
  BY <1>1, EnterInvariant DEF OperationStop
<1>2. CASE Dismiss
  BY <1>2, EnterInvariant DEF Dismiss
<1>3. CASE ClearError
  <2>1. CASE forced = None
    BY <1>3, <2>1, EnterInvariant DEF ClearError
  <2>2. CASE forced # None
    <3>1. state \in States /\ pc = "free" /\ frames = <<>>
      BY <1>3 DEF ClearError, MayHandle, IInv, TypeOK, ControlOK
    <3>2. /\ state' \in States /\ (state' = "Disconnected" <=> state = "Disconnected")
          /\ forced' \in ErrorCodes \cup {None}
          /\ EnterLoop(state', "handler")
          /\ UNCHANGED <<options, mem, gateVars, noStatus, appVars, chargerVars,
                         lineVars, frames, threadVars>>
      BY <1>3, <2>2, <3>1, OnEventType, OtherEvent
      DEF ClearError, ClearedForced, Events, IInv, TypeOK
    <3>. QED
      BY <3>1, <3>2 DEF EnterLoop, LoopEntry, gateVars, appVars, chargerVars, lineVars,
        threadVars, IInv, TypeOK,
        ControlOK, ConnectedHasData, ActiveFollowsSelection, GateHasPreset
  <2>. QED
    BY <2>1, <2>2
<1>. QED
  BY <1>1, <1>2, <1>3

LEMMA SelectionInvariant ==
  ASSUME IInv, NEW op \in Ops \cup Unmapped,
         (op \in Ops /\ RefuseSelection(op)) \/ SelectOperation(op)
  PROVE  IInv'
<1>. USE DEF gateVars, appVars, chargerVars, lineVars, threadVars
<1>1. CASE op \in Ops /\ RefuseSelection(op)
  <2>1. SelectionRefusal(op) \in ErrorCodes
    BY <1>1 DEF RefuseSelection, SelectionRefusal, Refusal, ErrorCodes
  <2>. QED
    BY <1>1, <2>1, RefusalInvariant DEF RefuseSelection
<1>2. CASE SelectOperation(op) /\ op \in Unmapped
  <2>1. /\ Crash
        /\ UNCHANGED <<state, options, mem, disallow, forced, noStatus, count, active, selOp,
                       chargerVars, job, plugged, link, leaked>>
    BY <1>2 DEF SelectOperation
  <2>2. calm' \in BOOLEAN
    BY <1>2 DEF SelectOperation
  <2>. QED
    BY <2>1, <2>2, CrashControl DEF IInv, TypeOK,
      ControlOK, ConnectedHasData, ActiveFollowsSelection, GateHasPreset
<1>3. CASE SelectOperation(op) /\ op \notin Unmapped
  <2>1. Refusal = None /\ op # Analyze /\ pc = "free" /\ frames = <<>>
    BY <1>3, NoneAssumption
    DEF SelectOperation, SelectionRefusal, MayHandle, ErrorCodes, IInv, ControlOK
  <2>2. op \in Selectable
    BY <1>3, <2>1 DEF Selectable
  <2>3. HasBattery /\ active # None
    <3>1. ~disallow
      BY <2>1, NoneAssumption DEF Refusal, ErrorCodes
    <3>. QED
      BY <3>1 DEF IInv, GateHasPreset
  <2>4. PICK answer \in Answers :
          /\ chActive' = IF Done(answer) THEN PresetOf[op] ELSE chActive
          /\ Adopt(op, answer)
    BY <1>3 DEF SelectOperation
  <2>5. chActive' \in Slots
    BY <1>3, <2>2, <2>4, ConfigurationAssumption DEF Selectable, IInv, TypeOK
  <2>6. /\ active' \in ActivePresets \cup {None} /\ selOp' \in Selectable
        /\ active' # None /\ active'.num = PresetOf[selOp']
    <3>1. CASE answer = "ok"
      BY <2>2, <2>4, <3>1, LiveType DEF Adopt, Selectable
    <3>2. CASE answer # "ok"
      BY <2>3, <2>4, <3>2 DEF Adopt, IInv, TypeOK, ActiveFollowsSelection
    <3>. QED
      BY <3>1, <3>2
  <2>7. /\ pc' = "settings" /\ UNCHANGED <<frames, cont, threadVars>>
        /\ UNCHANGED <<state, options, mem, disallow, forced, noStatus, count, flash,
                       job, plugged, link, leaked>>
    BY <1>3 DEF SelectOperation
  <2>8. mem # None
    BY <2>3 DEF IInv, ControlOK
  <2>9. calm' \in BOOLEAN
    BY <1>3 DEF SelectOperation
  <2>. QED
    BY <2>1, <2>3, <2>5, <2>6, <2>7, <2>8, <2>9 DEF IInv, TypeOK,
      ControlOK, ConnectedHasData, ActiveFollowsSelection, GateHasPreset
<1>. QED
  BY <1>1, <1>2, <1>3

LEMMA CountInvariant ==
  ASSUME IInv, NEW n \in CountRequests,
         RefuseCount \/ SetBatteryGroupCount(n) \/ CountRequestFails(n)
  PROVE  IInv'
<1>. USE DEF gateVars, appVars, chargerVars, lineVars, threadVars
<1>1. CASE RefuseCount
  BY <1>1, RefusalInvariant DEF RefuseCount, ErrorCodes
<1>2. CASE CountRequestFails(n)
  BY <1>2, CrashControl, ZenonT(60) DEF CountRequestFails, IInv, TypeOK,
      ControlOK, ConnectedHasData, ActiveFollowsSelection, GateHasPreset
<1>3. CASE SetBatteryGroupCount(n)
  <2>1. /\ state = "Idle" /\ mem # None /\ mem \in Memory /\ count \in 1..MaxParallel
        /\ frames = <<>> /\ flash \in Memory \cup {Erased}
    BY <1>3 DEF SetBatteryGroupCount, MayHandle, IInv, TypeOK, ControlOK, ConnectedHasData
  <2>2. n = count \/ n \in 1..MaxParallel
    BY <1>3 DEF SetBatteryGroupCount, CountFails
  <2>3. WithCount(n) \in Memory /\ WithCount(count) \in Memory
    BY <2>1, <2>2, MemoryType
  <2>4. mem' \in Memory /\ count' \in 1..MaxParallel /\ flash' \in Memory \cup {Erased}
    <3>1. CASE n = count
      BY <1>3, <2>1, <3>1 DEF SetBatteryGroupCount
    <3>2. CASE n # count
      <4>1. PICK answer \in Answers :
              /\ flash' \in Written(answer, WithCount(n))
              /\ IF Stored(answer)
                   THEN mem' = WithCount(n) /\ count' = n
                   ELSE mem' = WithCount(count) /\ UNCHANGED count
        BY <1>3, <3>2 DEF SetBatteryGroupCount
      <4>2. Written(answer, WithCount(n)) \subseteq Memory \cup {Erased}
        BY <2>1, <2>3 DEF Written
      <4>. QED
        BY <2>1, <2>2, <2>3, <3>2, <4>1, <4>2
    <3>. QED
      BY <3>1, <3>2
  <2>5. /\ pc' \in {"free", "settings"} /\ frames' = <<>> /\ frames' \in Seq(SUBSET Ops)
        /\ cont' \in {"handler", "tick", "settings", "timer"}
        /\ timer' \in {"never", "on", "dead"} /\ alive' \in BOOLEAN
    <3>1. CASE Crash
      BY <3>1, CrashControl DEF IInv
    <3>2. CASE pc' = "settings" /\ UNCHANGED <<frames, cont, threadVars>>
      BY <2>1, <3>2 DEF IInv, TypeOK
    <3>. QED
      BY <1>3, <3>1, <3>2 DEF SetBatteryGroupCount
  <2>6. UNCHANGED <<state, options, gateVars, forced, noStatus, selOp, chActive, job,
                    lineVars>>
    BY <1>3 DEF SetBatteryGroupCount
  <2>7. mem' # None
    BY <2>4, NoneAssumption
  <2>. QED
    BY <2>1, <2>4, <2>5, <2>6, <2>7 DEF IInv, TypeOK,
      ControlOK, ConnectedHasData, ActiveFollowsSelection, GateHasPreset
<1>. QED
  BY <1>1, <1>2, <1>3

LEMMA EnvironmentInvariant ==
  ASSUME IInv, Environment
  PROVE  IInv'
<1>. USE DEF outside, gateVars, appVars, lineVars, threadVars, IInv, TypeOK,
      ControlOK, ConnectedHasData, ActiveFollowsSelection, GateHasPreset
<1>1. CASE SwitchCharger
  <2>1. plugged' \in BOOLEAN /\ calm' \in BOOLEAN
    BY <1>1, Zenon DEF SwitchCharger
  <2>. QED
    BY <1>1, <2>1 DEF SwitchCharger
<1>2. CASE SelectOnPanel
  <2>1. calm' \in BOOLEAN
    BY <1>2, Zenon DEF SelectOnPanel
  <2>. QED
    BY <1>2, <2>1 DEF SelectOnPanel
<1>3. CASE JobEnds
  BY <1>3 DEF JobEnds
<1>. QED
  BY <1>1, <1>2, <1>3 DEF Environment

-----------------------------------------------------------------------------
(* Every step of the emulator preserves the invariant.                     *)
LEMMA StepInvariant == IInv /\ [Next]_vars => IInv'
<1>. SUFFICES ASSUME IInv, [Next]_vars PROVE IInv'
  OBVIOUS
<1>1. CASE Tick \/ ConnectRequest \/ StartTimer \/ SendSettings
  BY <1>1, ControlInvariant
<1>2. CASE StatusLoopStep
  BY <1>2, ConnectingInvariant, ChemistryInvariant, StatusInvariant DEF StatusLoopStep
<1>3. CASE Handler
  <2>1. CASE ManualOperation \/ RefuseStart \/ OperationStart
    BY <2>1, OperationInvariant
  <2>2. CASE OperationStop \/ Dismiss \/ ClearError
    BY <2>2, AcknowledgeInvariant
  <2>3. CASE \/ \E op \in Ops : RefuseSelection(op)
             \/ \E op \in Ops \cup Unmapped : SelectOperation(op)
    BY <2>3, SelectionInvariant
  <2>4. CASE \/ \E n \in CountRequests : SetBatteryGroupCount(n)
             \/ \E n \in CountRequests : CountRequestFails(n)
    BY <2>4, CountInvariant
  <2>5. CASE RefuseCount
    BY <2>5, RefusalInvariant DEF RefuseCount, ErrorCodes
  <2>. QED
    BY <1>3, <2>1, <2>2, <2>3, <2>4, <2>5 DEF Handler
<1>4. CASE Environment
  BY <1>4, EnvironmentInvariant
<1>5. CASE UNCHANGED vars
  BY <1>5 DEF vars, gateVars, IInv, TypeOK,
      ControlOK, ConnectedHasData, ActiveFollowsSelection, GateHasPreset
<1>. QED
  BY <1>1, <1>2, <1>3, <1>4, <1>5 DEF Next

LEMMA AlwaysInvariant == Spec => []IInv
BY InitInvariant, StepInvariant, PTL DEF Spec

(* The variables of the emulator keep their types, in particular the count *)
(* of failed status readings its limit and the battery count the range a   *)
(* preset can hold, whatever the app asks for and the charger answers.     *)
THEOREM TypeCorrect == Spec => []TypeOK
<1>1. IInv => TypeOK
  BY DEF IInv
<1>. QED
  BY <1>1, AlwaysInvariant, PTL

(* A state other than Disconnected always comes with the options and the   *)
(* presets of the charger (charger_settings, _update_presets and           *)
(* set_battery_group_count take them for granted).                         *)
THEOREM ConnectedAlwaysHasData == Spec => []ConnectedHasData
<1>1. IInv => ConnectedHasData
  BY DEF IInv
<1>. QED
  BY <1>1, AlwaysInvariant, PTL

(* The active preset is always the one of the selected operation.          *)
THEOREM ActiveAlwaysFollowsSelection == Spec => []ActiveFollowsSelection
<1>1. IInv => ActiveFollowsSelection
  BY DEF IInv
<1>. QED
  BY <1>1, AlwaysInvariant, PTL

(* The assertions of operation_start and monitor never fail: whenever      *)
(* operations are allowed there is a battery and an active preset.         *)
THEOREM GateAlwaysHasPreset == Spec => []GateHasPreset
<1>1. IInv => GateHasPreset
  BY DEF IInv
<1>. QED
  BY <1>1, AlwaysInvariant, PTL

-----------------------------------------------------------------------------
(* Steps.                                                                  *)

ReportEvents == {"NONE", "STARTING", "CHARGING", "DISCHARGING", "MONITORING", "ERROR",
                 "CHARGING_COMPLETE", "DISCHARGING_COMPLETE", "HALT_FOR_SAFETY"}

-----------------------------------------------------------------------------
(* The state machine in phases.                                            *)

(* The events a status record stands for.                                  *)
LEMMA ReportEventsOnly ==
  ASSUME NEW r \in Readings
  PROVE  EventOf(Forced(r)) \in ReportEvents
BY DEF EventOf, IsReady, ReportEvents

(* What a status record does to the phase: it never ends one that has      *)
(* ended, and only an idle emulator stays idle.                            *)
LEMMA ReportPhase ==
  ASSUME NEW s \in States \ {"Disconnected"}, NEW e \in ReportEvents
  PROVE  /\ OnEvent(s, e) \in States \ {"Disconnected"}
         /\ OnEvent(s, e) = "Idle" => s = "Idle"
         /\ s \in Outcomes => OnEvent(s, e) = s
BY DEF ReportEvents, OnEvent, Accepts, Lines, LiveStates, Outcomes, Target, States, Events,
       EndEvents

(* The phases, spelled out.                                                *)
LEMMA Phases ==
  ASSUME NEW s \in States
  PROVE  /\ PhaseOf(s) = "offline" <=> s = "Disconnected"
         /\ PhaseOf(s) = "ready" <=> s = "Idle"
         /\ PhaseOf(s) = "ended" <=> s \in Outcomes
         /\ PhaseOf(s) \in {"offline", "ready", "running", "ended"}
BY DEF PhaseOf, States, Outcomes

(* STOP ends an operation, DISMISS its outcome; elsewhere they do nothing. *)
LEMMA StopAndDismiss ==
  ASSUME NEW s \in States
  PROVE  /\ OnEvent(s, "STOP") = IF s \in Outcomes \cup {"Disconnected"} THEN s ELSE "Stopped"
         /\ OnEvent(s, "DISMISS") = IF s \in Outcomes THEN "Idle" ELSE s
         /\ OnEvent(s, "CONNECTED") = IF s = "Disconnected" THEN "Idle" ELSE s
BY DEF OnEvent, Accepts, Lines, LiveStates, Outcomes, Target, States, Events, EndEvents

-----------------------------------------------------------------------------
(* The actions that change nothing OperationGate can see.                  *)
QuietStep ==
  \/ Tick \/ StartTimer \/ SendSettings
  \/ Connects \/ ConnectFails \/ ReadsPresets \/ ReadPresetsFails
  \/ CheckChemistry \/ SettingsFail
  \/ ManualOperation \/ RefuseStart \/ RefuseCount
  \/ \E op \in Ops : RefuseSelection(op)
  \/ \E op \in Ops \cup Unmapped : SelectOperation(op)
  \/ \E n \in CountRequests : SetBatteryGroupCount(n) \/ CountRequestFails(n)
  \/ SwitchCharger \/ SelectOnPanel

LEMMA QuietStepIsQuiet == QuietStep => UNCHANGED <<state, disallow, job>>
<1>. USE DEF gateVars, chargerVars
<1>1. CASE Tick \/ StartTimer \/ SendSettings
  BY <1>1 DEF Tick, StartTimer, SendSettings
<1>2. CASE Connects \/ ConnectFails \/ ReadsPresets \/ ReadPresetsFails
  BY <1>2 DEF Connects, ConnectFails, ReadsPresets, ReadPresetsFails
<1>3. CASE CheckChemistry \/ SettingsFail
  BY <1>3 DEF CheckChemistry, SettingsFail
<1>4. CASE ManualOperation \/ RefuseStart \/ RefuseCount
  BY <1>4 DEF ManualOperation, RefuseStart, RefuseCount, Refuse
<1>5. CASE \/ \E op \in Ops : RefuseSelection(op)
           \/ \E op \in Ops \cup Unmapped : SelectOperation(op)
  BY <1>5 DEF RefuseSelection, SelectOperation, Refuse
<1>6. CASE \E n \in CountRequests : SetBatteryGroupCount(n) \/ CountRequestFails(n)
  BY <1>6 DEF SetBatteryGroupCount, CountRequestFails
<1>7. CASE SwitchCharger \/ SelectOnPanel
  BY <1>7 DEF SwitchCharger, SelectOnPanel, outside
<1>. QED
  BY <1>1, <1>2, <1>3, <1>4, <1>5, <1>6, <1>7 DEF QuietStep

(* Every other step is one of these.                                       *)
LEMMA StepCases ==
  ASSUME Next
  PROVE  \/ QuietStep \/ ConnectRequest \/ ChargerConnected \/ StatusRead \/ StatusFails
         \/ OperationStart \/ OperationStop \/ Dismiss \/ ClearError \/ JobEnds
BY DEF Next, StatusLoopStep, Handler, Environment, QuietStep

-----------------------------------------------------------------------------
(* OperationGate.                                                          *)

(* A status record withdraws the permission or leaves it, and gives it     *)
(* only to an emulator that is and stays idle.                             *)
LEMMA StatusReadGate ==
  ASSUME IInv, StatusRead
  PROVE  Gate!Report \/ Gate!Grant
<1>1. PICK r \in Readings : state' = OnEvent(state, EventOf(Forced(r)))
  BY DEF StatusRead
<1>2. state \in States \ {"Disconnected"}
  BY DEF StatusRead, IInv, TypeOK, ControlOK
<1>3. /\ state' \in States \ {"Disconnected"}
      /\ state' = "Idle" => state = "Idle"
      /\ state \in Outcomes => state' = state
  BY <1>1, <1>2, ReportEventsOnly, ReportPhase
<1>4. disallow \in BOOLEAN /\ UNCHANGED job /\ CheckPreset(state')
  BY DEF StatusRead, IInv, TypeOK
<1>5. ~disallow' => ~disallow \/ state' = "Idle"
  BY <1>4 DEF CheckPreset, gateVars
<1>6. CASE ~disallow' => ~disallow
  BY <1>2, <1>3, <1>4, <1>6, Phases DEF Gate!Report
<1>7. CASE disallow /\ ~disallow'
  BY <1>2, <1>3, <1>4, <1>5, <1>7, Phases DEF Gate!Grant
<1>. QED
  BY <1>6, <1>7

(* An ENTER ends the job; what the display shows ends with it if answered. *)
LEMMA EnterGate ==
  ASSUME IInv, NEW e \in {"STOP", "DISMISS"}, EnterAnd(e)
  PROVE  Gate!Stop \/ Gate!Acknowledge \/ UNCHANGED Gate!vars
<1>1. PICK answer \in Answers :
        /\ job' = IF Done(answer) THEN None ELSE job
        /\ IF answer = "ok" THEN state' = OnEvent(state, e) ELSE UNCHANGED state
  BY DEF EnterAnd
<1>2. state \in States /\ UNCHANGED disallow
  BY DEF EnterAnd, gateVars, IInv, TypeOK
<1>3. CASE ~Done(answer)
  BY <1>1, <1>2, <1>3 DEF Done, Gate!vars
<1>4. CASE Done(answer) /\ answer # "ok"
  BY <1>1, <1>2, <1>4 DEF Gate!Stop
<1>5. CASE Done(answer) /\ answer = "ok" /\ e = "STOP"
  <2>1. CASE state \in Outcomes \cup {"Disconnected"}
    BY <1>1, <1>2, <1>5, <2>1, StopAndDismiss DEF Gate!Stop
  <2>2. CASE state \notin Outcomes \cup {"Disconnected"}
    <3>1. state' = "Stopped" /\ state' \in States /\ state' \in Outcomes
      BY <1>1, <1>2, <1>5, <2>2, StopAndDismiss DEF States, Outcomes
    <3>2. PhaseOf(state') = "ended" /\ PhaseOf(state) \in {"ready", "running"}
      BY <1>2, <2>2, <3>1, Phases
    <3>. QED
      BY <1>1, <1>2, <1>5, <3>2 DEF Gate!Stop
  <2>. QED
    BY <2>1, <2>2
<1>6. CASE Done(answer) /\ answer = "ok" /\ e = "DISMISS"
  <2>1. CASE state \notin Outcomes
    BY <1>1, <1>2, <1>6, <2>1, StopAndDismiss DEF Gate!Stop
  <2>2. CASE state \in Outcomes
    <3>1. PhaseOf(state') = "ready" /\ PhaseOf(state) = "ended"
      BY <1>1, <1>2, <1>6, <2>2, StopAndDismiss, Phases DEF States
    <3>. QED
      BY <1>1, <1>2, <1>6, <3>1 DEF Gate!Acknowledge
  <2>. QED
    BY <2>1, <2>2
<1>. QED
  BY <1>3, <1>4, <1>5, <1>6

LEMMA ClearErrorGate ==
  ASSUME IInv, ClearError
  PROVE  Gate!Stop \/ Gate!Acknowledge \/ UNCHANGED Gate!vars
<1>1. CASE forced = None
  BY <1>1, EnterGate DEF ClearError
<1>2. CASE forced # None
  <2>1. state \in States /\ state' = OnEvent(state, "DISMISS") /\ UNCHANGED <<disallow, job>>
    BY <1>2 DEF ClearError, gateVars, chargerVars, IInv, TypeOK
  <2>2. CASE state \in Outcomes
    <3>1. PhaseOf(state') = "ready" /\ PhaseOf(state) = "ended"
      BY <2>1, <2>2, StopAndDismiss, Phases DEF States
    <3>. QED
      BY <2>1, <3>1 DEF Gate!Acknowledge
  <2>3. CASE state \notin Outcomes
    BY <2>1, <2>3, StopAndDismiss DEF Gate!vars
  <2>. QED
    BY <2>2, <2>3
<1>. QED
  BY <1>1, <1>2

(* The charger is only told to run by an idle emulator with permission.    *)
LEMMA StartGate ==
  ASSUME IInv, OperationStart
  PROVE  Gate!Start \/ UNCHANGED Gate!vars
<1>1. Refusal = None /\ UNCHANGED <<state, disallow>> /\ job' \in {chActive, job}
  BY DEF OperationStart, gateVars
<1>2. ~disallow /\ state = "Idle"
  BY <1>1, NoneAssumption DEF Refusal, ErrorCodes
<1>3. chActive \in Slots /\ chActive # None
  BY NoneAssumption DEF IInv, TypeOK
<1>4. CASE job' = chActive
  <2>1. PhaseOf(state) = "ready"
    BY <1>2, Phases DEF States
  <2>. QED
    BY <1>1, <1>2, <1>3, <1>4, <2>1 DEF Gate!Start
<1>5. CASE job' = job
  BY <1>1, <1>5 DEF Gate!vars
<1>. QED
  BY <1>1, <1>4, <1>5

(* The charger comes and goes.                                             *)
LEMMA LinkGate ==
  ASSUME IInv, ConnectRequest \/ ChargerConnected \/ StatusFails
  PROVE  Gate!NewSession \/ Gate!Connect \/ Gate!Drop \/ UNCHANGED Gate!vars
<1>. USE DEF gateVars, chargerVars
<1>0. state \in States
  BY DEF IInv, TypeOK
<1>1. CASE ConnectRequest
  <2>1. state' = "Disconnected" /\ disallow' /\ UNCHANGED job
    BY <1>1 DEF ConnectRequest, ForgetSession, ForgetState
  <2>. QED
    BY <2>1, Phases DEF Gate!NewSession, States
<1>2. CASE ChargerConnected
  <2>1. state' = OnEvent(state, "CONNECTED") /\ UNCHANGED <<disallow, job>>
    BY <1>2 DEF ChargerConnected
  <2>2. CASE state = "Disconnected"
    <3>1. PhaseOf(state) = "offline" /\ PhaseOf(state') = "ready"
      BY <1>0, <2>1, <2>2, StopAndDismiss, Phases DEF States
    <3>. QED
      BY <2>1, <3>1 DEF Gate!Connect
  <2>3. CASE state # "Disconnected"
    BY <1>0, <2>1, <2>3, StopAndDismiss DEF Gate!vars
  <2>. QED
    BY <2>2, <2>3
<1>3. CASE StatusFails
  <2>1. UNCHANGED <<disallow, job>> /\ (state' = state \/ state' = "Disconnected")
    BY <1>0, <1>3, DisconnectedEvent DEF StatusFails
  <2>2. CASE state' = state
    BY <2>1, <2>2 DEF Gate!vars
  <2>3. CASE state' = "Disconnected"
    BY <2>1, <2>3, Phases DEF Gate!Drop, States
  <2>. QED
    BY <2>1, <2>2, <2>3
<1>. QED
  BY <1>1, <1>2, <1>3

LEMMA StepImplementsGate ==
  ASSUME IInv, [Next]_vars
  PROVE  [Gate!Next]_Gate!vars
<1>1. CASE QuietStep
  BY <1>1, QuietStepIsQuiet DEF Gate!vars
<1>2. CASE StatusRead
  BY <1>2, StatusReadGate DEF Gate!Next
<1>3. CASE ConnectRequest \/ ChargerConnected \/ StatusFails
  BY <1>3, LinkGate DEF Gate!Next
<1>4. CASE OperationStart
  BY <1>4, StartGate DEF Gate!Next
<1>5. CASE OperationStop \/ Dismiss \/ ClearError
  BY <1>5, EnterGate, ClearErrorGate DEF OperationStop, Dismiss, Gate!Next
<1>6. CASE JobEnds
  <2>1. job' = None /\ UNCHANGED <<state, disallow>>
    BY <1>6 DEF JobEnds, outside, gateVars
  <2>. QED
    BY <2>1 DEF Gate!Next, Gate!Stop
<1>7. CASE UNCHANGED vars
  BY <1>7 DEF vars, gateVars, Gate!vars
<1>. QED
  BY <1>1, <1>2, <1>3, <1>4, <1>5, <1>6, <1>7, StepCases

(* The emulator keeps the promise of OperationGate: permission is only     *)
(* given while the charger is ready, the charger is only told to run then  *)
(* and with it, and an outcome is followed by its acknowledgement or the   *)
(* loss of the charger.                                                    *)
THEOREM EmulatorImplementsGate == Spec => ImplementsGate
<1>1. Init => Gate!Init
  BY Phases DEF Init, Gate!Init, States
<1>2. IInv /\ [Next]_vars => [Gate!Next]_Gate!vars
  BY StepImplementsGate
<1>. QED
  BY <1>1, <1>2, AlwaysInvariant, PTL DEF Spec, ImplementsGate, Gate!Spec

-----------------------------------------------------------------------------
(* The battery count.                                                      *)

(* The presets with a new count are presets, all configured ones with it.  *)
LEMMA MemoryWithCount ==
  ASSUME mem \in Memory, NEW n \in 1..MaxParallel
  PROVE  WithCount(n) \in Memory /\ \A s \in Configured : WithCount(n)[s].par = n
<1>1. WithCount(n) \in Memory
  BY MemoryType
<1>2. ASSUME NEW s \in Configured PROVE WithCount(n)[s].par = n
  <2>1. s \in Slots
    BY ConfigurationAssumption DEF Configured
  <2>2. mem[s] \in PresetData
    BY <2>1 DEF Memory
  <2>3. [mem[s] EXCEPT !.par = n].par = n
    BY <2>2 DEF PresetData
  <2>. QED
    BY <2>1, <2>3 DEF WithCount
<1>. QED
  BY <1>1, <1>2

(* The battery count only changes in its command, and there only with the  *)
(* presets of that count written and the writing answered.                 *)
LEMMA CountStep ==
  ASSUME IInv, Next, count' # count
  PROVE  \E n \in CountRequests :
           /\ SetBatteryGroupCount(n) /\ mem \in Memory /\ n \in 1..MaxParallel
           /\ count' = n /\ flash' = WithCount(n)
<1>. USE DEF appVars
<1>1. CASE Tick \/ ConnectRequest \/ StartTimer \/ SendSettings
  BY <1>1 DEF Tick, ConnectRequest, StartTimer, SendSettings
<1>2. CASE StatusLoopStep
  BY <1>2 DEF StatusLoopStep, Connects, ConnectFails, ReadsPresets, ReadPresetsFails,
      CheckChemistry, ChargerConnected, SettingsFail, StatusRead, StatusFails
<1>3. CASE Environment
  BY <1>3 DEF Environment, SwitchCharger, SelectOnPanel, JobEnds, outside
<1>4. CASE Handler
  <2>1. CASE \E n \in CountRequests : SetBatteryGroupCount(n)
    <3>1. PICK n \in CountRequests : SetBatteryGroupCount(n)
      BY <2>1
    <3>2. PICK answer \in Answers :
            /\ flash' \in Written(answer, WithCount(n))
            /\ IF Stored(answer) THEN count' = n ELSE UNCHANGED count
      BY <3>1 DEF SetBatteryGroupCount
    <3>3. answer = "ok" /\ count' = n
      BY <3>2 DEF Stored
    <3>4. flash' = WithCount(n)
      BY <3>2, <3>3 DEF Written, Done
    <3>5. mem \in Memory /\ n \in 1..MaxParallel
      BY <3>1, <3>3 DEF SetBatteryGroupCount, CountFails, IInv, TypeOK, ConnectedHasData
    <3>. QED
      BY <3>1, <3>3, <3>4, <3>5
  <2>2. CASE ManualOperation \/ RefuseStart \/ OperationStart \/ RefuseCount
    BY <2>2 DEF ManualOperation, RefuseStart, OperationStart, RefuseCount, Refuse
  <2>3. CASE OperationStop \/ Dismiss \/ ClearError
    BY <2>3 DEF OperationStop, Dismiss, ClearError, EnterAnd
  <2>4. CASE \/ \E op \in Ops : RefuseSelection(op)
             \/ \E op \in Ops \cup Unmapped : SelectOperation(op)
    BY <2>4 DEF RefuseSelection, SelectOperation, Refuse
  <2>5. CASE \E n \in CountRequests : CountRequestFails(n)
    BY <2>5 DEF CountRequestFails
  <2>. QED
    BY <1>4, <2>1, <2>2, <2>3, <2>4, <2>5 DEF Handler
<1>. QED
  BY <1>1, <1>2, <1>3, <1>4 DEF Next

(* The battery count shown to the app only changes when the charger has    *)
(* every configured preset stored with the new count.                      *)
THEOREM CountAlwaysStored == Spec => CountIsStored
<1>. DEFINE A == count' # count =>
             (flash' # Erased /\ (\A s \in Configured : flash'[s].par = count'))
<1>1. ASSUME IInv, [Next]_vars PROVE [A]_vars
  <2>1. CASE UNCHANGED vars
    BY <2>1
  <2>2. CASE Next /\ count' = count
    BY <2>2
  <2>3. CASE Next /\ count' # count
    <3>1. PICK n \in CountRequests :
            mem \in Memory /\ n \in 1..MaxParallel /\ count' = n /\ flash' = WithCount(n)
      BY <1>1, <2>3, CountStep
    <3>2. flash' # Erased
      BY <3>1, MemoryWithCount, NoneAssumption
    <3>3. \A s \in Configured : flash'[s].par = n
      BY <3>1, MemoryWithCount
    <3>. QED
      BY <3>1, <3>2, <3>3
  <2>. QED
    BY <1>1, <2>1, <2>2, <2>3
<1>. QED
  BY <1>1, AlwaysInvariant, PTL DEF Spec, CountIsStored

-----------------------------------------------------------------------------
(* The display.                                                            *)

(* An outcome is only taken off the display by a command of the app, which *)
(* begins with the lock free, or with the charger or the session.          *)
THEOREM OutcomeAlwaysKept == Spec => OutcomeIsKept
<1>. DEFINE A == (state \in Outcomes /\ state' \notin Outcomes) =>
                   (pc = "free" \/ state' = "Disconnected")
<1>1. ASSUME IInv, [Next]_vars PROVE [A]_vars
  <2>0. state \in States
    BY <1>1 DEF IInv, TypeOK
  <2>1. CASE UNCHANGED vars
    BY <2>1
  <2>2. CASE QuietStep
    BY <2>2, QuietStepIsQuiet
  <2>3. CASE StatusRead
    <3>1. PICK r \in Readings : state' = OnEvent(state, EventOf(Forced(r)))
      BY <2>3 DEF StatusRead
    <3>2. state # "Disconnected"
      BY <1>1, <2>3 DEF StatusRead, IInv, ControlOK
    <3>. QED
      BY <2>0, <3>1, <3>2, ReportEventsOnly, ReportPhase
  <2>4. CASE ChargerConnected
    BY <2>0, <2>4, StopAndDismiss DEF ChargerConnected, Outcomes
  <2>5. CASE StatusFails
    BY <2>0, <2>5, DisconnectedEvent DEF StatusFails
  <2>6. CASE ConnectRequest \/ OperationStart \/ OperationStop \/ Dismiss \/ ClearError
    BY <2>6 DEF ConnectRequest, OperationStart, OperationStop, Dismiss, ClearError, MayHandle
  <2>7. CASE JobEnds
    BY <2>7 DEF JobEnds, outside
  <2>. QED
    BY <1>1, <2>1, <2>2, <2>3, <2>4, <2>5, <2>6, <2>7, StepCases
<1>. QED
  BY <1>1, AlwaysInvariant, PTL DEF Spec, OutcomeIsKept

-----------------------------------------------------------------------------
(* Changed presets.                                                        *)
LEMMA ConfiguredSlots == Configured \subseteq Slots
BY ConfigurationAssumption DEF Configured

LEMMA TunedValues ==
  ASSUME mem \in Memory, NEW s \in Configured
  PROVE  Tuned[s].tuned /\ Tuned[s].par = count
<1>1. s \in Slots /\ mem[s] \in PresetData
  BY ConfiguredSlots DEF Memory
<1>2. Tuned[s] = [mem[s] EXCEPT !.tuned = TRUE, !.par = count]
  BY <1>1 DEF Tuned
<1>. QED
  BY <1>1, <1>2 DEF PresetData

LEMMA CountValues ==
  ASSUME mem \in Memory, NEW n \in Nat, NEW s \in Configured
  PROVE  WithCount(n)[s].par = n /\ (mem[s].tuned => WithCount(n)[s].tuned)
<1>1. s \in Slots /\ mem[s] \in PresetData
  BY ConfiguredSlots DEF Memory
<1>2. WithCount(n)[s] = [mem[s] EXCEPT !.par = n]
  BY <1>1 DEF WithCount
<1>. QED
  BY <1>1, <1>2 DEF PresetData

-----------------------------------------------------------------------------
(* What ends a thread.  Outside a status loop the message thread has the   *)
(* lock; and where a preset check is suspended, or has been and finds the  *)
(* options gone, a chemistry error is forced.                              *)
LossInv ==
  /\ pc \in {"free", "settings", "timer"} => cont = "handler"
  /\ pc = "chem" /\ (~options \/ Tail(frames) # <<>>) => forced = "badChemistry"
  /\ pc # "chem" /\ frames # <<>> => forced = "badChemistry"

LEMMA LossInit == Init => LossInv
BY DEF Init, LossInv

(* A status loop that returns, and an exception, leave it so.              *)
LEMMA LossLeave ==
  ASSUME IInv, LossInv, pc # "chem", LeaveLoop, UNCHANGED <<forced, frames>>
  PROVE  LossInv'
<1>1. pc' = "chem" <=> frames # <<>>
  BY LeaveLoopControl DEF IInv
<1>2. pc' # "chem" => cont' = "handler"
  BY <1>1 DEF LeaveLoop
<1>. QED
  BY <1>1, <1>2 DEF LossInv

LEMMA LossCrash ==
  ASSUME Crash
  PROVE  LossInv'
BY DEF Crash, LossInv

LEMMA LossLoopStep ==
  ASSUME IInv, LossInv, StatusLoopStep
  PROVE  LossInv'
<1>. USE DEF LossInv, gateVars, appVars, chargerVars, lineVars, threadVars
<1>1. CASE Connects
  BY <1>1 DEF Connects
<1>2. CASE ConnectFails
  BY <1>2, LossLeave DEF ConnectFails
<1>3. CASE ReadPresetsFails
  BY <1>3, LossLeave DEF ReadPresetsFails
<1>4. CASE StatusFails
  BY <1>4, LossLeave DEF StatusFails
<1>5. CASE StatusRead
  BY <1>5, LossLeave DEF StatusRead
<1>6. CASE ReadsPresets
  <2>1. options /\ frames \in Seq(SUBSET Ops) /\ pc # "chem"
    BY <1>6 DEF ReadsPresets, IInv, ControlOK, TypeOK
  <2>2. Tail(frames') = frames
    <3>. DEFINE S == SUBSET Ops
    <3>1. frames \in Seq(S) /\ BadOps(flash) \in S /\ frames' = <<BadOps(flash)>> \o frames
      BY <1>6, <2>1 DEF ReadsPresets, BadOps
    <3>. HIDE DEF S
    <3>. QED
      BY <3>1
  <2>. QED
    BY <1>6, <2>1, <2>2 DEF ReadsPresets
<1>7. CASE CheckChemistry
  BY <1>7 DEF CheckChemistry, LoopEntry
<1>8. CASE ChargerConnected
  BY <1>8 DEF ChargerConnected
<1>9. CASE SettingsFail
  BY <1>9, LossCrash DEF SettingsFail
<1>. QED
  BY <1>1, <1>2, <1>3, <1>4, <1>5, <1>6, <1>7, <1>8, <1>9 DEF StatusLoopStep

(* A command begins without a suspended check and outside a status loop.   *)
LEMMA LossHandlerStep ==
  ASSUME IInv, LossInv, Handler
  PROVE  LossInv'
<1>. USE DEF LossInv, gateVars, appVars, chargerVars, lineVars, threadVars
<1>1. MayHandle => pc = "free" /\ frames = <<>> /\ cont = "handler"
  BY DEF MayHandle, IInv, ControlOK
<1>2. ASSUME NEW code, NEW c, MayHandle, Refuse(code, c) PROVE LossInv'
  BY <1>1, <1>2 DEF Refuse, EnterLoop, LoopEntry
<1>3. ASSUME NEW e, MayHandle, EnterAnd(e) PROVE LossInv'
  BY <1>1, <1>3 DEF EnterAnd, EnterLoop, LoopEntry
<1>4. CASE \/ ManualOperation \/ RefuseStart \/ RefuseCount
           \/ \E op \in Ops : RefuseSelection(op)
  BY <1>2, <1>4 DEF ManualOperation, RefuseStart, RefuseCount, RefuseSelection
<1>5. CASE OperationStart
  BY <1>1, <1>5 DEF OperationStart
<1>6. CASE OperationStop \/ Dismiss
  BY <1>3, <1>6 DEF OperationStop, Dismiss
<1>7. CASE ClearError
  BY <1>1, <1>3, <1>7 DEF ClearError, EnterLoop, LoopEntry
<1>8. CASE \/ \E op \in Ops \cup Unmapped : SelectOperation(op)
           \/ \E n \in CountRequests : SetBatteryGroupCount(n)
           \/ \E n \in CountRequests : CountRequestFails(n)
  <2>1. CASE Crash
    BY <2>1, LossCrash
  <2>2. CASE ~Crash
    BY <1>1, <1>8, <2>2 DEF SelectOperation, SetBatteryGroupCount, CountRequestFails
  <2>. QED
    BY <2>1, <2>2
<1>. QED
  BY <1>4, <1>5, <1>6, <1>7, <1>8 DEF Handler

LEMMA LossStep == IInv /\ LossInv /\ [Next]_vars => LossInv'
<1>. SUFFICES ASSUME IInv, LossInv, [Next]_vars PROVE LossInv'
  OBVIOUS
<1>. USE DEF gateVars, appVars, chargerVars, lineVars, threadVars
<1>1. CASE Tick
  BY <1>1 DEF Tick, EnterLoop, LoopEntry, LossInv
<1>2. CASE ConnectRequest
  BY <1>2 DEF ConnectRequest, EnterLoop, LoopEntry, LossInv, IInv, ControlOK
<1>3. CASE StartTimer
  BY <1>3 DEF StartTimer, LossInv
<1>4. CASE SendSettings
  <2>1. CASE Crash
    BY <2>1, LossCrash
  <2>2. CASE ~Crash
    BY <1>4, <2>2 DEF SendSettings, LossInv
  <2>. QED
    BY <2>1, <2>2
<1>5. CASE StatusLoopStep
  BY <1>5, LossLoopStep
<1>6. CASE Handler
  BY <1>6, LossHandlerStep
<1>7. CASE Environment \/ UNCHANGED vars
  BY <1>7 DEF Environment, SwitchCharger, SelectOnPanel, JobEnds, outside, vars, LossInv
<1>. QED
  BY <1>1, <1>2, <1>3, <1>4, <1>5, <1>6, <1>7 DEF Next

(* What leaves both threads as they are.                                   *)
LEMMA NoThreadEnds ==
  ASSUME [Next]_vars, ~SendSettings, ~SettingsFail, ~ImpossibleRequest,
         ~\E n \in CountRequests : SetBatteryGroupCount(n)
  PROVE  alive' = alive /\ (timer' = "dead" => timer = "dead")
BY DEF ImpossibleRequest, Next, StatusLoopStep, Handler, Environment, Tick, ConnectRequest,
  StartTimer, Connects, ConnectFails, ReadsPresets, ReadPresetsFails,
  CheckChemistry, ChargerConnected, StatusRead, StatusFails,
  ManualOperation, RefuseStart, OperationStart, OperationStop, Dismiss, ClearError,
  EnterAnd, Refuse, RefuseSelection, SelectOperation, RefuseCount, CountRequestFails,
  SwitchCharger, SelectOnPanel, JobEnds, outside, threadVars, vars

(* The assertion after a new count fails only with a preset of an earlier  *)
(* connection.                                                             *)
LEMMA CountCrash ==
  ASSUME IInv, LossInv, NEW n \in CountRequests, SetBatteryGroupCount(n), alive, ~alive'
  PROVE  active # None /\ active.frozen # 0
<1>1. mem \in Memory /\ n \in 1..MaxParallel /\ HasBattery
  BY DEF SetBatteryGroupCount, CountFails, IInv, TypeOK, ConnectedHasData, threadVars
<1>2. active # None /\ Parallel(active, WithCount(n)) # n
  BY DEF SetBatteryGroupCount, threadVars
<1>3. ASSUME active.frozen = 0 PROVE FALSE
  <2>1. selOp \in Ops /\ active.num = PresetOf[selOp]
    BY <1>1, <1>2 DEF Selectable, IInv, TypeOK, ActiveFollowsSelection
  <2>2. active.num \in Configured
    BY <2>1 DEF Configured
  <2>3. WithCount(n)[active.num].par = n
    BY <1>1, <2>2, CountValues, BoundsAssumption
  <2>. QED
    BY <1>2, <1>3, <2>3 DEF Parallel
<1>. QED
  BY <1>2, <1>3

(* Whatever goes wrong, the timer ends only with a charger lost inside a   *)
(* chemistry error, and the message thread only with a lost charger, a     *)
(* preset of an earlier connection or an impossible request.               *)
THEOREM ThreadsAlwaysEndByLoss == Spec => ThreadsEndByLoss
<1>. DEFINE A == /\ (timer # "dead" /\ timer' = "dead") =>
                      ~options /\ state = "Disconnected" /\ forced = "badChemistry"
                 /\ (alive /\ ~alive') =>
                      \/ ~options /\ state = "Disconnected"
                      \/ active # None /\ active.frozen # 0
                      \/ ImpossibleRequest
<1>1. ASSUME IInv /\ LossInv, [Next]_vars PROVE [A]_vars
  <2>1. CASE SendSettings
    BY <1>1, <2>1 DEF SendSettings, Crash, threadVars, LossInv, IInv, ConnectedHasData
  <2>2. CASE SettingsFail
    BY <1>1, <2>2 DEF SettingsFail, Crash, LossInv, IInv, ConnectedHasData
  <2>3. ASSUME NEW n \in CountRequests, SetBatteryGroupCount(n) PROVE A
    <3>1. timer' = timer
      BY <1>1, <2>3 DEF SetBatteryGroupCount, MayHandle, Crash, threadVars, LossInv
    <3>. QED
      BY <1>1, <2>3, <3>1, CountCrash
  <2>4. CASE ImpossibleRequest
    <3>1. timer' = timer
      BY <1>1, <2>4 DEF ImpossibleRequest, SelectOperation, CountRequestFails, MayHandle,
        Crash, threadVars, LossInv
    <3>. QED
      BY <2>4, <3>1
  <2>5. CASE /\ ~SendSettings /\ ~SettingsFail /\ ~ImpossibleRequest
             /\ ~\E n \in CountRequests : SetBatteryGroupCount(n)
    BY <1>1, <2>5, NoThreadEnds
  <2>. QED
    BY <2>1, <2>2, <2>3, <2>4, <2>5
<1>. QED
  BY <1>1, InitInvariant, StepInvariant, LossInit, LossStep, PTL DEF Spec, ThreadsEndByLoss

-----------------------------------------------------------------------------
(* Calm sessions.                                                          *)

(* Until the first status loop of the session has connected only it runs;  *)
(* after it the options are there for good.                                *)
CalmControl ==
  /\ alive /\ timer # "dead"
  /\ pc \in {"connect", "presets"} => state = "Disconnected"
  /\ state = "Disconnected" => \/ pc \in {"connect", "presets", "chem"}
                               \/ pc = "free" /\ timer = "never"
  /\ ~options => \/ pc = "connect"
                 \/ pc = "free" /\ timer = "never"

(* The presets in memory are read before there is an active one, which     *)
(* therefore is one of them; and while the gate is open it is the charger's *)
(* selection, and all of them are up to date.                              *)
CalmGate ==
  /\ state = "Disconnected" => disallow /\ active = None
  /\ active # None => active.frozen = 0
  /\ ~disallow => /\ chActive = PresetOf[selOp]
                  /\ \A s \in Configured : mem[s].tuned /\ mem[s].par = count

CalmInv == calm => CalmControl /\ CalmGate

(* The charger is connected before any command is handled, and afterwards. *)
LEMMA CalmHandler ==
  ASSUME CalmInv, calm, MayHandle
  PROVE  state # "Disconnected" /\ options /\ pc = "free"
BY DEF CalmInv, CalmControl, MayHandle

-----------------------------------------------------------------------------
LEMMA CalmInit == Init => CalmInv
BY DEF Init, CalmInv, CalmControl, CalmGate

LEMMA CalmControlStep ==
  ASSUME IInv, CalmInv, Tick \/ ConnectRequest \/ StartTimer \/ SendSettings
  PROVE  CalmInv'
<1>. USE DEF CalmInv, CalmControl, CalmGate, gateVars, appVars, chargerVars, lineVars,
             threadVars, Configured
<1>1. CASE Tick
  BY <1>1 DEF Tick, EnterLoop, LoopEntry
<1>2. CASE ConnectRequest
  BY <1>2 DEF ConnectRequest, ForgetSession, ForgetState, EnterLoop, LoopEntry
<1>3. CASE StartTimer
  BY <1>3 DEF StartTimer
<1>4. CASE SendSettings
  BY <1>4 DEF SendSettings
<1>. QED
  BY <1>1, <1>2, <1>3, <1>4

LEMMA CalmLoopStep ==
  ASSUME IInv, CalmInv, StatusLoopStep
  PROVE  CalmInv'
<1>. USE DEF CalmInv, CalmControl, CalmGate, gateVars, appVars, chargerVars, lineVars,
             threadVars, Configured
<1>1. CASE Connects
  BY <1>1 DEF Connects
<1>2. CASE ConnectFails \/ ReadPresetsFails \/ StatusFails
  BY <1>2 DEF ConnectFails, ReadPresetsFails, StatusFails
<1>3. CASE ReadsPresets
  BY <1>3 DEF ReadsPresets, Freeze, IInv, ControlOK
<1>4. CASE CheckChemistry
  BY <1>4 DEF CheckChemistry, LoopEntry
<1>5. CASE ChargerConnected
  <2>1. state' # "Disconnected"
    BY <1>5, ConnectedEvent DEF ChargerConnected, IInv, TypeOK
  <2>. QED
    BY <1>5, <2>1 DEF ChargerConnected
<1>6. CASE SettingsFail
  BY <1>6 DEF SettingsFail
<1>7. CASE StatusRead
  <2>. SUFFICES ASSUME calm PROVE (CalmControl /\ CalmGate)'
    BY <1>7 DEF StatusRead
  <2>1. state \in States /\ state # "Disconnected" /\ pc = "status"
    BY <1>7 DEF StatusRead, IInv, TypeOK, ControlOK
  <2>2. mem \in Memory /\ options
    BY <2>1 DEF IInv, TypeOK, ConnectedHasData
  <2>3. state' # "Disconnected"
    <3>1. PICK r \in Readings : state' = OnEvent(state, EventOf(Forced(r)))
      BY <1>7 DEF StatusRead
    <3>. QED
      BY <2>1, <3>1, ForcedEvent, OtherEvent
  <2>4. CalmControl'
    BY <1>7, <2>1, <2>2, <2>3, LeaveLoopControl DEF StatusRead, IInv
  <2>5. active' # None => active'.frozen = 0
    BY <1>7 DEF StatusRead, CheckPreset, Live
  <2>6. ~disallow' => /\ chActive' = PresetOf[selOp]
                      /\ \A s \in Configured : mem'[s].tuned /\ mem'[s].par = count
    <3>1. CASE ~PresetDiffers
      BY <1>7, <3>1 DEF StatusRead, CheckPreset
    <3>2. CASE PresetDiffers
      <4>1. SUFFICES ASSUME ~disallow' PROVE
                mem' = Tuned /\ \E answer \in Answers :
                  /\ chActive' = IF Done(answer) THEN PresetOf[selOp] ELSE chActive
                  /\ disallow' = GateClosed(answer)
        BY <2>2, TunedValues DEF GateClosed, Done
      <4>. QED
        BY <1>7, <3>2, <4>1 DEF StatusRead, CheckPreset
    <3>. QED
      BY <3>1, <3>2
  <2>. QED
    BY <1>7, <2>3, <2>4, <2>5, <2>6 DEF StatusRead
<1>. QED
  BY <1>1, <1>2, <1>3, <1>4, <1>5, <1>6, <1>7 DEF StatusLoopStep

(* A command that changes nothing but forced, state, job, pc and cont.     *)
LEMMA CalmCommandStep ==
  ASSUME IInv, CalmInv, MayHandle,
         ManualOperation \/ RefuseStart \/ OperationStart \/ RefuseCount
           \/ OperationStop \/ Dismiss \/ ClearError
           \/ \E op \in Ops : RefuseSelection(op)
  PROVE  CalmInv'
<1>. SUFFICES ASSUME calm PROVE (CalmControl /\ CalmGate)'
  BY DEF CalmInv, ManualOperation, RefuseStart, OperationStart, RefuseCount, OperationStop,
         Dismiss, ClearError, RefuseSelection, Refuse, EnterAnd, lineVars
<1>1. state \in States /\ state # "Disconnected" /\ options /\ pc = "free" /\ timer # "never"
  BY CalmHandler DEF IInv, TypeOK, MayHandle
<1>2. /\ state' # "Disconnected" /\ pc' \in {"free", "status"}
      /\ UNCHANGED <<options, mem, gateVars, count, selOp, chActive, calm, threadVars>>
  <2>1. CASE \/ ManualOperation \/ RefuseStart \/ RefuseCount
             \/ \E op \in Ops : RefuseSelection(op)
    BY <1>1, <2>1 DEF ManualOperation, RefuseStart, RefuseCount, RefuseSelection, Refuse,
                      EnterLoop, LoopEntry, appVars, chargerVars, lineVars
  <2>2. CASE OperationStart
    BY <1>1, <2>2 DEF OperationStart, appVars, lineVars
  <2>3. ASSUME NEW e \in {"STOP", "DISMISS"}, EnterAnd(e) PROVE <1>2
    <3>1. OnEvent(state, e) # "Disconnected"
      BY <1>1, OtherEvent DEF Events
    <3>. QED
      BY <1>1, <2>3, <3>1 DEF EnterAnd, EnterLoop, LoopEntry, appVars, lineVars
  <2>4. CASE ClearError /\ forced # None
    <3>1. OnEvent(state, "DISMISS") # "Disconnected"
      BY <1>1, OtherEvent DEF Events
    <3>. QED
      BY <1>1, <2>4, <3>1 DEF ClearError, EnterLoop, LoopEntry, appVars, chargerVars, lineVars
  <2>. QED
    BY <2>1, <2>2, <2>3, <2>4 DEF OperationStop, Dismiss, ClearError
<1>. QED
  BY <1>1, <1>2 DEF CalmInv, CalmControl, CalmGate, gateVars, threadVars, Configured

LEMMA CalmSelectionStep ==
  ASSUME IInv, CalmInv, NEW op \in Ops \cup Unmapped, SelectOperation(op)
  PROVE  CalmInv'
<1>. SUFFICES ASSUME calm' PROVE (CalmControl /\ CalmGate)'
  BY DEF CalmInv
<1>1. op \notin Unmapped
  BY DEF SelectOperation
<1>2. PICK answer \in Answers :
        /\ chActive' = IF Done(answer) THEN PresetOf[op] ELSE chActive
        /\ Adopt(op, answer)
        /\ calm' = (calm /\ answer # "lost")
  BY <1>1 DEF SelectOperation
<1>3. calm /\ answer # "lost"
  BY <1>2
<1>4. state # "Disconnected" /\ options /\ pc = "free" /\ timer # "never"
  BY <1>3, CalmHandler DEF SelectOperation, MayHandle
<1>5. /\ pc' = "settings"
      /\ UNCHANGED <<state, options, mem, disallow, count, threadVars>>
  BY <1>1 DEF SelectOperation
<1>6. /\ active' # None => active'.frozen = 0
      /\ ~disallow => chActive' = PresetOf[selOp']
  BY <1>2, <1>3 DEF Adopt, Done, Live, CalmInv, CalmGate
<1>. QED
  BY <1>3, <1>4, <1>5, <1>6 DEF CalmInv, CalmControl, CalmGate, threadVars, Configured

LEMMA CalmCountStep ==
  ASSUME IInv, CalmInv, NEW n \in CountRequests, SetBatteryGroupCount(n)
  PROVE  CalmInv'
<1>. SUFFICES ASSUME calm PROVE (CalmControl /\ CalmGate)'
  BY DEF CalmInv, SetBatteryGroupCount, lineVars
<1>1. state = "Idle" /\ options /\ pc = "free" /\ timer # "never"
  BY CalmHandler DEF SetBatteryGroupCount, MayHandle
<1>2. mem \in Memory /\ count \in Nat /\ n \in Nat
  BY <1>1, BoundsAssumption DEF IInv, TypeOK, ConnectedHasData
<1>3. UNCHANGED <<state, options, active, disallow, selOp, chActive, calm>>
  BY DEF SetBatteryGroupCount, gateVars, lineVars
<1>4. \A m \in Nat : active # None => Parallel(active, WithCount(m)) = m
  <2>. SUFFICES ASSUME NEW m \in Nat, active # None PROVE Parallel(active, WithCount(m)) = m
    OBVIOUS
  <2>1. selOp \in Ops /\ active.num = PresetOf[selOp] /\ active.frozen = 0
    BY DEF SetBatteryGroupCount, CountFails, Selectable, IInv, TypeOK, ActiveFollowsSelection,
           CalmInv, CalmGate
  <2>2. active.num \in Configured
    BY <2>1 DEF Configured
  <2>. QED
    BY <1>2, <2>1, <2>2, CountValues DEF Parallel
<1>5. /\ pc' = "settings" /\ UNCHANGED threadVars
      /\ \/ UNCHANGED <<mem, count>>
         \/ mem' = WithCount(count')
  BY <1>2, <1>4 DEF SetBatteryGroupCount
<1>6. ~disallow => \A s \in Configured : mem'[s].tuned /\ mem'[s].par = count'
  <2>1. ~disallow => \A s \in Configured : mem[s].tuned /\ mem[s].par = count
    BY DEF CalmInv, CalmGate
  <2>2. CASE UNCHANGED <<mem, count>>
    BY <2>1, <2>2
  <2>3. CASE mem' = WithCount(count')
    <3>1. count' \in Nat
      BY <1>2 DEF SetBatteryGroupCount
    <3>. QED
      BY <1>2, <2>1, <2>3, <3>1, CountValues
  <2>. QED
    BY <1>5, <2>2, <2>3
<1>7. CalmControl'
  BY <1>1, <1>3, <1>5 DEF CalmInv, CalmControl, threadVars
<1>8. CalmGate'
  BY <1>1, <1>3, <1>6 DEF CalmInv, CalmGate, Configured
<1>. QED
  BY <1>7, <1>8

(* Requests that cannot be met end what is calm, and so does the world     *)
(* outside, but for a job that ends.                                       *)
LEMMA CalmOtherStep ==
  ASSUME IInv, CalmInv,
         Environment \/ (\E n \in CountRequests : CountRequestFails(n)) \/ UNCHANGED vars
  PROVE  CalmInv'
<1>1. CASE JobEnds \/ UNCHANGED vars
  BY <1>1 DEF JobEnds, outside, vars, gateVars, appVars, threadVars, CalmInv, CalmControl,
              CalmGate, Configured
<1>2. CASE SwitchCharger \/ SelectOnPanel \/ \E n \in CountRequests : CountRequestFails(n)
  BY <1>2 DEF SwitchCharger, SelectOnPanel, CountRequestFails, CalmInv
<1>. QED
  BY <1>1, <1>2 DEF Environment

LEMMA CalmStep == IInv /\ CalmInv /\ [Next]_vars => CalmInv'
<1>. SUFFICES ASSUME IInv, CalmInv, [Next]_vars PROVE CalmInv'
  OBVIOUS
<1>1. CASE Tick \/ ConnectRequest \/ StartTimer \/ SendSettings
  BY <1>1, CalmControlStep
<1>2. CASE StatusLoopStep
  BY <1>2, CalmLoopStep
<1>3. CASE \E op \in Ops \cup Unmapped : SelectOperation(op)
  BY <1>3, CalmSelectionStep
<1>4. CASE \E n \in CountRequests : SetBatteryGroupCount(n)
  BY <1>4, CalmCountStep
<1>5. CASE \/ ManualOperation \/ RefuseStart \/ OperationStart \/ RefuseCount
           \/ OperationStop \/ Dismiss \/ ClearError
           \/ \E op \in Ops : RefuseSelection(op)
  <2>1. MayHandle
    BY <1>5 DEF ManualOperation, RefuseStart, OperationStart, RefuseCount, OperationStop,
                Dismiss, ClearError, RefuseSelection
  <2>. QED
    BY <1>5, <2>1, CalmCommandStep
<1>6. CASE \/ Environment \/ UNCHANGED vars
           \/ \E n \in CountRequests : CountRequestFails(n)
  BY <1>6, CalmOtherStep
<1>. QED
  BY <1>1, <1>2, <1>3, <1>4, <1>5, <1>6 DEF Next, Handler

LEMMA AlwaysCalmInvariant == Spec => [](IInv /\ CalmInv)
BY InitInvariant, StepInvariant, CalmInit, CalmStep, PTL DEF Spec

-----------------------------------------------------------------------------
(* No command takes a thread down in a calm session.                       *)
THEOREM ThreadsAlwaysSurvive == Spec => []ThreadsSurvive
<1>1. CalmInv => ThreadsSurvive
  BY DEF CalmInv, CalmControl, ThreadsSurvive
<1>. QED
  BY <1>1, AlwaysCalmInvariant, PTL

(* In a calm session an open gate means presets with the battery's values. *)
THEOREM GateAlwaysMeansTuned == Spec => []GateMeansTuned
<1>1. CalmInv => GateMeansTuned
  BY DEF CalmInv, CalmGate, GateMeansTuned
<1>. QED
  BY <1>1, AlwaysCalmInvariant, PTL

(* In a calm session the charger is told to run the preset of the          *)
(* operation that is selected in the app.                                  *)
THEOREM AlwaysRunsSelectedPreset == Spec => RunsSelectedPreset
<1>. DEFINE A == (calm /\ JobStarts) => job' = PresetOf[selOp]
<1>1. ASSUME IInv /\ CalmInv, [Next]_vars PROVE [A]_vars
  <2>1. CASE OperationStart
    <3>1. ~disallow
      BY <2>1, NoneAssumption DEF OperationStart, Refusal, ErrorCodes
    <3>. QED
      BY <1>1, <2>1, <3>1 DEF OperationStart, JobStarts, CalmInv, CalmGate
  <2>2. CASE ~OperationStart
    <3>1. job' = job \/ job' = None
      BY <1>1, <2>2 DEF Next, StatusLoopStep, Handler, Environment, Tick, ConnectRequest,
        StartTimer, SendSettings, Connects, ConnectFails, ReadsPresets, ReadPresetsFails,
        CheckChemistry, ChargerConnected, SettingsFail, StatusRead, StatusFails,
        ManualOperation, RefuseStart, OperationStop, Dismiss, ClearError,
        EnterAnd, Refuse, RefuseSelection, SelectOperation, RefuseCount, CountRequestFails,
        SetBatteryGroupCount, SwitchCharger, SelectOnPanel, JobEnds, outside, chargerVars, vars
    <3>. QED
      BY <3>1 DEF JobStarts
  <2>. QED
    BY <2>1, <2>2
<1>. QED
  BY <1>1, AlwaysCalmInvariant, PTL DEF Spec, RunsSelectedPreset
=============================================================================
