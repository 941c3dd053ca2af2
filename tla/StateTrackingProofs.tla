------------------------- MODULE StateTrackingProofs ------------------------
(***************************************************************************)
(* Proofs about module StateTracking: type correctness, whatever records   *)
(* the charger may report.                                                 *)
(***************************************************************************)
EXTENDS StateTracking, TLAPS

(* What a status record can stand for is an event, and where an event      *)
(* leads to is a state.                                                    *)
LEMMA RecordEvent ==
  ASSUME NEW r \in StatusRecord
  PROVE  EventOf(r) \in Events
BY DEF EventOf, IsReady, Events

LEMMA OnEventType ==
  ASSUME NEW s \in States, NEW e \in Events
  PROVE  OnEvent(s, e) \in States
BY DEF OnEvent, Accepts, Lines, LiveStates, Outcomes, Target, States, Events, EndEvents

LEMMA FollowState ==
  ASSUME NEW s \in States, NEW r \in StatusRecord
  PROVE  Follow(s, r) \in States
<1>. DEFINE linked == IF s = "Disconnected" THEN OnEvent(s, "CONNECTED") ELSE s
<1>1. linked \in States
  BY OnEventType DEF Events
<1>2. Follow(s, r) = OnEvent(linked, EventOf(r))
  BY DEF Follow
<1>. QED
  BY <1>1, <1>2, RecordEvent, OnEventType

-----------------------------------------------------------------------------
(* Type correctness.                                                       *)
LEMMA RecordType ==
  ASSUME NEW r \in StatusRecord
  PROVE  Entered(r) \in StatusRecord /\ \A f \in BOOLEAN : Overwritten(r, f) \in StatusRecord
<1>1. ERROR \in Byte /\ READY_TO_START \in Byte /\ 6 \in Byte
  BY DEF Byte, ERROR, READY_TO_START
<1>2. \A m \in Byte : [r EXCEPT !.mode = m] \in StatusRecord
  BY DEF StatusRecord
<1>3. \A m \in Byte : [r EXCEPT !.mode = m, !.complete = FALSE] \in StatusRecord
  BY DEF StatusRecord
<1>. QED
  BY <1>1, <1>2, <1>3 DEF Entered, Overwritten

LEMMA MessageType ==
  ASSUME NEW r \in StatusRecord, NEW s \in States, NEW f \in BOOLEAN
  PROVE  Gone \in Messages /\ NoMessage \in Messages /\ StatusMessage(r, s, f) \in Messages
<1>1. Overwritten(r, f).mode \in Byte
  BY RecordType DEF StatusRecord
<1>2. ModeRunning(Overwritten(r, f).mode) \in Byte
  BY <1>1 DEF ModeRunning, Unknown, Byte
<1>3. OperationFlags(s) \in {"NONE", "COMPLETE", "STOPPED"}
  BY DEF OperationFlags
<1>4. Unknown \in Byte
  BY DEF Unknown, Byte
<1>. QED
  BY <1>2, <1>3, <1>4 DEF Messages, Message, StatusMessage, Idle, Gone, NoMessage

(* A status loop, from whatever state a command has left, and a command.   *)
LEMMA LoopType ==
  ASSUME TypeOK, NEW s \in States, NEW r \in StatusRecord, NEW f \in BOOLEAN, Loop(s, r, f)
  PROVE  TypeOK'
<1>0. shown \in Messages
  BY DEF TypeOK
<1>1. CASE LoopReads(s, r, f)
  <2>1. Overwritten(r, f) \in StatusRecord
    BY RecordType
  <2>2. state' \in States
    BY <1>1, <2>1, FollowState DEF LoopReads
  <2>3. charger' \in StatusRecord
    BY <1>1, RecordType DEF LoopReads, HaltConfirmation
  <2>4. shown' \in Messages
    BY <1>0, <1>1, <2>2, MessageType DEF LoopReads, Sent
  <2>. QED
    BY <1>1, <2>2, <2>3, <2>4 DEF LoopReads, TypeOK
<1>2. CASE LoopFails(s, r, f)
  <2>1. state' \in States
    BY <1>2, OnEventType DEF LoopFails, Events
  <2>2. shown' \in Messages
    BY <1>0, <1>2, MessageType DEF LoopFails
  <2>. QED
    BY <1>2, <2>1, <2>2 DEF LoopFails, TypeOK
<1>. QED
  BY <1>1, <1>2 DEF Loop

LEMMA CommandType ==
  ASSUME TypeOK, NEW e \in {"STOP", "DISMISS"}, Command(e)
  PROVE  TypeOK'
<1>1. state \in States /\ charger \in StatusRecord /\ forced \in BOOLEAN
  BY DEF TypeOK
<1>2. OnEvent(state, e) \in States /\ Entered(charger) \in StatusRecord
  BY <1>1, OnEventType, RecordType DEF Events
<1>3. CASE Loop(OnEvent(state, e), Entered(charger), forced)
  BY <1>1, <1>2, <1>3, LoopType
<1>4. CASE charger' = Entered(charger) /\ UNCHANGED <<state, forced, shown>>
  BY <1>1, <1>2, <1>4 DEF TypeOK
<1>. QED
  BY <1>3, <1>4 DEF Command

LEMMA InitType == Init => TypeOK
<1>. SUFFICES ASSUME Init PROVE TypeOK
  OBVIOUS
<1>1. shown \in Messages
  BY DEF Init, NoMessage, Message, Messages, Unknown, Byte
<1>. QED
  BY <1>1, RecordsAssumption DEF Init, TypeOK, States

LEMMA StepType == TypeOK /\ [Next]_vars => TypeOK'
<1>. SUFFICES ASSUME TypeOK, [Next]_vars PROVE TypeOK'
  OBVIOUS
<1>0. state \in States /\ charger \in StatusRecord /\ forced \in BOOLEAN
  BY DEF TypeOK
<1>1. CASE ChargerMoves
  BY <1>0, <1>1, RecordsAssumption DEF ChargerMoves, TypeOK
<1>2. CASE StatusLoop \/ StatusLoopFails \/ Refuse
  BY <1>0, <1>2, LoopType DEF StatusLoop, StatusLoopFails, Refuse, Loop
<1>3. CASE Stop \/ Dismiss
  BY <1>3, CommandType DEF Stop, Dismiss
<1>4. CASE ClearError
  <2>1. Cleared(state) \in States
    BY <1>0, OnEventType DEF Cleared, Events
  <2>. QED
    BY <1>0, <1>4, <2>1, LoopType DEF ClearError
<1>5. CASE UNCHANGED vars
  BY <1>5 DEF vars, TypeOK
<1>. QED
  BY <1>1, <1>2, <1>3, <1>4, <1>5 DEF Next

(* Type correctness, for every set of records the charger may report.      *)
THEOREM TypeCorrect == Spec => []TypeOK
BY InitType, StepType, PTL DEF Spec
=============================================================================
