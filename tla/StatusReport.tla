----------------------------- MODULE StatusReport -----------------------------
(***************************************************************************)
(* The status message status_loop makes of a status record: the getters of *)
(* charger/status.py it uses, its own choice of a message and of what goes *)
(* into it, and the fields of messages/charger_status.py and               *)
(* messages/charger_idle.py those values are packed into.                  *)
(*                                                                         *)
(* A value its field cannot hold, or a number an enumeration lacks, raises *)
(* an exception.  By then the state has changed and the presets have been  *)
(* checked; the exception is logged and the app is sent nothing.           *)
(***************************************************************************)
EXTENDS ChargerState, Integers

(* The ways to fill the fields of the record a message can depend on, as   *)
(* the charger sends them; all other fields fit whatever they hold.        *)
Byte == 0..255
Word == 0..65535
CellNums == 0..7

StatusRecord ==
  [mode : Byte, complete : BOOLEAN, chem8 : Byte, ch1_cells : Byte,
   lower_pwm_reason : Byte, cv_started : BOOLEAN, temp : Word,
   secs : Word, mins : Word, vr_amps : Word, vr_offset : Word,
   cell_vr : [CellNums -> Word], bypass_pwm : [CellNums -> Byte]]

-----------------------------------------------------------------------------
(* _mode_conversion, by the number of the ChargerMode; Unknown stands for  *)
(* the exception it raises.                                                *)
Unknown == 255

ModeRunning(mode) ==
  CASE mode \in {READY_TO_START, DETECTING_PACK} \cup TRICKLE_CHARGING..11 \cup {ERROR} -> mode
    [] mode \in 2..6 -> 6
    [] OTHER -> Unknown

(* The numbers Chemistry and ChargerPowerReducedReason have a member for.  *)
Chemistries == 0..13
PowerReducedReasons == 0..16

(* cpu_temp, rounded to degrees Celsius, goes into an unsigned word:       *)
(* (2.5 temp / 4095 - 0.986) / 0.00355 > -1/2.                             *)
TemperatureFits(r) == (25000 * r.temp) \div 4095 >= 9842

(* charge_seconds: after eighteen hours the charger counts minutes.        *)
ChargeSeconds(r) ==
  IF r.secs >= 64799 THEN r.secs - 64800 + 60 * r.mins ELSE r.secs

(* mohm of a shown cell, in hundredths of a milliohm and cut to an         *)
(* integer, goes into an unsigned word: the voltage drop d gives           *)
(* 2560000 d / 273 vr_amps, which has to be above -1 and below 65536.      *)
(* Only the first cell's drop has the offset taken off it.                 *)
ResistanceFits(r, cell) ==
  LET d == r.cell_vr[cell] - (IF cell = 0 THEN r.vr_offset ELSE 0)
  IN  r.vr_amps > 0 =>
        2560000 * d > -273 * r.vr_amps /\ 625 * d < 4368 * r.vr_amps

(* bypass_percent, rounded, goes into a byte.                              *)
BypassFits(r, cell) == (99 * r.bypass_pwm[cell] + 16) \div 32 <= 255

CellsFit(r) ==
  /\ r.ch1_cells \in 0..8
  /\ \A cell \in 0..(r.ch1_cells - 1) : ResistanceFits(r, cell) /\ BypassFits(r, cell)

(* The reason for a reduced power is only looked at during an operation.   *)
ReasonFits(r, s) ==
  s \in {"Charging", "Discharging"} => r.lower_pwm_reason \in PowerReducedReasons

-----------------------------------------------------------------------------
(* The messages.  An idle one has neither mode nor error, and neither has  *)
(* the one about a lost charger.                                           *)
Messages ==
  [kind : {"nothing", "disconnected", "idle", "status"}, mode : Byte,
   flags : {"NONE", "COMPLETE", "STOPPED"}, error : {"charger", "refusal"}]

Message(kind, mode, flags, error) ==
  [kind |-> kind, mode |-> mode, flags |-> flags, error |-> error]

NoMessage == Message("nothing", Unknown, "NONE", "charger")
Gone == Message("disconnected", Unknown, "NONE", "charger")
Idle == Message("idle", Unknown, "NONE", "charger")

OperationFlags(s) ==
  CASE s = "Completed" -> "COMPLETE"
    [] s = "Stopped"   -> "STOPPED"
    [] OTHER           -> "NONE"

(* A forced error takes the place of the record's mode and error code.     *)
Overwritten(r, forced) == IF forced THEN [r EXCEPT !.mode = ERROR] ELSE r

(* No caller asks for an idle message where there would be another one.    *)
IsIdleStatus(s, forced) == s = "Idle" /\ ~forced

StatusMessage(r, s, forced) ==
  IF IsIdleStatus(s, forced)
    THEN Idle
    ELSE Message("status", ModeRunning(Overwritten(r, forced).mode), OperationFlags(s),
                 IF forced THEN "refusal" ELSE "charger")

(* Whether the message can be put together and packed.                     *)
Serializes(r, s, forced) ==
  /\ ModeRunning(Overwritten(r, forced).mode) # Unknown
  /\ TemperatureFits(r)
  /\ IsIdleStatus(s, forced) \/
       (r.chem8 \in Chemistries /\ ChargeSeconds(r) >= 0 /\ CellsFit(r) /\ ReasonFits(r, s))
=============================================================================
