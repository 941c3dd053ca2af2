------------------------------- MODULE Presets -------------------------------
(***************************************************************************)
(* The presets of the charger: the bit fields of charger/preset.py, with   *)
(* what the getters and the setters make of them, and _modify_preset of    *)
(* emulator.py.                                                            *)
(*                                                                         *)
(* A preset is 51 words of 16 bits, named by the offset of their first     *)
(* byte as in the code.  Currents are in mA, voltages in mV and            *)
(* max_charge_amps is in hundredths of an ampere; is_... fields are 0 or   *)
(* 1.  The name and the fuel curve, which no code changes, are not fields  *)
(* here: their words are words like any other.                             *)
(*                                                                         *)
(* Two setters round a value that lies halfway between two codes by what   *)
(* floating point makes of it, half of 10 mV of discharge_volts and half   *)
(* an ampere of max_charge_amps: these values are left out.                *)
(***************************************************************************)
EXTENDS Integers, Sequences

CONSTANT
  Endless      \* what num_cycles calls 2 ** 32, a number that is no other value

ASSUME EndlessAssumption == Endless \in Nat /\ Endless > 20

-----------------------------------------------------------------------------
(* Where the fields are: the offset of a word, the lowest and the highest  *)
(* bit.                                                                    *)
Layout ==
  [is_require_balance_done_enabled |-> <<0, 0, 0>>,    is_trickle_only |-> <<0, 5, 5>>,
   is_use_fuel_enabled |-> <<0, 10, 10>>,
   is_require_all_charge_volts_enabled |-> <<0, 11, 11>>,
   auto_charge_rate |-> <<0, 12, 15>>,                 max_auto_charge_rate |-> <<2, 10, 13>>,
   power_mode |-> <<32, 0, 3>>,                        charge_mamps |-> <<32, 4, 14>>,
   is_visible |-> <<32, 15, 15>>,                      charge_volts |-> <<34, 0, 9>>,
   max_charge_amps |-> <<34, 10, 15>>,                 is_validated |-> <<36, 14, 15>>,
   is_store_charge_discharge |-> <<46, 12, 12>>,
   is_end_cycling_with_discharge_enabled |-> <<46, 14, 14>>,
   discharge_mamps |-> <<48, 0, 8>>,                   cool_down_time |-> <<48, 10, 13>>,
   cv_termination |-> <<48, 14, 15>>,                  num_parallel |-> <<52, 8, 10>>,
   charge_timeout |-> <<52, 13, 15>>,                  discharge_timeout |-> <<54, 4, 6>>,
   is_balance_entire_charge_enabled |-> <<54, 15, 15>>,
   trickle_current_mamps |-> <<56, 9, 15>>,            chemistry |-> <<58, 6, 10>>,
   beep_at_percent |-> <<58, 11, 15>>,                 balance_mode |-> <<82, 10, 13>>,
   discharge_mode |-> <<84, 9, 11>>,
   is_requires_nodes_enabled |-> <<86, 13, 13>>,       num_cycles |-> <<88, 10, 12>>,
   cv_timeout |-> <<92, 5, 7>>,                        is_hide_empty_enabled |-> <<94, 15, 15>>,
   is_balance_discharge_enabled |-> <<96, 8, 8>>,      discharge_volts |-> <<98, 6, 14>>,
   is_locked |-> <<98, 15, 15>>]

Fields == DOMAIN Layout
Offsets == {2 * i : i \in 0..50}
CHECKSUM == 100

Word == 0..(2 ^ 16 - 1)
Codes(f) == 0..(2 ^ (Layout[f][3] - Layout[f][2] + 1) - 1)

(* bits_from_int16 and int16_to_bits; and the latter with a mistake: with  *)
(* the bits above the field lost, or with the old bits left in.            *)
Bits(word, lo, hi) == (word \div 2 ^ lo) % 2 ^ (hi - lo + 1)

SetLastBits(word, lo, hi, code) == (word % 2 ^ lo) + code * 2 ^ lo
AddBits(word, lo, hi, code) == word + code * 2 ^ lo

SetBits(word, lo, hi, code) == word + (code - Bits(word, lo, hi)) * 2 ^ lo

-----------------------------------------------------------------------------
(* What the getters make of the bits.                                      *)
CycleCounts == [code \in 0..7 |-> <<0, 1, 2, 3, 5, 10, 20, Endless>>[code + 1]]

Decode(f, code) ==
  CASE f = "charge_mamps" -> IF code < 200 THEN 5 * code ELSE 1000 + 50 * (code - 200)
    [] f = "discharge_mamps" ->
         IF code <= 100 THEN 10 * code ELSE 1000 + 250 * (code - 100)
    [] f = "charge_volts" -> 5 * code
    [] f = "discharge_volts" -> 10 * code
    [] f = "trickle_current_mamps" -> IF code < 125 THEN 5 * code ELSE 1000 * (code - 124)
    [] f = "max_charge_amps" -> IF code < 2 THEN 25 * (code + 1) ELSE 100 * (code - 1)
    [] f = "beep_at_percent" -> 2 * code + 38
    [] f = "num_parallel" -> code + 1
    [] f = "num_cycles" -> CycleCounts[code]
    [] f = "is_validated" -> IF code > 0 THEN 1 ELSE 0
    [] OTHER -> code

ValueOf(data, f) ==
  Decode(f, Bits(data[Layout[f][1]], Layout[f][2], Layout[f][3]))

(* What the setters make of a value.  A setter raises an exception, which  *)
(* leaves the preset alone, where the result is no code of the field.      *)
Invalid == -1

ChargeCodeFineTo2000(mamps) ==
  IF mamps < 2000 THEN (2 * mamps + 5) \div 10 ELSE (mamps + 25) \div 50 + 180
ChargeCode(mamps) ==
  LET m == IF mamps < 40000 THEN mamps ELSE 40000 IN
  IF m < 1000 THEN (2 * m + 5) \div 10 ELSE (m + 25) \div 50 + 180

DischargeCode(mamps) ==
  IF mamps <= 1000 THEN (mamps + 5) \div 10 ELSE (mamps + 125) \div 250 + 96

TrickleCode(mamps) ==
  IF mamps \in {1000, 2000, 3000} THEN mamps \div 1000 + 124
  ELSE IF mamps <= 620 THEN mamps \div 5 ELSE Invalid

CyclesCode(n) ==
  IF \E code \in 0..7 : CycleCounts[code] = n
    THEN CHOOSE code \in 0..7 : CycleCounts[code] = n ELSE Invalid

(* Below an ampere: to the next quarter, of which there is no third.       *)
MaxAmpsCode(amps) ==
  LET quarters == (2 * amps + 25) \div 50
      rounded  == (amps + 50) \div 100 + 1 IN
  IF amps < 100 THEN (IF quarters <= 1 THEN 0 ELSE IF quarters = 2 THEN 1 ELSE 2)
  ELSE IF rounded < 41 THEN rounded ELSE 41

Encode(f, value) ==
  CASE f = "charge_mamps" -> ChargeCode(value)
    [] f = "discharge_mamps" -> DischargeCode(value)
    [] f = "charge_volts" -> (2 * value + 5) \div 10
    [] f = "discharge_volts" -> (value + 5) \div 10
    [] f = "trickle_current_mamps" -> TrickleCode(value)
    [] f = "max_charge_amps" -> MaxAmpsCode(value)
    [] f = "beep_at_percent" -> (value - 38) \div 2
    [] f = "num_parallel" -> value - 1
    [] f = "num_cycles" -> CyclesCode(value)
    [] f = "chemistry" -> IF value < 14 THEN value ELSE Invalid
    [] OTHER -> value

Raises(f, value) == Encode(f, value) \notin Codes(f)

(* What a setter should make of a value: the nearest a preset can hold, or *)
(* for the two setters that round down the highest that is not above it;   *)
(* and never more than 40 A.  As max_charge_amps goes to the next quarter  *)
(* before it finds that there is no third, what is above 0.625 A is 1 A.   *)
RoundsDown == {"trickle_current_mamps", "beep_at_percent"}

Goal(f, value) ==
  CASE f = "charge_mamps" /\ value > 40000 -> 40000
    [] f = "max_charge_amps" /\ value > 4000 -> 4000
    [] f = "max_charge_amps" /\ value \in 63..74 -> 100
    [] OTHER -> value

Distance(v, w) == IF v < w THEN w - v ELSE v - w

Nearest(f, value, got) ==
  LET goal == Goal(f, value) IN
  IF f \in RoundsDown
    THEN got <= goal /\ \A code \in Codes(f) : Decode(f, code) \notin (got + 1)..goal
    ELSE \A code \in Codes(f) : Distance(got, goal) <= Distance(Decode(f, code), goal)

(* A value that a preset can hold as it is.                                *)
Holds(f, value) == ~Raises(f, value) /\ Decode(f, Encode(f, value)) = value

SetField(data, f, value) ==
  [data EXCEPT ![Layout[f][1]] =
     SetBits(@, Layout[f][2], Layout[f][3], Encode(f, value))]

(* _modify_preset: one value after the other, then 40 A.  The first setter *)
(* that raises an exception ends it, halfway.                              *)
Assign(m, f, value) ==
  IF Raises(f, value) THEN [m EXCEPT !.raised = TRUE]
  ELSE [data |-> SetField(m.data, f, value), update |-> TRUE, raised |-> FALSE]

AdjustAlways(m, new) == IF m.raised THEN m ELSE Assign(m, new[1], new[2])

Adjust(m, new) ==
  IF m.raised \/ ValueOf(m.data, new[1]) = new[2] THEN m ELSE Assign(m, new[1], new[2])

AllNew(new) == Append(new, <<"max_charge_amps", 4000>>)

Modified(data, new) ==
  LET all == AllNew(new)
      after[n \in 0..Len(all)] ==
        IF n = 0 THEN [data |-> data, update |-> FALSE, raised |-> FALSE]
        ELSE Adjust(after[n - 1], all[n])
  IN  after[Len(all)]

Undecided(f, value) ==
  \/ f = "discharge_volts" /\ value % 10 = 5
  \/ f = "max_charge_amps" /\ value > 100 /\ value % 100 = 50
=============================================================================
