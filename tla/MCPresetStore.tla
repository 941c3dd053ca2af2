---------------------------- MODULE MCPresetStore ----------------------------
(* Constants for TLC: values on both sides of every boundary of a setter,  *)
(* and the values of three batteries, the second of which asks for a       *)
(* discharge current a preset cannot hold and the third for too many packs. *)
EXTENDS PresetStore

(* Fields that hold whatever fits, and share a word with others.           *)
Neighbours ==
  {"is_require_balance_done_enabled", "is_trickle_only", "is_use_fuel_enabled",
   "is_require_all_charge_volts_enabled", "auto_charge_rate", "power_mode", "is_visible",
   "is_store_charge_discharge", "is_end_cycling_with_discharge_enabled", "cool_down_time",
   "cv_termination", "charge_timeout", "discharge_timeout", "is_hide_empty_enabled",
   "is_balance_entire_charge_enabled", "is_locked"}

MCInputs ==
  {<<"charge_mamps", v>> : v \in {0, 997, 998, 1025, 1975, 45000}}
    \cup {<<"discharge_mamps", v>> : v \in {-6, 995, 1001, 1125, 103875}}
    \cup {<<"charge_volts", v>> : v \in {4202, 4203, 5118}}
    \cup {<<"discharge_volts", v>> : v \in {3306, 5110}}
    \cup {<<"trickle_current_mamps", v>> : v \in {4, 621, 3000}}
    \cup {<<"max_charge_amps", v>> : v \in {25, 40, 63, 75, 149, 4100}}
    \cup {<<"beep_at_percent", v>> : v \in {37, 99, 102}}
    \cup {<<"num_parallel", v>> : v \in {0, 8, 9}}
    \cup {<<"num_cycles", v>> : v \in {3, 4, 5, Endless}}
    \cup {<<"chemistry", v>> : v \in {13, 14}}
    \cup {<<f, 2 ^ (Layout[f][3] - Layout[f][2] + 1) - 1>> : f \in Neighbours}

Battery(charge, discharge, parallel, high, low, cycles) ==
  << <<"auto_charge_rate", 0>>, <<"charge_mamps", charge>>,
     <<"discharge_mamps", discharge>>, <<"num_parallel", parallel>>,
     <<"charge_volts", high>>, <<"discharge_volts", low>>, <<"num_cycles", cycles>> >>

MCNewValues ==
  {Battery(5000, 15000, 1, 4200, 3300, 1), Battery(450, 1350, 2, 4200, 3300, 10),
   Battery(1000, 300, 9, 4350, 3000, 1)}

MCHarmed == {16, 254, 511}
=============================================================================
