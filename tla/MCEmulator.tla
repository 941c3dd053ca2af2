----------------------------- MODULE MCEmulator -----------------------------
(* Constants for the checks of Emulator.                                    *)
EXTENDS Emulator

CONSTANTS s1, s2, normal, storage, analyze, trickle

MCSlots == {s1, s2}
MCOps == {normal, storage, analyze}
MCPresetOf == [op \in MCOps |-> IF op = storage THEN s2 ELSE s1]
NoUnmapped == {}
MCUnmapped == {trickle}

(* A ready charger, a running and a finished charge; an error is what every *)
(* reading turns into when one is forced.                                   *)
MCReadings == {Reading(0, FALSE), Reading(6, FALSE), Reading(7, TRUE)}
FewReadings == {Reading(0, FALSE), Reading(6, FALSE)}
IdleOnly == {Reading(0, FALSE)}

AllFaults == {"refused", "lost"}
NoFaults == {}
NoSlots == {}
OneOdd == {s2}
=============================================================================
