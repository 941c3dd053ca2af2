----------------------------- MODULE MCSerialLink ----------------------------
(* Two presets to select, two contents for the presets memory, one command  *)
(* with an answer of its own.                                               *)
EXTENDS SerialLink

CONSTANTS s1, s2, d1, d2

MCSlots == {s1, s2}
MCData == {d1, d2}
MCCalls ==
  [op : {"select"}, on : MCSlots, data : {None}]
    \cup [op : {"press"}, on : {None}, data : {None}]
    \cup [op : {"load"}, on : {"presets"}, data : {None}]
    \cup [op : {"store"}, on : {"presets"}, data : MCData]
=============================================================================
