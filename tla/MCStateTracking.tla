--------------------------- MODULE MCStateTracking ---------------------------
(* Records for the checks of StateTracking: every mode the state machine or *)
(* the message tells apart, with the completion flag where it is looked at; *)
(* and for an idle, a charging, a finished, a halted and a failed charger   *)
(* records on both sides of each limit of the message.                     *)
EXTENDS StateTracking

Plain(mode, complete) ==
  [mode |-> mode, complete |-> complete, chem8 |-> 1, ch1_cells |-> 1,
   lower_pwm_reason |-> 0, cv_started |-> FALSE, temp |-> 1613,
   secs |-> 0, mins |-> 0, vr_amps |-> 600, vr_offset |-> 2,
   cell_vr |-> [cell \in CellNums |-> 2], bypass_pwm |-> [cell \in CellNums |-> 82]]

(* The last values that fit, all at once, and the first ones that do not.  *)
AtLimits(r) ==
  [r EXCEPT !.chem8 = 13, !.ch1_cells = 8, !.lower_pwm_reason = 16, !.secs = 64800,
            !.vr_amps = 2, !.vr_offset = 0, !.cell_vr = [cell \in CellNums |-> 13]]

BeyondLimits(r) ==
  {[r EXCEPT !.temp = 1612], [r EXCEPT !.chem8 = 14], [r EXCEPT !.lower_pwm_reason = 17],
   [r EXCEPT !.ch1_cells = 9], [r EXCEPT !.secs = 64799], [r EXCEPT !.vr_offset = 3]}

AtOthers(r) ==
  {[AtLimits(r) EXCEPT !.cell_vr[7] = 14], [r EXCEPT !.bypass_pwm[0] = 83]}

MCRecords ==
  LET modes == {0, 1, 9, 10, 11, 30, 99} \X {FALSE} \cup {2, 7, 8} \X BOOLEAN
      limits == {<<0, FALSE>>, <<6, FALSE>>, <<8, TRUE>>}
  IN  {Plain(m[1], m[2]) : m \in modes}
        \cup UNION {{AtLimits(Plain(m[1], m[2]))} \cup BeyondLimits(Plain(m[1], m[2])) : m \in limits}
        \cup AtOthers(Plain(6, FALSE))
=============================================================================
