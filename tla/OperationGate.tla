---------------------------- MODULE OperationGate ---------------------------
(***************************************************************************)
(* What the emulator promises about operations, without presets, errors    *)
(* and exchanges: an operation is shown in one of four phases, it is       *)
(* permitted or not, and the charger runs one or not.                      *)
(*                                                                         *)
(*   - Permission is only given while the charger is ready.                *)
(*   - The charger is only told to run with permission and while ready.    *)
(*   - An ended operation shows its outcome until it is acknowledged or    *)
(*     the charger is gone; nothing else follows it.                       *)
(*   - Nothing begins or ends before the charger is connected.             *)
(***************************************************************************)
VARIABLES
  phase,    \* "offline", "ready", "running", "ended"
  permit,   \* operations are allowed
  running   \* the charger has been told to run a preset

vars == <<phase, permit, running>>

Init == phase = "offline" /\ permit = FALSE /\ running = FALSE

Connect == phase = "offline" /\ phase' = "ready" /\ UNCHANGED <<permit, running>>

(* What the charger reports takes the operation on; a permission may be    *)
(* withdrawn with any report.                                              *)
Report ==
  /\ \/ phase = "ready"   /\ phase' \in {"running", "ended"}
     \/ phase = "running" /\ phase' \in {"ready", "ended"}
     \/ UNCHANGED phase
  /\ permit' => permit
  /\ UNCHANGED running

Grant == phase = "ready" /\ permit' /\ UNCHANGED <<phase, running>>

Start == phase = "ready" /\ permit /\ running' /\ UNCHANGED <<phase, permit>>

Stop == ~running' /\ (phase' = phase \/ (phase \in {"ready", "running"} /\ phase' = "ended"))
                  /\ UNCHANGED permit

(* The user dismisses an outcome, with or without an ENTER to the charger. *)
Acknowledge == phase = "ended" /\ phase' = "ready" /\ (running' => running)
                               /\ UNCHANGED permit

Drop == phase' = "offline" /\ UNCHANGED <<permit, running>>

NewSession == phase' = "offline" /\ ~permit' /\ UNCHANGED running

Next == Connect \/ Report \/ Grant \/ Start \/ Stop \/ Acknowledge \/ Drop \/ NewSession

Spec == Init /\ [][Next]_vars
=============================================================================
