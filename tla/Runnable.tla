------------------------------ MODULE Runnable -------------------------------
(***************************************************************************)
(* What the control loop relies on in the parameters of a program: the      *)
(* assumption of module ControlLoop on its programs, and the guarantee      *)
(* module Monitor checks of every file and --mode the daemon starts with.   *)
(***************************************************************************)
EXTENDS Integers

(* clamp(min_workers, max_workers) panics on an empty range, and slo needs a drain time
   although the setting is optional. *)
IsRunnable(params) ==
    /\ params.mode \in {"slo", "threshold"}
    /\ params.min_workers \in Nat /\ params.max_workers \in Nat \ {0}
    /\ params.min_workers <= params.max_workers
    /\ params.cooldown_ticks \in Nat
    /\ params.mode = "slo" =>
          /\ params.slo_drain_time \in Nat /\ params.hysteresis \in Nat
          /\ params.spike_backlog \in Nat
    /\ params.mode = "threshold" => params.depth_threshold \in Nat

=============================================================================
