---------------------------- MODULE MCControlLoop ----------------------------
(* ControlLoop with small configurations of up to three programs. *)
EXTENDS ControlLoop

Slo(min, max, size) ==
    [mode |-> "slo", min_workers |-> min, max_workers |-> max, cooldown_ticks |-> 1,
     rss |-> size, slo_drain_time |-> 1, hysteresis |-> 0, spike_backlog |-> 2]

Threshold(min, max, size) ==
    [mode |-> "threshold", min_workers |-> min, max_workers |-> max, cooldown_ticks |-> 1,
     rss |-> size, depth_threshold |-> 0, ram_cap |-> 3]

(* A floor that is served first, workers of two sizes, and two programs that compete
   for the same RAM. *)
ThreePrograms == <<Threshold(1, 1, 1), Slo(0, 2, 2), Slo(1, 2, 1)>>

OneProgram == <<Slo(0, 3, 1)>>

=============================================================================
