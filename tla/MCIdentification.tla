-------------------------- MODULE MCIdentification ---------------------------
(* Identification with small pools, windows and graces. *)
EXTENDS Identification

Slo(min, max, margin) ==
    [mode |-> "slo", slo_drain_time |-> 2, min_workers |-> min, max_workers |-> max,
     hysteresis |-> margin, cooldown_ticks |-> 1, spike_backlog |-> 3]

(* Quiet ones, with windows late and an exit, and one that no pool keeps up with whose
   workers hold messages. *)
SomeQueues ==
    [arrivals : {1, 6}, prefetch : {0}, delays : {{1, 2}}, exits : {1}] \union
    [arrivals : {6}, prefetch : {1}, delays : {{1}}, exits : {0}]

SmallPools == {Slo(0, 2, 0), Slo(1, 3, 1)}

=============================================================================
