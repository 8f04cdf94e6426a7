------------------------------- MODULE Scaler --------------------------------
(***************************************************************************)
(* One slo program's controller, tick after tick, on a reading that does    *)
(* not change: whatever the configuration, the pool it starts from and the  *)
(* reading are.  It shows what decide_slo (module Policy) computes and where *)
(* its steps lead; module ControlLoop is about readings that do change.     *)
(***************************************************************************)
EXTENDS Policy

CONSTANTS
    Horizons,   \* values of slo_drain_time
    Floors,     \* values of min_workers
    Ceilings,   \* values of max_workers
    Margins,    \* values of hysteresis
    Cooldowns,  \* values of cooldown_ticks
    Backlogs,   \* values of backlog and spike_backlog
    Rates,      \* values of mu and lambda
    Sizes,      \* values of worker_rss
    Budgets,    \* values of safe_ram_budget
    Pools,      \* sizes of the pool at the start
    MaxExits    \* how many workers exit by themselves, at most

ASSUME RangesAssumption ==
    /\ Horizons \subseteq Nat /\ Floors \subseteq Nat /\ Ceilings \subseteq Nat \ {0}
    /\ Margins \subseteq Nat /\ Cooldowns \subseteq Nat
    /\ Backlogs \subseteq Nat /\ Rates \subseteq Nat
    /\ Sizes \subseteq Nat /\ Budgets \subseteq Nat /\ Pools \subseteq Nat
    /\ MaxExits \in Nat

VARIABLES
    params,  \* SloParams of the program
    inputs,  \* SloInputs of the current tick; only running and ticks_since_change move
    heading, \* which way the last step since the last worker exit went
    exits    \* workers that exited by themselves

vars == <<params, inputs, heading, exits>>

(* What load_all accepts; a slo_drain_time of zero is not rejected. *)
Params ==
    {p \in [slo_drain_time: Horizons, min_workers: Floors, max_workers: Ceilings,
            hysteresis: Margins, cooldown_ticks: Cooldowns, spike_backlog: Backlogs] :
        p.min_workers <= p.max_workers}

(* What one tick can read: the estimator asks for a probe only while mu is unknown,
   and never publishes a mu of zero. *)
Inputs ==
    {i \in [backlog: Backlogs, running: Nat, mu: (Rates \ {0}) \union {None}, lambda: Rates,
            worker_rss: Sizes \union {None}, safe_ram_budget: Budgets,
            swap_pressure: BOOLEAN, ticks_since_change: Nat, needs_probe: BOOLEAN] :
        i.needs_probe => i.mu = None}

Decision == DecideSlo(params, inputs)

Init ==
    /\ params \in Params
    /\ inputs \in {i \in [backlog: Backlogs, running: Pools,
                          mu: (Rates \ {0}) \union {None}, lambda: Rates,
                          worker_rss: Sizes \union {None}, safe_ram_budget: Budgets,
                          swap_pressure: BOOLEAN, ticks_since_change: {params.cooldown_ticks},
                          needs_probe: BOOLEAN] :
                      /\ i.running <= params.max_workers
                      /\ i.needs_probe => i.mu = None}
    /\ heading = "none"
    /\ exits = 0

(* Ticks beyond the cooldown change nothing any more (bound of the counter). *)
Later == Smaller(inputs.ticks_since_change + 1, params.cooldown_ticks)

Up ==
    /\ Decision.action = "ScaleUp"
    /\ inputs' = [inputs EXCEPT !.running = @ + 1, !.ticks_since_change = 0]
    /\ heading' = "up"
    /\ UNCHANGED <<params, exits>>

Down ==
    /\ Decision.action = "ScaleDown"
    /\ inputs' = [inputs EXCEPT !.running = @ - 1, !.ticks_since_change = 0]
    /\ heading' = "down"
    /\ UNCHANGED <<params, exits>>

(* Nothing to do. *)
Hold ==
    /\ Decision.action = "Hold"
    /\ inputs' = [inputs EXCEPT !.ticks_since_change = Later]
    /\ UNCHANGED <<params, heading, exits>>

(* A worker exits by itself and is reaped at the next tick. *)
WorkerExits ==
    /\ inputs.running > 0
    /\ exits < MaxExits
    /\ exits' = exits + 1
    /\ inputs' = [inputs EXCEPT !.running = @ - 1]
    /\ heading' = "none"
    /\ UNCHANGED params

Next == Up \/ Down \/ Hold \/ WorkerExits

Spec == Init /\ [][Next]_vars

(* The loop keeps ticking; nothing makes a worker exit. *)
FairSpec == Spec /\ WF_vars(Up \/ Down \/ Hold)

-----------------------------------------------------------------------------
(* Properties *)

(* Every variable keeps its type, and the pool stays between 0 and max_workers. *)
TypeOK ==
    /\ params \in Params
    /\ inputs \in Inputs
    /\ inputs.running <= params.max_workers
    /\ heading \in {"none", "up", "down"}
    /\ exits \in 0..MaxExits

Horizon == params.slo_drain_time

(* workers_needed is the least number of workers whose throughput over the horizon
   covers the backlog and what arrives meanwhile. *)
NeededIsLeast ==
    LET needed == Decision.workers_needed
        covers(n) == n * (inputs.mu * Horizon) >= Work(params, inputs)
    IN  needed # None /\ Work(params, inputs) >= RateUnit =>
            covers(needed) /\ ~covers(needed - 1)

(* A feasibility gap is reported exactly when the workers that fit cannot meet the
   SLO, and then the best drain it reports misses the SLO. *)
GapIsInfeasibility ==
    LET gap == Decision.feasibility_gap
    IN  /\ gap # None <=> /\ MuKnown(inputs)
                          /\ Horizon > 0
                          /\ Work(params, inputs) >= RateUnit
                          /\ Decision.workers_capacity * (inputs.mu * Horizon)
                                < Work(params, inputs)
        /\ gap # None =>
              (gap.best_drain # None => gap.best_drain.work > gap.best_drain.rate * Horizon)

(* A step up never leaves the ceiling, and unless it restores the floor it stays
   within what the RAM budget carries; a step down never breaks the floor, and a probe,
   taken only on a backlog, never stops the last worker. *)
StepsFit ==
    [][/\ inputs'.running > inputs.running =>
             /\ inputs'.running <= params.max_workers
             /\ \/ inputs.running < params.min_workers
                \/ inputs'.running <= Decision.workers_capacity
       /\ Down => /\ inputs'.running >= params.min_workers
                  /\ Decision.probing => inputs.backlog > 0 /\ inputs'.running >= 1]_vars

(* On a steady reading the controller does not turn round: only a probe, or a
   worker's own exit, changes the direction of its steps. *)
NoFlapping ==
    [][~inputs.needs_probe /\ heading # "none" => heading' \in {heading, "none"}]_vars

(* Where the pool comes to rest: within the dead zone of the target, or, mu being
   unknown, without any step the bootstrap would take. *)
AtRest ==
    LET d      == Decision
        target == Target(params, d.workers_needed, d.workers_capacity)
    IN  IF d.workers_needed = None
        THEN d.action = "Hold"
        ELSE /\ inputs.running >= params.min_workers
             /\ inputs.running <= params.max_workers
             /\ target <= inputs.running + params.hysteresis
             /\ inputs.running <= target + params.hysteresis

(* The controller comes to rest on every steady reading that wants no probe. *)
ComesToRest == ~inputs.needs_probe => <>[]AtRest

(* A backlog is served whenever the budget carries one worker, also while the host
   pages and whether or not mu is known; only a dead zone can stand in the way. *)
Servable ==
    /\ inputs.backlog > 0
    /\ inputs.worker_rss # None => inputs.worker_rss <= inputs.safe_ram_budget
    /\ params.hysteresis = 0 \/ ~MuKnown(inputs)

ServesBacklog == Servable => <>[](inputs.running > 0)

(* README.md, min_workers: "floor (0 = full scale-to-zero)"; no message is queued
   and none arrives. *)
Idle == inputs.backlog = 0 /\ inputs.lambda = 0 /\ params.min_workers = 0

ScalesToZero == Idle => <>(inputs.running = 0)

=============================================================================
