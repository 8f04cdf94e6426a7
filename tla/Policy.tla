------------------------------- MODULE Policy --------------------------------
(***************************************************************************)
(* The scaling decisions of src/policy.rs, as operators on one tick's       *)
(* inputs.  A rate (mu, lambda) is an integer number of 1/RateUnit messages *)
(* per time unit, so that rates below one message per unit exist; what is   *)
(* not known (Option::None) is the constant None.                           *)
(*                                                                          *)
(* `p` is a SloParams or ThresholdParams record, `i` the inputs record of   *)
(* the same tick, both with the field names of the source.                  *)
(***************************************************************************)
EXTENDS Integers

CONSTANTS
    None,     \* Option::None
    RateUnit  \* how finely rates are measured

(* FeasibilityGap, without its byte count; the drain time is a fraction. *)
FeasibilityGaps ==
    [gap_workers: Nat, best_drain: [work: Nat, rate: Nat] \union {None}]

ASSUME NoneAssumption ==
    /\ None \notin Int
    /\ None \notin FeasibilityGaps
    /\ None \notin [work: Nat, rate: Nat]
ASSUME RateUnitAssumption == RateUnit \in Nat \ {0}

-----------------------------------------------------------------------------
(* Arithmetic *)

Smaller(a, b) == IF a <= b THEN a ELSE b
Larger(a, b)  == IF a >= b THEN a ELSE b

(* u32::clamp; load_all only accepts lo <= hi. *)
Clamp(x, lo, hi) == Larger(lo, Smaller(x, hi))

(* saturating_sub *)
Minus(a, b) == Larger(a - b, 0)

(* Mutant: the quotient rounded down. *)
RoundedDown(a, b) == a \div b

(* The quotient rounded up, b > 0. *)
Ceil(a, b) == (a + b - 1) \div b

-----------------------------------------------------------------------------
(* decide_slo *)

(* Mutant: under swap pressure the capacity is the running count, even of an empty pool. *)
CapacityPinned(p, i) ==
    LET fit   == IF i.worker_rss # None /\ i.worker_rss > 0
                 THEN i.safe_ram_budget \div i.worker_rss
                 ELSE p.max_workers
        paged == IF i.swap_pressure THEN Smaller(fit, i.running) ELSE fit
    IN  Smaller(paged, p.max_workers)

(* Mutant: swap pressure is not looked at. *)
CapacityBlindToSwap(p, i) ==
    Smaller(IF i.worker_rss # None /\ i.worker_rss > 0
            THEN i.safe_ram_budget \div i.worker_rss
            ELSE p.max_workers,
            p.max_workers)

(* How many workers the RAM budget carries; unmeasured workers are not constrained,
   and paging blocks growth beyond the first worker.  The saturation to u32 is
   absorbed by max_workers. *)
WorkersCapacity(p, i) ==
    LET fit   == IF i.worker_rss # None /\ i.worker_rss > 0
                 THEN i.safe_ram_budget \div i.worker_rss
                 ELSE p.max_workers
        paged == IF i.swap_pressure THEN Smaller(fit, Larger(i.running, 1)) ELSE fit
    IN  Smaller(paged, p.max_workers)

(* Expected work over the horizon, in messages / RateUnit. *)
Work(p, i) == i.backlog * RateUnit + i.lambda * p.slo_drain_time

MuKnown(i) == i.mu # None /\ i.mu > 0

(* Little's Law; less than one whole message needs nobody. *)
WorkersNeeded(p, i) ==
    IF ~(MuKnown(i) /\ p.slo_drain_time > 0) THEN None
    ELSE IF Work(p, i) < RateUnit THEN 0
    ELSE Ceil(Work(p, i), i.mu * p.slo_drain_time)

(* Mutant: an exact fit is reported as a gap. *)
GapOnExactFit(p, i, needed, capacity) ==
    IF needed = None \/ needed < capacity THEN None
    ELSE LET net == i.mu * capacity - i.lambda
         IN  [gap_workers |-> needed - capacity,
              best_drain  |-> IF net > 0 THEN [work |-> i.backlog * RateUnit, rate |-> net]
                                         ELSE None]

(* The feasibility gap: the shortfall, and the drain time at full capacity as the
   fraction backlog / net rate (None: the queue never drains). *)
FeasibilityGap(p, i, needed, capacity) ==
    IF needed = None \/ needed <= capacity THEN None
    ELSE LET net == i.mu * capacity - i.lambda
         IN  [gap_workers |-> needed - capacity,
              best_drain  |-> IF net > 0 THEN [work |-> i.backlog * RateUnit, rate |-> net]
                                         ELSE None]

Step(action, probing) == [action |-> action, probing |-> probing]

CooldownOver(p, i) == i.ticks_since_change >= p.cooldown_ticks

(* Mutant: an idle pool is drained whatever its floor. *)
BootstrapWithoutFloor(p, i, capacity) ==
    IF i.backlog = 0
    THEN Step(IF CooldownOver(p, i) THEN "ScaleDown" ELSE "Hold", FALSE)
    ELSE IF i.running < capacity /\ i.running < p.max_workers
    THEN Step("ScaleUp", i.needs_probe)
    ELSE IF i.needs_probe /\ i.running > Larger(p.min_workers, 1)
    THEN Step("ScaleDown", TRUE)
    ELSE Step("Hold", FALSE)

(* Mutant: a probe may stop the last worker. *)
BootstrapProbesLast(p, i, capacity) ==
    IF i.backlog = 0
    THEN Step(IF i.running > p.min_workers /\ CooldownOver(p, i) THEN "ScaleDown" ELSE "Hold",
              FALSE)
    ELSE IF i.running < capacity /\ i.running < p.max_workers
    THEN Step("ScaleUp", i.needs_probe)
    ELSE IF i.needs_probe /\ i.running > p.min_workers
    THEN Step("ScaleDown", TRUE)
    ELSE Step("Hold", FALSE)

(* decide_action while mu is unknown: drop idle workers, grow into any room there
   is, and at the ceiling step one worker down if that makes mu observable. *)
Bootstrap(p, i, capacity) ==
    LET idle == i.backlog = 0
        room == i.running < capacity /\ i.running < p.max_workers
    IN  CASE idle          -> Step(IF i.running > p.min_workers /\ CooldownOver(p, i)
                                   THEN "ScaleDown" ELSE "Hold", FALSE)
          [] ~idle /\ room  -> Step("ScaleUp", i.needs_probe)
          [] ~idle /\ ~room -> IF i.needs_probe /\ i.running > Larger(p.min_workers, 1)
                              THEN Step("ScaleDown", TRUE)
                              ELSE Step("Hold", FALSE)

Target(p, needed, capacity) ==
    Clamp(Smaller(needed, capacity), p.min_workers, p.max_workers)

(* Mutant: the upper edge of the dead zone is not part of it. *)
TrackInclusive(p, i, target) ==
    IF target >= i.running + p.hysteresis
    THEN Step(IF CooldownOver(p, i) \/ i.backlog > p.spike_backlog THEN "ScaleUp" ELSE "Hold",
              FALSE)
    ELSE IF target < Minus(i.running, p.hysteresis)
    THEN Step(IF CooldownOver(p, i) THEN "ScaleDown" ELSE "Hold", FALSE)
    ELSE Step("Hold", FALSE)

(* Mutant: only a spike lets the pool grow. *)
TrackOnlySpikes(p, i, target) ==
    IF target > i.running + p.hysteresis
    THEN Step(IF i.backlog > p.spike_backlog THEN "ScaleUp" ELSE "Hold", FALSE)
    ELSE IF target < Minus(i.running, p.hysteresis)
    THEN Step(IF CooldownOver(p, i) THEN "ScaleDown" ELSE "Hold", FALSE)
    ELSE Step("Hold", FALSE)

(* decide_action once mu is known: one step towards the target, damped. *)
Track(p, i, target) ==
    IF target > i.running + p.hysteresis
    THEN Step(IF CooldownOver(p, i) \/ i.backlog > p.spike_backlog THEN "ScaleUp" ELSE "Hold",
              FALSE)
    ELSE IF target < Minus(i.running, p.hysteresis)
    THEN Step(IF CooldownOver(p, i) THEN "ScaleDown" ELSE "Hold", FALSE)
    ELSE Step("Hold", FALSE)

DecideAction(p, i, needed, capacity) ==
    IF i.running < p.min_workers THEN Step("ScaleUp", FALSE)
    ELSE IF i.running > p.max_workers THEN Step("ScaleDown", FALSE)
    ELSE IF needed = None THEN Bootstrap(p, i, capacity)
    ELSE Track(p, i, Target(p, needed, capacity))

DecideSlo(p, i) ==
    LET capacity == WorkersCapacity(p, i)
        needed   == WorkersNeeded(p, i)
        step     == DecideAction(p, i, needed, capacity)
    IN  [action           |-> step.action,
         probing          |-> step.probing,
         workers_needed   |-> needed,
         workers_capacity |-> capacity,
         feasibility_gap  |-> FeasibilityGap(p, i, needed, capacity)]

-----------------------------------------------------------------------------
(* decide_threshold; i.crowded says that ram_ratio has reached ram_ratio_cap *)

(* Mutant: the depth threshold overrides max_workers. *)
ThresholdWithoutCeiling(p, i) ==
    IF i.running < p.min_workers THEN "ScaleUp"
    ELSE IF i.backlog = 0 /\ i.running > p.min_workers
    THEN IF CooldownOver(p, i) THEN "ScaleDown" ELSE "Hold"
    ELSE IF i.backlog > p.depth_threshold /\ ~i.crowded THEN "ScaleUp" ELSE "Hold"

DecideThreshold(p, i) ==
    IF i.running < p.min_workers THEN "ScaleUp"
    ELSE IF i.backlog = 0 /\ i.running > p.min_workers
    THEN IF CooldownOver(p, i) THEN "ScaleDown" ELSE "Hold"
    ELSE IF /\ i.backlog > p.depth_threshold
            /\ i.running < p.max_workers
            /\ ~i.crowded
    THEN "ScaleUp"
    ELSE "Hold"

=============================================================================
