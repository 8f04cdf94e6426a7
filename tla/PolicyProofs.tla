---------------------------- MODULE PolicyProofs -----------------------------
(***************************************************************************)
(* What the decisions of module Policy return, for any parameters and       *)
(* inputs of the types the source gives them.                                *)
(***************************************************************************)
EXTENDS Policy, TLAPS

(* A SloParams and a SloInputs of the same tick, with what load_all makes sure of. *)
Typed(p, i) ==
    /\ p.slo_drain_time \in Nat /\ p.min_workers \in Nat
    /\ p.max_workers \in Nat \ {0} /\ p.min_workers <= p.max_workers
    /\ p.hysteresis \in Nat /\ p.cooldown_ticks \in Nat /\ p.spike_backlog \in Nat
    /\ i.backlog \in Nat /\ i.running \in Nat /\ i.mu \in (Nat \ {0}) \union {None}
    /\ i.lambda \in Nat /\ i.worker_rss \in Nat \union {None}
    /\ i.safe_ram_budget \in Nat /\ i.swap_pressure \in BOOLEAN
    /\ i.ticks_since_change \in Nat /\ i.needs_probe \in BOOLEAN

(* Ceil(a, b) workers of throughput b carry a, and no fewer do. *)
LEMMA CeilFacts ==
    ASSUME NEW a \in Nat, NEW b \in Nat \ {0}
    PROVE  /\ Ceil(a, b) \in Nat
           /\ \A n \in Nat : Ceil(a, b) <= n <=> a <= n * b
<1> DEFINE q == (a + b - 1) \div b
           r == (a + b - 1) % b
<1>1. /\ q \in Int
      /\ r \in 0..(b - 1)
      /\ a + b - 1 = b * q + r
  BY SMT
<1>2. q >= 0
  BY <1>1, SMT
<1>3. ASSUME NEW n \in Nat PROVE q <= n <=> a <= n * b
  BY <1>1, <1>2, SMT
<1>4. QED
  BY <1>1, <1>2, <1>3 DEF Ceil

-----------------------------------------------------------------------------
(* The parts of decide_slo *)

(* The RAM for one worker more is there as long as the pool is below the capacity. *)
LEMMA FitFacts ==
    ASSUME NEW budget \in Nat, NEW size \in Nat \ {0}
    PROVE  /\ budget \div size \in Nat
           /\ \A n \in Nat : n <= budget \div size => n * size <= budget
<1> DEFINE q == budget \div size
           r == budget % size
<1>1. /\ q \in Int
      /\ r \in 0..(size - 1)
      /\ budget = size * q + r
  BY SMT
<1>2. q >= 0
  BY <1>1, SMT
<1>3. ASSUME NEW n \in Nat, n <= q PROVE n * size <= budget
  BY <1>1, <1>2, <1>3, SMT
<1>4. QED
  BY <1>1, <1>2, <1>3

LEMMA CapacityFacts ==
    ASSUME NEW p, NEW i, Typed(p, i)
    PROVE  /\ WorkersCapacity(p, i) \in Nat
           /\ WorkersCapacity(p, i) <= p.max_workers
           /\ i.worker_rss # None /\ i.worker_rss > 0 =>
                 WorkersCapacity(p, i) <= i.safe_ram_budget \div i.worker_rss
           /\ i.swap_pressure => \/ WorkersCapacity(p, i) <= i.running
                                 \/ WorkersCapacity(p, i) <= 1
<1> DEFINE fit == IF i.worker_rss # None /\ i.worker_rss > 0
                  THEN i.safe_ram_budget \div i.worker_rss
                  ELSE p.max_workers
<1>1. fit \in Nat
  <2>1. CASE i.worker_rss # None /\ i.worker_rss > 0
    BY <2>1, FitFacts DEF Typed
  <2>2. CASE ~(i.worker_rss # None /\ i.worker_rss > 0)
    BY <2>2 DEF Typed
  <2>3. QED
    BY <2>1, <2>2
<1>2. i.worker_rss # None /\ i.worker_rss > 0 => fit = i.safe_ram_budget \div i.worker_rss
  OBVIOUS
<1> HIDE DEF fit
<1>3. WorkersCapacity(p, i) =
        Smaller(IF i.swap_pressure THEN Smaller(fit, Larger(i.running, 1)) ELSE fit,
                p.max_workers)
  BY DEF WorkersCapacity, fit
<1> DEFINE room == i.safe_ram_budget \div i.worker_rss
<1> HIDE DEF room
<1>4. /\ WorkersCapacity(p, i) \in Nat
      /\ WorkersCapacity(p, i) <= p.max_workers
      /\ WorkersCapacity(p, i) <= fit
      /\ i.swap_pressure => \/ WorkersCapacity(p, i) <= i.running
                            \/ WorkersCapacity(p, i) <= 1
  BY <1>1, <1>3 DEF Typed, Smaller, Larger
<1>5. QED
  BY <1>2, <1>4

(* The capacity can only grow with the pool: under swap pressure it is pinned to it. *)
LEMMA CapacityGrows ==
    ASSUME NEW p, NEW i, NEW j, Typed(p, i), Typed(p, j),
           j.worker_rss = i.worker_rss, j.safe_ram_budget = i.safe_ram_budget,
           j.swap_pressure = i.swap_pressure
    PROVE  i.running <= j.running => WorkersCapacity(p, i) <= WorkersCapacity(p, j)
<1> DEFINE fit == IF i.worker_rss # None /\ i.worker_rss > 0
                  THEN i.safe_ram_budget \div i.worker_rss
                  ELSE p.max_workers
<1>1. fit \in Nat
  <2>1. CASE i.worker_rss # None /\ i.worker_rss > 0
    BY <2>1, FitFacts DEF Typed
  <2>2. CASE ~(i.worker_rss # None /\ i.worker_rss > 0)
    BY <2>2 DEF Typed
  <2>3. QED
    BY <2>1, <2>2
<1> HIDE DEF fit
<1>2. /\ WorkersCapacity(p, i) =
           Smaller(IF i.swap_pressure THEN Smaller(fit, Larger(i.running, 1)) ELSE fit,
                   p.max_workers)
      /\ WorkersCapacity(p, j) =
           Smaller(IF i.swap_pressure THEN Smaller(fit, Larger(j.running, 1)) ELSE fit,
                   p.max_workers)
  BY DEF WorkersCapacity, fit
<1>3. QED
  BY <1>1, <1>2 DEF Typed, Smaller, Larger

LEMMA NeededFacts ==
    ASSUME NEW p, NEW i, Typed(p, i)
    PROVE  /\ Work(p, i) \in Nat
           /\ WorkersNeeded(p, i) \in Nat \union {None}
           /\ WorkersNeeded(p, i) # None <=> MuKnown(i) /\ p.slo_drain_time > 0
           /\ WorkersNeeded(p, i) # None =>
                 /\ i.mu * p.slo_drain_time \in Nat \ {0}
                 /\ Work(p, i) < RateUnit => WorkersNeeded(p, i) = 0
                 /\ Work(p, i) >= RateUnit =>
                       WorkersNeeded(p, i) = Ceil(Work(p, i), i.mu * p.slo_drain_time)
<1> USE RateUnitAssumption, NoneAssumption DEF Typed
<1>1. Work(p, i) \in Nat
  BY SMT DEF Work
<1>2. MuKnown(i) /\ p.slo_drain_time > 0 => i.mu * p.slo_drain_time \in Nat \ {0}
  BY SMT DEF MuKnown
<1>3. MuKnown(i) /\ p.slo_drain_time > 0 =>
        Ceil(Work(p, i), i.mu * p.slo_drain_time) \in Nat
  BY <1>1, <1>2, CeilFacts
<1>4. QED
  BY <1>1, <1>2, <1>3 DEF WorkersNeeded

LEMMA TargetFacts ==
    ASSUME NEW p, NEW i, Typed(p, i), NEW n \in Nat, NEW c \in Nat, c <= p.max_workers
    PROVE  /\ Target(p, n, c) \in Nat
           /\ p.min_workers <= Target(p, n, c)
           /\ Target(p, n, c) <= p.max_workers
           /\ Target(p, n, c) > p.min_workers => Target(p, n, c) <= c
           /\ \A d \in Nat : c <= d => Target(p, n, c) <= Target(p, n, d)
  BY DEF Typed, Target, Clamp, Smaller, Larger

-----------------------------------------------------------------------------
(* The decision *)

LEMMA DecisionParts ==
    ASSUME NEW p, NEW i
    PROVE  LET step == DecideAction(p, i, WorkersNeeded(p, i), WorkersCapacity(p, i))
           IN  DecideSlo(p, i).action = step.action /\ DecideSlo(p, i).probing = step.probing
  BY DEF DecideSlo

(* Why the pool grows. *)
LEMMA GrowthReasons ==
    ASSUME NEW p, NEW i, Typed(p, i), DecideSlo(p, i).action = "ScaleUp"
    PROVE  LET needed   == WorkersNeeded(p, i)
               capacity == WorkersCapacity(p, i)
           IN  \/ i.running < p.min_workers
               \/ needed = None /\ i.backlog > 0 /\ i.running < capacity
               \/ needed # None /\ i.running + p.hysteresis < Target(p, needed, capacity)
<1> DEFINE needed   == WorkersNeeded(p, i)
           capacity == WorkersCapacity(p, i)
<1>1. DecideAction(p, i, needed, capacity).action = "ScaleUp"
  BY DecisionParts
<1>2. capacity \in Nat /\ capacity <= p.max_workers /\ needed \in Nat \union {None}
  BY CapacityFacts, NeededFacts
<1>3. needed # None => Target(p, needed, capacity) \in Nat
  BY <1>2, TargetFacts
<1> HIDE DEF needed, capacity
<1>4. SUFFICES ASSUME ~(i.running < p.min_workers)
               PROVE  \/ needed = None /\ i.backlog > 0 /\ i.running < capacity
                      \/ needed # None /\ i.running + p.hysteresis < Target(p, needed, capacity)
  BY DEF needed, capacity
<1>5. CASE i.running > p.max_workers
  BY <1>1, <1>4, <1>5 DEF DecideAction, Step
<1>6. CASE needed = None /\ ~(i.running > p.max_workers)
  <2>1. Bootstrap(p, i, capacity).action = "ScaleUp"
    BY <1>1, <1>4, <1>6 DEF DecideAction
  <2>2. CASE i.backlog = 0
    BY <2>1, <2>2 DEF Bootstrap, Step
  <2>3. CASE i.backlog # 0
    BY <1>2, <1>6, <2>1, <2>3 DEF Bootstrap, Step, Typed
  <2>4. QED
    BY <2>2, <2>3
<1>7. CASE needed # None /\ ~(i.running > p.max_workers)
  <2>1. Track(p, i, Target(p, needed, capacity)).action = "ScaleUp"
    BY <1>1, <1>4, <1>7 DEF DecideAction
  <2>2. QED
    BY <1>3, <1>7, <2>1 DEF Track, Step, Typed
<1>8. QED
  BY <1>5, <1>6, <1>7

(* So a step up stays within the ceiling and, above the floor, within the capacity. *)
LEMMA GrowthFits ==
    ASSUME NEW p, NEW i, Typed(p, i), DecideSlo(p, i).action = "ScaleUp"
    PROVE  /\ i.running < p.max_workers
           /\ i.running < p.min_workers \/ i.running < WorkersCapacity(p, i)
<1> DEFINE needed   == WorkersNeeded(p, i)
           capacity == WorkersCapacity(p, i)
<1>1. capacity \in Nat /\ capacity <= p.max_workers /\ needed \in Nat \union {None}
  BY CapacityFacts, NeededFacts
<1>2. \/ i.running < p.min_workers
      \/ needed = None /\ i.backlog > 0 /\ i.running < capacity
      \/ needed # None /\ i.running + p.hysteresis < Target(p, needed, capacity)
  BY GrowthReasons
<1>3. needed # None => /\ Target(p, needed, capacity) \in Nat
                       /\ Target(p, needed, capacity) <= p.max_workers
                       /\ Target(p, needed, capacity) > p.min_workers =>
                             Target(p, needed, capacity) <= capacity
  BY <1>1, TargetFacts
<1> HIDE DEF needed, capacity
<1>4. i.running < p.max_workers /\ (i.running < p.min_workers \/ i.running < capacity)
  BY <1>1, <1>2, <1>3 DEF Typed
<1>5. QED
  BY <1>4 DEF capacity

(* Why it shrinks, a pool above its ceiling apart. *)
LEMMA ShrinkReasons ==
    ASSUME NEW p, NEW i, Typed(p, i), DecideSlo(p, i).action = "ScaleDown",
           i.running <= p.max_workers
    PROVE  LET needed   == WorkersNeeded(p, i)
               capacity == WorkersCapacity(p, i)
               probing  == DecideSlo(p, i).probing
           IN  /\ i.running >= p.min_workers
               /\ \/ /\ needed = None /\ i.backlog = 0
                     /\ i.running > p.min_workers /\ ~probing
                  \/ /\ needed = None /\ i.backlog > 0 /\ i.needs_probe
                     /\ i.running > p.min_workers /\ i.running > 1
                  \/ /\ needed # None
                     /\ Target(p, needed, capacity) + p.hysteresis < i.running /\ ~probing
<1> DEFINE needed   == WorkersNeeded(p, i)
           capacity == WorkersCapacity(p, i)
           act      == DecideAction(p, i, needed, capacity)
           probing  == DecideSlo(p, i).probing
<1>1. act.action = "ScaleDown" /\ probing = act.probing
  BY DecisionParts
<1>2. capacity \in Nat /\ capacity <= p.max_workers /\ needed \in Nat \union {None}
  BY CapacityFacts, NeededFacts
<1>3. needed # None => /\ Target(p, needed, capacity) \in Nat
  BY <1>2, TargetFacts
<1> HIDE DEF needed, capacity, probing
<1>4. ~(i.running > p.max_workers)
  BY DEF Typed
<1>5. ~(i.running < p.min_workers) /\ i.running >= p.min_workers
  <2>1. CASE i.running < p.min_workers
    BY <1>1, <2>1 DEF DecideAction, Step
  <2>2. QED
    BY <2>1 DEF Typed
<1>6. CASE needed = None
  <2>1. act = Bootstrap(p, i, capacity)
    BY <1>4, <1>5, <1>6 DEF DecideAction
  <2>2. CASE i.backlog = 0
    <3>1. act = Step(IF i.running > p.min_workers /\ CooldownOver(p, i)
                     THEN "ScaleDown" ELSE "Hold", FALSE)
      BY <2>1, <2>2 DEF Bootstrap
    <3> HIDE DEF act
    <3>2. i.running > p.min_workers /\ ~probing
      BY <1>1, <3>1 DEF Step
    <3>3. QED
      BY <1>5, <1>6, <2>2, <3>2 DEF needed, probing
  <2>3. CASE i.backlog # 0
    <3> DEFINE room == i.running < capacity /\ i.running < p.max_workers
    <3>1. act = IF room THEN Step("ScaleUp", i.needs_probe)
                ELSE IF i.needs_probe /\ i.running > Larger(p.min_workers, 1)
                     THEN Step("ScaleDown", TRUE)
                     ELSE Step("Hold", FALSE)
      BY <2>1, <2>3 DEF Bootstrap
    <3> HIDE DEF act
    <3>2. i.needs_probe /\ i.running > Larger(p.min_workers, 1)
      BY <1>1, <3>1 DEF Step
    <3>3. i.running > p.min_workers /\ i.running > 1 /\ i.backlog > 0
      BY <2>3, <3>2 DEF Larger, Typed
    <3>4. QED
      BY <1>5, <1>6, <3>2, <3>3 DEF needed
  <2>4. QED
    BY <2>2, <2>3
<1>7. CASE needed # None
  <2>1. act = Track(p, i, Target(p, needed, capacity))
    BY <1>4, <1>5, <1>7 DEF DecideAction
  <2> HIDE DEF act
  <2>2. Target(p, needed, capacity) + p.hysteresis < i.running /\ ~probing
    BY <1>1, <1>3, <1>7, <2>1 DEF Track, Step, Minus, Larger, Typed
  <2>3. QED
    BY <1>5, <1>7, <2>2 DEF needed, capacity, probing
<1>8. QED
  BY <1>6, <1>7

(* A decision is one of the three, and it never stops a worker there is not. *)
LEMMA ActionFacts ==
    ASSUME NEW p, NEW i, Typed(p, i), i.running <= p.max_workers
    PROVE  /\ DecideSlo(p, i).action \in {"ScaleUp", "ScaleDown", "Hold"}
           /\ DecideSlo(p, i).probing \in BOOLEAN
           /\ DecideSlo(p, i).action = "ScaleDown" => i.running > 0
<1> DEFINE needed   == WorkersNeeded(p, i)
           capacity == WorkersCapacity(p, i)
           act      == DecideAction(p, i, needed, capacity)
<1>1. DecideSlo(p, i).action = act.action /\ DecideSlo(p, i).probing = act.probing
  BY DecisionParts
<1>2. act.action \in {"ScaleUp", "ScaleDown", "Hold"} /\ act.probing \in BOOLEAN
  <2> HIDE DEF needed, capacity
  <2>1. /\ Bootstrap(p, i, capacity).action \in {"ScaleUp", "ScaleDown", "Hold"}
        /\ Bootstrap(p, i, capacity).probing \in BOOLEAN
    <3>1. i.needs_probe \in BOOLEAN
      BY DEF Typed
    <3> DEFINE room == i.running < capacity /\ i.running < p.max_workers
    <3>2. CASE i.backlog = 0
      BY <3>2 DEF Bootstrap, Step
    <3>3. CASE i.backlog # 0 /\ room
      BY <3>1, <3>3 DEF Bootstrap, Step
    <3>4. CASE i.backlog # 0 /\ ~room
      BY <3>4 DEF Bootstrap, Step
    <3>5. QED
      BY <3>2, <3>3, <3>4
  <2> DEFINE target == Target(p, needed, capacity)
  <2> HIDE DEF target
  <2>2. /\ Track(p, i, target).action \in {"ScaleUp", "ScaleDown", "Hold"}
        /\ Track(p, i, target).probing \in BOOLEAN
    BY DEF Track, Step
  <2>3. QED
    BY <2>1, <2>2 DEF DecideAction, Step, target
<1> HIDE DEF act
<1>3. ASSUME DecideSlo(p, i).action = "ScaleDown" PROVE i.running > 0
  <2>1. needed # None => Target(p, needed, capacity) \in Nat
    BY CapacityFacts, NeededFacts, TargetFacts
  <2>2. \/ i.running > p.min_workers
        \/ i.running > 1
        \/ needed # None /\ Target(p, needed, capacity) + p.hysteresis < i.running
    BY <1>3, ShrinkReasons
  <2>3. i.running \in Nat /\ p.min_workers \in Nat /\ p.hysteresis \in Nat
    BY DEF Typed
  <2> HIDE DEF needed, capacity
  <2>4. QED
    BY <2>1, <2>2, <2>3
<1>4. QED
  BY <1>1, <1>2, <1>3

(* decide_threshold grows within the ceiling. *)
LEMMA ThresholdFits ==
    ASSUME NEW p, NEW i, p.min_workers \in Nat, p.max_workers \in Nat,
           p.min_workers <= p.max_workers, i.running \in Nat,
           DecideThreshold(p, i) = "ScaleUp"
    PROVE  i.running < p.max_workers
<1>1. CASE i.running < p.min_workers
  BY <1>1
<1>2. CASE ~(i.running < p.min_workers)
  BY <1>2 DEF DecideThreshold
<1>3. QED
  BY <1>1, <1>2

=============================================================================
