---------------------------- MODULE ScalerProofs -----------------------------
(***************************************************************************)
(* Proofs about the slo controller, for every range of its parameters and   *)
(* readings.                                                                 *)
(***************************************************************************)
EXTENDS Scaler, PolicyProofs

(* The parameters and readings of a run are those module PolicyProofs is about. *)
LEMMA Numbers ==
    ASSUME NEW p \in Params, NEW i \in Inputs
    PROVE  /\ Typed(p, i)
           /\ i.needs_probe => i.mu = None
           /\ RateUnit \in Nat \ {0} /\ None \notin Int
  BY RangesAssumption, RateUnitAssumption, NoneAssumption DEF Params, Inputs, Typed

-----------------------------------------------------------------------------
(* What a decision says about the pool *)

Capacity == WorkersCapacity(params, inputs)
Needed   == WorkersNeeded(params, inputs)

LEMMA ParametersFacts ==
    ASSUME TypeOK
    PROVE  /\ params \in Params /\ inputs \in Inputs
           /\ Typed(params, inputs)
           /\ inputs.running <= params.max_workers
           /\ Capacity \in Nat /\ Capacity <= params.max_workers
           /\ Needed \in Nat \union {None}
           /\ Needed # None => Target(params, Needed, Capacity) \in Nat
<1>1. Typed(params, inputs)
  BY Numbers DEF TypeOK
<1>2. QED
  BY <1>1, CapacityFacts, NeededFacts, TargetFacts DEF TypeOK, Capacity, Needed

LEMMA DecisionFields ==
    /\ Decision.workers_needed = Needed
    /\ Decision.workers_capacity = Capacity
    /\ Decision.feasibility_gap = FeasibilityGap(params, inputs, Needed, Capacity)
  BY DEF Decision, DecideSlo, Needed, Capacity

(* Why the pool grows. *)
LEMMA UpReasons ==
    ASSUME TypeOK, Decision.action = "ScaleUp"
    PROVE  \/ inputs.running < params.min_workers
           \/ /\ Needed = None
              /\ inputs.backlog > 0
              /\ inputs.running < Capacity
           \/ /\ Needed # None
              /\ inputs.running + params.hysteresis < Target(params, Needed, Capacity)
<1>1. Typed(params, inputs) /\ DecideSlo(params, inputs).action = "ScaleUp"
  BY ParametersFacts DEF Decision
<1>2. QED
  BY <1>1, GrowthReasons DEF Needed, Capacity

(* Why it shrinks. *)
LEMMA DownReasons ==
    ASSUME TypeOK, Decision.action = "ScaleDown"
    PROVE  /\ inputs.running >= params.min_workers
           /\ \/ /\ Needed = None
                 /\ inputs.backlog = 0
                 /\ inputs.running > params.min_workers
                 /\ ~Decision.probing
              \/ /\ Needed = None
                 /\ inputs.backlog > 0
                 /\ inputs.needs_probe
                 /\ inputs.running > params.min_workers
                 /\ inputs.running > 1
              \/ /\ Needed # None
                 /\ Target(params, Needed, Capacity) + params.hysteresis < inputs.running
                 /\ ~Decision.probing
<1>1. /\ Typed(params, inputs) /\ inputs.running <= params.max_workers
      /\ DecideSlo(params, inputs).action = "ScaleDown"
  BY ParametersFacts DEF Decision
<1>2. QED
  BY <1>1, ShrinkReasons DEF Needed, Capacity, Decision

-----------------------------------------------------------------------------
(* How a step moves the pool and what it leaves alone *)

LEMMA Moved ==
    ASSUME TypeOK, NEW n \in 0..params.max_workers, NEW t \in Nat,
           params' = params,
           inputs' = [inputs EXCEPT !.running = n, !.ticks_since_change = t]
    PROVE  /\ inputs' \in Inputs
           /\ inputs'.running = n
           /\ inputs'.backlog = inputs.backlog /\ inputs'.needs_probe = inputs.needs_probe
           /\ Needed' = Needed
           /\ Needed # None =>
                 /\ inputs.running <= n =>
                       Target(params, Needed, Capacity) <= Target(params', Needed', Capacity')
                 /\ n <= inputs.running =>
                       Target(params', Needed', Capacity') <= Target(params, Needed, Capacity)
<1> DEFINE j == [inputs EXCEPT !.running = n, !.ticks_since_change = t]
           d == WorkersCapacity(params, j)
<1>1. /\ params \in Params /\ inputs \in Inputs /\ n \in Nat
      /\ Needed \in Nat \union {None}
  BY ParametersFacts, Numbers DEF Typed
<1>2. j \in Inputs
  BY <1>1 DEF Inputs
<1>3. /\ j.running = n /\ j.backlog = inputs.backlog
      /\ j.needs_probe = inputs.needs_probe
      /\ j.mu = inputs.mu /\ j.lambda = inputs.lambda
  BY <1>1 DEF Inputs
<1>4. WorkersNeeded(params, j) = Needed
  BY <1>3 DEF WorkersNeeded, Needed, Work, MuKnown
<1>5. /\ Needed' = WorkersNeeded(params, j)
      /\ Capacity' = d
  BY DEF Needed, Capacity
<1>6. /\ Typed(params, inputs) /\ Typed(params, j)
      /\ d \in Nat /\ d <= params.max_workers
      /\ Capacity \in Nat /\ Capacity <= params.max_workers
  <2>1. Typed(params, inputs) /\ Typed(params, j)
    BY <1>1, <1>2, Numbers
  <2> HIDE DEF j
  <2>2. QED
    BY <2>1, CapacityFacts DEF Capacity
<1>7. /\ inputs.running <= n => Capacity <= d
      /\ n <= inputs.running => d <= Capacity
  <2>1. /\ j.worker_rss = inputs.worker_rss /\ j.safe_ram_budget = inputs.safe_ram_budget
        /\ j.swap_pressure = inputs.swap_pressure
    BY <1>1 DEF Inputs
  <2> HIDE DEF j
  <2>2. QED
    BY <1>3, <1>6, <2>1, CapacityGrows DEF Capacity
<1> HIDE DEF d, j
<1>8. ASSUME Needed # None
      PROVE  /\ inputs.running <= n =>
                   Target(params, Needed, Capacity) <= Target(params, Needed, d)
             /\ n <= inputs.running =>
                   Target(params, Needed, d) <= Target(params, Needed, Capacity)
  BY <1>1, <1>6, <1>7, <1>8, TargetFacts
<1>9. QED
  BY <1>2, <1>3, <1>4, <1>5, <1>8 DEF j

(* Each action as a move of the pool. *)
LEMMA Moves ==
    ASSUME TypeOK, Next
    PROVE  \E n \in 0..params.max_workers, t \in Nat :
              /\ params' = params
              /\ inputs' = [inputs EXCEPT !.running = n, !.ticks_since_change = t]
              /\ Up => n = inputs.running + 1
              /\ Down => n = inputs.running - 1
              /\ Hold => n = inputs.running
              /\ WorkerExits => n = inputs.running - 1
<1> USE ParametersFacts, Numbers DEF Typed
<1>1. CASE Up
  <2>1. inputs.running + 1 \in 0..params.max_workers
    BY <1>1, UpReasons, TargetFacts DEF Up
  <2>2. inputs' = [inputs EXCEPT !.running = inputs.running + 1, !.ticks_since_change = 0]
    BY <1>1 DEF Up
  <2>3. ~Down /\ ~Hold /\ ~WorkerExits
    BY <1>1, <2>2 DEF Up, Down, Hold, WorkerExits, Inputs
  <2>4. QED
    BY <1>1, <2>1, <2>2, <2>3 DEF Up
<1>2. CASE Down
  <2>1. inputs.running - 1 \in 0..params.max_workers
    BY <1>2, DownReasons DEF Down
  <2>2. inputs' = [inputs EXCEPT !.running = inputs.running - 1, !.ticks_since_change = 0]
    BY <1>2 DEF Down
  <2>3. ~Up /\ ~Hold
    BY <1>2 DEF Up, Down, Hold
  <2>4. QED
    BY <1>2, <2>1, <2>2, <2>3 DEF Down
<1>3. CASE Hold
  <2>1. Later \in Nat
    BY DEF Later, Smaller
  <2>2. inputs' = [inputs EXCEPT !.running = inputs.running, !.ticks_since_change = Later]
    <3>1. inputs' = [inputs EXCEPT !.ticks_since_change = Later]
      BY <1>3 DEF Hold
    <3>2. QED
      BY <3>1 DEF Inputs
  <2>3. ~Up /\ ~Down /\ ~WorkerExits
    BY <1>3, <2>2 DEF Up, Down, Hold, WorkerExits, Inputs
  <2>4. params' = params /\ inputs.running \in 0..params.max_workers
    BY <1>3 DEF Hold
  <2>5. QED
    BY <2>1, <2>2, <2>3, <2>4
<1>4. CASE WorkerExits
  <2>1. inputs.running - 1 \in 0..params.max_workers
    BY <1>4 DEF WorkerExits
  <2>2. inputs' = [inputs EXCEPT !.running = inputs.running - 1,
                                 !.ticks_since_change = inputs.ticks_since_change]
    BY <1>4 DEF WorkerExits, Inputs
  <2>3. ~Up /\ ~Hold
    BY <1>4, <2>2 DEF Up, Hold, WorkerExits, Inputs
  <2>4. QED
    BY <1>4, <2>1, <2>2, <2>3 DEF WorkerExits
<1>5. QED
  BY <1>1, <1>2, <1>3, <1>4 DEF Next

-----------------------------------------------------------------------------
(* The inductive invariant: a direction, once taken, still agrees with what the
   controller wants.  NoFlapping needs it: that the next step does not turn round
   depends on the step before. *)
Heading ==
    heading # "none" /\ ~inputs.needs_probe =>
       IF Needed = None
       THEN IF heading = "up"
            THEN inputs.backlog > 0 \/ inputs.running <= params.min_workers
            ELSE inputs.backlog = 0 /\ inputs.running >= params.min_workers
       ELSE IF heading = "up"
            THEN inputs.running <= Target(params, Needed, Capacity)
            ELSE inputs.running >= Target(params, Needed, Capacity)

IInv == TypeOK /\ Heading

LEMMA TypeStep ==
    ASSUME TypeOK, Next
    PROVE  TypeOK'
<1>1. PICK n \in 0..params.max_workers, t \in Nat :
        /\ params' = params
        /\ inputs' = [inputs EXCEPT !.running = n, !.ticks_since_change = t]
  BY Moves
<1>2. inputs' \in Inputs /\ inputs'.running = n
  BY <1>1, Moved
<1>5. n <= params'.max_workers
  BY <1>1, ParametersFacts, Numbers DEF Typed
<1>3. params' \in Params
  BY <1>1, ParametersFacts
<1>4. heading' \in {"none", "up", "down"} /\ exits' \in 0..MaxExits
  BY RangesAssumption DEF TypeOK, Next, Up, Down, Hold, WorkerExits
<1>6. QED
  BY <1>2, <1>5, <1>3, <1>4 DEF TypeOK

LEMMA HeadingStep ==
    ASSUME IInv, Next
    PROVE  Heading'
<1> USE ParametersFacts, Numbers DEF IInv, Typed
<1>1. PICK n \in 0..params.max_workers, t \in Nat :
        /\ params' = params
        /\ inputs' = [inputs EXCEPT !.running = n, !.ticks_since_change = t]
        /\ Up => n = inputs.running + 1
        /\ Down => n = inputs.running - 1
        /\ Hold => n = inputs.running
        /\ WorkerExits => n = inputs.running - 1
  BY Moves
<1> DEFINE target == Target(params, Needed, Capacity)
           after  == Target(params', Needed', Capacity')
<1>2. /\ inputs'.running = n
      /\ inputs'.backlog = inputs.backlog /\ inputs'.needs_probe = inputs.needs_probe
      /\ Needed' = Needed
      /\ Needed # None => /\ inputs.running <= n => target <= after
                          /\ n <= inputs.running => after <= target
  BY <1>1, Moved
<1>3. TypeOK'
  BY TypeStep
<1>4. Needed # None => /\ target \in Nat /\ after \in Nat
                       /\ params.min_workers <= target
                       /\ params.min_workers <= after
  <2>1. Needed # None => target \in Nat /\ params.min_workers <= target
    BY TargetFacts
  <2>2. ASSUME Needed # None PROVE after \in Nat /\ params.min_workers <= after
    <3>1. /\ inputs' \in Inputs /\ params' \in Params /\ Needed' \in Nat
      BY <1>1, <1>2, <1>3, <2>2 DEF TypeOK
    <3>2. Capacity' \in Nat /\ Capacity' <= params'.max_workers
      BY <3>1, CapacityFacts DEF Capacity
    <3>3. QED
      BY <1>1, <3>1, <3>2, TargetFacts
  <2>3. QED
    BY <2>1, <2>2
<1> HIDE DEF target, after
<1>5. CASE Up
  <2>1. heading' = "up" /\ n = inputs.running + 1
    BY <1>5, <1>1 DEF Up
  <2>2. Decision.action = "ScaleUp"
    BY <1>5 DEF Up
  <2>3. IF Needed = None
        THEN inputs.backlog > 0 \/ n <= params.min_workers
        ELSE n <= after
    BY <1>2, <1>4, <2>1, <2>2, UpReasons DEF target
  <2>4. QED
    BY <1>1, <1>2, <2>1, <2>3 DEF Heading, after
<1>6. CASE Down
  <2>1. heading' = "down" /\ n = inputs.running - 1
    BY <1>6, <1>1 DEF Down
  <2>2. Decision.action = "ScaleDown"
    BY <1>6 DEF Down
  <2>3. ~inputs.needs_probe => IF Needed = None
        THEN inputs.backlog = 0 /\ n >= params.min_workers
        ELSE n >= after
    BY <1>2, <1>4, <2>1, <2>2, DownReasons DEF target
  <2>4. QED
    BY <1>1, <1>2, <2>1, <2>3 DEF Heading, after
<1>7. CASE Hold
  <2>1. heading' = heading /\ n = inputs.running
    BY <1>7, <1>1 DEF Hold
  <2>2. Needed # None => after = target
    BY <1>2, <1>4, <2>1
  <2>3. QED
    BY <1>1, <1>2, <2>1, <2>2 DEF Heading, after, target
<1>8. CASE WorkerExits
  BY <1>8 DEF WorkerExits, Heading
<1>9. QED
  BY <1>5, <1>6, <1>7, <1>8 DEF Next

LEMMA Invariance == Spec => []IInv
<1>1. Init => IInv
  <2> SUFFICES ASSUME Init PROVE IInv
    OBVIOUS
  <2>1. params \in Params /\ params.cooldown_ticks \in Nat
    <3>1. params \in Params
      BY DEF Init
    <3>2. QED
      BY <3>1, RangesAssumption DEF Params
  <2>2. inputs \in Inputs /\ inputs.running <= params.max_workers
    BY <2>1, RangesAssumption DEF Init, Inputs
  <2>3. heading = "none" /\ exits = 0 /\ 0 \in 0..MaxExits
    BY RangesAssumption DEF Init
  <2>4. QED
    BY <2>1, <2>2, <2>3 DEF IInv, TypeOK, Heading
<1>2. IInv /\ [Next]_vars => IInv'
  <2> SUFFICES ASSUME IInv, [Next]_vars PROVE IInv'
    OBVIOUS
  <2>1. CASE Next
    BY <2>1, TypeStep, HeadingStep DEF IInv
  <2>2. CASE UNCHANGED vars
    <3>1. TypeOK'
      BY <2>2 DEF IInv, vars, TypeOK
    <3>2. Heading'
      BY <2>2 DEF IInv, vars, Heading, Needed, Capacity
    <3>3. QED
      BY <3>1, <3>2 DEF IInv
  <2>3. QED
    BY <2>1, <2>2
<1>3. QED
  BY <1>1, <1>2, PTL DEF Spec

-----------------------------------------------------------------------------
(* The theorems *)

(* The pool stays between nothing and max_workers whatever decide_slo answers, and
   the reading stays one the estimator can publish. *)
THEOREM TypeCorrect == Spec => []TypeOK
<1>1. IInv => TypeOK
  BY DEF IInv
<1>2. QED
  BY <1>1, Invariance, PTL

(* The rounding of Little's Law in decide_slo is neither one worker short nor one
   worker over. *)
THEOREM NeededLeast == Spec => []NeededIsLeast
<1>1. TypeOK => NeededIsLeast
  <2> SUFFICES ASSUME TypeOK, Needed # None, Work(params, inputs) >= RateUnit
               PROVE  /\ Needed * (inputs.mu * Horizon) >= Work(params, inputs)
                      /\ ~((Needed - 1) * (inputs.mu * Horizon) >= Work(params, inputs))
    BY DecisionFields DEF NeededIsLeast
  <2> DEFINE w == Work(params, inputs)
             c == inputs.mu * Horizon
  <2>1. /\ w \in Nat /\ c \in Nat \ {0} /\ Needed = Ceil(w, c) /\ w >= RateUnit
    BY ParametersFacts, NeededFacts DEF Needed, Horizon
  <2>2. w >= 1 /\ Needed \in Nat
    BY <2>1, RateUnitAssumption, ParametersFacts, CeilFacts
  <2> HIDE DEF w, c
  <2>3. \A n \in Nat : Needed <= n <=> w <= n * c
    BY <2>1, CeilFacts
  <2>4. w <= Needed * c
    BY <2>2, <2>3
  <2>5. Needed # 0
    <3>1. CASE Needed = 0
      BY <3>1, <2>1, <2>2, <2>4
    <3>2. QED
      BY <3>1
  <2>6. Needed - 1 \in Nat /\ ~(Needed <= Needed - 1)
    BY <2>2, <2>5
  <2>7. ~(w <= (Needed - 1) * c)
    BY <2>3, <2>6
  <2>8. Needed * c \in Nat /\ (Needed - 1) * c \in Nat
    BY <2>1, <2>2, <2>6
  <2>9. QED
    BY <2>1, <2>4, <2>7, <2>8 DEF w, c
<1>2. QED
  BY <1>1, TypeCorrect, PTL

(* The feasibility gap of decide_slo is reported exactly when the workers that fit
   cannot meet the SLO, and the best drain it reports then misses the SLO. *)
THEOREM GapExact == Spec => []GapIsInfeasibility
<1>1. TypeOK => GapIsInfeasibility
  <2> SUFFICES ASSUME TypeOK PROVE GapIsInfeasibility
    OBVIOUS
  <2> DEFINE w    == Work(params, inputs)
             c    == inputs.mu * Horizon
             net  == inputs.mu * Capacity - inputs.lambda
             gap  == FeasibilityGap(params, inputs, Needed, Capacity)
             miss == Needed # None /\ Needed > Capacity
  <2>1. /\ Capacity \in Nat /\ Needed \in Nat \union {None} /\ w \in Nat
        /\ Horizon \in Nat /\ inputs.backlog \in Nat /\ inputs.lambda \in Nat
        /\ RateUnit \in Nat \ {0} /\ None \notin Int
    BY ParametersFacts, NeededFacts, Numbers DEF Horizon, Typed
  <2>2. miss => inputs.mu \in Nat /\ net \in Int
    BY <2>1, ParametersFacts, NeededFacts, Numbers DEF Needed, MuKnown, Typed
  <2>3. gap = IF miss
              THEN [gap_workers |-> Needed - Capacity,
                    best_drain  |-> IF net > 0
                                    THEN [work |-> inputs.backlog * RateUnit, rate |-> net]
                                    ELSE None]
              ELSE None
    BY <2>1 DEF FeasibilityGap
  <2>4. miss => gap \in FeasibilityGaps
    <3> SUFFICES ASSUME miss PROVE gap \in FeasibilityGaps
      OBVIOUS
    <3>1. Needed - Capacity \in Nat
      BY <2>1
    <3>2. (IF net > 0 THEN [work |-> inputs.backlog * RateUnit, rate |-> net] ELSE None)
             \in [work: Nat, rate: Nat] \union {None}
      <4> HIDE DEF net
      <4>1. inputs.backlog * RateUnit \in Nat
        BY <2>1
      <4>2. QED
        BY <2>2, <4>1
    <3>3. QED
      BY <2>3, <3>1, <3>2 DEF FeasibilityGaps
  <2>5. gap # None <=> miss
    BY <2>3, <2>4, NoneAssumption
  <2>6. miss <=> /\ MuKnown(inputs)
                 /\ Horizon > 0
                 /\ w >= RateUnit
                 /\ Capacity * c < w
    <3>1. Needed # None <=> MuKnown(inputs) /\ Horizon > 0
      BY ParametersFacts, NeededFacts DEF Needed, Horizon
    <3>2. CASE Needed = None
      BY <3>1, <3>2
    <3>3. CASE Needed # None
      <4>1. /\ c \in Nat \ {0}
            /\ w < RateUnit => Needed = 0
            /\ w >= RateUnit => Needed = Ceil(w, c)
        BY <3>3, ParametersFacts, NeededFacts DEF Needed, Horizon
      <4> HIDE DEF w, c
      <4>2. CASE w < RateUnit
        BY <2>1, <4>1, <4>2
      <4>3. CASE w >= RateUnit
        <5>1. Needed \in Nat /\ (Needed <= Capacity <=> w <= Capacity * c)
          BY <2>1, <4>1, <4>3, CeilFacts
        <5>2. Capacity * c \in Nat
          BY <2>1, <4>1
        <5>3. QED
          BY <2>1, <3>1, <3>3, <4>3, <5>1, <5>2
      <4>4. QED
        BY <2>1, <4>2, <4>3
    <3>4. QED
      BY <3>2, <3>3
  <2>7. ASSUME miss, net > 0 PROVE inputs.backlog * RateUnit > net * Horizon
    <3>1. inputs.mu \in Nat /\ Capacity * c < w
      BY <2>2, <2>6, <2>7
    <3>2. Capacity * (inputs.mu * Horizon)
             < inputs.backlog * RateUnit + inputs.lambda * Horizon
      BY <3>1 DEF Work, Horizon
    <3>3. net * Horizon = Capacity * (inputs.mu * Horizon) - inputs.lambda * Horizon
      BY <2>1, <3>1, SMT
    <3>4. /\ Capacity * (inputs.mu * Horizon) \in Int /\ inputs.lambda * Horizon \in Int
          /\ inputs.backlog * RateUnit \in Int
      BY <2>1, <3>1, SMT
    <3>5. QED
      BY <3>2, <3>3, <3>4
  <2>8. gap # None =>
          (gap.best_drain # None => gap.best_drain.work > gap.best_drain.rate * Horizon)
    <3> SUFFICES ASSUME gap # None, gap.best_drain # None
                 PROVE  gap.best_drain.work > gap.best_drain.rate * Horizon
      OBVIOUS
    <3>1. miss
      BY <2>5
    <3>2. gap.best_drain = IF net > 0
                           THEN [work |-> inputs.backlog * RateUnit, rate |-> net]
                           ELSE None
      BY <2>3, <3>1
    <3>3. net > 0
      BY <3>2
    <3>4. /\ gap.best_drain.work = inputs.backlog * RateUnit
          /\ gap.best_drain.rate = net
      BY <3>2, <3>3
    <3>5. QED
      BY <2>7, <3>1, <3>3, <3>4
  <2>9. QED
    BY <2>5, <2>6, <2>8, DecisionFields DEF GapIsInfeasibility
<1>2. QED
  BY <1>1, TypeCorrect, PTL

(* Only Up makes the pool larger, and only within the ceiling and, above the floor,
   within the RAM budget; decide_slo steps down only above the floor, and a probe leaves
   a worker on the backlog. *)
THEOREM StepsInBounds == Spec => StepsFit
<1>1. ASSUME TypeOK, [Next]_vars, inputs'.running > inputs.running
      PROVE  /\ inputs'.running <= params.max_workers
             /\ \/ inputs.running < params.min_workers
                \/ inputs'.running <= Decision.workers_capacity
  <2>1. /\ inputs \in Inputs /\ inputs.running \in Nat
        /\ Capacity \in Nat /\ Capacity <= params.max_workers
    BY <1>1, ParametersFacts, Numbers DEF Typed
  <2>2. CASE Next
    <3>1. PICK n \in 0..params.max_workers, t \in Nat :
            /\ params' = params
            /\ inputs' = [inputs EXCEPT !.running = n, !.ticks_since_change = t]
            /\ Up => n = inputs.running + 1
            /\ Down => n = inputs.running - 1
            /\ Hold => n = inputs.running
            /\ WorkerExits => n = inputs.running - 1
      BY <1>1, <2>2, Moves
    <3>2. inputs'.running = n
      BY <1>1, <3>1, Moved
    <3>3. Up
      BY <1>1, <2>1, <2>2, <3>1, <3>2 DEF Next
    <3>4. n = inputs.running + 1 /\ n <= params.max_workers
      BY <3>1, <3>3, <1>1, ParametersFacts, Numbers DEF Typed
    <3>5. \/ inputs.running < params.min_workers
          \/ n <= Capacity
      <4>1. CASE Needed = None
        BY <1>1, <2>1, <3>3, <3>4, <4>1, UpReasons, ParametersFacts, Numbers DEF Up, Typed
      <4>2. CASE Needed # None /\ ~(inputs.running < params.min_workers)
        <5> DEFINE target == Target(params, Needed, Capacity)
        <5>1. /\ target \in Nat /\ params.min_workers \in Nat
              /\ params.hysteresis \in Nat
              /\ target > params.min_workers => target <= Capacity
          BY <1>1, <4>2, ParametersFacts, Numbers, TargetFacts DEF Typed
        <5>2. inputs.running + params.hysteresis < target
          BY <1>1, <3>3, <4>2, UpReasons DEF Up
        <5> HIDE DEF target
        <5>3. QED
          BY <2>1, <3>4, <4>2, <5>1, <5>2
      <4>3. QED
        BY <4>1, <4>2
    <3>6. QED
      BY <3>2, <3>4, <3>5, DecisionFields
  <2>3. CASE UNCHANGED vars
    BY <1>1, <2>1, <2>3 DEF vars
  <2>4. QED
    BY <1>1, <2>2, <2>3
<1>2. ASSUME TypeOK, Down
      PROVE  /\ inputs'.running >= params.min_workers
             /\ Decision.probing => inputs.backlog > 0 /\ inputs'.running >= 1
  <2>1. /\ inputs \in Inputs /\ inputs.running \in Nat /\ params.min_workers \in Nat
        /\ params.hysteresis \in Nat /\ inputs.backlog \in Nat
    BY <1>2, ParametersFacts, Numbers DEF Typed
  <2>2. inputs'.running = inputs.running - 1
    BY <1>2, <2>1 DEF Down, Inputs
  <2>3. Needed # None => /\ Target(params, Needed, Capacity) \in Nat
                         /\ params.min_workers <= Target(params, Needed, Capacity)
    BY <1>2, ParametersFacts, TargetFacts
  <2>4. QED
    BY <1>2, <2>1, <2>2, <2>3, DownReasons DEF Down
<1>3. QED
  BY <1>1, <1>2, TypeCorrect, PTL DEF Spec, StepsFit

(* On a steady reading decide_slo does not turn round, swap pressure included: the
   invariant Heading says where the last step has left the pool. *)
THEOREM NoTurningRound == Spec => NoFlapping
<1>1. ASSUME IInv, [Next]_vars, ~inputs.needs_probe, heading # "none"
      PROVE  heading' \in {heading, "none"}
  <2> USE <1>1 DEF IInv
  <2>1. /\ inputs \in Inputs /\ inputs.running \in Nat /\ params.min_workers \in Nat
        /\ params.hysteresis \in Nat /\ inputs.backlog \in Nat
        /\ heading \in {"up", "down"}
    BY ParametersFacts, Numbers DEF TypeOK, Typed
  <2>2. Needed # None => /\ Target(params, Needed, Capacity) \in Nat
                         /\ params.min_workers <= Target(params, Needed, Capacity)
    BY ParametersFacts, TargetFacts
  <2>3. CASE Up
    <3>1. heading # "down"
      BY <2>1, <2>2, <2>3, UpReasons DEF Up, Heading
    <3>2. QED
      BY <2>1, <2>3, <3>1 DEF Up
  <2>4. CASE Down
    <3>1. heading # "up"
      BY <2>1, <2>2, <2>4, DownReasons DEF Down, Heading
    <3>2. QED
      BY <2>1, <2>4, <3>1 DEF Down
  <2>5. CASE Hold
    BY <2>5 DEF Hold
  <2>6. CASE WorkerExits
    BY <2>6 DEF WorkerExits
  <2>7. CASE UNCHANGED vars
    BY <2>7 DEF vars
  <2>8. QED
    BY <2>3, <2>4, <2>5, <2>6, <2>7 DEF Next
<1>2. QED
  BY <1>1, Invariance, PTL DEF Spec, NoFlapping

(* What is left of the way until the next exit: the room above for a pool that climbs,
   the workers of one that descends, and more than either before its first step. *)
MovesLeft ==
    CASE heading = "up"   -> params.max_workers - inputs.running
      [] heading = "down" -> inputs.running
      [] heading = "none" -> params.max_workers + 1

(* Between two exits decide_slo takes no more than max_workers + 1 steps on a steady
   reading without probes, whatever its parameters: each one lowers a number that no tick
   raises.  ComesToRest adds to it that a pool with steps left takes them. *)
THEOREM StepsRunOut ==
    Spec => [][~inputs.needs_probe =>
                  /\ MovesLeft \in Nat
                  /\ Up \/ Down => MovesLeft' < MovesLeft
                  /\ Hold => MovesLeft' = MovesLeft]_vars
<1>1. ASSUME IInv, IInv', [Next]_vars, ~inputs.needs_probe, heading # "none" => heading' \in {heading, "none"}
      PROVE  /\ MovesLeft \in Nat
             /\ Up \/ Down => MovesLeft' < MovesLeft
             /\ Hold => MovesLeft' = MovesLeft
  <2>1. /\ inputs \in Inputs /\ inputs.running \in Nat /\ params.max_workers \in Nat
        /\ inputs.running <= params.max_workers
        /\ heading \in {"none", "up", "down"}
    BY <1>1, ParametersFacts, Numbers DEF IInv, TypeOK, Typed
  <2>2. MovesLeft \in Nat
    BY <2>1 DEF MovesLeft
  <2>3. ASSUME Up PROVE MovesLeft' < MovesLeft
    <3>1. /\ heading' = "up" /\ heading \in {"none", "up"}
          /\ params' = params /\ inputs'.running = inputs.running + 1
      BY <1>1, <2>1, <2>3 DEF Up, Inputs
    <3>2. QED
      BY <2>1, <3>1 DEF MovesLeft
  <2>4. ASSUME Down PROVE MovesLeft' < MovesLeft
    <3>1. /\ heading' = "down" /\ heading \in {"none", "down"}
          /\ params' = params /\ inputs'.running = inputs.running - 1
      BY <1>1, <2>1, <2>4 DEF Down, Inputs
    <3>2. QED
      BY <2>1, <3>1 DEF MovesLeft
  <2>5. ASSUME Hold PROVE MovesLeft' = MovesLeft
    <3>1. heading' = heading /\ params' = params /\ inputs'.running = inputs.running
      BY <2>1, <2>5 DEF Hold, Inputs
    <3>2. QED
      BY <3>1 DEF MovesLeft
  <2>6. QED
    BY <2>2, <2>3, <2>4, <2>5
<1>2. QED
  BY <1>1, Invariance, NoTurningRound, PTL DEF Spec, NoFlapping

=============================================================================
