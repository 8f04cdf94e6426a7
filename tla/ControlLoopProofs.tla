-------------------------- MODULE ControlLoopProofs --------------------------
(***************************************************************************)
(* Proofs about the control loop: any number of programs of both modes, any *)
(* budget, any order of reads that fail, exits and drains.                   *)
(***************************************************************************)
EXTENDS ControlLoop, PolicyProofs, SumProofs

(* What the configuration gives. *)
LEMMA ProgramFacts ==
    /\ Len(Programs) \in Nat \ {0} /\ Program = 1..Len(Programs)
    /\ IsFiniteSet(Program)
    /\ \A p \in Program :
          /\ IsFiniteSet(Program \ {p})
          /\ Programs[p].min_workers \in Nat /\ Programs[p].max_workers \in Nat \ {0}
          /\ Programs[p].min_workers <= Programs[p].max_workers
          /\ Programs[p].cooldown_ticks \in Nat /\ Programs[p].rss \in Nat \ {0}
          /\ Programs[p].mode \in {"slo", "threshold"}
<1>1. /\ Len(Programs) \in Nat \ {0} /\ Program = 1..Len(Programs)
      /\ \A p \in Program : IsRunnable(Programs[p]) /\ Programs[p].rss \in Nat \ {0}
  BY ProgramsAssumption
<1>2. IsFiniteSet(Program)
  BY <1>1, FS_Interval
<1>3. \A p \in Program : IsFiniteSet(Program \ {p})
  BY <1>2, FS_RemoveElement
<1>4. QED
  BY <1>1, <1>2, <1>3 DEF IsRunnable

-----------------------------------------------------------------------------
(* RAM *)

SampledOfOthers(p) == SumFunction([q \in Program \ {p} |-> Sampled(q)])

LEMMA RamTypes ==
    ASSUME TypeOK
    PROVE  /\ memory_used \in Nat /\ total_worker_rss \in Nat /\ RamPoolBudget \in Nat
           /\ \A p \in Program :
                 /\ Sampled(p) \in Nat /\ PoolRss(p) \in Nat /\ EffBudget(p) \in Nat
                 /\ WorkerRss(p) \in Nat \union {None}
                 /\ Resident(p) \in Nat
                 /\ SampledOfOthers(p) \in Nat /\ ResidentOfOthers(p) \in Nat
<1>1. \A p \in Program : /\ seen[p] \in Nat /\ Programs[p].rss \in Nat
                         /\ alive[p] \in Nat /\ leaving[p] \in Nat
  <2>1. \A p \in Program : seen[p] \in Nat /\ alive[p] \in Nat
    BY DEF TypeOK
  <2>2. 0..MaxLeaving \subseteq Nat
    BY HostAssumption
  <2>3. \A p \in Program : leaving[p] \in Nat
    BY <2>2 DEF TypeOK
  <2>4. \A p \in Program : Programs[p].rss \in Nat
    BY ProgramFacts
  <2>5. QED
    BY <2>1, <2>3, <2>4
<1>2. \A p \in Program : Sampled(p) \in Nat /\ Resident(p) \in Nat
  <2>1. \A a, b \in Nat : a * b \in Nat
    BY SMT
  <2>2. \A p \in Program : alive[p] + leaving[p] \in Nat
    BY <1>1
  <2>3. QED
    BY <1>1, <2>1, <2>2 DEF Sampled, Resident
<1>3. \A p \in Program : PoolRss(p) \in Nat /\ WorkerRss(p) \in Nat \union {None}
  BY <1>1, <1>2 DEF PoolRss, WorkerRss
<1> HIDE DEF PoolRss, Sampled, Resident, WorkerRss
<1>4. memory_used \in Nat /\ total_worker_rss \in Nat
  <2>1. SumFunction([p \in Program |-> Sampled(p)]) \in Nat
    BY <1>2, ProgramFacts, SumIsNat
  <2>2. SumFunction([p \in Program |-> PoolRss(p)]) \in Nat
    BY <1>3, ProgramFacts, SumIsNat
  <2>3. non_worker \in Nat
    BY HostAssumption DEF TypeOK
  <2>4. QED
    BY <2>1, <2>2, <2>3 DEF memory_used, total_worker_rss
<1>5. ASSUME NEW p \in Program
      PROVE  SampledOfOthers(p) \in Nat /\ ResidentOfOthers(p) \in Nat
  <2> DEFINE others == Program \ {p}
             s == [q \in others |-> Sampled(q)]
             h == [q \in others |-> Resident(q)]
  <2>1. IsFiniteSet(others)
    BY ProgramFacts
  <2>2. s \in [others -> Nat]
    BY <1>2
  <2>3. h \in [others -> Nat]
    BY <1>2
  <2>4. SampledOfOthers(p) = SumFunction(s) /\ ResidentOfOthers(p) = SumFunction(h)
    BY DEF SampledOfOthers, ResidentOfOthers
  <2> HIDE DEF s, h, others
  <2>5. SumFunction(s) \in Nat
    BY <2>1, <2>2, SumIsNat
  <2>6. SumFunction(h) \in Nat
    BY <2>1, <2>3, SumIsNat
  <2>7. QED
    BY <2>4, <2>5, <2>6
<1>6. RamPoolBudget \in Nat
  BY <1>4, HostAssumption DEF RamPoolBudget, Minus, Larger
<1>7. ASSUME NEW p \in Program PROVE EffBudget(p) \in Nat
  <2>1. committed_extra \in Nat /\ PoolRss(p) \in Nat
    BY <1>3 DEF TypeOK
  <2> HIDE DEF RamPoolBudget, total_worker_rss
  <2>2. Minus(RamPoolBudget, total_worker_rss - PoolRss(p)) \in Nat
    BY <1>4, <1>6, <2>1 DEF Minus, Larger
  <2>3. QED
    BY <2>1, <2>2 DEF EffBudget, Minus, Larger
<1>8. QED
  BY <1>2, <1>3, <1>4, <1>5, <1>6, <1>7

(* If workers are measured, what is charged to the other programs is what was sampled of
   them. *)
LEMMA OthersCharged ==
    ASSUME TypeOK, NEW p \in Program, WorkerRss(p) # None
    PROVE  /\ WorkerRss(p) = Programs[p].rss
           /\ total_worker_rss - PoolRss(p) = SampledOfOthers(p)
<1>1. need_rss /\ WorkerRss(p) = Programs[p].rss
  BY DEF WorkerRss
<1>2. \A q \in Program : PoolRss(q) = Sampled(q) /\ Sampled(q) \in Int
  BY <1>1, RamTypes DEF PoolRss
<1> DEFINE all == [q \in Program |-> Sampled(q)]
<1>3. total_worker_rss = SumFunction(all)
  <2>1. [q \in Program |-> PoolRss(q)] = all
    BY <1>2
  <2>2. QED
    BY <2>1 DEF total_worker_rss
<1>4. Restrict(all, Program \ {p}) = [q \in Program \ {p} |-> Sampled(q)]
  BY DEF Restrict
<1>5. all \in [Program -> Int] /\ all[p] = Sampled(p)
  BY <1>2
<1> HIDE DEF all
<1>6. SumFunction(all) = Sampled(p) + SumFunction(Restrict(all, Program \ {p}))
  BY <1>5, ProgramFacts, SumSplits
<1>7. SumFunction(all) = Sampled(p) + SampledOfOthers(p)
  BY <1>4, <1>6 DEF SampledOfOthers
<1>8. SampledOfOthers(p) \in Nat /\ PoolRss(p) = Sampled(p) /\ Sampled(p) \in Int
  BY <1>2, RamTypes
<1>9. QED
  BY <1>1, <1>3, <1>7, <1>8

-----------------------------------------------------------------------------
(* Why a pool grows *)

SloReading(p, r) ==
    [backlog |-> r.backlog, running |-> Pool(p), mu |-> r.mu, lambda |-> r.lambda,
     worker_rss |-> WorkerRss(p), safe_ram_budget |-> EffBudget(p),
     swap_pressure |-> swap_pressure, ticks_since_change |-> ticks[p],
     needs_probe |-> r.needs_probe]

LEMMA ReadingIsTyped ==
    ASSUME TypeOK, NEW p \in Program, Programs[p].mode = "slo", NEW r \in Readings
    PROVE  Typed(Programs[p], SloReading(p, r))
<1>1. IsRunnable(Programs[p])
  BY ProgramsAssumption
<1>2. /\ r.backlog \in Nat /\ r.mu \in (Nat \ {0}) \union {None} /\ r.lambda \in Nat
      /\ r.needs_probe \in BOOLEAN
  BY HostAssumption DEF Readings
<1>3. Pool(p) \in Nat /\ ticks[p] \in Nat /\ swap_pressure \in BOOLEAN
  BY DEF TypeOK, Pool
<1>4. WorkerRss(p) \in Nat \union {None} /\ EffBudget(p) \in Nat
  BY RamTypes
<1>5. QED
  BY <1>1, <1>2, <1>3, <1>4 DEF Typed, SloReading, IsRunnable

(* A step up stays within the ceiling; in slo mode, and above the floor, the worker it
   adds fits what the others leave of the budget, and on a host that pages it is the
   first. *)
LEMMA UpReasons ==
    ASSUME TypeOK, NEW p \in Program, Decides(p, "ScaleUp")
    PROVE  /\ Pool(p) < Programs[p].max_workers
           /\ Programs[p].mode = "slo" /\ Pool(p) >= Programs[p].min_workers =>
                 /\ WorkerRss(p) # None => (Pool(p) + 1) * Programs[p].rss <= EffBudget(p)
                 /\ swap_pressure => Pool(p) = 0
<1>1. PICK r \in Readings : Action(p, r) = "ScaleUp"
  BY DEF Decides
<1>2. Pool(p) \in Nat /\ Programs[p].min_workers \in Nat
  <2>1. Programs[p].min_workers \in Nat
    BY ProgramFacts
  <2>2. QED
    BY <2>1 DEF TypeOK, Pool
<1>3. CASE Programs[p].mode # "slo"
  <2> DEFINE i == [backlog |-> r.backlog, running |-> Pool(p), ticks_since_change |-> ticks[p],
                   crowded |-> memory_used >= Programs[p].ram_cap]
  <2>1. DecideThreshold(Programs[p], i) = "ScaleUp"
    BY <1>1, <1>3 DEF Action
  <2>2. i.running = Pool(p)
    OBVIOUS
  <2> HIDE DEF i
  <2>3. Pool(p) < Programs[p].max_workers
    BY <1>2, <2>1, <2>2, ProgramFacts, ThresholdFits
  <2>4. QED
    BY <1>3, <2>3
<1>4. CASE Programs[p].mode = "slo"
  <2> DEFINE i == SloReading(p, r)
             capacity == WorkersCapacity(Programs[p], i)
  <2>1. DecideSlo(Programs[p], i).action = "ScaleUp"
    BY <1>1, <1>4 DEF Action, SloReading
  <2>2. Typed(Programs[p], i)
    BY <1>4, ReadingIsTyped
  <2>3. /\ i.running = Pool(p) /\ i.worker_rss = WorkerRss(p)
        /\ i.safe_ram_budget = EffBudget(p) /\ i.swap_pressure = swap_pressure
    BY DEF SloReading
  <2> HIDE DEF i
  <2>4. /\ capacity \in Nat
        /\ i.worker_rss # None /\ i.worker_rss > 0 => capacity <= i.safe_ram_budget \div i.worker_rss
        /\ i.swap_pressure => capacity <= i.running \/ capacity <= 1
    BY <2>2, CapacityFacts
  <2>5. Pool(p) < Programs[p].max_workers
    BY <2>1, <2>2, <2>3, GrowthFits
  <2>6. Pool(p) < Programs[p].min_workers \/ Pool(p) < capacity
    BY <2>1, <2>2, <2>3, GrowthFits
  <2> HIDE DEF capacity
  <2>7. ASSUME Pool(p) >= Programs[p].min_workers
        PROVE  /\ WorkerRss(p) # None => (Pool(p) + 1) * Programs[p].rss <= EffBudget(p)
               /\ swap_pressure => Pool(p) = 0
    <3>1. Pool(p) < capacity
      BY <1>2, <2>6, <2>7
    <3>2. swap_pressure => Pool(p) = 0
      BY <1>2, <2>3, <2>4, <3>1
    <3>3. ASSUME WorkerRss(p) # None
          PROVE  (Pool(p) + 1) * Programs[p].rss <= EffBudget(p)
      <4>1. WorkerRss(p) = Programs[p].rss /\ Programs[p].rss \in Nat \ {0}
        BY <3>3, OthersCharged, ProgramFacts
      <4>2. EffBudget(p) \in Nat
        BY RamTypes
      <4>3. EffBudget(p) \div Programs[p].rss \in Nat
        BY <4>1, <4>2, FitFacts
      <4>4. Pool(p) + 1 <= EffBudget(p) \div Programs[p].rss
        BY <1>2, <2>3, <2>4, <3>1, <3>3, <4>1, <4>3
      <4>5. QED
        BY <1>2, <4>1, <4>2, <4>4, FitFacts
    <3>4. QED
      BY <3>2, <3>3
  <2>8. QED
    BY <2>5, <2>7
<1>5. QED
  BY <1>3, <1>4
-----------------------------------------------------------------------------
(* The inductive invariant *)

(* Between two ticks nothing is claimed. *)
Rested == phase = "sleep" => turn = 1 /\ committed_extra = 0 /\ uncounted = 0

(* While a program waits for its turn, it holds no more than was sampled of it, and what
   the others hold was sampled or claimed since. *)
Accounted ==
    phase = "tick" =>
        \A p \in Program : p >= turn =>
            /\ alive[p] + leaving[p] <= seen[p]
            /\ ResidentOfOthers(p) <= SampledOfOthers(p) + committed_extra + uncounted

IInv == TypeOK /\ WithinCeiling /\ InterferenceIsExit /\ Rested /\ Accounted

(* A sum of which one term grows by at most c and no other grows at all. *)
LEMMA SumGrowsBy ==
    ASSUME NEW S, IsFiniteSet(S), NEW f \in [S -> Nat], NEW g \in [S -> Nat],
           NEW c \in Nat, NEW q,
           \A y \in S : IF y = q THEN g[y] <= f[y] + c ELSE g[y] <= f[y]
    PROVE  SumFunction(g) <= SumFunction(f) + c
<1>1. SumFunction(f) \in Nat
  BY SumIsNat
<1>2. SumFunction(g) \in Nat
  BY SumIsNat
<1>3. f \in [S -> Int] /\ g \in [S -> Int]
  OBVIOUS
<1>4. CASE q \in S
  <2> DEFINE h == [y \in S |-> IF y = q THEN f[y] + c ELSE f[y]]
  <2>1. h \in [S -> Int] /\ h[q] = f[q] + c /\ \A y \in S \ {q} : h[y] = f[y]
    BY <1>4
  <2>2. \A y \in S : g[y] <= h[y]
    OBVIOUS
  <2> HIDE DEF h
  <2>3. SumFunction(h) = SumFunction(f) + (h[q] - f[q])
    BY <1>3, <1>4, <2>1, SumChangesAt
  <2>4. SumFunction(g) <= SumFunction(h)
    BY <1>3, <2>1, <2>2, SumMonotone
  <2>5. f[q] \in Nat
    BY <1>4
  <2>6. QED
    BY <1>1, <1>2, <2>1, <2>3, <2>4, <2>5
<1>5. CASE q \notin S
  <2>1. \A y \in S : g[y] <= f[y]
    BY <1>5
  <2>2. SumFunction(g) <= SumFunction(f)
    BY <1>3, <2>1, SumMonotone
  <2>3. QED
    BY <1>1, <1>2, <2>2
<1>6. QED
  BY <1>4, <1>5

(* What the pools keep of their types, whoever acts. *)
PoolsTyped ==
    /\ alive \in [Program -> Nat]
    /\ dead \in [Program -> Nat]
    /\ leaving \in [Program -> 0..MaxLeaving]
    /\ expected \in [Program -> Nat]
    /\ ticks \in [Program -> Nat]
    /\ \A p \in Program : ticks[p] <= Programs[p].cooldown_ticks
    /\ exits \in 0..MaxExits
    /\ refusals \in 0..MaxRefusals

(* If only the pool of q comes to hold more, by c bytes, then the others of p hold at most
   c bytes more. *)
LEMMA OthersHold ==
    ASSUME TypeOK, PoolsTyped', NEW p \in Program, NEW q \in Program, NEW c \in Nat,
           Resident(q)' <= Resident(q) + c,
           \A r \in Program \ {q} : Resident(r)' <= Resident(r)
    PROVE  /\ ResidentOfOthers(p)' <= ResidentOfOthers(p) + c
           /\ ResidentOfOthers(p)' \in Nat
<1> DEFINE S == Program \ {p}
           f == [r \in S |-> Resident(r)]
           g == [r \in S |-> Resident(r)']
<1>1. IsFiniteSet(S)
  BY ProgramFacts
<1>2. \A r \in Program : Resident(r) \in Nat
  BY RamTypes
<1>3. \A r \in Program : Resident(r)' \in Nat
  <2>1. \A a, b \in Nat : a * b \in Nat
    BY SMT
  <2>2. 0..MaxLeaving \subseteq Nat
    BY HostAssumption
  <2>3. \A r \in Program : alive'[r] + leaving'[r] \in Nat
    BY <2>2 DEF PoolsTyped
  <2>4. \A r \in Program : Programs[r].rss \in Nat
    BY ProgramFacts
  <2>5. \A r \in Program : (alive'[r] + leaving'[r]) * Programs[r].rss \in Nat
    BY <2>1, <2>3, <2>4
  <2>6. QED
    BY <2>5 DEF Resident
<1> HIDE DEF Resident
<1>4. f \in [S -> Nat]
  BY <1>2
<1>5. g \in [S -> Nat]
  BY <1>3
<1>6. \A y \in S : IF y = q THEN g[y] <= f[y] + c ELSE g[y] <= f[y]
  OBVIOUS
<1>7. ResidentOfOthers(p) = SumFunction(f) /\ ResidentOfOthers(p)' = SumFunction(g)
  BY DEF ResidentOfOthers
<1> HIDE DEF S, f, g
<1>8. SumFunction(g) <= SumFunction(f) + c
  BY <1>1, <1>4, <1>5, <1>6, SumGrowsBy
<1>9. SumFunction(g) \in Nat
  BY <1>1, <1>5, SumIsNat
<1>10. QED
  BY <1>7, <1>8, <1>9

-----------------------------------------------------------------------------
(* One program's turn *)

(* What the five ways a turn can go have in common: the pool of p ends with n workers, at
   most c bytes claimed and u bytes unclaimed more, and nobody else's changes. *)
TurnOf(p, n, c, u) ==
    /\ phase = "tick" /\ turn = p
    /\ PoolsTyped'
    /\ expected' = [expected EXCEPT ![p] = n]
    /\ Pool(p)' = n
    /\ n <= Pool(p) \/ n <= Programs[p].max_workers
    /\ \A q \in Program \ {p} :
          alive'[q] = alive[q] /\ dead'[q] = dead[q] /\ leaving'[q] = leaving[q]
    /\ Resident(p)' <= Resident(p) + (c + u)
    /\ EndTurn(c, u)

LEMMA TurnTypes ==
    ASSUME TypeOK, NEW p \in Program
    PROVE  /\ alive[p] \in Nat /\ dead[p] \in Nat /\ leaving[p] \in 0..MaxLeaving
           /\ leaving[p] \in Nat /\ MaxLeaving \in Nat
           /\ Pool(p) \in Nat /\ ticks[p] \in Nat
           /\ Programs[p].rss \in Nat
           /\ OneMore(p) \in Nat /\ OneMore(p) <= Programs[p].cooldown_ticks
           /\ Programs[p].cooldown_ticks \in Nat
<1>1. Programs[p].cooldown_ticks \in Nat /\ Programs[p].rss \in Nat
  BY ProgramFacts
<1>2. MaxLeaving \in Nat
  BY HostAssumption
<1>3. alive[p] \in Nat /\ dead[p] \in Nat /\ leaving[p] \in 0..MaxLeaving /\ ticks[p] \in Nat
  BY DEF TypeOK
<1>4. QED
  BY <1>1, <1>2, <1>3 DEF Pool, OneMore, Smaller

(* The RAM of k workers, and of one more. *)
LEMMA OneWorkerMore ==
    ASSUME NEW k \in Nat, NEW rss \in Nat
    PROVE  (k + 1) * rss = k * rss + rss /\ k * rss \in Nat
  BY SMT

LEMMA ScaleUpTurn ==
    ASSUME TypeOK, NEW p \in Program, ScaleUp(p)
    PROVE  \E n, c, u \in Nat : TurnOf(p, n, c, u)
<1> DEFINE c == IF WorkerRss(p) # None THEN WorkerRss(p) ELSE 0
           u == IF WorkerRss(p) # None THEN 0 ELSE Programs[p].rss
<1>1. /\ c \in Nat /\ u \in Nat /\ c + u = Programs[p].rss
      /\ EndTurn(c, u)
  <2>1. WorkerRss(p) # None => WorkerRss(p) = Programs[p].rss
    BY OthersCharged
  <2>2. CASE WorkerRss(p) # None
    BY <2>1, <2>2, TurnTypes DEF ScaleUp
  <2>3. CASE WorkerRss(p) = None
    BY <2>3, TurnTypes DEF ScaleUp
  <2>4. QED
    BY <2>2, <2>3
<1>2. Pool(p) < Programs[p].max_workers /\ Programs[p].max_workers \in Nat
  BY UpReasons, ProgramFacts DEF ScaleUp
<1>3. /\ alive' = [alive EXCEPT ![p] = @ + 1]
      /\ ticks' = [ticks EXCEPT ![p] = 0]
      /\ expected' = [expected EXCEPT ![p] = Pool(p) + 1]
      /\ dead' = dead /\ leaving' = leaving /\ exits' = exits /\ refusals' = refusals
      /\ phase = "tick" /\ turn = p
  BY DEF ScaleUp, Expect, counts, Decides
<1> HIDE DEF c, u
<1>4. PoolsTyped'
  BY <1>3, TurnTypes DEF TypeOK, PoolsTyped
<1>5. alive'[p] = alive[p] + 1 /\ \A q \in Program \ {p} : alive'[q] = alive[q]
  BY <1>3 DEF TypeOK
<1>6. Pool(p)' = Pool(p) + 1 /\ Pool(p) + 1 \in Nat
  BY <1>3, <1>5, TurnTypes DEF Pool
<1>7. Resident(p)' <= Resident(p) + (c + u)
  <2>1. alive[p] + leaving[p] \in Nat
    BY TurnTypes
  <2>2. Resident(p)' = ((alive[p] + leaving[p]) + 1) * Programs[p].rss
    BY <1>3, <1>5, TurnTypes DEF Resident
  <2>3. Resident(p)' = Resident(p) + Programs[p].rss /\ Resident(p) \in Nat
    BY <2>1, <2>2, TurnTypes, OneWorkerMore DEF Resident
  <2>4. QED
    BY <1>1, <2>3, TurnTypes
<1>8. TurnOf(p, Pool(p) + 1, c, u)
  BY <1>1, <1>2, <1>3, <1>4, <1>5, <1>6, <1>7, TurnTypes DEF TurnOf
<1>9. QED
  BY <1>1, <1>6, <1>8

LEMMA ScaleUpRefusedTurn ==
    ASSUME TypeOK, NEW p \in Program, ScaleUpRefused(p) \/ Hold(p)
    PROVE  \E n, c, u \in Nat : TurnOf(p, n, c, u)
<1>1. /\ ticks' = [ticks EXCEPT ![p] = OneMore(p)]
      /\ expected' = [expected EXCEPT ![p] = Pool(p)]
      /\ UNCHANGED <<alive, dead, leaving, exits>>
      /\ phase = "tick" /\ turn = p
      /\ EndTurn(0, 0)
  BY DEF ScaleUpRefused, Hold, Expect, counts, pools, Decides
<1>2. refusals' \in 0..MaxRefusals
  BY HostAssumption DEF ScaleUpRefused, Hold, Refused, counts, TypeOK
<1>3. PoolsTyped'
  BY <1>1, <1>2, TurnTypes DEF TypeOK, PoolsTyped
<1>4. Pool(p)' = Pool(p) /\ Pool(p) \in Nat
  BY <1>1, TurnTypes DEF Pool
<1>5. Resident(p)' = Resident(p) /\ Resident(p) \in Nat
  BY <1>1, RamTypes DEF Resident
<1>6. Resident(p)' <= Resident(p) + (0 + 0)
  BY <1>5
<1>7. TurnOf(p, Pool(p), 0, 0)
  BY <1>1, <1>3, <1>4, <1>6 DEF TurnOf
<1>8. QED
  BY <1>4, <1>7

LEMMA ScaleDownTurn ==
    ASSUME TypeOK, NEW p \in Program, ScaleDown(p)
    PROVE  \E n, c, u \in Nat : TurnOf(p, n, c, u)
<1>1. /\ ticks' = [ticks EXCEPT ![p] = 0]
      /\ expected' = [expected EXCEPT ![p] = Pool(p) - 1]
      /\ exits' = exits /\ refusals' = refusals
      /\ phase = "tick" /\ turn = p
      /\ EndTurn(0, 0)
  BY DEF ScaleDown, Expect, counts, Decides
<1>2. CASE /\ alive[p] > 0
           /\ leaving[p] < MaxLeaving
           /\ alive' = [alive EXCEPT ![p] = @ - 1]
           /\ leaving' = [leaving EXCEPT ![p] = @ + 1]
           /\ dead' = dead
  <2>1. /\ alive'[p] = alive[p] - 1 /\ leaving'[p] = leaving[p] + 1
        /\ \A q \in Program \ {p} : alive'[q] = alive[q] /\ leaving'[q] = leaving[q]
    BY <1>2 DEF TypeOK
  <2>2. Pool(p)' = Pool(p) - 1 /\ Pool(p) - 1 \in Nat /\ Pool(p) - 1 <= Pool(p)
    BY <1>2, <2>1, TurnTypes DEF Pool
  <2>3. PoolsTyped'
    BY <1>1, <1>2, <2>2, TurnTypes DEF TypeOK, PoolsTyped
  <2>4. alive'[p] + leaving'[p] = alive[p] + leaving[p]
    BY <2>1, TurnTypes
  <2>5. Resident(p)' = Resident(p) /\ Resident(p) \in Nat
    BY <2>4, RamTypes DEF Resident
  <2>6. Resident(p)' <= Resident(p) + (0 + 0)
    BY <2>5
  <2>7. TurnOf(p, Pool(p) - 1, 0, 0)
    BY <1>1, <1>2, <2>1, <2>2, <2>3, <2>6 DEF TurnOf
  <2>8. QED
    BY <2>2, <2>7
<1>3. CASE /\ dead[p] > 0
           /\ dead' = [dead EXCEPT ![p] = @ - 1]
           /\ alive' = alive /\ leaving' = leaving
  <2>1. dead'[p] = dead[p] - 1 /\ \A q \in Program \ {p} : dead'[q] = dead[q]
    BY <1>3 DEF TypeOK
  <2>2. Pool(p)' = Pool(p) - 1 /\ Pool(p) - 1 \in Nat /\ Pool(p) - 1 <= Pool(p)
    BY <1>3, <2>1, TurnTypes DEF Pool
  <2>3. PoolsTyped'
    BY <1>1, <1>3, <2>2, TurnTypes DEF TypeOK, PoolsTyped
  <2>4. Resident(p)' = Resident(p) /\ Resident(p) \in Nat
    BY <1>3, RamTypes DEF Resident
  <2>5. Resident(p)' <= Resident(p) + (0 + 0)
    BY <2>4
  <2>6. TurnOf(p, Pool(p) - 1, 0, 0)
    BY <1>1, <1>3, <2>1, <2>2, <2>3, <2>5 DEF TurnOf
  <2>7. QED
    BY <2>2, <2>6
<1>4. QED
  BY <1>2, <1>3 DEF ScaleDown

LEMMA ReadFailsTurn ==
    ASSUME TypeOK, NEW p \in Program, ReadFails(p)
    PROVE  \E n, c, u \in Nat : TurnOf(p, n, c, u)
<1>1. /\ UNCHANGED <<dead, leaving, exits>>
      /\ phase = "tick" /\ turn = p
  BY DEF ReadFails
<1>2. CASE /\ Pool(p) < Programs[p].min_workers
           /\ alive' = [alive EXCEPT ![p] = @ + 1]
           /\ ticks' = [ticks EXCEPT ![p] = 0]
           /\ expected' = [expected EXCEPT ![p] = Pool(p) + 1]
           /\ EndTurn(0, Programs[p].rss)
           /\ refusals' = refusals
  <2>1. alive'[p] = alive[p] + 1 /\ \A q \in Program \ {p} : alive'[q] = alive[q]
    BY <1>2 DEF TypeOK
  <2>2. Pool(p)' = Pool(p) + 1 /\ Pool(p) + 1 \in Nat
    BY <1>1, <2>1, TurnTypes DEF Pool
  <2>3. Pool(p) + 1 <= Programs[p].max_workers
    <3>1. /\ Programs[p].min_workers \in Nat /\ Programs[p].max_workers \in Nat
          /\ Programs[p].min_workers <= Programs[p].max_workers
      BY ProgramFacts
    <3>2. Pool(p) \in Nat
      BY TurnTypes
    <3>3. QED
      BY <1>2, <3>1, <3>2
  <2>4. PoolsTyped'
    BY <1>1, <1>2, <2>2, TurnTypes DEF TypeOK, PoolsTyped
  <2>5. Resident(p)' <= Resident(p) + (0 + Programs[p].rss)
    <3>1. alive[p] + leaving[p] \in Nat
      BY TurnTypes
    <3>2. Resident(p)' = ((alive[p] + leaving[p]) + 1) * Programs[p].rss
      BY <1>1, <2>1, TurnTypes DEF Resident
    <3>3. Resident(p)' = Resident(p) + Programs[p].rss /\ Resident(p) \in Nat
      BY <3>1, <3>2, TurnTypes, OneWorkerMore DEF Resident
    <3>4. QED
      BY <3>3, TurnTypes
  <2>6. TurnOf(p, Pool(p) + 1, 0, Programs[p].rss)
    BY <1>1, <1>2, <2>1, <2>2, <2>3, <2>4, <2>5 DEF TurnOf
  <2>7. QED
    BY <2>2, <2>6, TurnTypes
<1>3. CASE /\ IF Pool(p) < Programs[p].min_workers THEN Refused ELSE UNCHANGED refusals
           /\ expected' = [expected EXCEPT ![p] = Pool(p)]
           /\ EndTurn(0, 0)
           /\ alive' = alive /\ ticks' = ticks
  <2>1. refusals' \in 0..MaxRefusals
    BY <1>3, HostAssumption DEF Refused, TypeOK
  <2>2. PoolsTyped'
    BY <1>1, <1>3, <2>1, TurnTypes DEF TypeOK, PoolsTyped
  <2>3. Pool(p)' = Pool(p) /\ Pool(p) \in Nat
    BY <1>1, <1>3, TurnTypes DEF Pool
  <2>4. Resident(p)' = Resident(p) /\ Resident(p) \in Nat
    BY <1>1, <1>3, RamTypes DEF Resident
  <2>5. Resident(p)' <= Resident(p) + (0 + 0)
    BY <2>4
  <2>6. TurnOf(p, Pool(p), 0, 0)
    BY <1>1, <1>3, <2>2, <2>3, <2>5 DEF TurnOf
  <2>7. QED
    BY <2>3, <2>6
<1>4. QED
  BY <1>2, <1>3 DEF ReadFails, Expect

(* An exit or the end of a drain: no tick moves on, and no program holds more. *)
Departure(p) ==
    /\ UNCHANGED <<phase, turn, sampled, expected, committed_extra, uncounted>>
    /\ PoolsTyped'
    /\ \A q \in Program : /\ Pool(q)' = Pool(q)
                          /\ alive'[q] + leaving'[q] <= alive[q] + leaving[q]
                          /\ Resident(q)' <= Resident(q)

LEMMA IsDeparture ==
    ASSUME TypeOK, NEW p \in Program, WorkerExits(p) \/ DrainEnds(p)
    PROVE  Departure(p)
<1>1. UNCHANGED <<phase, turn, sampled, expected, committed_extra, uncounted>>
  BY DEF WorkerExits, DrainEnds
<1>2. PoolsTyped'
  <2>1. CASE WorkerExits(p)
    <3>1. exits' \in 0..MaxExits
      BY <2>1, HostAssumption DEF WorkerExits, TypeOK
    <3>2. QED
      BY <2>1, <3>1, TurnTypes DEF WorkerExits, TypeOK, PoolsTyped
  <2>2. CASE DrainEnds(p)
    BY <2>2, TurnTypes DEF DrainEnds, TypeOK, PoolsTyped, counts
  <2>3. QED
    BY <2>1, <2>2
<1>3. ASSUME NEW q \in Program
      PROVE  /\ Pool(q)' = Pool(q)
             /\ alive'[q] + leaving'[q] <= alive[q] + leaving[q]
             /\ alive'[q] + leaving'[q] \in Nat
  <2>1. alive'[q] \in Nat /\ leaving'[q] \in Nat
    <3>1. 0..MaxLeaving \subseteq Nat
      BY HostAssumption
    <3>2. QED
      BY <1>2, <3>1 DEF PoolsTyped
  <2>2. CASE WorkerExits(p)
    <3>1. /\ alive'[q] = IF q = p THEN alive[q] - 1 ELSE alive[q]
          /\ dead'[q] = IF q = p THEN dead[q] + 1 ELSE dead[q]
          /\ leaving'[q] = leaving[q]
      BY <2>2 DEF WorkerExits, TypeOK
    <3>2. QED
      BY <2>1, <3>1, TurnTypes DEF Pool
  <2>3. CASE DrainEnds(p)
    <3>1. /\ alive'[q] = alive[q]
          /\ dead'[q] = dead[q]
          /\ leaving'[q] = IF q = p THEN leaving[q] - 1 ELSE leaving[q]
      BY <2>3 DEF DrainEnds, TypeOK
    <3>2. QED
      BY <2>1, <3>1, TurnTypes DEF Pool
  <2>4. QED
    BY <2>2, <2>3
<1>4. ASSUME NEW q \in Program PROVE Resident(q)' <= Resident(q)
  <2>1. \A a, b, c \in Nat : a <= b => a * c <= b * c
    BY SMT
  <2>2. alive[q] + leaving[q] \in Nat /\ Programs[q].rss \in Nat
    BY TurnTypes
  <2>3. QED
    BY <1>3, <2>1, <2>2 DEF Resident
<1>5. QED
  BY <1>1, <1>2, <1>3, <1>4 DEF Departure

-----------------------------------------------------------------------------
(* Every step keeps the invariant *)

LEMMA EndTurnTypes ==
    ASSUME TypeOK, PoolsTyped', phase = "tick", NEW c \in Nat, NEW u \in Nat, EndTurn(c, u)
    PROVE  TypeOK'
<1> DEFINE last == Len(Programs)
<1>0. last \in Nat \ {0} /\ Program = 1..last
  BY ProgramFacts
<1>1. CASE turn < Len(Programs)
  <2>1. turn' \in Program
    <3>1. turn \in 1..last /\ turn' = turn + 1 /\ turn < last
      BY <1>0, <1>1 DEF TypeOK, EndTurn
    <3> HIDE DEF last
    <3>2. QED
      BY <1>0, <3>1
  <2>2. committed_extra' \in Nat /\ uncounted' \in Nat
    BY <1>1 DEF TypeOK, EndTurn
  <2>3. QED
    BY <1>1, <2>1, <2>2 DEF TypeOK, PoolsTyped, EndTurn, sampled
<1>2. CASE ~(turn < Len(Programs))
  <2>1. turn' = 1 /\ 1 \in Program
    BY <1>0, <1>2 DEF EndTurn
  <2>2. /\ phase' = "sleep" /\ committed_extra' = 0 /\ uncounted' = 0
        /\ non_worker' = 0 /\ swap_pressure' = FALSE
    BY <1>2 DEF EndTurn
  <2>3. reaped' \in [Program -> Nat] /\ seen' \in [Program -> Nat]
    BY <1>2 DEF EndTurn
  <2>4. QED
    BY <2>1, <2>2, <2>3 DEF TypeOK, PoolsTyped
<1>3. QED
  BY <1>1, <1>2

LEMMA TurnKeeps ==
    ASSUME IInv, NEW p \in Program, NEW n \in Nat, NEW c \in Nat, NEW u \in Nat,
           TurnOf(p, n, c, u)
    PROVE  IInv'
<1> USE DEF IInv
<1>1. TypeOK'
  BY EndTurnTypes DEF TurnOf
<1>2. /\ Pool(p)' = n
      /\ \A q \in Program \ {p} : Pool(q)' = Pool(q)
  BY DEF TurnOf, Pool
<1>3. WithinCeiling'
  <2>1. ASSUME NEW q \in Program PROVE Pool(q)' <= Programs[q].max_workers
    <3>1. Pool(q) <= Programs[q].max_workers /\ Pool(q) \in Nat
          /\ Programs[q].max_workers \in Nat
      BY TurnTypes, ProgramFacts DEF WithinCeiling
    <3>2. CASE q = p
      BY <1>2, <3>1, <3>2 DEF TurnOf
    <3>3. CASE q # p
      BY <1>2, <3>1, <3>3
    <3>4. QED
      BY <3>2, <3>3
  <2>2. QED
    BY <2>1 DEF WithinCeiling
<1>4. InterferenceIsExit'
  <2>1. ASSUME NEW q \in Program
        PROVE  expected'[q] =
                 Pool(q)' + (IF phase' = "tick" /\ turn' <= q THEN reaped'[q] ELSE 0)
    <3>1. /\ p \in Int /\ q \in Int /\ Len(Programs) \in Int
          /\ p <= Len(Programs) /\ q <= Len(Programs)
      BY ProgramFacts
    <3>2. /\ expected[q] = Pool(q) + (IF p <= q THEN reaped[q] ELSE 0)
          /\ Pool(q) \in Nat /\ Pool(q)' \in Nat
      <4>1. expected[q] = Pool(q) + (IF p <= q THEN reaped[q] ELSE 0)
        BY DEF TurnOf, InterferenceIsExit
      <4>2. Pool(q) \in Nat
        BY TurnTypes
      <4>3. QED
        BY <1>2, <4>1, <4>2
    <3>3. CASE q = p
      <4>1. expected'[q] = Pool(q)'
        BY <1>2, <3>3 DEF TurnOf, TypeOK
      <4>2. ~(phase' = "tick" /\ turn' <= q)
        BY <3>1, <3>3 DEF TurnOf, EndTurn
      <4>3. QED
        BY <3>2, <4>1, <4>2
    <3>4. CASE q # p
      <4>1. expected'[q] = expected[q] /\ Pool(q)' = Pool(q)
        BY <1>2, <3>4 DEF TurnOf, TypeOK
      <4>2. CASE turn < Len(Programs)
        <5>1. phase' = "tick" /\ turn' = p + 1 /\ reaped' = reaped
          BY <4>2 DEF TurnOf, EndTurn, sampled
        <5>2. turn' <= q <=> p <= q
          BY <3>1, <3>4, <5>1
        <5>3. QED
          BY <3>2, <4>1, <5>1, <5>2
      <4>3. CASE ~(turn < Len(Programs))
        <5>1. phase' = "sleep"
          BY <4>3 DEF TurnOf, EndTurn
        <5>2. ~(p <= q)
          BY <3>1, <3>4, <4>3 DEF TurnOf
        <5>3. QED
          BY <3>2, <4>1, <5>1, <5>2
      <4>4. QED
        BY <4>2, <4>3
    <3>5. QED
      BY <3>3, <3>4
  <2>2. QED
    BY <2>1 DEF InterferenceIsExit
<1>5. Rested'
  BY DEF TurnOf, EndTurn, Rested
<1>6. Accounted'
  <2>1. SUFFICES ASSUME phase' = "tick", NEW q \in Program, q >= turn'
                 PROVE  /\ alive'[q] + leaving'[q] <= seen'[q]
                        /\ ResidentOfOthers(q)' <=
                             SampledOfOthers(q)' + committed_extra' + uncounted'
    BY DEF Accounted
  <2>2. /\ turn' = p + 1 /\ seen' = seen
        /\ committed_extra' = committed_extra + c /\ uncounted' = uncounted + u
    BY <2>1 DEF TurnOf, EndTurn, sampled
  <2>3. q # p /\ q >= turn
    BY <2>1, <2>2, ProgramFacts DEF TurnOf
  <2>4. /\ alive[q] + leaving[q] <= seen[q]
        /\ ResidentOfOthers(q) <= SampledOfOthers(q) + committed_extra + uncounted
    BY <2>3 DEF TurnOf, Accounted
  <2>5. alive'[q] + leaving'[q] <= seen'[q]
    BY <2>2, <2>3, <2>4 DEF TurnOf
  <2>6. SampledOfOthers(q)' = SampledOfOthers(q)
    BY <2>2 DEF SampledOfOthers, Sampled
  <2>7. /\ ResidentOfOthers(q)' <= ResidentOfOthers(q) + (c + u)
        /\ ResidentOfOthers(q)' \in Nat
    <3>1. c + u \in Nat
      OBVIOUS
    <3>2. PoolsTyped' /\ Resident(p)' <= Resident(p) + (c + u)
      BY DEF TurnOf
    <3>3. \A r \in Program \ {p} : Resident(r)' = Resident(r)
      BY DEF TurnOf, Resident
    <3>4. \A r \in Program : Resident(r) \in Nat
      BY RamTypes
    <3>5. \A r \in Program \ {p} : Resident(r)' <= Resident(r)
      <4> HIDE DEF Resident
      <4>1. QED
        BY <3>3, <3>4
    <3>6. QED
      BY <3>1, <3>2, <3>5, OthersHold
  <2>8. /\ committed_extra \in Nat /\ uncounted \in Nat
        /\ SampledOfOthers(q) \in Nat /\ ResidentOfOthers(q) \in Nat
    BY RamTypes DEF TypeOK
  <2>9. ResidentOfOthers(q)' <= SampledOfOthers(q) + committed_extra' + uncounted'
    BY <2>2, <2>4, <2>7, <2>8
  <2>10. QED
    BY <2>5, <2>6, <2>9
<1>7. QED
  BY <1>1, <1>3, <1>4, <1>5, <1>6

LEMMA DepartureKeeps ==
    ASSUME IInv, NEW p \in Program, Departure(p)
    PROVE  IInv'
<1> USE DEF IInv
<1>1. UNCHANGED <<phase, turn, sampled, expected, committed_extra, uncounted>>
  BY DEF Departure
<1>2. TypeOK'
  BY <1>1 DEF Departure, PoolsTyped, TypeOK, sampled
<1>3. WithinCeiling'
  BY DEF Departure, WithinCeiling
<1>4. InterferenceIsExit'
  BY <1>1 DEF Departure, InterferenceIsExit, sampled
<1>5. Rested'
  BY <1>1 DEF Rested
<1>6. Accounted'
  <2>1. SUFFICES ASSUME phase' = "tick", NEW q \in Program, q >= turn'
                 PROVE  /\ alive'[q] + leaving'[q] <= seen'[q]
                        /\ ResidentOfOthers(q)' <=
                             SampledOfOthers(q)' + committed_extra' + uncounted'
    BY DEF Accounted
  <2>2. /\ alive[q] + leaving[q] <= seen[q]
        /\ ResidentOfOthers(q) <= SampledOfOthers(q) + committed_extra + uncounted
    BY <1>1, <2>1 DEF Accounted
  <2>3. /\ alive'[q] + leaving'[q] <= alive[q] + leaving[q]
        /\ alive'[q] \in Nat /\ leaving'[q] \in Nat /\ seen' = seen
    <3>1. 0..MaxLeaving \subseteq Nat
      BY HostAssumption
    <3>2. QED
      BY <1>1, <3>1 DEF Departure, PoolsTyped, sampled
  <2>4. alive'[q] + leaving'[q] <= seen'[q]
    <3>1. alive[q] \in Nat /\ leaving[q] \in Nat /\ seen[q] \in Nat
      BY TurnTypes DEF TypeOK
    <3>2. QED
      BY <2>2, <2>3, <3>1
  <2>5. SampledOfOthers(q)' = SampledOfOthers(q)
    BY <2>3 DEF SampledOfOthers, Sampled
  <2>6. Resident(p) \in Nat /\ Resident(p)' \in Nat
    <3>1. Resident(p) \in Nat
      BY RamTypes
    <3>2. alive'[p] + leaving'[p] \in Nat /\ Programs[p].rss \in Nat
      <4>1. 0..MaxLeaving \subseteq Nat
        BY HostAssumption
      <4>2. QED
        BY <4>1, TurnTypes DEF Departure, PoolsTyped
    <3>3. QED
      BY <3>1, <3>2, OneWorkerMore DEF Resident
  <2>7. /\ ResidentOfOthers(q)' <= ResidentOfOthers(q) + 0
        /\ ResidentOfOthers(q)' \in Nat
    <3>1. PoolsTyped' /\ \A r \in Program : Resident(r)' <= Resident(r)
      BY DEF Departure
    <3>2. Resident(p)' <= Resident(p) + 0
      <4> HIDE DEF Resident
      <4>1. QED
        BY <2>6, <3>1
    <3>3. QED
      BY <3>1, <3>2, OthersHold
  <2>8. /\ committed_extra \in Nat /\ uncounted \in Nat
        /\ SampledOfOthers(q) \in Nat /\ ResidentOfOthers(q) \in Nat
    BY RamTypes DEF TypeOK
  <2>9. ResidentOfOthers(q)' <= SampledOfOthers(q) + committed_extra' + uncounted'
    BY <1>1, <2>2, <2>7, <2>8
  <2>10. QED
    BY <2>4, <2>5, <2>9
<1>7. QED
  BY <1>2, <1>3, <1>4, <1>5, <1>6

LEMMA BeginTickKeeps ==
    ASSUME IInv, BeginTick
    PROVE  IInv'
<1> USE DEF IInv
<1>1. /\ phase = "sleep" /\ phase' = "tick" /\ turn' = 1 /\ turn = 1
      /\ UNCHANGED <<alive, leaving, expected, ticks, committed_extra, uncounted, counts>>
      /\ dead' = [p \in Program |-> 0] /\ reaped' = dead
      /\ seen' = [p \in Program |-> alive[p] + leaving[p]]
  BY DEF BeginTick, Rested
<1>2. seen' \in [Program -> Nat]
  <2>1. \A p \in Program : alive[p] + leaving[p] \in Nat
    BY TurnTypes
  <2>2. QED
    BY <1>1, <2>1
<1>3. TypeOK'
  <2>1. non_worker' \in NonWorker /\ swap_pressure' \in BOOLEAN
    BY HostAssumption DEF BeginTick
  <2>2. dead' \in [Program -> Nat] /\ reaped' \in [Program -> Nat]
    BY <1>1 DEF TypeOK
  <2>3. QED
    BY <1>1, <1>2, <2>1, <2>2 DEF TypeOK, counts
<1>4. \A p \in Program : /\ Pool(p)' = alive[p] /\ Pool(p)' <= Pool(p)
                         /\ Pool(p) = Pool(p)' + reaped'[p]
  BY <1>1, TurnTypes DEF Pool
<1>5. WithinCeiling'
  <2>1. ASSUME NEW p \in Program PROVE Pool(p)' <= Programs[p].max_workers
    <3>1. Pool(p) \in Nat /\ alive[p] \in Nat /\ Programs[p].max_workers \in Nat
      BY TurnTypes, ProgramFacts
    <3>2. Pool(p) <= Programs[p].max_workers
      BY DEF WithinCeiling
    <3>3. Pool(p)' = alive[p] /\ Pool(p)' <= Pool(p)
      BY <1>4
    <3>4. QED
      BY <3>1, <3>2, <3>3
  <2>2. QED
    BY <2>1 DEF WithinCeiling
<1>6. InterferenceIsExit'
  <2>1. ASSUME NEW p \in Program PROVE expected'[p] = Pool(p)' + reaped'[p] /\ turn' <= p
    <3>1. expected[p] = Pool(p) + 0 /\ Pool(p) \in Nat
      BY <1>1, TurnTypes DEF InterferenceIsExit
    <3>2. turn' <= p
      BY <1>1, ProgramFacts
    <3>3. QED
      BY <1>1, <1>4, <3>1, <3>2
  <2>2. QED
    BY <1>1, <2>1 DEF InterferenceIsExit
<1>7. Rested'
  BY <1>1 DEF Rested
<1>8. Accounted'
  <2>1. ASSUME NEW q \in Program
        PROVE  /\ alive'[q] + leaving'[q] <= seen'[q]
               /\ ResidentOfOthers(q)' <=
                    SampledOfOthers(q)' + committed_extra' + uncounted'
    <3>1. alive'[q] + leaving'[q] <= seen'[q]
      BY <1>1, TurnTypes
    <3>2. ResidentOfOthers(q)' = SampledOfOthers(q)'
      BY <1>1 DEF ResidentOfOthers, SampledOfOthers, Resident, Sampled
    <3>3. ResidentOfOthers(q)' = ResidentOfOthers(q)
      BY <1>1 DEF ResidentOfOthers, Resident
    <3>4. ResidentOfOthers(q) \in Nat /\ committed_extra' \in Nat /\ uncounted' \in Nat
      BY <1>1, RamTypes DEF TypeOK
    <3>5. QED
      BY <3>1, <3>2, <3>3, <3>4
  <2>2. QED
    BY <2>1 DEF Accounted
<1>9. QED
  BY <1>3, <1>5, <1>6, <1>7, <1>8

LEMMA StopKeeps ==
    ASSUME IInv, Signal \/ StopProgram
    PROVE  IInv'
<1> USE DEF IInv
<1>1. phase' \in {"stop", "done"}
  BY DEF Signal, StopProgram
<1>2. ASSUME NEW p \in Program PROVE Pool(p)' <= Pool(p) /\ Pool(p)' \in Nat
  <2>1. alive[p] \in Nat /\ dead[p] \in Nat
    BY TurnTypes
  <2>2. CASE Signal
    BY <2>1, <2>2 DEF Signal, pools, Pool
  <2>3. CASE StopProgram
    <3>1. /\ alive'[p] = IF p = turn THEN 0 ELSE alive[p]
          /\ dead'[p] = IF p = turn THEN 0 ELSE dead[p]
      BY <2>3 DEF StopProgram, TypeOK
    <3>2. QED
      BY <2>1, <3>1 DEF Pool
  <2>4. QED
    BY <2>2, <2>3
<1>3. TypeOK'
  <2> DEFINE last == Len(Programs)
  <2>0. last \in Nat \ {0} /\ Program = 1..last
    BY ProgramFacts
  <2>1. CASE Signal
    <3>1. 1 \in Program
      BY <2>0
    <3>2. QED
      BY <2>1, <3>1 DEF Signal, TypeOK, pools, counts
  <2>2. CASE StopProgram
    <3>1. turn' \in Program
      <4>1. turn \in 1..last /\ (turn' = turn \/ (turn' = turn + 1 /\ turn < last))
        BY <2>0, <2>2 DEF TypeOK, StopProgram
      <4> HIDE DEF last
      <4>2. QED
        BY <2>0, <4>1
    <3>2. alive' \in [Program -> Nat] /\ dead' \in [Program -> Nat]
      BY <2>2 DEF TypeOK, StopProgram
    <3>3. QED
      BY <1>1, <2>2, <3>1, <3>2 DEF TypeOK, StopProgram, sampled, counts
  <2>3. QED
    BY <2>1, <2>2
<1>4. WithinCeiling'
  <2>1. ASSUME NEW p \in Program PROVE Pool(p)' <= Programs[p].max_workers
    <3>1. Pool(p) \in Nat /\ Programs[p].max_workers \in Nat
      BY TurnTypes, ProgramFacts
    <3>2. Pool(p) <= Programs[p].max_workers
      BY DEF WithinCeiling
    <3>3. Pool(p)' <= Pool(p) /\ Pool(p)' \in Nat
      BY <1>2
    <3>4. QED
      BY <3>1, <3>2, <3>3
  <2>2. QED
    BY <2>1 DEF WithinCeiling
<1>5. QED
  BY <1>1, <1>3, <1>4 DEF InterferenceIsExit, Rested, Accounted

LEMMA StepKeeps == IInv /\ [Next]_vars => IInv'
<1> SUFFICES ASSUME IInv, [Next]_vars PROVE IInv'
  OBVIOUS
<1>1. CASE BeginTick
  BY <1>1, BeginTickKeeps
<1>2. CASE Signal \/ StopProgram
  BY <1>2, StopKeeps
<1>3. ASSUME NEW p \in Program, ScaleUp(p) \/ ScaleUpRefused(p) \/ ScaleDown(p) \/ Hold(p)
                                \/ ReadFails(p)
      PROVE  IInv'
  <2>1. TypeOK
    BY DEF IInv
  <2>2. PICK n, c, u \in Nat : TurnOf(p, n, c, u)
    BY <1>3, <2>1, ScaleUpTurn, ScaleUpRefusedTurn, ScaleDownTurn, ReadFailsTurn
  <2>3. QED
    BY <2>2, TurnKeeps
<1>4. ASSUME NEW p \in Program, WorkerExits(p) \/ DrainEnds(p) PROVE IInv'
  <2>1. Departure(p)
    BY <1>4, IsDeparture DEF IInv
  <2>2. QED
    BY <2>1, DepartureKeeps
<1>5. CASE UNCHANGED vars
  <2> USE <1>5 DEF vars, pools, sampled, counts
  <2>1. TypeOK' /\ WithinCeiling' /\ InterferenceIsExit' /\ Rested'
    BY DEF IInv, TypeOK, WithinCeiling, InterferenceIsExit, Rested, Pool
  <2>2. Accounted'
    BY DEF IInv, Accounted, ResidentOfOthers, SampledOfOthers, Resident, Sampled
  <2>3. QED
    BY <2>1, <2>2 DEF IInv
<1>6. QED
  BY <1>1, <1>2, <1>3, <1>4, <1>5 DEF Next

LEMMA InitHas == Init => IInv
<1> SUFFICES ASSUME Init PROVE IInv
  OBVIOUS
<1>1. TypeOK
  <2>1. 1 \in Program
    BY ProgramFacts
  <2>2. 0 \in 0..MaxLeaving /\ 0 \in 0..MaxExits /\ 0 \in 0..MaxRefusals
    BY HostAssumption
  <2>3. ASSUME NEW p \in Program
        PROVE  ticks[p] \in Nat /\ ticks[p] <= Programs[p].cooldown_ticks
    <3>1. Programs[p].cooldown_ticks \in Nat
      BY ProgramFacts
    <3>2. ticks[p] = Programs[p].cooldown_ticks
      BY DEF Init
    <3>3. QED
      BY <3>1, <3>2
  <2>4. QED
    BY <2>1, <2>2, <2>3 DEF Init, TypeOK
<1>2. ASSUME NEW p \in Program
      PROVE  Pool(p) = 0 /\ Programs[p].max_workers \in Nat /\ expected[p] = 0
  <2>1. Programs[p].max_workers \in Nat
    BY ProgramFacts
  <2>2. alive[p] = 0 /\ dead[p] = 0 /\ expected[p] = 0
    BY DEF Init
  <2>3. QED
    BY <2>1, <2>2 DEF Pool
<1>3. WithinCeiling
  BY <1>2 DEF WithinCeiling
<1>4. InterferenceIsExit /\ Rested /\ Accounted
  BY <1>2 DEF Init, InterferenceIsExit, Rested, Accounted
<1>5. QED
  BY <1>1, <1>3, <1>4 DEF IInv

(* The invariant is one: run() reaches no state outside it. *)
THEOREM Invariance == Spec => []IInv
  BY InitHas, StepKeeps, PTL DEF Spec

-----------------------------------------------------------------------------
(* What the run checks on three programs, for any number of them *)

(* The loop's variables keep their types and ranges. *)
THEOREM TypeCorrect == Spec => []TypeOK
<1>1. IInv => TypeOK
  BY DEF IInv
<1>2. QED
  BY <1>1, Invariance, PTL

(* No pool grows past its max_workers, on a read that succeeds or on the error path. *)
THEOREM CeilingHolds == Spec => []WithinCeiling
<1>1. IInv => WithinCeiling
  BY DEF IInv
<1>2. QED
  BY <1>1, Invariance, PTL

(* run() takes exactly the workers that exited by themselves for interference. *)
THEOREM InterferenceExact == Spec => []InterferenceIsExit
<1>1. IInv => InterferenceIsExit
  BY DEF IInv
<1>2. QED
  BY <1>1, Invariance, PTL

(* Only a decision to scale up, or the floor, starts a worker. *)
LEMMA GrowthIsDecided ==
    ASSUME TypeOK, [Next]_vars, NEW p \in Program, alive'[p] > alive[p]
    PROVE  /\ phase = "tick"
           /\ Pool(p)' = Pool(p) + 1
           /\ Decides(p, "ScaleUp") \/ Pool(p) < Programs[p].min_workers
<1>1. alive[p] \in Nat /\ dead[p] \in Nat /\ alive \in [Program -> Nat]
  BY TurnTypes DEF TypeOK
<1>2. CASE BeginTick \/ Signal \/ UNCHANGED vars
  BY <1>1, <1>2 DEF BeginTick, Signal, pools, vars
<1>3. CASE StopProgram
  <2>1. alive'[p] = 0 \/ alive'[p] = alive[p]
    BY <1>1, <1>3 DEF StopProgram
  <2>2. QED
    BY <1>1, <2>1
<1>4. ASSUME NEW q \in Program,
             \/ ScaleUpRefused(q) \/ ScaleDown(q) \/ Hold(q) \/ WorkerExits(q) \/ DrainEnds(q)
      PROVE  FALSE
  <2>1. CASE ScaleUpRefused(q) \/ Hold(q) \/ DrainEnds(q)
    BY <1>1, <2>1 DEF ScaleUpRefused, Hold, DrainEnds, pools
  <2>2. CASE ScaleDown(q) \/ WorkerExits(q)
    <3>1. alive'[p] = alive[p] - 1 \/ alive'[p] = alive[p]
      BY <1>1, <2>2 DEF ScaleDown, WorkerExits
    <3>2. QED
      BY <1>1, <3>1
  <2>3. QED
    BY <1>4, <2>1, <2>2
<1>5. ASSUME NEW q \in Program, ScaleUp(q) \/ ReadFails(q)
      PROVE  /\ phase = "tick"
             /\ Pool(p)' = Pool(p) + 1
             /\ Decides(p, "ScaleUp") \/ Pool(p) < Programs[p].min_workers
  <2>1. \/ alive' = alive
        \/ /\ alive' = [alive EXCEPT ![q] = @ + 1]
           /\ Decides(q, "ScaleUp") \/ Pool(q) < Programs[q].min_workers
    BY <1>5 DEF ScaleUp, ReadFails
  <2>2. phase = "tick" /\ dead' = dead
    BY <1>5 DEF ScaleUp, ReadFails, Decides
  <2>3. /\ alive' = [alive EXCEPT ![q] = @ + 1]
        /\ Decides(q, "ScaleUp") \/ Pool(q) < Programs[q].min_workers
    BY <1>1, <2>1
  <2>4. q = p
    BY <1>1, <2>3
  <2>5. Pool(p)' = Pool(p) + 1
    BY <1>1, <2>2, <2>3, <2>4 DEF Pool
  <2>6. QED
    BY <2>2, <2>3, <2>4, <2>5
<1>6. QED
  BY <1>2, <1>3, <1>4, <1>5 DEF Next

(* main.rs charges a scale-up for what other programs hold: sampled, drains included, and
   claimed since.  Accounted bounds what they hold by what is charged, but for the spawns
   that nothing is charged for. *)
THEOREM GrowthInBudget == Spec => GrowthFitsBudget
<1>1. ASSUME IInv, [Next]_vars, NEW p \in Program,
             Programs[p].mode = "slo", phase = "tick", alive'[p] > alive[p],
             Pool(p) >= Programs[p].min_workers, WorkerRss(p) # None
      PROVE  Registered(p)' + ResidentOfOthers(p) <= RamPoolBudget + uncounted
  <2>1. TypeOK
    BY <1>1 DEF IInv
  <2>2. Pool(p) \in Nat /\ Programs[p].min_workers \in Nat /\ Programs[p].rss \in Nat \ {0}
    BY <2>1, TurnTypes, ProgramFacts
  <2>3. Pool(p)' = Pool(p) + 1 /\ Decides(p, "ScaleUp")
    <3>1. ~(Pool(p) < Programs[p].min_workers)
      BY <1>1, <2>2
    <3>2. QED
      BY <1>1, <2>1, <3>1, GrowthIsDecided
  <2> DEFINE more == (Pool(p) + 1) * Programs[p].rss
  <2>4. Registered(p)' = more
    BY <2>3 DEF Registered
  <2>5. more <= EffBudget(p)
    BY <1>1, <2>1, <2>3, UpReasons
  <2>6. more \in Nat \ {0}
    <3>1. \A a, b \in Nat \ {0} : a * b \in Nat \ {0}
      BY SMT
    <3>2. Pool(p) + 1 \in Nat \ {0}
      BY <2>2
    <3>3. QED
      BY <2>2, <3>1, <3>2
  <2>7. total_worker_rss - PoolRss(p) = SampledOfOthers(p)
    BY <1>1, <2>1, OthersCharged
  <2>8. ResidentOfOthers(p) <= SampledOfOthers(p) + committed_extra + uncounted
    <3>1. turn = p
      BY <2>3 DEF Decides
    <3>2. p >= turn
      BY <3>1, ProgramFacts
    <3>3. QED
      BY <1>1, <3>2 DEF IInv, Accounted
  <2>9. /\ SampledOfOthers(p) \in Nat /\ ResidentOfOthers(p) \in Nat /\ RamPoolBudget \in Nat
        /\ committed_extra \in Nat /\ uncounted \in Nat
    BY <2>1, RamTypes DEF TypeOK
  <2> HIDE DEF more
  <2>10. EffBudget(p) = Minus(Minus(RamPoolBudget, SampledOfOthers(p)), committed_extra)
    BY <2>7 DEF EffBudget
  <2> HIDE DEF RamPoolBudget, SampledOfOthers, ResidentOfOthers
  <2>11. more + SampledOfOthers(p) + committed_extra <= RamPoolBudget
    BY <2>5, <2>6, <2>9, <2>10 DEF Minus, Larger
  <2>12. more + ResidentOfOthers(p) <= RamPoolBudget + uncounted
    BY <2>6, <2>8, <2>9, <2>11
  <2>13. QED
    BY <2>4, <2>12
<1>2. ASSUME IInv, [Next]_vars
      PROVE  \A p \in Program :
                /\ Programs[p].mode = "slo"
                /\ phase = "tick"
                /\ alive'[p] > alive[p]
                /\ Pool(p) >= Programs[p].min_workers
                /\ WorkerRss(p) # None
                => Registered(p)' + ResidentOfOthers(p) <= RamPoolBudget + uncounted
  BY <1>1, <1>2
<1>3. QED
  BY <1>2, Invariance, PTL DEF Spec, GrowthFitsBudget

(* swap_pressure pins every slo pool: above its floor only an empty one gets a worker. *)
THEOREM PagingStopsGrowth == Spec => NoGrowthWhilePaging
<1>1. ASSUME IInv, [Next]_vars, NEW p \in Program,
             Programs[p].mode = "slo", swap_pressure, alive'[p] > alive[p]
      PROVE  Pool(p) = 0 \/ Pool(p) < Programs[p].min_workers
  <2>1. TypeOK
    BY <1>1 DEF IInv
  <2>2. Pool(p) \in Nat /\ Programs[p].min_workers \in Nat
    BY <2>1, TurnTypes, ProgramFacts
  <2>3. CASE Pool(p) >= Programs[p].min_workers
    <3>1. ~(Pool(p) < Programs[p].min_workers)
      BY <2>2, <2>3
    <3>2. Decides(p, "ScaleUp")
      BY <1>1, <2>1, <3>1, GrowthIsDecided
    <3>3. QED
      BY <1>1, <2>1, <2>3, <3>2, UpReasons
  <2>4. QED
    BY <2>2, <2>3
<1>2. ASSUME IInv, [Next]_vars
      PROVE  \A p \in Program :
                /\ Programs[p].mode = "slo"
                /\ swap_pressure
                /\ alive'[p] > alive[p]
                => Pool(p) = 0 \/ Pool(p) < Programs[p].min_workers
  BY <1>1, <1>2
<1>3. QED
  BY <1>2, Invariance, PTL DEF Spec, NoGrowthWhilePaging

-----------------------------------------------------------------------------
(* The shutdown *)

(* The programs the shutdown is done with are empty, whatever their workers did. *)
EmptiedInOrder ==
    \A p \in Program : (phase = "stop" /\ p < turn) \/ phase = "done" => Pool(p) = 0

(* When run() returns no program has a worker left in its registry, wherever in a tick the
   signal came: the half of ShutdownEmpties that is no liveness. *)
THEOREM ShutdownLeavesNone == Spec => []EmptiedInOrder
<1>1. Init => EmptiedInOrder
  <2> SUFFICES ASSUME Init PROVE phase = "sleep"
    BY DEF EmptiedInOrder
  <2>1. QED
    BY DEF Init
<1>2. ASSUME TypeOK, EmptiedInOrder, [Next]_vars PROVE EmptiedInOrder'
  <2>1. CASE BeginTick
    BY <2>1 DEF BeginTick, EmptiedInOrder
  <2>2. CASE Signal
    <3>1. phase' = "stop" /\ \A p \in Program : ~(p < turn')
      BY <2>2, ProgramFacts DEF Signal
    <3>2. QED
      BY <3>1 DEF EmptiedInOrder
  <2>3. CASE StopProgram
    <3> SUFFICES ASSUME NEW p \in Program, (phase' = "stop" /\ p < turn') \/ phase' = "done"
                 PROVE  Pool(p)' = 0
      BY DEF EmptiedInOrder
    <3>1. /\ Len(Programs) \in Nat /\ p \in 1..Len(Programs) /\ turn \in 1..Len(Programs)
          /\ phase = "stop"
      BY <1>2, <2>3, ProgramFacts DEF TypeOK, StopProgram
    <3>2. IF p = turn THEN alive'[p] = 0 /\ dead'[p] = 0
                      ELSE alive'[p] = alive[p] /\ dead'[p] = dead[p]
      BY <1>2, <2>3 DEF TypeOK, StopProgram
    <3>3. p <= turn
      <4>1. \/ turn' = turn + 1 /\ phase' = phase
            \/ ~(turn < Len(Programs))
        BY <2>3 DEF StopProgram
      <4>2. QED
        BY <3>1, <4>1
    <3>4. CASE p = turn
      BY <3>2, <3>4 DEF Pool
    <3>5. CASE p < turn
      <4>1. Pool(p) = 0
        BY <1>2, <3>1, <3>5 DEF EmptiedInOrder
      <4>2. QED
        BY <3>1, <3>2, <3>5, <4>1 DEF Pool
    <3>6. QED
      BY <3>1, <3>3, <3>4, <3>5
  <2>4. ASSUME NEW p \in Program, ScaleUp(p) \/ ScaleUpRefused(p) \/ ScaleDown(p) \/ Hold(p)
                                  \/ ReadFails(p)
        PROVE  EmptiedInOrder'
    <3>1. PICK n, c, u \in Nat : TurnOf(p, n, c, u)
      BY <1>2, <2>4, ScaleUpTurn, ScaleUpRefusedTurn, ScaleDownTurn, ReadFailsTurn
    <3>2. phase' \in {"tick", "sleep"}
      BY <3>1 DEF TurnOf, EndTurn
    <3>3. QED
      BY <3>2 DEF EmptiedInOrder
  <2>5. ASSUME NEW p \in Program, WorkerExits(p) \/ DrainEnds(p) PROVE EmptiedInOrder'
    <3>1. Departure(p)
      BY <1>2, <2>5, IsDeparture
    <3>2. QED
      BY <1>2, <3>1 DEF Departure, EmptiedInOrder
  <2>6. CASE UNCHANGED vars
    BY <1>2, <2>6 DEF vars, pools, EmptiedInOrder, Pool
  <2>7. QED
    BY <1>2, <2>1, <2>2, <2>3, <2>4, <2>5, <2>6 DEF Next
<1>3. QED
  BY <1>1, <1>2, TypeCorrect, PTL DEF Spec

=============================================================================
