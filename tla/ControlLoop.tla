----------------------------- MODULE ControlLoop -----------------------------
(***************************************************************************)
(* run() of src/main.rs: one loop that steers the worker pools of several   *)
(* programs under one RAM budget.                                           *)
(*                                                                          *)
(* A tick reaps what exited and samples memory in one go, then takes the    *)
(* programs in configuration order; between two programs it awaits a broker *)
(* read, and there workers exit, drains end and a shutdown signal may       *)
(* cancel the rest of the tick.  What the estimator and the broker answer   *)
(* is arbitrary.  A pool is abstracted to the number of its workers; module *)
(* WorkerPool has the single worker.                                        *)
(***************************************************************************)
EXTENDS Policy, Runnable, Sequences, Functions

CONSTANTS
    Programs,      \* sequence of configurations: the params of their mode, mode and rss
    Backlogs,      \* backlogs the broker can report
    Rates,         \* values of mu and lambda
    RamBudget,     \* ram_budget, or None: derive the budget from the host
    RamHeadroom,   \* ram_headroom
    MemoryTotal,   \* RAM of the host
    NonWorker,     \* what the rest of the host may occupy
    Paging,        \* whether the host may be above the swap cap: a set of BOOLEANs
    MaxLeaving,    \* bound: workers of one program draining at once
    MaxExits,      \* bound: workers exiting by themselves, over a run
    MaxRefusals    \* bound: spawns that fail or the back-off refuses, over a run

Program == DOMAIN Programs

ASSUME HostAssumption ==
    /\ Backlogs \subseteq Nat /\ Rates \subseteq Nat /\ NonWorker \subseteq Nat
    /\ RamBudget \in Nat \union {None} /\ RamHeadroom \in Nat /\ MemoryTotal \in Nat
    /\ Paging \subseteq BOOLEAN
    /\ MaxLeaving \in Nat /\ MaxExits \in Nat /\ MaxRefusals \in Nat

(* What load_all accepts. *)
ASSUME ProgramsAssumption ==
    /\ Len(Programs) \in Nat \ {0} /\ Program = 1..Len(Programs)
    /\ \A p \in Program :
          /\ IsRunnable(Programs[p])
          /\ Programs[p].rss \in Nat \ {0}
          /\ Programs[p].mode = "threshold" => Programs[p].ram_cap \in Nat

VARIABLES
    phase,           \* "sleep", "tick", "stop" or "done"
    turn,            \* the program the tick, or the shutdown, has come to
    alive,           \* alive[p]: registered workers of p that run
    dead,            \* dead[p]: registered workers that exited and are not reaped
    leaving,         \* leaving[p]: detached workers of p that run and are still in pids()
    expected,        \* Prog.expected_running
    ticks,           \* Prog.ticks_since_change
    reaped,          \* reaped[p]: workers reap_exited returned in this tick
    seen,            \* seen[p]: workers of p that were resident when memory was sampled
    non_worker,      \* RAM of the rest of the host, as sampled
    swap_pressure,   \* as sampled
    committed_extra, \* RSS claimed by this tick's scale-ups so far
    uncounted,       \* RSS of this tick's spawns that committed_extra leaves out
    exits,           \* workers that exited by themselves
    refusals         \* spawns that failed or were refused

sampled == <<reaped, seen, non_worker, swap_pressure>>
counts  == <<exits, refusals>>
pools   == <<alive, dead, leaving>>
vars    == <<phase, turn, pools, expected, ticks, sampled, committed_extra, uncounted, counts>>

-----------------------------------------------------------------------------
(* The state as the code reads it *)

(* WorkerPool::len: a worker stays registered until it is reaped. *)
Pool(p) == alive[p] + dead[p]

(* Only slo programs need RSS; without one no pid is sampled. *)
need_rss == \E p \in Program : Programs[p].mode = "slo"

Sampled(p) == seen[p] * Programs[p].rss

(* this_rss and worker_rss of the sample. *)
PoolRss(p)   == IF need_rss THEN Sampled(p) ELSE 0
WorkerRss(p) == IF need_rss /\ seen[p] > 0 THEN Programs[p].rss ELSE None

total_worker_rss == SumFunction([p \in Program |-> PoolRss(p)])

memory_used == non_worker + SumFunction([p \in Program |-> Sampled(p)])

(* ram_pool_budget: used memory less the workers' is what the others occupy. *)
RamPoolBudget ==
    IF RamBudget # None THEN RamBudget
    ELSE Minus(Minus(MemoryTotal, Minus(memory_used, total_worker_rss)), RamHeadroom)

(* Mutant: this tick's earlier scale-ups are forgotten. *)
BudgetOfSample(p) == Minus(RamPoolBudget, total_worker_rss - PoolRss(p))

(* eff_budget: what other programs and this tick's earlier scale-ups leave free. *)
EffBudget(p) ==
    Minus(Minus(RamPoolBudget, total_worker_rss - PoolRss(p)), committed_extra)

(* What a successful read and the estimator may yield: the estimator asks for a
   probe only while mu is unknown, and never publishes a mu of zero. *)
Readings ==
    {r \in [backlog: Backlogs, mu: (Rates \ {0}) \union {None}, lambda: Rates,
            needs_probe: BOOLEAN] : r.needs_probe => r.mu = None}

(* The action decided for program p on reading r. *)
Action(p, r) ==
    IF Programs[p].mode = "slo"
    THEN DecideSlo(Programs[p],
            [backlog |-> r.backlog, running |-> Pool(p), mu |-> r.mu, lambda |-> r.lambda,
             worker_rss |-> WorkerRss(p), safe_ram_budget |-> EffBudget(p),
             swap_pressure |-> swap_pressure, ticks_since_change |-> ticks[p],
             needs_probe |-> r.needs_probe]).action
    ELSE DecideThreshold(Programs[p],
            [backlog |-> r.backlog, running |-> Pool(p), ticks_since_change |-> ticks[p],
             crowded |-> memory_used >= Programs[p].ram_cap])

(* Ticks beyond the cooldown change nothing any more (bound of the counter). *)
OneMore(p) == Smaller(ticks[p] + 1, Programs[p].cooldown_ticks)

-----------------------------------------------------------------------------
(* Actions *)

Init ==
    /\ phase = "sleep"
    /\ turn = 1
    /\ alive = [p \in Program |-> 0]
    /\ dead = [p \in Program |-> 0]
    /\ leaving = [p \in Program |-> 0]
    /\ expected = [p \in Program |-> 0]
    /\ ticks = [p \in Program |-> Programs[p].cooldown_ticks]
    /\ reaped = [p \in Program |-> 0]
    /\ seen = [p \in Program |-> 0]
    /\ non_worker = 0
    /\ swap_pressure = FALSE
    /\ committed_extra = 0
    /\ uncounted = 0
    /\ exits = 0
    /\ refusals = 0

(* The part of a tick before its first await: reap every pool, then sample. *)
BeginTick ==
    /\ phase = "sleep"
    /\ phase' = "tick"
    /\ dead' = [p \in Program |-> 0]
    /\ reaped' = dead
    /\ seen' = [p \in Program |-> alive[p] + leaving[p]]
    /\ non_worker' \in NonWorker
    /\ swap_pressure' \in Paging
    /\ UNCHANGED <<turn, alive, leaving, expected, ticks, committed_extra, uncounted, counts>>

(* Mutant: the tick goes on past the last program. *)
EndTurnLate(claimed, unclaimed) ==
    /\ turn' = turn + 1
    /\ committed_extra' = committed_extra + claimed
    /\ uncounted' = uncounted + unclaimed
    /\ UNCHANGED <<phase, sampled>>

(* The program is done with: on to the next one, or, the tick's locals gone, to sleep. *)
EndTurn(claimed, unclaimed) ==
    IF turn < Len(Programs)
    THEN /\ turn' = turn + 1
         /\ committed_extra' = committed_extra + claimed
         /\ uncounted' = uncounted + unclaimed
         /\ UNCHANGED <<phase, sampled>>
    ELSE /\ phase' = "sleep"
         /\ turn' = 1
         /\ committed_extra' = 0
         /\ uncounted' = 0
         /\ reaped' = [p \in Program |-> 0]
         /\ seen' = [p \in Program |-> 0]
         /\ non_worker' = 0
         /\ swap_pressure' = FALSE

(* Every path ends by remembering the pool's size, n. *)
Expect(p, n) == expected' = [expected EXCEPT ![p] = n]

Decides(p, action) ==
    /\ phase = "tick"
    /\ turn = p
    /\ \E r \in Readings : Action(p, r) = action

(* spawn_one succeeds. *)
ScaleUp(p) ==
    /\ Decides(p, "ScaleUp")
    /\ alive' = [alive EXCEPT ![p] = @ + 1]
    /\ ticks' = [ticks EXCEPT ![p] = 0]
    /\ Expect(p, Pool(p) + 1)
    /\ IF WorkerRss(p) # None THEN EndTurn(WorkerRss(p), 0)
                              ELSE EndTurn(0, Programs[p].rss)
    /\ UNCHANGED <<dead, leaving, counts>>

(* spawn_one fails, or the crash-loop back-off refuses it. *)
Refused == refusals < MaxRefusals /\ refusals' = refusals + 1

ScaleUpRefused(p) ==
    /\ Decides(p, "ScaleUp")
    /\ Refused
    /\ ticks' = [ticks EXCEPT ![p] = OneMore(p)]
    /\ Expect(p, Pool(p))
    /\ EndTurn(0, 0)
    /\ UNCHANGED <<pools, exits>>

(* detach_one takes the newest worker, which may have exited since the reap. *)
ScaleDown(p) ==
    /\ Decides(p, "ScaleDown")
    /\ \/ /\ alive[p] > 0
          /\ leaving[p] < MaxLeaving
          /\ alive' = [alive EXCEPT ![p] = @ - 1]
          /\ leaving' = [leaving EXCEPT ![p] = @ + 1]
          /\ UNCHANGED dead
       \/ /\ dead[p] > 0
          /\ dead' = [dead EXCEPT ![p] = @ - 1]
          /\ UNCHANGED <<alive, leaving>>
    /\ ticks' = [ticks EXCEPT ![p] = 0]
    /\ Expect(p, Pool(p) - 1)
    /\ EndTurn(0, 0)
    /\ UNCHANGED counts

Hold(p) ==
    /\ Decides(p, "Hold")
    /\ ticks' = [ticks EXCEPT ![p] = OneMore(p)]
    /\ Expect(p, Pool(p))
    /\ EndTurn(0, 0)
    /\ UNCHANGED <<pools, counts>>

(* Mutant: the floor is left to the decisions on successful reads. *)
ReadFailsIdle(p) ==
    /\ phase = "tick"
    /\ turn = p
    /\ Expect(p, Pool(p))
    /\ EndTurn(0, 0)
    /\ UNCHANGED <<pools, ticks, counts>>

(* Mutant: the error path does not remember the pool's size. *)
ReadFailsForgets(p) ==
    /\ phase = "tick"
    /\ turn = p
    /\ EndTurn(0, 0)
    /\ UNCHANGED <<pools, ticks, expected, counts>>

(* The read fails: only the floor is looked after, and nothing is added to
   committed_extra. *)
ReadFails(p) ==
    /\ phase = "tick"
    /\ turn = p
    /\ \/ /\ Pool(p) < Programs[p].min_workers
          /\ alive' = [alive EXCEPT ![p] = @ + 1]
          /\ ticks' = [ticks EXCEPT ![p] = 0]
          /\ Expect(p, Pool(p) + 1)
          /\ EndTurn(0, Programs[p].rss)
          /\ UNCHANGED refusals
       \/ /\ IF Pool(p) < Programs[p].min_workers THEN Refused ELSE UNCHANGED refusals
          /\ Expect(p, Pool(p))
          /\ EndTurn(0, 0)
          /\ UNCHANGED <<alive, ticks>>
    /\ UNCHANGED <<dead, leaving, exits>>

(* The shutdown signal is noticed, at a read (the rest of the tick is dropped) or
   while the loop sleeps. *)
Signal ==
    /\ phase \in {"sleep", "tick"}
    /\ phase' = "stop"
    /\ turn' = 1
    /\ committed_extra' = 0
    /\ uncounted' = 0
    /\ reaped' = [p \in Program |-> 0]
    /\ seen' = [p \in Program |-> 0]
    /\ non_worker' = 0
    /\ swap_pressure' = FALSE
    /\ UNCHANGED <<pools, expected, ticks, counts>>

(* Mutant: the first empty pool ends the shutdown. *)
StopProgramBreaks ==
    /\ phase = "stop"
    /\ alive' = [alive EXCEPT ![turn] = 0]
    /\ dead' = [dead EXCEPT ![turn] = 0]
    /\ IF turn < Len(Programs) /\ Pool(turn) > 0
       THEN turn' = turn + 1 /\ UNCHANGED phase
       ELSE phase' = "done" /\ UNCHANGED turn
    /\ UNCHANGED <<leaving, expected, ticks, sampled, committed_extra, uncounted, counts>>

(* shutdown_all on one program after the other; an empty pool returns at once. *)
StopProgram ==
    /\ phase = "stop"
    /\ alive' = [alive EXCEPT ![turn] = 0]
    /\ dead' = [dead EXCEPT ![turn] = 0]
    /\ IF turn < Len(Programs)
       THEN turn' = turn + 1 /\ UNCHANGED phase
       ELSE phase' = "done" /\ UNCHANGED turn
    /\ UNCHANGED <<leaving, expected, ticks, sampled, committed_extra, uncounted, counts>>

(* A registered worker exits by itself. *)
WorkerExits(p) ==
    /\ phase # "done"
    /\ alive[p] > 0
    /\ exits < MaxExits
    /\ exits' = exits + 1
    /\ alive' = [alive EXCEPT ![p] = @ - 1]
    /\ dead' = [dead EXCEPT ![p] = @ + 1]
    /\ UNCHANGED <<phase, turn, leaving, expected, ticks, sampled, committed_extra, uncounted,
                   refusals>>

(* A drain comes to its end, or prune_draining forgets it. *)
DrainEnds(p) ==
    /\ phase # "done"
    /\ leaving[p] > 0
    /\ leaving' = [leaving EXCEPT ![p] = @ - 1]
    /\ UNCHANGED <<phase, turn, alive, dead, expected, ticks, sampled, committed_extra,
                   uncounted, counts>>

Next ==
    \/ BeginTick
    \/ Signal
    \/ StopProgram
    \/ \E p \in Program : \/ ScaleUp(p)
                          \/ ScaleUpRefused(p)
                          \/ ScaleDown(p)
                          \/ Hold(p)
                          \/ ReadFails(p)
                          \/ WorkerExits(p)
                          \/ DrainEnds(p)

Spec == Init /\ [][Next]_vars

(* The turn of a program passes: every action of a tick but Signal. *)
TurnPasses ==
    /\ phase = "tick"
    /\ IF turn < Len(Programs) THEN phase' = "tick" /\ turn' = turn + 1
                               ELSE phase' = "sleep" /\ turn' = 1

(* Every await of the loop ends (reads have timeouts).  Spawns need no fairness: the
   back-off runs out, and refusals are bounded. *)
Fairness ==
    /\ WF_vars(BeginTick)
    /\ WF_<<phase, turn>>(TurnPasses)
    /\ WF_vars(StopProgram)

FairSpec == Spec /\ Fairness

-----------------------------------------------------------------------------
(* Properties *)

(* Every variable keeps its type; the turn, the drains and the cooldown stay in range. *)
TypeOK ==
    /\ phase \in {"sleep", "tick", "stop", "done"}
    /\ turn \in Program
    /\ alive \in [Program -> Nat]
    /\ dead \in [Program -> Nat]
    /\ leaving \in [Program -> 0..MaxLeaving]
    /\ expected \in [Program -> Nat]
    /\ ticks \in [Program -> Nat]
    /\ \A p \in Program : ticks[p] <= Programs[p].cooldown_ticks
    /\ reaped \in [Program -> Nat]
    /\ seen \in [Program -> Nat]
    /\ non_worker \in NonWorker \union {0}
    /\ swap_pressure \in BOOLEAN
    /\ committed_extra \in Nat
    /\ uncounted \in Nat
    /\ exits \in 0..MaxExits
    /\ refusals \in 0..MaxRefusals

(* max_workers bounds every pool, whatever order reads fail and succeed in and
   although a worker counts until it is reaped. *)
WithinCeiling == \A p \in Program : Pool(p) <= Programs[p].max_workers

(* main.rs takes a running count other than expected_running for interference: it is
   so exactly when workers that exited by themselves were reaped in this tick, whether
   the read before succeeded, failed or never happened. *)
InterferenceIsExit ==
    phase \in {"sleep", "tick"} =>
        \A p \in Program :
            expected[p] = Pool(p) + (IF phase = "tick" /\ turn <= p THEN reaped[p] ELSE 0)

(* RAM of p's registry, and RAM p still holds, its drains included. *)
Registered(p) == Pool(p) * Programs[p].rss
Resident(p)   == (alive[p] + leaving[p]) * Programs[p].rss

ResidentOfOthers(p) == SumFunction([q \in Program \ {p} |-> Resident(q)])

(* Above its floor, an slo program with a measured worker grows only into RAM that
   no other program holds, the drains of the others included: what is registered
   here and resident there stays within the budget, but for spawns of this tick that
   main.rs leaves out of committed_extra. *)
GrowthFitsBudget ==
    [][\A p \in Program :
          /\ Programs[p].mode = "slo"
          /\ phase = "tick"
          /\ alive'[p] > alive[p]
          /\ Pool(p) >= Programs[p].min_workers
          /\ WorkerRss(p) # None
          => Registered(p)' + ResidentOfOthers(p) <= RamPoolBudget + uncounted]_vars

(* worker.rs on pids: without the draining workers the controller would "scale up
   into RAM that is still held". *)
GrowthFitsHeldRam ==
    [][\A p \in Program :
          /\ Programs[p].mode = "slo"
          /\ phase = "tick"
          /\ alive'[p] > alive[p]
          /\ Pool(p) >= Programs[p].min_workers
          /\ WorkerRss(p) # None
          => SumFunction([q \in Program |-> Resident(q)])' <= RamPoolBudget + uncounted]_vars

(* While the host pages, an slo pool grows beyond its floor only from empty. *)
NoGrowthWhilePaging ==
    [][\A p \in Program :
          /\ Programs[p].mode = "slo"
          /\ swap_pressure
          /\ alive'[p] > alive[p]
          => Pool(p) = 0 \/ Pool(p) < Programs[p].min_workers]_vars

(* The floor is never broken by the loop and comes back after exits, also while the
   broker cannot be reached. *)
FloorHolds ==
    \A p \in Program :
        <>[](phase \in {"stop", "done"} \/ Pool(p) >= Programs[p].min_workers)

(* Once the signal is noticed no pool grows any more, and in the end all are empty. *)
ShutdownEmpties ==
    phase = "stop" ~> phase = "done" /\ \A p \in Program : Pool(p) = 0

=============================================================================
