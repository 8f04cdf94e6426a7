---------------------------- MODULE Identification ---------------------------
(***************************************************************************)
(* The closed loop that makes mu observable: one slo program of src/main.rs *)
(* with its estimator and its policy, on a queue whose true rates do not    *)
(* change.  The estimator asks for probes, the policy steps the pool, the   *)
(* pool changes how the backlog moves, and that is what the estimator sees. *)
(*                                                                          *)
(* A reading comes from the management API, with the broker's rates, from   *)
(* AMQP without them, or not at all.  The two count differently: AMQP       *)
(* leaves out what the workers hold unacknowledged.  RAM and paging never   *)
(* bind here (module ControlLoop is about them).                            *)
(***************************************************************************)
EXTENDS Estimator, Runnable

CONSTANTS
    Params,      \* SloParams to choose from
    Queues,      \* queues to choose from
    Throughput,  \* messages a worker handles per time unit
    Deep         \* bound: a backlog beyond it counts as this deep

(* What the queue receives per time unit, what a worker holds of it unacknowledged while
   there is as much, the time that may pass between two ticks, and the workers that may
   exit by themselves (bound). *)
Queue == [arrivals : Nat, prefetch : Nat, delays : SUBSET (Nat \ {0}), exits : Nat]

ASSUME QueueAssumption ==
    /\ Queues \subseteq Queue
    /\ Throughput \in Nat \ {0} /\ Deep \in Nat \ {0}

(* What load_all accepts. *)
ASSUME ParamsAssumption == \A p \in Params : p.mode = "slo" /\ IsRunnable(p)

VARIABLES
    params,    \* the program's configuration
    queue,     \* what is constant about the queue and its workers
    backlog,   \* messages in the queue, ready or held
    elapsed,   \* length of the window since the last tick; 0: it has not passed yet
    served,    \* messages acknowledged in that window
    est,       \* Prog.est
    alive,     \* registered workers that run
    dead,      \* registered workers that exited and are not reaped
    running_in_window, \* Prog.running_in_window, and expected_running: both are set together
    ticks,     \* Prog.ticks_since_change
    reading,   \* how the last read ended: "none", "rates", "depth" or "error"
    probing,   \* the last tick stepped to make mu observable
    exits      \* workers that exited by themselves

load  == <<backlog, elapsed, served>>
prog  == <<est, alive, dead, running_in_window, ticks>>
vars  == <<params, queue, load, prog, reading, probing, exits>>

Init ==
    /\ params \in Params
    /\ queue \in Queues
    /\ backlog \in {0, Deep}
    /\ elapsed = 0
    /\ served = 0
    /\ est = NewEstimator
    /\ alive = 0
    /\ dead = 0
    /\ running_in_window = 0
    /\ ticks = params.cooldown_ticks
    /\ reading = "none"
    /\ probing = FALSE
    /\ exits = 0

-----------------------------------------------------------------------------
(* The queue and its workers *)

(* The window until the next tick passes, on time or late.  What lies beyond Deep is
   taken off the backlog and off the estimator's baseline alike, so that the change it
   sees is the real one. *)
Window(dt) ==
    LET offered   == backlog + queue.arrivals * dt
        handled   == Smaller(alive * Throughput * dt, offered)
        remaining == offered - handled
        excess    == Minus(remaining, Deep)
    IN  /\ elapsed = 0
        /\ elapsed' = dt
        /\ served' = handled
        /\ backlog' = remaining - excess
        /\ est' = [est EXCEPT !.last_backlog = IF @ = None THEN None ELSE @ - excess]
        /\ UNCHANGED <<params, queue, alive, dead, running_in_window, ticks, reading,
                       probing, exits>>

(* A worker exits by itself, before it has done its work of the window or after. *)
WorkerExits ==
    /\ alive > 0
    /\ exits < queue.exits
    /\ exits' = exits + 1
    /\ alive' = alive - 1
    /\ dead' = dead + 1
    /\ UNCHANGED <<params, queue, load, est, running_in_window, ticks, reading, probing>>

-----------------------------------------------------------------------------
(* The tick *)

(* The depth that is read: `messages`, or those ready only. *)
Depth(how) ==
    IF how = "rates" THEN backlog ELSE Minus(backlog, alive * queue.prefetch)

(* What the estimator is told: the workers of the window that ended, the time it took,
   and whether any of them was reaped since. *)
Observation(how) ==
    [backlog      |-> Depth(how),
     running      |-> running_in_window,
     dt           |-> elapsed,
     interference |-> alive # running_in_window,
     rates        |-> IF how = "rates"
                      THEN [ack_rate     |-> (served * RateUnit) \div elapsed,
                            publish_rate |-> queue.arrivals * RateUnit]
                      ELSE None]

(* decide_slo on what the estimator holds once it has observed. *)
Decided(e, depth) ==
    DecideSlo(params,
        [backlog |-> depth, running |-> alive, mu |-> KnownMu(e), lambda |-> e.lambda,
         worker_rss |-> None, safe_ram_budget |-> 0, swap_pressure |-> FALSE,
         ticks_since_change |-> ticks, needs_probe |-> NeedsProbe(e)])

(* Ticks beyond the cooldown change nothing any more (bound of the counter). *)
OneMore == Smaller(ticks + 1, params.cooldown_ticks)

(* The window is over: the exited workers are reaped, the next window begins. *)
EndWindow ==
    /\ elapsed > 0
    /\ elapsed' = 0
    /\ served' = 0
    /\ dead' = 0
    /\ UNCHANGED <<params, queue, backlog, exits>>

(* spawn_one, detach_one or neither. *)
Resize(change) ==
    /\ alive' = alive + change
    /\ running_in_window' = alive + change

(* The read succeeds: the estimator observes, then the policy decides. *)
Tick(how) ==
    /\ EndWindow
    /\ reading' = how
    /\ est' = Observe(est, Observation(how))
    /\ \E step \in {Decided(est', Depth(how))} :
          /\ Resize(CASE step.action = "ScaleUp"   -> 1
                      [] step.action = "ScaleDown" -> -1
                      [] step.action = "Hold"      -> 0)
          /\ ticks' = IF step.action = "Hold" THEN OneMore ELSE 0
          /\ probing' = step.probing

(* The read fails: the baseline is dropped, and only the floor is looked after. *)
TickFails ==
    /\ EndWindow
    /\ reading' = "error"
    /\ est' = ForgetBacklog(est)
    /\ \/ alive < params.min_workers /\ Resize(1) /\ ticks' = 0
       \/ alive >= params.min_workers /\ Resize(0) /\ UNCHANGED ticks
    /\ probing' = FALSE

LoopTurn == (\E dt \in queue.delays : Window(dt)) \/ TickFails \/ Tick("rates") \/ Tick("depth")

Next == LoopTurn \/ WorkerExits

Spec == Init /\ [][Next]_vars

(* Time passes and the loop keeps ticking. *)
FairSpec == Spec /\ WF_vars(LoopTurn)

-----------------------------------------------------------------------------
(* Properties *)

TypeOK ==
    /\ params \in Params /\ queue \in Queues
    /\ backlog \in 0..Deep /\ elapsed \in queue.delays \union {0} /\ served \in Nat
    /\ est.source \in {"none", "direct", "regression"}
    /\ est.direct_stale \in 0..(DirectGrace + 1)
    /\ est.last_backlog \in Int \union {None}
    /\ Len(est.window) <= Capacity
    /\ \A k \in DOMAIN est.window : est.window[k].n \in 0..params.max_workers
    /\ alive \in 0..params.max_workers /\ dead \in 0..queue.exits
    /\ running_in_window \in 0..params.max_workers
    /\ ticks \in 0..params.cooldown_ticks
    /\ reading \in {"none", "rates", "depth", "error"}
    /\ probing \in BOOLEAN /\ exits \in 0..queue.exits

(* Every sample of the window lies on the line the fit assumes, whatever exits, failed
   reads, late ticks and steps of the pool came in between: the slope was divided by the
   time that passed and paired with the workers that ran meanwhile.  Where AMQP and the
   management API take turns, or the pool was stepped, it is off by what these workers,
   and the one stepped, may hold, and by no more. *)
SamplesAreSlopes ==
    \A k \in DOMAIN est.window :
        LET s == est.window[k]
            error == s.y - (queue.arrivals - Throughput * s.n) * RateUnit
        IN  error \in -(queue.prefetch * s.n * RateUnit)..(queue.prefetch * (s.n + 1) * RateUnit)

(* Where workers hold nothing back, a fit is the truth: whatever windows were dropped and
   whatever the broker said before, least squares on what is left returns the workers'
   throughput and the queue's arrivals, and no later read spoils them. *)
FitIsExact ==
    queue.prefetch = 0 /\ est.source = "regression" =>
        est.mu = Throughput * RateUnit /\ est.lambda = queue.arrivals * RateUnit

(* A queue that outruns every pool, one that is wide enough to be stepped, and no
   broker rates from some time on: mu becomes known for good, and it is the fit's. *)
Persistent == queue.arrivals >= Throughput * params.max_workers /\ backlog = Deep

Steppable == params.max_workers > Larger(params.min_workers, 1)

Identifies ==
    Persistent /\ Steppable /\ <>[](reading = "depth") => <>[](est.source = "regression")

(* docs/DESIGN.md on the direct path: "`mu = ack_rate / n`. Nothing is inferred, and
   convergence is immediate." *)
DirectConverges == <>[](reading = "rates") /\ queue.arrivals > 0 => <>[](est.mu = Throughput * RateUnit)

=============================================================================
