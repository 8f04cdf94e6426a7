# effiQueue in TLA+

effiQueue is a daemon that scales pools of queue workers. Every `poll_interval` it reads the
depth of a RabbitMQ queue, estimates how fast one worker drains it, and moves the pool of that
queue by at most one worker. This directory holds TLA+ models of it, TLC runs that check them on
small instances, and TLAPS proofs of what matters most for every value of the constants.
Paths below are relative to `src/`.

    tlc -config pool.cfg MCWorkerPool             # one of the runs of PROJECT.json
    tlapm WorkerPoolProofs.tla                    # one of the eight proof modules

## 1. The system

| component | state | operations | talks to |
|---|---|---|---|
| worker pool, process control (`src/worker.rs`, `src/platform.rs`) | registry of live workers, `started_at` of each, `consecutive_crashes`, `blocked_until`, `draining` | `spawn_one`, `detach_one`, `reap_exited`, `prune_draining`, `record_exit`, `request_stop`, `drain_detached`, `shutdown_all`, `pids` | the OS (fork, wait, signals); tokio tasks that outlive the call |
| policy (`src/policy.rs`) | none: pure functions of one tick | `decide_slo`, `decide_action`, `decide_threshold` | called by the loop |
| estimator (`src/estimator.rs`) | EWMAs of mu and lambda, `source`, `last_backlog`, a window of samples, `direct_stale` | `observe`, `push_sample`, `fit`, `mu`, `needs_probe`, `forget_backlog` | fed by the loop, read by the policy |
| queue source (`src/rabbitmq_connector.rs`) | connection, channel, `management_failures`, `management_backoff` | `read`, `read_management`, `queue_depth`, `ensure_channel` | broker over AMQP and HTTP |
| control loop (`src/main.rs`) | `Prog` per program, tick locals (`committed_extra`, the RSS sample), phase | the tick, its cancellation, the shutdown | all of the above |
| host probe (`src/system_info.rs`) | a `sysinfo` handle | memory, swap and RSS samples | the OS |
| configuration (`src/config.rs`, `main`) | none after start | `load_all`, validation, merge of `[[program]]`, `--mode` | gives the loop its parameters |
| management client (`src/management.rs`, `src/http.rs`) | none | one HTTP GET under one timeout | RabbitMQ's API |
| metrics endpoint (`src/metrics.rs`) | the board: the snapshots of the last whole tick | `set`, `render`, `serve` | written by the loop, read by scrapes |
| terminal view (`src/tui.rs`) | programs gathered so far, selected tab, paused, error | `refresh`, `merge`, the keys, draw | scrapes the endpoint through `http::get` |

**What is hard here.** Children are waited for by whoever holds them while they exit whenever
they like; a stop races its own deadline; a tick samples memory once and then awaits the network
between programs; a shutdown cancels a tick at any await; handles to the broker die unnoticed;
the controller's own steps change what its estimator sees; a scrape overlaps ticks, shutdowns and
restarts. `PROJECT.json` lists these hazards line by line.

**What makes each part correct.** *Pool*: every child has one keeper and is waited for exactly
once, no signal hits a foreign pid, every drain ends, the back-off answers crashes and nothing
else. *Policy*: its numbers mean what `docs/DESIGN.md` says, its steps respect floor, ceiling and
budget, and it neither flaps nor stalls. *Estimator*: no sample that lies, and mu becomes known
when it can be. *Source*: it never uses a handle without its fellow and
recovers by itself. *Loop*: ceilings and the shared budget hold whatever fails, floors come back,
a shutdown empties every pool. *Configuration*: what is accepted can be run, in whatever mode.
*Endpoint and view*: what is shown is one whole tick of one life of the daemon, and the view
recovers from lost answers and restarts.

## 2. Modules

| module | models | composed of |
|---|---|---|
| `Custody` | abstract specification: who must wait for a child | |
| `WorkerPool` | one pool, its OS processes, its background drains, the clock | implements `Custody` |
| `Policy` | the decision functions as operators | |
| `Scaler` | `decide_slo` closed into a loop on a steady reading | `Policy` |
| `Runnable` | what the loop needs of a program's parameters | |
| `ControlLoop` | `run`: several programs, one budget, failing reads, shutdown | `Policy`, `Runnable` |
| `Estimator` | the estimator as operators on its state | `Policy` (rates) |
| `Identification` | estimator, policy and a real queue in one loop | `Estimator`, `Policy` |
| `RabbitSource` | one queue's source, and a broker that comes and goes | |
| `Config` | from a file and `--mode` to the daemon's settings, as operators | |
| `Monitor` | start, ticks, endpoint and viewer side by side | `Config`, `Runnable` |
| `MC*` | small instances for TLC | the module of that name |
| `*Proofs` | theorems and their proofs | the module of that name |
| `SumProofs`, `PolicyProofs` | lemmas about sums over sets, and about the operators of `Policy`, that the theorems share | `Functions`; `Policy` |

Operators carry the names of the source where TLA+ allows it. An operator commented "Mutant:" is
a variant of its neighbour with a plausible bug in it. It is used by no specification;
`PROJECT.json` says which property breaks when it takes its neighbour's place.

### WorkerPool

`workers` is the registry in spawn order (`Vec<TrackedWorker>`), `os[p]` what the OS holds under
pid `p`. A pid that has been waited for may be given to the next child, which is what makes a late
signal dangerous. Every `Instant` is kept as the time *left* to a deadline (`backoff`, `hold`,
`left`, `nap`) or *since* a start (`uptime`), saturating where the code can no longer tell
values apart, so no horizon is needed. `lived` is how long the process really ran, against which
`uptime` is judged.

| action | code |
|---|---|
| `StartTick`, `ReapNext`, `ReapDone` | `reap_exited`: prune, then one step per worker of the registry, with exits in between |
| `SpawnOne`, `DetachOne`, `Hold` | the loop's decision; `DetachOne` also spawns the drain task |
| `StopBegin`, `StopPoll`, `StopKill`, `StopWait` | `request_stop`, run by a drain or by a task of the shutdown, with everything else in between |
| `Stop`, `Leave` | `shutdown_all`, its join, and the end of the runtime with whatever tasks are left |
| `Exit`, `Advance` | a worker ends by itself; time passes |

The decision to spawn, detach or hold is free here, so the pool is right whatever the policy says.

### Policy and Scaler

Rates are integers in units of `1/RateUnit` messages per time unit, and quotients are rounded as
`ceil` rounds; `best_drain` stays a fraction. `Option::None` is the constant `None`. A `Scaler`
run takes every configuration of its ranges, every starting pool and every reading, and then lets
the controller tick on that reading, so `Init` is the test matrix and the behaviour is what the
controller makes of it. A zero `slo_drain_time` is in the range because validation lets it
through.

### ControlLoop

A pool is a number of running workers (`alive`), of exited, unreaped ones (`dead`) and of
draining ones (`leaving`). `BeginTick` is the part of a tick before its first await: reap all,
sample memory. One action per program follows: `ScaleUp`, `ScaleUpRefused`, `ScaleDown`, `Hold`,
`ReadFails`. Between them workers exit, drains end and `Signal` may cancel the rest. `uncounted`
is the RAM of spawns that the code leaves out of `committed_extra` (an unmeasured program's first
worker, the floor spawn of a failed read); `GrowthFitsBudget` says how far the budget may be
passed, and by that much exactly.

### Estimator and Identification

`Window(dt)` lets the queue move for `dt` time units; `Tick("rates")` and `Tick("depth")` are a
tick whose read came from the management API or from AMQP, `TickFails` one whose read failed.
Workers exit at the beginning or the end of a window. `Depth` is what the read counts: AMQP leaves
out what the workers hold unacknowledged, so each step of the pool shifts it. `Observation` is what
the loop tells the estimator, `Observe` what the estimator makes of it, `Decided` the policy's
answer. `queue` is what is constant about a queue.

Simplifications: the EWMAs are those of `alpha = 1`; a read is taken when its tick begins; a worker
holds its full prefetch while the queue has as much, and gives it back when it is detached; a
backlog beyond `Deep` is recentred together with the baseline, so that the estimator still sees the
true difference; RAM and paging do not bind.

### RabbitSource

`pc` is the await a read stands at. Broker, queue and API change at every one of them; a handle
turns from "open" to "dead" without the source noticing. `steady` and `missed` are history: reads
that failed in a row although broker and queue were there all the time.

### Config and Monitor

A file is a record of raw settings: TOML with global keys and `[[program]]` entries, or the lines of
a Supervisor `.conf`. `Parse`, `MergeProgram`, `Validate` and `LoadAll` are the functions of
`src/config.rs`; `OverrideMode`, `Params`, `RamPolicy` and `HostSettings` are what `main`, `run` and
`ram_pool_budget` make of the result. A duration or a size is a number and a unit; `U64` and `Kilo`
are scaled down so that overflow is in reach. `Runnable!IsRunnable` is stated once: it is the
assumption `ControlLoop` makes of its programs and the guarantee `Monitor` checks of `Config`.

`Monitor` runs three processes and an operator. The daemon: `Start` (a file that loads, a port that
may be taken), `Turn` (a program's snapshot; the last one publishes all), `Signal`, `Exit`, `Crash`.
The endpoint: `Serve` renders the board under its lock. The viewer: `Poll`, `Answer`, `Lost`,
`TimesOut`, and the keys. When the process ends, an answer on its way arrives, breaks off after a
sample or is lost (`Broken`). `offered` is history: the boards of whole ticks that were current at
some time between the request and its answer. What a snapshot's numbers are is free.

## 3. Runs

| run | shows |
|---|---|
| `pool` | all interleavings of exits, ticks, drains that may ignore SIGTERM, and a shutdown: `OneKeeper`, `SignalsOwnChild`, `BackoffIsEarned`, `CrashesAreShortLives`, `ResidentIsCounted`, `RegisteredAreDrained`; the pool implements `Custody`; drains, shutdown and zombies come to an end |
| `pool_crash_unseen` (violation) | with `poll_interval` >= 10 s no crash is ever seen |
| `pool_exit_orphans` (violation) | a worker detached before the shutdown outlives the daemon |
| `scaler` | `workers_needed` and the gap are exact; steps fit, do not flap, come to rest, and serve a backlog |
| `scaler_idle` (violation) | with `hysteresis` 1 an idle program keeps its last worker |
| `loop` | three programs of both modes: `WithinCeiling`, `InterferenceIsExit`, `GrowthFitsBudget`, `NoGrowthWhilePaging`; floors come back, the shutdown empties every pool |
| `loop_budget` (violation) | growth into RAM that a program's own draining worker holds |
| `identification` | samples lie on the true line, but for what workers hold where the count of a read changes; where workers hold none, the fit gives the queue's own mu and lambda (`FitIsExact`); mu becomes known |
| `direct_censored` (violation) | on a queue that empties in the window the broker's rate per worker is arrivals, not throughput |
| `source` | handles, back-off and recovery, with the constants of the code |
| `monitor` | every accepted file and `--mode` can be run; host settings do not depend on the order of the entries; the view is that of one whole tick and catches up after restarts, lost answers and timeouts |
| `viewer_stale` (violation) | after a restart an answer without series leaves the view live with old values |

### Bounds

* **Pool.** Two pids give a registered and a draining worker, or two of either, and reuse of a pid;
  the safety properties are proved for any set of pids. Timers of 2 ticks against a poll interval of 1
  let every deadline fall before, at and after a tick; two crashes arm the back-off and a third
  one doubles it up to its cap. `pool_crash_unseen` takes a poll interval equal to the healthy
  uptime, as the defaults are (10 s each).
* **Scaler.** Ranges hold the values around each comparison: horizons 0 and 2, floors 0 and 1,
  ceilings 1 and 3, both margins, rates below, at and above one message, budgets below one worker
  and above two, pools empty and full, one exit.
* **Loop.** Three programs are the fewest with a floor that claims RAM before the others, two
  worker sizes and two competitors for one budget. One drain per program, one exit and one refused
  spawn are what the shared budget is sensitive to.
* **Identification.** Three samples make a fit, four fill the window, so samples are evicted while
  the pool moves; a queue no pool can keep up with and one that a single worker empties; windows
  on time and late, one exit. Unacknowledged messages come with the first of these queues only, on
  time and without exits: every order of the two counts gives another window of samples. The code's
  numbers (12, 120, spread 3) need a longer run, not another path.
* **Source.** The constants of the code; failures and misses are counted as far as the code, or a
  property, tells them apart.
* **Monitor.** Two starts, hence one restart, and one fault (a crash, a port that is taken, a
  timeout) beside it. Two series show a mixture of two boards, two readings an old board from a new
  one. Files: one entry per mode, two entries of one label, a `.conf` whose sections run together,
  and ten flaws, one for each check of `validate` or the parsers.

Terminal states exist where the code stops: `ControlLoop` ends in phase "done", hence
`CHECK_DEADLOCK FALSE` there. Elsewhere time passes or the loop keeps ticking for ever.

### Fairness

* `WorkerPool`: time passes, and the runtime runs each ready task (loop, every stop, the join).
  Nothing makes a worker exit by itself and nothing makes the signal come.
* `Scaler`, `Identification`: the loop keeps ticking. Exits are not fair.
* `ControlLoop`: a tick begins, the turn of each program passes, the shutdown goes on. This takes
  for granted that every await ends. The connection attempt and the management API have timeouts
  of their own; `create_channel` and `queue_declare` do not, and end because AMQP heartbeats do.
  A broker that stalls with its heartbeats alive is outside the model (hazard
  `src/rabbitmq_connector.rs:175`).
* `Monitor`: the loop ticks (as above), a drain ends, a connection that was accepted is served, and
  the viewer's loop polls while it is not paused. Operator and faults owe nothing.
* `RabbitSource`: the loop reads again and again, and every await ends, as above.

## 4. Proofs

Every theorem is for all values of the constants under the named assumptions of its module
(`TimingAssumption`; `RangesAssumption`, `NoneAssumption`, `RateUnitAssumption`;
`ProgramsAssumption`, `HostAssumption`; `QueueAssumption`, `ParamsAssumption`, `WindowAssumption`;
`BackoffAssumption`; `NumbersAssumption`, `MonitorAssumption`), which are what validation, the
source's constants and, for a file, the types of its keys guarantee. The runs evaluate those
assumptions on their instances. Each `IInv` below was an invariant of a run before it was proved.

* **WorkerPoolProofs.** `IInv` joins the type invariant, `OneKeeper`, `BackoffIsEarned`,
  `ResidentIsCounted`, `RegisteredAreDrained` and `Emptied` (the registry is empty once the
  shutdown began). `OneKeeper` is what makes the rest inductive: a step of one stop cannot disturb
  a child another task holds, and `Leave` can only find a joined child gone because nobody else
  waits for it. On it rest `SignalsOwnChild`, `CrashesAreShortLives` (with `UptimeCoversLife`: a
  registered worker's uptime is never less than its life) and `ImplementsCustody`, which maps each
  action to one step of `Custody` or to a stutter. `StopsRunDown` ranks what a stop has before it
  (its state and the time left to its deadline): its own steps and the clock lower `StopRank`, and
  by `StopsByItself` no exit, tick or other stop raises it. `WaitIsShort`: the last wait of a stop
  is for a child that has exited.
* **PolicyProofs** holds no theorem, only what two of the other modules need of `Policy`: how rates,
  capacities and targets round and grow (`CeilFacts`, `CapacityGrows`, `NeededFacts`,
  `TargetFacts`) and under which conditions each decision function adds a worker or takes one
  (`GrowthReasons`, `GrowthFits`, `ShrinkReasons`, `ActionFacts`, `ThresholdFits`).
* **SumProofs**: a sum over a finite set does not depend on the order (`AnyOrder`), splits at an
  element (`SumSplits`), is monotone (`SumMonotone`) and linear (`SumOfCombination`). The library's
  induction theorems take an operator and cannot be instantiated here; `NatSetInduction` and
  `SubsetInduction` are induction for a *set* of numbers, or of subsets, from well-foundedness of
  `<`, and a set can be instantiated.
* **ScalerProofs.** `IInv` adds `Heading` to the type invariant: it remembers on which side of its
  target the pool was when it last moved, without which "no turning round" is not inductive.
  `NeededLeast` and `GapExact` are statements on one state; `StepsInBounds` and `NoTurningRound` on
  one step. `StepsRunOut` ranks them by `MovesLeft`: between two exits a steady reading without
  probes yields at most `max_workers + 1` moves.
* **ControlLoopProofs.** `IInv` joins `TypeOK`, `WithinCeiling`, `InterferenceIsExit`, `Rested` (no
  tick, no charges) and `Accounted`: a program that waits for its turn holds no more workers than
  the tick's sample saw, and the others together no more RAM than was sampled of them or charged
  since (`committed_extra`, `uncounted`). Each turn charges what it spawns (`ScaleUpTurn`,
  `ReadFailsTurn`), departures only lower the sum (`DepartureKeeps`). From it
  follow `GrowthInBudget` and, from the decision alone, `PagingStopsGrowth`. `OthersCharged` and
  `OthersHold` relate the sum over the other programs, which is what a decision sees, to the sum
  over all. `ShutdownLeavesNone`: the shutdown leaves each program empty behind it (`EmptiedInOrder`),
  wherever in a tick the signal came.
* **IdentificationProofs.** `IInv` is `PoolMoves` (the pool stays within its ceiling and a window
  knows who ran in it), `Sound` (every sample in the estimator's window is off the true line by no
  more than the messages workers hold) and `Baseline` (`last_backlog` is what the queue held at the
  last reading, less what workers may have held of it, and moves along the line since).
  `WindowOnTheLine` reads the invariant off. `ExactFit` is about the least squares of
  `Estimator!Fit`, for windows of any length: samples on one line give that line's slope and
  intercept, so the true mu and lambda, and a spread that `Fit` accepts is not zero; `FitsAreTrue`
  states it of every reachable estimate, where workers hold no messages unacknowledged.
* **RabbitSourceProofs.** `IInv` adds to the properties a bound on `missed` by the number of dead
  handles that are left to be dropped (`Pending`): each failed read drops one, which is why there
  are two misses at most.
* **MonitorProofs.** `LoadedIsRunnable` and `HostSettingsAgree` are inductive by themselves, since
  only `Start` brings new settings; the work is in `Config`. `ReadIsSound` types what a file yields
  (a `.conf` needs that the last line of a key exists, `MaxFacts`), `MergeIsSound` and
  `MergeKeepsHostKeys` follow it through the merge, `AcceptedIsFit` through `Validate` and the
  change of mode, and `HostSettingsByKeys` shows that mode, though it decides `ram_headroom`, does
  not decide what `ram_pool_budget` makes of it. `TypeCorrect` and `ViewShowsOneTick` rest on `IInv`
  = `DaemonOK`, `CountsOK`, `ViewOK`, `ScrapeOK`. Its heart is `Genuine`: an answer as long as what
  was sent is the rendering of a board on offer, or empty. The current board is on offer while a
  request waits, a turn adds the board it publishes, and a connection that ends only shortens
  (`CutKeeps`). `RenderFacts` finds each sample of a body by series and program (`PlaceSplits`,
  `PlaceJoins`), `LaterIsRead` reads a snapshot back from it, `SortedFacts` orders new names as a
  `BTreeMap` does, and `MergeFacts` says that a merge keeps every tab in its place, adds one for each
  new name and never two; with `OnlyAnswersMerge` (nothing but an answer changes what is shown)
  `TabsStay` follows: a tab's number stands for the same program until the viewer is closed. `MonitorAssumption` says of a file no more than that its values have their
  keys' types or do not parse; that `Labels` lists, once each, the labels of the programs that load;
  and that `None` is no request.

**Model-checked only.** The liveness properties of the runs (`DrainCompletes`, `ShutdownCompletes`,
`ZombiesAreReaped`; `ComesToRest`, `ServesBacklog`; `FloorHolds`, `ShutdownEmpties`;
`ReturnsToManagement`, `ReadsRecover`; `Identifies`; `ViewerCatchesUp`): liveness under fairness, like
ENABLED, is outside this prover's reach. Every invariant and every action property of a passing run
is a theorem. Of three liveness properties the safety half is one too: what is left to do has a rank
that nothing raises, or is done in order (`StopsRunDown`, `StepsRunOut`, `ShutdownLeavesNone`); what
TLC adds there is that the scheduler lets it be done.

## 5. Where code and documents part

1. `src/worker.rs:255`: uptime is taken when a worker is reaped. With the default `poll_interval`
   every crash looks healthy and the back-off of `docs/DESIGN.md:267` never arms
   (`pool_crash_unseen`).
2. `src/worker.rs:301`: `shutdown_all` stops the registry only; a worker detached shortly before
   may outlive the daemon, against `README.md:207` (`pool_exit_orphans`).
3. `src/policy.rs:215`: the dead zone holds the last worker of an idle program for ever with the
   default `hysteresis`, against `README.md:133` (`scaler_idle`).
4. `src/main.rs:530`: a program's own draining workers are not taken off its budget, against
   `src/worker.rs:187` (`loop_budget`).
5. `src/estimator.rs:192`: `ack_rate / n` is the arrival rate per worker on a queue that empties
   within the window, against `src/estimator.rs:53` and `docs/DESIGN.md:85`. `workers_needed` is
   then `n` for any `n`, so a pool that is too large stays so (`direct_censored`).
6. `src/tui.rs:225`: `refresh` tests the programs gathered over all scrapes where `src/tui.rs:227`
   speaks of this endpoint's answer (`viewer_stale`).
7. `src/rabbitmq_connector.rs:146`: after a broker restart not the next call but the third
   reconnects, against the comment at 125: a read that finds the channel dead drops the channel
   only, the next finds the connection dead. `TwoMissesAtMost` says that this is the worst.

More that the models met, without a run of its own:

* Without broker rates, a queue that each worker empties within its window yields samples for an
  empty pool only. Its spread stays zero, mu stays unknown, and every step from zero to one counts
  as a probe, for ever. `Identifies` is therefore about queues that outrun the pool.
* With AMQP alone a worker that is added takes its prefetch off the depth at once, so a window that
  a step up began reads too steep: the fit is biased towards a larger mu, by the prefetch over the
  length of a window. `SamplesAreSlopes` bounds it.
* `--mode` is set after validation, so a threshold file run with `--mode slo` may have both RAM
  settings and no drain time. It runs, with the budget and 120 s (`LoadedIsRunnable`).
* Two programs may share a label (`src/config.rs:499`): Prometheus gets duplicate samples, and
  `top` shows one tab with the later program's values. `docs/DESIGN.md:319` speaks of one label per
  program.
* `max` in a `[[program]]` entry does not override a global `max_workers` (`src/config.rs:245`
  prefers the newer key after the merge), against the rule at `src/config.rs:151`.
* `http::get` never compares Content-Length: an answer that breaks off is taken as complete, and
  series that did not arrive are shown as 0.
* A program whose read failed publishes a backlog of 0 (`src/main.rs:488`).

## 6. Not modelled

* Text: TOML syntax, number formats, label escaping, URLs, JSON, chunked bodies, and an answer cut
  in the middle of a sample, whose number would then be a shorter one.
* The view's layout and its sparkline histories; `App.last_ok`, which is written and never read.
* What the counters and gauges of a snapshot are: `Monitor` takes any values.
* Process groups (a group is its leader), signals that fail to reach a child, processes that
  survive SIGKILL, and Windows, where a stop cannot be graceful.
* Floating point: NaN, infinities, rounding, and the panic of `Duration::from_secs_f64` beyond
  its range.
* Workers of one program whose memory differs or changes: a worker has one RSS per program.
* Smoothing, noise in arrivals and drift of the true rates; a read that is late against its tick
  because another program's read was slow.

## 7. Plan

Done: all modules of section 2, and proofs of every safety property the passing runs check. Next, in
this order:

1. An abstract specification of the loop's promise (pools within ceilings, one step per turn,
   nothing grows after the signal) with `ControlLoop` as its implementation.
2. Reads of several programs that are late against the tick, in `Identification`.
3. The shutdown in time: programs drained one after the other against one grace period.
