----------------------------- MODULE WorkerPool -----------------------------
(***************************************************************************)
(* One program's worker pool (src/worker.rs, src/platform.rs): the registry *)
(* of live workers, the crash-loop back-off, the workers detached to drain  *)
(* in background tasks, and the shutdown of the daemon, together with the   *)
(* operating-system processes all of these act on.                          *)
(*                                                                          *)
(* A worker is identified by its pid; the OS may give the pid of a waited   *)
(* child to the next one.  Every Instant of the code is kept as the time    *)
(* left until it (deadlines) or the time since it (started_at), counted in  *)
(* clock ticks, so that the state space is finite without a horizon.        *)
(***************************************************************************)
EXTENDS Integers, Sequences

CONSTANTS
    Pid,                  \* process ids the OS hands out; also bounds the processes alive at once
    MinHealthyUptime,     \* MIN_HEALTHY_UPTIME: a shorter life is a crash
    CrashesBeforeBackoff, \* CRASHES_BEFORE_BACKOFF
    MaxExponent,          \* the cap of the back-off's exponent, 10 in the code
    MaxSpawnBackoff,      \* MAX_SPAWN_BACKOFF
    DrainTimeout,         \* drain_timeout: SIGTERM to SIGKILL
    PollInterval          \* poll_interval: the control loop's sleep between ticks

ASSUME TimingAssumption ==
    /\ MinHealthyUptime \in Nat \ {0}
    /\ CrashesBeforeBackoff \in Nat \ {0}
    /\ MaxExponent \in 0..10
    /\ MaxSpawnBackoff \in Nat
    /\ DrainTimeout \in Nat
    /\ PollInterval \in Nat

VARIABLES
    os,        \* os[p]: what the OS holds under pid p
    lived,     \* how long the process of pid p has run (stops when it exits)
    signal,    \* the strongest signal our daemon sent the process of pid p
    workers,   \* the registry: pids in spawn order, newest last
    uptime,    \* started_at.elapsed() of a registered worker
    consecutive_crashes,
    backoff,   \* time left until blocked_until (0: None, or already past)
    draining,  \* pids remembered for RAM accounting while they wind down
    hold,      \* time left until a draining pid's give-up deadline
    stopper,   \* where the request_stop of pid p stands; "idle": nobody runs one
    left,      \* time left until that request_stop's own deadline
    joinset,   \* the stop tasks shutdown_all waits for
    phase,     \* where the daemon's main task stands
    cursor,    \* reap_exited's index into workers
    nap        \* time left of the control loop's sleep

osVars    == <<os, lived, signal>>
poolVars  == <<workers, uptime, consecutive_crashes, backoff, draining, hold>>
stopVars  == <<stopper, left, joinset>>
loopVars  == <<phase, cursor, nap>>
vars      == <<osVars, poolVars, stopVars, loopVars>>

-----------------------------------------------------------------------------
(* Helpers *)

Lesser(a, b) == IF a <= b THEN a ELSE b

(* Mutant: a timer that does not stop at zero. *)
CountDownBelowZero(t) == t - 1

CountDown(t) == IF t > 0 THEN t - 1 ELSE 0

Elements(s) == {s[i] : i \in 1..Len(s)}

Without(s, i) == [j \in 1..(Len(s) - 1) |-> IF j < i THEN s[j] ELSE s[j + 1]]

Occupied(p) == os[p] # "free"

(* Crashes beyond the exponent's cap change nothing any more. *)
CrashCap == CrashesBeforeBackoff + MaxExponent

PowersOfTwo == <<1, 2, 4, 8, 16, 32, 64, 128, 256, 512, 1024>>

(* record_exit's back-off once `crashes` workers in a row died young. *)
BackoffAfter(crashes) ==
    IF crashes < CrashesBeforeBackoff
    THEN 0
    ELSE LET exponent == Lesser(crashes - CrashesBeforeBackoff, MaxExponent)
         IN  Lesser(MinHealthyUptime * PowersOfTwo[exponent + 1], MaxSpawnBackoff)

(* pids(): whose memory counts towards the RAM budget. *)
pids == Elements(workers) \union draining

can_spawn == backoff = 0

-----------------------------------------------------------------------------
(* The operating system and the clock *)

(* A worker ends by itself: it finishes, obeys SIGTERM, or crashes. *)
Exit(p) ==
    /\ os[p] = "running"
    /\ os' = [os EXCEPT ![p] = "zombie"]
    /\ UNCHANGED <<lived, signal, poolVars, stopVars, loopVars>>

(* The daemon waits for the exited child of pid p, and the OS may reuse the pid. *)
Waited(p) ==
    /\ os' = [os EXCEPT ![p] = "free"]
    /\ lived' = [lived EXCEPT ![p] = 0]
    /\ signal' = [signal EXCEPT ![p] = "none"]

(* Time passes for everything that measures it, whatever the tasks are doing. *)
Advance ==
    /\ lived' = [p \in Pid |-> IF os[p] = "running"
                               THEN Lesser(lived[p] + 1, MinHealthyUptime)
                               ELSE lived[p]]
    /\ uptime' = [p \in Pid |-> IF p \in Elements(workers)
                                THEN Lesser(uptime[p] + 1, MinHealthyUptime)
                                ELSE uptime[p]]
    /\ backoff' = CountDown(backoff)
    /\ hold' = [p \in Pid |-> CountDown(hold[p])]
    /\ left' = [p \in Pid |-> CountDown(left[p])]
    /\ nap' = CountDown(nap)
    /\ UNCHANGED <<os, signal, workers, consecutive_crashes, draining,
                   stopper, joinset, phase, cursor>>

-----------------------------------------------------------------------------
(* The control loop's use of the pool: reap, one decision, sleep *)

(* Mutant: prune_draining keeps the entries whose deadline has passed. *)
StartTickKeepsExpired ==
    /\ phase = "sleep"
    /\ nap = 0
    /\ phase' = "reap"
    /\ cursor' = 1
    /\ draining' = {p \in draining : hold[p] = 0}
    /\ UNCHANGED <<osVars, workers, uptime, consecutive_crashes, backoff, hold,
                   stopVars, nap>>

(* The head of reap_exited: prune_draining drops the entries whose deadline passed. *)
StartTick ==
    /\ phase = "sleep"
    /\ nap = 0
    /\ phase' = "reap"
    /\ cursor' = 1
    /\ draining' = {p \in draining : hold[p] > 0}
    /\ UNCHANGED <<osVars, workers, uptime, consecutive_crashes, backoff, hold,
                   stopVars, nap>>

(* Mutant: a healthy exit leaves blocked_until armed. *)
RecordExitKeepsBlock(crashed) ==
    IF ~crashed
    THEN /\ consecutive_crashes' = 0
         /\ UNCHANGED backoff
    ELSE LET crashes == Lesser(consecutive_crashes + 1, CrashCap)
         IN  /\ consecutive_crashes' = crashes
             /\ backoff' = Lesser(backoff + BackoffAfter(crashes), MaxSpawnBackoff)

(* record_exit: a long life clears the crash state, a short one may arm the back-off. *)
RecordExit(crashed) ==
    IF ~crashed
    THEN /\ consecutive_crashes' = 0
         /\ backoff' = 0
    ELSE LET crashes == Lesser(consecutive_crashes + 1, CrashCap)
         IN  /\ consecutive_crashes' = crashes
             /\ backoff' = IF crashes < CrashesBeforeBackoff
                           THEN backoff
                           ELSE BackoffAfter(crashes)

(* Mutant: a worker that lived exactly MIN_HEALTHY_UPTIME is a crash too. *)
ReapNextInclusive ==
    /\ phase = "reap"
    /\ cursor <= Len(workers)
    /\ LET p == workers[cursor]
       IN  \/ /\ os[p] = "zombie"
              /\ Waited(p)
              /\ workers' = Without(workers, cursor)
              /\ uptime' = [uptime EXCEPT ![p] = 0]
              /\ RecordExit(uptime[p] <= MinHealthyUptime)
              /\ UNCHANGED cursor
           \/ /\ os[p] # "zombie"
              /\ cursor' = cursor + 1
              /\ UNCHANGED <<osVars, workers, uptime, consecutive_crashes, backoff>>
    /\ UNCHANGED <<draining, hold, stopVars, phase, nap>>

(* One turn of reap_exited's loop: the worker under the cursor is waited for and
   judged by the time since it STARTED, or it is still running and skipped. *)
ReapNext ==
    /\ phase = "reap"
    /\ cursor <= Len(workers)
    /\ LET p == workers[cursor]
       IN  \/ /\ os[p] = "zombie"
              /\ Waited(p)
              /\ workers' = Without(workers, cursor)
              /\ uptime' = [uptime EXCEPT ![p] = 0]
              /\ RecordExit(uptime[p] < MinHealthyUptime)
              /\ UNCHANGED cursor
           \/ /\ os[p] # "zombie"
              /\ cursor' = cursor + 1
              /\ UNCHANGED <<osVars, workers, uptime, consecutive_crashes, backoff>>
    /\ UNCHANGED <<draining, hold, stopVars, phase, nap>>

(* Mutant: the loop stops before the last worker. *)
ReapDoneEarly ==
    /\ phase = "reap"
    /\ cursor >= Len(workers)
    /\ phase' = "act"
    /\ UNCHANGED <<osVars, poolVars, stopVars, cursor, nap>>

ReapDone ==
    /\ phase = "reap"
    /\ cursor > Len(workers)
    /\ phase' = "act"
    /\ UNCHANGED <<osVars, poolVars, stopVars, cursor, nap>>

GoToSleep ==
    /\ phase' = "sleep"
    /\ nap' = PollInterval
    /\ UNCHANGED cursor

(* spawn_one: refused during the back-off; the OS picks any pid not in use. *)
SpawnOne(p) ==
    /\ phase = "act"
    /\ can_spawn
    /\ ~Occupied(p)
    /\ os' = [os EXCEPT ![p] = "running"]
    /\ workers' = Append(workers, p)
    /\ uptime' = [uptime EXCEPT ![p] = 0]
    /\ GoToSleep
    /\ UNCHANGED <<lived, signal, consecutive_crashes, backoff, draining, hold, stopVars>>

(* Mutant: the detached worker stays in the registry. *)
DetachCopies ==
    /\ phase = "act"
    /\ workers # <<>>
    /\ LET p == workers[Len(workers)]
       IN  /\ draining' = draining \union {p}
           /\ hold' = [hold EXCEPT ![p] = DrainTimeout]
           /\ stopper' = [stopper EXCEPT ![p] = "begin"]
    /\ GoToSleep
    /\ UNCHANGED <<osVars, workers, uptime, consecutive_crashes, backoff, left, joinset>>

(* detach_one takes the newest worker; drain_detached is spawned for it. *)
DetachOne ==
    /\ phase = "act"
    /\ workers # <<>>
    /\ LET p == workers[Len(workers)]
       IN  /\ workers' = Without(workers, Len(workers))
           /\ uptime' = [uptime EXCEPT ![p] = 0]
           /\ draining' = draining \union {p}
           /\ hold' = [hold EXCEPT ![p] = DrainTimeout]
           /\ stopper' = [stopper EXCEPT ![p] = "begin"]
    /\ GoToSleep
    /\ UNCHANGED <<osVars, consecutive_crashes, backoff, left, joinset>>

(* The decision was to hold, or spawn_one was refused by the back-off or failed. *)
Hold ==
    /\ phase = "act"
    /\ GoToSleep
    /\ UNCHANGED <<osVars, poolVars, stopVars>>

-----------------------------------------------------------------------------
(* request_stop, run by a background drain task or by a task of shutdown_all *)

StopBegin(p) ==
    /\ stopper[p] = "begin"
    /\ \/ /\ os[p] = "zombie"
          /\ Waited(p)
          /\ stopper' = [stopper EXCEPT ![p] = "idle"]
          /\ UNCHANGED left
       \/ /\ os[p] = "running"
          /\ signal' = [signal EXCEPT ![p] = "term"]
          /\ left' = [left EXCEPT ![p] = DrainTimeout]
          /\ stopper' = [stopper EXCEPT ![p] = "poll"]
          /\ UNCHANGED <<os, lived>>
    /\ UNCHANGED <<poolVars, joinset, loopVars>>

(* Mutant: the poll that reaps the child does not end the stop. *)
StopPollGoesOn(p) ==
    /\ stopper[p] = "poll"
    /\ left[p] > 0
    /\ os[p] = "zombie"
    /\ Waited(p)
    /\ UNCHANGED <<stopper, left, poolVars, joinset, loopVars>>

(* A poll before the deadline that finds the child gone ends the stop. *)
StopPoll(p) ==
    /\ stopper[p] = "poll"
    /\ left[p] > 0
    /\ os[p] = "zombie"
    /\ Waited(p)
    /\ stopper' = [stopper EXCEPT ![p] = "idle"]
    /\ left' = [left EXCEPT ![p] = 0]
    /\ UNCHANGED <<poolVars, joinset, loopVars>>

(* Mutant: past the deadline request_stop waits without killing. *)
StopWithoutKill(p) ==
    /\ stopper[p] = "poll"
    /\ left[p] = 0
    /\ stopper' = [stopper EXCEPT ![p] = "wait"]
    /\ UNCHANGED <<osVars, poolVars, left, joinset, loopVars>>

(* Past the deadline the child is killed without another look, ... *)
StopKill(p) ==
    /\ stopper[p] = "poll"
    /\ left[p] = 0
    /\ signal' = [signal EXCEPT ![p] = "kill"]
    /\ os' = [os EXCEPT ![p] = "zombie"]
    /\ stopper' = [stopper EXCEPT ![p] = "wait"]
    /\ UNCHANGED <<lived, poolVars, left, joinset, loopVars>>

(* ... and waited for. *)
StopWait(p) ==
    /\ stopper[p] = "wait"
    /\ os[p] = "zombie"
    /\ Waited(p)
    /\ stopper' = [stopper EXCEPT ![p] = "idle"]
    /\ UNCHANGED <<poolVars, left, joinset, loopVars>>

StopStep(p) == StopBegin(p) \/ StopPoll(p) \/ StopKill(p) \/ StopWait(p)

-----------------------------------------------------------------------------
(* Shutdown: the signal is seen while the tick awaits a queue or while it sleeps *)

(* Mutant: shutdown_all empties the registry and stops nobody. *)
StopDropsWorkers ==
    /\ phase \in {"act", "sleep"}
    /\ workers' = <<>>
    /\ draining' = {}
    /\ uptime' = [p \in Pid |-> 0]
    /\ phase' = "stopping"
    /\ UNCHANGED <<osVars, consecutive_crashes, backoff, hold, stopVars, cursor, nap>>

Stop ==
    /\ phase \in {"act", "sleep"}
    /\ IF workers = <<>>
       THEN UNCHANGED <<workers, draining, stopper, joinset>>
       ELSE /\ draining' = {}
            /\ joinset' = Elements(workers)
            /\ stopper' = [p \in Pid |-> IF p \in Elements(workers) THEN "begin"
                                                                   ELSE stopper[p]]
            /\ workers' = <<>>
    /\ uptime' = [p \in Pid |-> 0]
    /\ phase' = "stopping"
    /\ UNCHANGED <<osVars, consecutive_crashes, backoff, hold, left, cursor, nap>>

(* Mutant: run returns without waiting for its stop tasks. *)
LeaveAtOnce ==
    /\ phase = "stopping"
    /\ phase' = "exited"
    /\ stopper' = [p \in Pid |-> "idle"]
    /\ UNCHANGED <<osVars, poolVars, left, joinset, cursor, nap>>

(* Every joined task has ended: run returns, and the runtime drops the tasks
   that are left, background drains among them. *)
Leave ==
    /\ phase = "stopping"
    /\ \A p \in joinset : stopper[p] = "idle"
    /\ phase' = "exited"
    /\ stopper' = [p \in Pid |-> "idle"]
    /\ UNCHANGED <<osVars, poolVars, left, joinset, cursor, nap>>

-----------------------------------------------------------------------------
Init ==
    /\ os = [p \in Pid |-> "free"]
    /\ lived = [p \in Pid |-> 0]
    /\ signal = [p \in Pid |-> "none"]
    /\ workers = <<>>
    /\ uptime = [p \in Pid |-> 0]
    /\ consecutive_crashes = 0
    /\ backoff = 0
    /\ draining = {}
    /\ hold = [p \in Pid |-> 0]
    /\ stopper = [p \in Pid |-> "idle"]
    /\ left = [p \in Pid |-> 0]
    /\ joinset = {}
    /\ phase = "sleep"
    /\ cursor = 1
    /\ nap = 0

Tick == StartTick \/ ReapNext \/ ReapDone \/ DetachOne \/ Hold

Next ==
    \/ Advance
    \/ Tick
    \/ Stop
    \/ Leave
    \/ \E p \in Pid : Exit(p) \/ SpawnOne(p) \/ StopStep(p)

(* The runtime runs every task that is ready and time passes; nothing makes a
   worker exit by itself, and nothing makes the shutdown signal come. *)
Fairness ==
    /\ WF_vars(Advance)
    /\ WF_vars(Tick \/ \E p \in Pid : SpawnOne(p))
    /\ WF_vars(Leave)
    /\ \A p \in Pid : WF_vars(StopStep(p))

Spec == Init /\ [][Next]_vars

FairSpec == Spec /\ Fairness

-----------------------------------------------------------------------------
(* Properties *)

(* Every variable keeps its type, and the timers their ranges. *)
TypeOK ==
    /\ os \in [Pid -> {"free", "running", "zombie"}]
    /\ lived \in [Pid -> 0..MinHealthyUptime]
    /\ signal \in [Pid -> {"none", "term", "kill"}]
    /\ workers \in Seq(Pid)
    /\ uptime \in [Pid -> 0..MinHealthyUptime]
    /\ consecutive_crashes \in 0..CrashCap
    /\ backoff \in Nat
    /\ draining \subseteq Pid
    /\ hold \in [Pid -> 0..DrainTimeout]
    /\ stopper \in [Pid -> {"idle", "begin", "poll", "wait"}]
    /\ left \in [Pid -> 0..DrainTimeout]
    /\ joinset \subseteq Pid
    /\ phase \in {"sleep", "reap", "act", "stopping", "exited"}
    /\ cursor \in Nat \ {0}
    /\ nap \in 0..PollInterval

(* While the daemon lives every child has exactly one keeper, the registry or one
   stop task, and nobody keeps a pid that has been waited for: no worker is lost
   on its way from detach_one or shutdown_all to its drain, none is reaped twice. *)
OneKeeper ==
    /\ \A i, j \in 1..Len(workers) : workers[i] = workers[j] => i = j
    /\ \A p \in Pid :
         /\ ~(p \in Elements(workers) /\ stopper[p] # "idle")
         /\ p \in Elements(workers) \/ stopper[p] # "idle" => Occupied(p)
         /\ phase # "exited" /\ Occupied(p) =>
                p \in Elements(workers) \/ stopper[p] # "idle"

(* SIGTERM and SIGKILL only ever go to a child not yet waited for: by the time of
   signal_terminate and force_kill no other process can have taken over its pid. *)
SignalsOwnChild ==
    [][\A p \in Pid : signal'[p] \notin {signal[p], "none"} => Occupied(p)]_vars

(* Only a run of CRASHES_BEFORE_BACKOFF short lives blocks spawning, and never for
   longer than that run's own back-off: one healthy exit lifts the block at once. *)
BackoffIsEarned ==
    backoff > 0 => /\ consecutive_crashes >= CrashesBeforeBackoff
                   /\ backoff <= BackoffAfter(consecutive_crashes)

(* record_exit never calls a worker crashed that lived MIN_HEALTHY_UPTIME. *)
CrashesAreShortLives ==
    [][consecutive_crashes' > consecutive_crashes =>
          \E p \in Elements(workers) :
             /\ p \notin Elements(workers')
             /\ lived[p] < MinHealthyUptime]_vars

(* The memory of every child stays in pids() while the loop runs: a detached worker
   that is still resident is only forgotten once drain_timeout has passed since
   detach_one. *)
ResidentIsCounted ==
    phase \in {"sleep", "reap", "act"} =>
        \A p \in Pid : os[p] = "running" => p \in pids \/ hold[p] = 0

(* The daemon exits only when every worker of its registry has been waited for. *)
RegisteredAreDrained ==
    phase = "exited" => \A p \in joinset : ~Occupied(p)

(* Every drain comes to its end, however long the worker ignores SIGTERM. *)
DrainCompletes ==
    \A p \in Pid : stopper[p] # "idle" ~> stopper[p] = "idle"

(* The daemon exits once told to: no worker can hold shutdown_all back. *)
ShutdownCompletes == phase = "stopping" ~> phase = "exited"

(* Nothing stays a zombie while the daemon lives. *)
ZombiesAreReaped ==
    \A p \in Pid : os[p] = "zombie" ~> os[p] # "zombie" \/ phase = "exited"

-----------------------------------------------------------------------------
(* The promise kept by all of the above *)

KeeperOf(p) ==
    IF p \in Elements(workers) THEN "pool"
    ELSE IF stopper[p] # "idle" THEN "drain" ELSE "nobody"

ChildOf(p) ==
    CASE os[p] = "free"    -> "none"
      [] os[p] = "running" -> "running"
      [] os[p] = "zombie"  -> "exited"

DaemonState ==
    CASE phase \in {"sleep", "reap", "act"} -> "up"
      [] phase = "stopping"                 -> "leaving"
      [] phase = "exited"                   -> "down"

Promise == INSTANCE Custody WITH
    child  <- [p \in Pid |-> ChildOf(p)],
    keeper <- [p \in Pid |-> KeeperOf(p)],
    daemon <- DaemonState

(* The pool implements Custody: however exits, polls, kills, reaps, hand-overs and
   the shutdown interleave, custody of a child only changes as Custody allows. *)
KeepsCustody == Promise!Spec

-----------------------------------------------------------------------------
(* What the documentation says of the pool, and the code does not do *)

(* docs/DESIGN.md: "A worker that exits sooner than 10 s is counted as a crash." *)
ShortLivesAreCrashes ==
    [][\A p \in Elements(workers) :
          /\ phase = "reap"
          /\ p \notin Elements(workers')
          /\ lived[p] < MinHealthyUptime
          => consecutive_crashes' > 0]_vars

(* README.md: "SIGTERM and SIGINT both trigger a graceful drain of every worker
   before exit." *)
ExitLeavesNoWorker ==
    phase = "exited" => \A p \in Pid : os[p] # "running"

==============================================================================
