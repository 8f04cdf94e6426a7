-------------------------- MODULE WorkerPoolProofs ---------------------------
(***************************************************************************)
(* What holds of WorkerPool for every set of pids and every setting of its  *)
(* timers: types, custody, the back-off, the RAM accounting of drains and   *)
(* the shutdown, all from one inductive invariant, and the refinement of    *)
(* Custody.                                                                 *)
(***************************************************************************)
EXTENDS WorkerPool, TLAPS, SequenceTheorems

-----------------------------------------------------------------------------
(* Facts about the helpers *)

Injective(s) == \A i, j \in 1..Len(s) : s[i] = s[j] => i = j

(* Every timer may be reset to zero. *)
LEMMA ZeroInRange ==
  0 \in 0..MinHealthyUptime /\ 0 \in 0..DrainTimeout /\ DrainTimeout \in 0..DrainTimeout
BY TimingAssumption

(* record_exit's back-off is a duration: the shift is defined for every count of
   crashes the pool can reach. *)
LEMMA BackoffAfterNat ==
  \A c \in 0..CrashCap : BackoffAfter(c) \in Nat
<1> SUFFICES ASSUME NEW c \in 0..CrashCap PROVE BackoffAfter(c) \in Nat
  OBVIOUS
<1>1. CASE c < CrashesBeforeBackoff
  BY <1>1 DEF BackoffAfter
<1>2. CASE ~(c < CrashesBeforeBackoff)
  <2> DEFINE e == Lesser(c - CrashesBeforeBackoff, MaxExponent)
  <2>1. e \in 0..10
    BY <1>2, TimingAssumption DEF Lesser, CrashCap
  <2>2. PowersOfTwo[e + 1] \in Nat
    <3>1. e + 1 \in 1..11
      BY <2>1
    <3> HIDE DEF e
    <3>2. QED
      BY <2>1, <3>1 DEF PowersOfTwo
  <2>3. MinHealthyUptime * PowersOfTwo[e + 1] \in Nat
    <3> HIDE DEF e
    <3>1. \A m, n \in Nat : m * n \in Nat
      OBVIOUS
    <3>2. QED
      BY <2>2, <3>1, TimingAssumption
  <2>4. QED
    BY <1>2, <2>3, TimingAssumption DEF BackoffAfter, Lesser
<1>3. QED
  BY <1>1, <1>2

(* Removing the i-th entry, as Vec::remove and Vec::pop do, removes that pid only. *)
LEMMA WithoutFacts ==
  ASSUME NEW S, NEW s \in Seq(S), NEW i \in 1..Len(s)
  PROVE  /\ Without(s, i) \in Seq(S)
         /\ Elements(Without(s, i)) \subseteq Elements(s)
         /\ Elements(s) \subseteq Elements(Without(s, i)) \union {s[i]}
         /\ Injective(s) => Injective(Without(s, i))
         /\ Injective(s) => s[i] \notin Elements(Without(s, i))
<1> DEFINE n == Len(s) - 1
           t == Without(s, i)
<1>1. n \in Nat /\ Len(s) \in Nat /\ Len(s) = n + 1
  BY LenProperties
<1>2. \A j \in 1..n : t[j] = (IF j < i THEN s[j] ELSE s[j + 1])
  BY <1>1 DEF Without
<1>3. \A j \in 1..Len(s) : s[j] \in S
  BY ElementOfSeq
<1>4. \A j \in 1..n : t[j] \in S
  BY <1>1, <1>2, <1>3
<1>5. t \in [1..n -> S]
  BY <1>4 DEF Without
<1>6. t \in Seq(S)
  BY <1>1, <1>5, SeqDef
<1>7. Len(t) = n
  <2>1. DOMAIN t = 1..n
    BY <1>5
  <2>2. Len(t) \in Nat /\ DOMAIN t = 1..Len(t)
    BY <1>6, LenProperties
  <2> HIDE DEF t
  <2>3. QED
    BY <1>1, <2>1, <2>2, \A a, b \in Nat : 1..a = 1..b => a = b
<1> HIDE DEF n, t
<1>8. Elements(t) \subseteq Elements(s)
  BY <1>1, <1>2, <1>7 DEF Elements
<1>9. Elements(s) \subseteq Elements(t) \union {s[i]}
  <2> SUFFICES ASSUME NEW k \in 1..Len(s), k # i PROVE s[k] \in Elements(t)
    BY DEF Elements
  <2>1. CASE k < i
    <3>1. k \in 1..n /\ t[k] = s[k]
      BY <1>1, <1>2, <2>1
    <3>2. QED
      BY <3>1, <1>7 DEF Elements
  <2>2. CASE k > i
    <3>1. k - 1 \in 1..n /\ t[k - 1] = s[k]
      BY <1>1, <1>2, <2>2
    <3>2. QED
      BY <3>1, <1>7 DEF Elements
  <2>3. QED
    BY <1>1, <2>1, <2>2
<1>10. ASSUME Injective(s) PROVE Injective(t)
  <2> SUFFICES ASSUME NEW j \in 1..n, NEW k \in 1..n, t[j] = t[k] PROVE j = k
    BY <1>7 DEF Injective
  <2> DEFINE up(x) == IF x < i THEN x ELSE x + 1
  <2>1. t[j] = s[up(j)] /\ t[k] = s[up(k)]
    BY <1>2
  <2>2. up(j) \in 1..Len(s) /\ up(k) \in 1..Len(s)
    BY <1>1
  <2>3. up(j) = up(k)
    BY <1>10, <2>1, <2>2 DEF Injective
  <2>4. QED
    BY <1>1, <2>3
<1>11. ASSUME Injective(s) PROVE s[i] \notin Elements(t)
  <2> SUFFICES ASSUME NEW j \in 1..n, t[j] = s[i] PROVE FALSE
    BY <1>7 DEF Elements
  <2>1. CASE j < i
    BY <1>1, <1>2, <1>11, <2>1 DEF Injective
  <2>2. CASE ~(j < i)
    <3>1. j + 1 \in 1..Len(s) /\ s[j + 1] = s[i] /\ j + 1 # i
      BY <1>1, <1>2, <2>2
    <3>2. QED
      BY <1>11, <3>1 DEF Injective
  <2>3. QED
    BY <2>1, <2>2
<1>12. QED
  BY <1>6, <1>8, <1>9, <1>10, <1>11 DEF t

(* Appending a new pid, as Vec::push does. *)
LEMMA AppendFacts ==
  ASSUME NEW S, NEW s \in Seq(S), NEW e \in S
  PROVE  /\ Append(s, e) \in Seq(S)
         /\ Elements(Append(s, e)) = Elements(s) \union {e}
         /\ Injective(s) /\ e \notin Elements(s) => Injective(Append(s, e))
<1> DEFINE t == Append(s, e)
<1>1. /\ t \in Seq(S)
      /\ Len(s) \in Nat
      /\ Len(t) = Len(s) + 1
      /\ \A i \in 1..Len(s) : t[i] = s[i]
      /\ t[Len(s) + 1] = e
  BY LenProperties
<1> HIDE DEF t
<1>2. Elements(t) = Elements(s) \union {e}
  BY <1>1 DEF Elements
<1>3. Injective(s) /\ e \notin Elements(s) => Injective(t)
  BY <1>1 DEF Elements, Injective
<1>4. QED
  BY <1>1, <1>2, <1>3 DEF t

(* The registry holds pids. *)
LEMMA ElementsSubset ==
  ASSUME NEW S, NEW s \in Seq(S)
  PROVE  Elements(s) \subseteq S
BY ElementOfSeq DEF Elements

-----------------------------------------------------------------------------
(* The invariant *)

(* Once the daemon is told to stop, its registry is empty and stays so. *)
Emptied == phase \in {"stopping", "exited"} => workers = <<>>

(* What each property needs of the others to survive every step. *)
IInv ==
    /\ TypeOK
    /\ OneKeeper
    /\ BackoffIsEarned
    /\ ResidentIsCounted
    /\ Emptied
    /\ RegisteredAreDrained

LEMMA InitIInv == Init => IInv
<1> SUFFICES ASSUME Init PROVE IInv
  OBVIOUS
<1> USE DEF Init
<1>1. workers \in Seq(Pid) /\ Len(workers) = 0
  BY EmptySeq
<1>2. Elements(workers) = {}
  BY <1>1 DEF Elements
<1>3. TypeOK
  BY <1>1, TimingAssumption DEF TypeOK, CrashCap
<1>4. OneKeeper
  BY <1>1, <1>2 DEF OneKeeper, Occupied
<1>5. BackoffIsEarned /\ ResidentIsCounted /\ Emptied /\ RegisteredAreDrained
  BY DEF BackoffIsEarned, ResidentIsCounted, Emptied, RegisteredAreDrained
<1>6. QED
  BY <1>3, <1>4, <1>5 DEF IInv

(* A child exits: it stays with its keeper. *)
LEMMA ExitIInv ==
  ASSUME IInv, NEW p \in Pid, Exit(p)
  PROVE  IInv'
<1> USE DEF IInv, Exit, poolVars, stopVars, loopVars
<1>1. TypeOK'
  BY DEF TypeOK
<1>2. OneKeeper'
  BY DEF TypeOK, OneKeeper, Occupied, Elements
<1>3. ResidentIsCounted'
  BY DEF TypeOK, ResidentIsCounted, pids, Elements
<1>4. BackoffIsEarned' /\ Emptied'
  BY DEF BackoffIsEarned, Emptied, BackoffAfter, CrashCap
<1>5. RegisteredAreDrained'
  BY DEF TypeOK, RegisteredAreDrained, Occupied
<1>6. QED
  BY <1>1, <1>2, <1>3, <1>4, <1>5

(* Time passes: only timers move, each within its range. *)
LEMMA AdvanceIInv ==
  ASSUME IInv, Advance
  PROVE  IInv'
<1> USE DEF IInv, Advance
<1>1. TypeOK'
  <2> USE TimingAssumption DEF TypeOK
  <2>1. lived' \in [Pid -> 0..MinHealthyUptime]
    BY DEF Lesser
  <2>2. uptime' \in [Pid -> 0..MinHealthyUptime]
    BY DEF Lesser
  <2>3. backoff' \in Nat /\ nap' \in 0..PollInterval
    BY DEF CountDown
  <2>4. hold' \in [Pid -> 0..DrainTimeout] /\ left' \in [Pid -> 0..DrainTimeout]
    BY DEF CountDown
  <2>5. QED
    BY <2>1, <2>2, <2>3, <2>4
<1>2. OneKeeper'
  BY DEF OneKeeper, Occupied, Elements
<1>3. BackoffIsEarned'
  <2>1. backoff' <= backoff /\ backoff' \in Nat
    BY DEF TypeOK, CountDown
  <2>2. BackoffAfter(consecutive_crashes) \in Nat
    BY BackoffAfterNat DEF TypeOK
  <2>3. CASE backoff' > 0
    <3>1. backoff > 0 /\ consecutive_crashes' = consecutive_crashes
      BY <2>1, <2>3 DEF TypeOK
    <3>2. QED
      BY <2>1, <2>2, <3>1 DEF TypeOK, BackoffIsEarned
  <2>4. QED
    BY <2>3 DEF BackoffIsEarned
<1>4. ResidentIsCounted'
  <2>1. \A p \in Pid : hold[p] = 0 => hold'[p] = 0
    BY DEF CountDown
  <2>2. pids' = pids
    BY DEF pids, Elements
  <2>3. QED
    BY <2>1, <2>2 DEF ResidentIsCounted
<1>5. Emptied' /\ RegisteredAreDrained'
  BY DEF Emptied, RegisteredAreDrained, Occupied
<1>6. QED
  BY <1>1, <1>2, <1>3, <1>4, <1>5

(* A tick begins: only entries past their deadline leave draining. *)
LEMMA StartTickIInv ==
  ASSUME IInv, StartTick
  PROVE  IInv'
<1> USE DEF IInv, StartTick, osVars, stopVars
<1>1. TypeOK'
  BY DEF TypeOK
<1>2. OneKeeper'
  BY DEF OneKeeper, Occupied, Elements
<1>3. ResidentIsCounted'
  BY DEF TypeOK, ResidentIsCounted, pids, Elements
<1>4. BackoffIsEarned' /\ Emptied' /\ RegisteredAreDrained'
  BY DEF BackoffIsEarned, Emptied, RegisteredAreDrained, BackoffAfter, CrashCap
<1>5. QED
  BY <1>1, <1>2, <1>3, <1>4

(* record_exit keeps the crash count in range and earns every block it sets. *)
LEMMA RecordExitFacts ==
  ASSUME TypeOK, BackoffIsEarned, NEW crashed \in BOOLEAN, RecordExit(crashed)
  PROVE  /\ consecutive_crashes' \in 0..CrashCap
         /\ backoff' \in Nat
         /\ BackoffIsEarned'
<1>1. CASE ~crashed
  BY <1>1, TimingAssumption DEF RecordExit, BackoffIsEarned, CrashCap
<1>2. CASE crashed
  <2> DEFINE c == Lesser(consecutive_crashes + 1, CrashCap)
  <2>2. c \in 0..CrashCap /\ (c < CrashesBeforeBackoff => consecutive_crashes < CrashesBeforeBackoff)
    BY TimingAssumption DEF TypeOK, CrashCap, Lesser
  <2>3. /\ consecutive_crashes' = c
        /\ backoff' = IF c < CrashesBeforeBackoff THEN backoff ELSE BackoffAfter(c)
    BY <1>2 DEF RecordExit
  <2>4. BackoffAfter(c) \in Nat
    BY <2>2, BackoffAfterNat
  <2> HIDE DEF c
  <2>5. CASE c < CrashesBeforeBackoff
    <3>1. backoff = 0
      BY <2>2, <2>5, TimingAssumption DEF TypeOK, BackoffIsEarned
    <3>2. QED
      BY <2>2, <2>3, <2>5, <3>1 DEF BackoffIsEarned
  <2>6. CASE ~(c < CrashesBeforeBackoff)
    <3>1. c >= CrashesBeforeBackoff /\ backoff' = BackoffAfter(c)
      BY <2>2, <2>3, <2>6, TimingAssumption DEF CrashCap
    <3>2. BackoffAfter(c) <= BackoffAfter(c)
      BY <2>4
    <3>3. QED
      BY <2>2, <2>3, <2>4, <3>1, <3>2 DEF BackoffIsEarned
  <2>7. QED
    BY <2>5, <2>6
<1>3. QED
  BY <1>1, <1>2

(* The cursor meets a zombie, which leaves the registry for good, or moves on. *)
LEMMA ReapNextIInv ==
  ASSUME IInv, ReapNext
  PROVE  IInv'
<1> DEFINE p == workers[cursor]
<1> USE DEF IInv
<1>0. cursor \in 1..Len(workers) /\ p \in Pid /\ workers \in Seq(Pid)
  BY ElementOfSeq, LenProperties DEF TypeOK, ReapNext
<1>1. p \in Elements(workers)
  BY <1>0 DEF Elements
<1>2. CASE os[p] = "zombie"
  <2>1. /\ os' = [os EXCEPT ![p] = "free"]
        /\ lived' = [lived EXCEPT ![p] = 0]
        /\ signal' = [signal EXCEPT ![p] = "none"]
        /\ workers' = Without(workers, cursor)
        /\ uptime' = [uptime EXCEPT ![p] = 0]
        /\ RecordExit(uptime[p] < MinHealthyUptime)
        /\ UNCHANGED <<cursor, draining, hold, stopper, left, joinset, phase, nap>>
    BY <1>2 DEF ReapNext, Waited, stopVars
  <2>2. phase = "reap"
    BY DEF ReapNext
  <2>3. /\ workers' \in Seq(Pid)
        /\ Elements(workers') \subseteq Elements(workers)
        /\ Elements(workers) \subseteq Elements(workers') \union {p}
        /\ Injective(workers')
        /\ p \notin Elements(workers')
    BY <1>0, <2>1, WithoutFacts DEF OneKeeper, Injective
  <2>4. /\ consecutive_crashes' \in 0..CrashCap
        /\ backoff' \in Nat
        /\ BackoffIsEarned'
    <3>1. (uptime[p] < MinHealthyUptime) \in BOOLEAN
      BY <1>0
    <3>2. QED
      BY <2>1, <3>1, RecordExitFacts
  <2>5. TypeOK'
    <3>1. os' \in [Pid -> {"free", "running", "zombie"}]
      BY <2>1 DEF TypeOK
    <3>2. /\ lived' \in [Pid -> 0..MinHealthyUptime]
          /\ uptime' \in [Pid -> 0..MinHealthyUptime]
      BY <2>1, ZeroInRange DEF TypeOK
    <3>3. signal' \in [Pid -> {"none", "term", "kill"}]
      BY <2>1 DEF TypeOK
    <3>4. UNCHANGED <<cursor, draining, hold, stopper, left, joinset, phase, nap>>
      BY <2>1
    <3> HIDE DEF p
    <3>5. QED
      BY <2>3, <2>4, <3>1, <3>2, <3>3, <3>4 DEF TypeOK
  <2>6. OneKeeper'
    <3>1. Injective(workers')
      BY <2>3
    <3>2. ASSUME NEW q \in Pid
          PROVE  /\ ~(q \in Elements(workers') /\ stopper'[q] # "idle")
                 /\ q \in Elements(workers') \/ stopper'[q] # "idle" => Occupied(q)'
                 /\ phase' # "exited" /\ Occupied(q)' =>
                        q \in Elements(workers') \/ stopper'[q] # "idle"
      BY <1>0, <1>1, <2>1, <2>2, <2>3 DEF TypeOK, OneKeeper, Occupied
    <3>3. QED
      BY <3>1, <3>2 DEF OneKeeper, Injective, Elements
  <2>7. ResidentIsCounted'
    BY <1>0, <2>1, <2>2, <2>3 DEF TypeOK, ResidentIsCounted, pids
  <2>8. Emptied' /\ RegisteredAreDrained'
    BY <2>1, <2>2 DEF Emptied, RegisteredAreDrained
  <2>9. QED
    BY <2>4, <2>5, <2>6, <2>7, <2>8
<1>3. CASE os[p] # "zombie"
  <2>1. /\ cursor' = cursor + 1
        /\ UNCHANGED <<osVars, poolVars, stopVars, phase, nap>>
    BY <1>3 DEF ReapNext, poolVars
  <2> USE <2>1 DEF osVars, poolVars, stopVars
  <2>2. TypeOK'
    BY DEF TypeOK
  <2>3. OneKeeper' /\ ResidentIsCounted'
    BY DEF OneKeeper, Occupied, Elements, ResidentIsCounted, pids
  <2>4. BackoffIsEarned' /\ Emptied' /\ RegisteredAreDrained'
    BY DEF BackoffIsEarned, BackoffAfter, CrashCap, Emptied, RegisteredAreDrained, Occupied
  <2>5. QED
    BY <2>2, <2>3, <2>4
<1>4. QED
  BY <1>2, <1>3

(* The end of the reaping and the decision to hold touch no worker. *)
LEMMA IdleStepIInv ==
  ASSUME IInv, ReapDone \/ Hold
  PROVE  IInv'
<1> USE DEF IInv, ReapDone, Hold, GoToSleep, osVars, poolVars, stopVars
<1>1. TypeOK'
  BY TimingAssumption DEF TypeOK
<1>2. OneKeeper' /\ ResidentIsCounted'
  BY DEF OneKeeper, Occupied, Elements, ResidentIsCounted, pids
<1>3. BackoffIsEarned' /\ Emptied' /\ RegisteredAreDrained'
  BY DEF BackoffIsEarned, BackoffAfter, CrashCap, Emptied, RegisteredAreDrained
<1>4. QED
  BY <1>1, <1>2, <1>3

(* A worker is spawned under a pid nobody keeps. *)
LEMMA SpawnOneIInv ==
  ASSUME IInv, NEW p \in Pid, SpawnOne(p)
  PROVE  IInv'
<1> USE DEF IInv, SpawnOne, GoToSleep, stopVars
<1>1. workers \in Seq(Pid) /\ p \notin Elements(workers) /\ stopper[p] = "idle"
  BY DEF TypeOK, OneKeeper
<1>2. /\ workers' \in Seq(Pid)
      /\ Elements(workers') = Elements(workers) \union {p}
      /\ Injective(workers')
  BY <1>1, AppendFacts DEF OneKeeper, Injective
<1>3. TypeOK'
  <2>1. uptime' \in [Pid -> 0..MinHealthyUptime]
    BY ZeroInRange DEF TypeOK
  <2>2. QED
    BY <1>2, <2>1, TimingAssumption DEF TypeOK
<1>4. OneKeeper'
  <2>1. ASSUME NEW q \in Pid
        PROVE  /\ ~(q \in Elements(workers') /\ stopper'[q] # "idle")
               /\ q \in Elements(workers') \/ stopper'[q] # "idle" => Occupied(q)'
               /\ phase' # "exited" /\ Occupied(q)' =>
                      q \in Elements(workers') \/ stopper'[q] # "idle"
    BY <1>1, <1>2 DEF TypeOK, OneKeeper, Occupied
  <2>2. QED
    BY <1>2, <2>1 DEF OneKeeper, Injective, Elements
<1>5. ResidentIsCounted'
  BY <1>2 DEF TypeOK, ResidentIsCounted, pids
<1>6. BackoffIsEarned' /\ Emptied' /\ RegisteredAreDrained'
  BY DEF BackoffIsEarned, BackoffAfter, CrashCap, Emptied, RegisteredAreDrained
<1>7. QED
  BY <1>3, <1>4, <1>5, <1>6

(* The newest worker passes from the registry to its drain in one step. *)
LEMMA DetachOneIInv ==
  ASSUME IInv, DetachOne
  PROVE  IInv'
<1> DEFINE p == workers[Len(workers)]
<1> USE DEF IInv, GoToSleep, osVars
<1>0. /\ Len(workers) \in 1..Len(workers) /\ p \in Pid /\ workers \in Seq(Pid)
  <2>1. workers \in Seq(Pid) /\ workers # <<>>
    BY DEF TypeOK, DetachOne
  <2>2. Len(workers) \in Nat \ {0}
    BY <2>1, EmptySeq
  <2>3. QED
    BY <2>1, <2>2, ElementOfSeq
<1>1. /\ workers' = Without(workers, Len(workers))
      /\ uptime' = [uptime EXCEPT ![p] = 0]
      /\ draining' = draining \union {p}
      /\ hold' = [hold EXCEPT ![p] = DrainTimeout]
      /\ stopper' = [stopper EXCEPT ![p] = "begin"]
      /\ phase = "act" /\ phase' = "sleep" /\ nap' = PollInterval
      /\ UNCHANGED <<os, lived, signal, consecutive_crashes, backoff, left, joinset, cursor>>
  BY DEF DetachOne
<1>2. /\ workers' \in Seq(Pid)
      /\ Elements(workers') \subseteq Elements(workers)
      /\ Elements(workers) \subseteq Elements(workers') \union {p}
      /\ Injective(workers')
      /\ p \notin Elements(workers')
      /\ p \in Elements(workers)
  <2>1. Injective(workers)
    BY DEF OneKeeper, Injective
  <2>2. p \in Elements(workers)
    BY <1>0 DEF Elements
  <2>3. QED
    BY <1>0, <1>1, <2>1, <2>2, WithoutFacts
<1>3. TypeOK'
  <2>1. uptime' \in [Pid -> 0..MinHealthyUptime]
    BY <1>1, ZeroInRange DEF TypeOK
  <2>2. draining' \subseteq Pid /\ hold' \in [Pid -> 0..DrainTimeout]
    BY <1>0, <1>1, TimingAssumption DEF TypeOK
  <2>3. stopper' \in [Pid -> {"idle", "begin", "poll", "wait"}]
    BY <1>1 DEF TypeOK
  <2>4. phase' = "sleep" /\ nap' \in 0..PollInterval
    BY <1>1, TimingAssumption
  <2>5. UNCHANGED <<os, lived, signal, consecutive_crashes, backoff, left, joinset, cursor>>
    BY <1>1
  <2> HIDE DEF p
  <2>6. QED
    BY <1>2, <2>1, <2>2, <2>3, <2>4, <2>5 DEF TypeOK
<1>4. OneKeeper'
  <2>1. ASSUME NEW q \in Pid
        PROVE  /\ ~(q \in Elements(workers') /\ stopper'[q] # "idle")
               /\ q \in Elements(workers') \/ stopper'[q] # "idle" => Occupied(q)'
               /\ phase' # "exited" /\ Occupied(q)' =>
                      q \in Elements(workers') \/ stopper'[q] # "idle"
    BY <1>0, <1>1, <1>2 DEF TypeOK, OneKeeper, Occupied
  <2>2. QED
    BY <1>2, <2>1 DEF OneKeeper, Injective, Elements
<1>5. ResidentIsCounted'
  <2>1. pids \subseteq pids'
    BY <1>1, <1>2 DEF pids
  <2>2. \A q \in Pid : q \notin pids' => hold'[q] = hold[q]
    BY <1>1 DEF TypeOK, pids
  <2>3. QED
    BY <1>1, <2>1, <2>2 DEF ResidentIsCounted
<1>6. BackoffIsEarned' /\ Emptied' /\ RegisteredAreDrained'
  BY <1>1 DEF BackoffIsEarned, BackoffAfter, CrashCap, Emptied, RegisteredAreDrained
<1>7. QED
  BY <1>3, <1>4, <1>5, <1>6

(* A stop finds its child exited, in its first look, in a poll or after the kill,
   and waits for it. *)
LEMMA StopReapsIInv ==
  ASSUME IInv, NEW p \in Pid,
         stopper[p] # "idle", os[p] = "zombie", Waited(p),
         stopper' = [stopper EXCEPT ![p] = "idle"],
         left' \in [Pid -> 0..DrainTimeout],
         UNCHANGED <<poolVars, joinset, loopVars>>
  PROVE  IInv'
<1> USE DEF IInv, Waited, poolVars, loopVars
<1>1. TypeOK'
  <2>1. lived' \in [Pid -> 0..MinHealthyUptime]
    BY ZeroInRange DEF TypeOK
  <2>2. QED
    BY <2>1 DEF TypeOK
<1>2. OneKeeper'
  BY DEF TypeOK, OneKeeper, Occupied, Elements
<1>3. ResidentIsCounted' /\ RegisteredAreDrained'
  BY DEF TypeOK, ResidentIsCounted, pids, Elements, RegisteredAreDrained, Occupied
<1>4. BackoffIsEarned' /\ Emptied'
  BY DEF BackoffIsEarned, BackoffAfter, CrashCap, Emptied
<1>5. QED
  BY <1>1, <1>2, <1>3, <1>4

LEMMA StopStepIInv ==
  ASSUME IInv, NEW p \in Pid, StopStep(p)
  PROVE  IInv'
<1> USE DEF IInv
<1>1. CASE StopBegin(p) /\ os[p] = "zombie"
  BY <1>1, StopReapsIInv DEF StopBegin, TypeOK
<1>2. CASE StopBegin(p) /\ os[p] = "running"
  <2>1. /\ stopper[p] = "begin"
        /\ signal' = [signal EXCEPT ![p] = "term"]
        /\ left' = [left EXCEPT ![p] = DrainTimeout]
        /\ stopper' = [stopper EXCEPT ![p] = "poll"]
        /\ UNCHANGED <<os, lived, poolVars, joinset, loopVars>>
    BY <1>2 DEF StopBegin
  <2> USE <2>1 DEF poolVars, loopVars
  <2>2. TypeOK'
    <3>1. left' \in [Pid -> 0..DrainTimeout]
      BY ZeroInRange DEF TypeOK
    <3>2. QED
      BY <3>1 DEF TypeOK
  <2>3. OneKeeper'
    BY DEF TypeOK, OneKeeper, Occupied, Elements
  <2>4. ResidentIsCounted' /\ RegisteredAreDrained'
    BY DEF TypeOK, ResidentIsCounted, pids, Elements, RegisteredAreDrained, Occupied
  <2>5. BackoffIsEarned' /\ Emptied'
    BY DEF BackoffIsEarned, BackoffAfter, CrashCap, Emptied
  <2>6. QED
    BY <2>2, <2>3, <2>4, <2>5
<1>3. CASE StopPoll(p)
  <2>1. left' \in [Pid -> 0..DrainTimeout]
    BY <1>3, ZeroInRange DEF StopPoll, TypeOK
  <2>2. QED
    BY <1>3, <2>1, StopReapsIInv DEF StopPoll
<1>4. CASE StopKill(p)
  <2>1. /\ stopper[p] = "poll"
        /\ signal' = [signal EXCEPT ![p] = "kill"]
        /\ os' = [os EXCEPT ![p] = "zombie"]
        /\ stopper' = [stopper EXCEPT ![p] = "wait"]
        /\ UNCHANGED <<lived, poolVars, left, joinset, loopVars>>
    BY <1>4 DEF StopKill
  <2> USE <2>1 DEF poolVars, loopVars
  <2>2. Occupied(p)
    BY DEF OneKeeper, TypeOK
  <2>3. TypeOK'
    BY DEF TypeOK
  <2>4. OneKeeper'
    BY <2>2 DEF TypeOK, OneKeeper, Occupied, Elements
  <2>5. ResidentIsCounted' /\ RegisteredAreDrained'
    BY <2>2 DEF TypeOK, ResidentIsCounted, pids, Elements, RegisteredAreDrained, Occupied
  <2>6. BackoffIsEarned' /\ Emptied'
    BY DEF BackoffIsEarned, BackoffAfter, CrashCap, Emptied
  <2>7. QED
    BY <2>3, <2>4, <2>5, <2>6
<1>5. CASE StopWait(p)
  BY <1>5, StopReapsIInv DEF StopWait, TypeOK
<1>6. QED
  BY <1>1, <1>2, <1>3, <1>4, <1>5 DEF StopStep, StopBegin

(* The whole registry is handed over to the stop tasks of shutdown_all. *)
LEMMA StopIInv ==
  ASSUME IInv, Stop
  PROVE  IInv'
<1> USE DEF IInv, Stop, osVars
<1>1. <<>> \in Seq(Pid) /\ Elements(<<>>) = {} /\ Injective(<<>>)
  BY EmptySeq DEF Elements, Injective
<1>2. workers' = <<>> /\ phase' = "stopping" /\ Elements(workers) \subseteq Pid
  BY ElementsSubset DEF TypeOK
<1>3. \A p \in Pid : stopper'[p] = (IF p \in Elements(workers) THEN "begin" ELSE stopper[p])
  BY <1>1 DEF TypeOK
<1>4. TypeOK'
  <2>1. stopper' \in [Pid -> {"idle", "begin", "poll", "wait"}]
    BY DEF TypeOK
  <2>2. draining' \subseteq Pid /\ joinset' \subseteq Pid
    BY <1>2 DEF TypeOK
  <2>3. uptime' \in [Pid -> 0..MinHealthyUptime]
    BY ZeroInRange
  <2>4. QED
    BY <1>1, <1>2, <2>1, <2>2, <2>3 DEF TypeOK
<1>5. OneKeeper'
  <2>1. ASSUME NEW q \in Pid
        PROVE  /\ ~(q \in Elements(workers') /\ stopper'[q] # "idle")
               /\ q \in Elements(workers') \/ stopper'[q] # "idle" => Occupied(q)'
               /\ phase' # "exited" /\ Occupied(q)' =>
                      q \in Elements(workers') \/ stopper'[q] # "idle"
    BY <1>1, <1>2, <1>3 DEF OneKeeper, Occupied
  <2>2. QED
    BY <1>1, <1>2, <2>1 DEF OneKeeper, Injective, Elements
<1>6. ResidentIsCounted' /\ Emptied' /\ RegisteredAreDrained'
  BY <1>2 DEF ResidentIsCounted, Emptied, RegisteredAreDrained
<1>7. BackoffIsEarned'
  BY DEF BackoffIsEarned, BackoffAfter, CrashCap
<1>8. QED
  BY <1>4, <1>5, <1>6, <1>7

(* The daemon exits: every joined child is gone, and all other tasks with it. *)
LEMMA LeaveIInv ==
  ASSUME IInv, Leave
  PROVE  IInv'
<1> USE DEF IInv, Leave, osVars, poolVars
<1>1. Elements(workers) = {} /\ Elements(workers') = {}
  BY EmptySeq DEF Emptied, Elements
<1>2. TypeOK'
  BY DEF TypeOK
<1>3. OneKeeper'
  BY <1>1 DEF OneKeeper, Occupied, Elements
<1>4. RegisteredAreDrained'
  BY <1>1 DEF RegisteredAreDrained, OneKeeper, Occupied, TypeOK
<1>5. ResidentIsCounted' /\ Emptied' /\ BackoffIsEarned'
  BY DEF ResidentIsCounted, Emptied, BackoffIsEarned, BackoffAfter, CrashCap
<1>6. QED
  BY <1>2, <1>3, <1>4, <1>5

LEMMA StutterIInv ==
  ASSUME IInv, UNCHANGED vars
  PROVE  IInv'
BY DEF IInv, vars, osVars, poolVars, stopVars, loopVars, TypeOK, OneKeeper, Occupied,
       Elements, BackoffIsEarned, BackoffAfter, CrashCap, ResidentIsCounted, pids,
       Emptied, RegisteredAreDrained

(* The invariant holds in every reachable state, for all pids and timers. *)
THEOREM Invariance == Spec => []IInv
<1>1. Init => IInv
  BY InitIInv
<1>2. IInv /\ [Next]_vars => IInv'
  <2> SUFFICES ASSUME IInv, [Next]_vars PROVE IInv'
    OBVIOUS
  <2>1. CASE Advance
    BY <2>1, AdvanceIInv
  <2>2. CASE Tick
    BY <2>2, StartTickIInv, ReapNextIInv, IdleStepIInv, DetachOneIInv DEF Tick
  <2>3. CASE Stop
    BY <2>3, StopIInv
  <2>4. CASE Leave
    BY <2>4, LeaveIInv
  <2>5. ASSUME NEW p \in Pid, Exit(p) \/ SpawnOne(p) \/ StopStep(p) PROVE IInv'
    BY <2>5, ExitIInv, SpawnOneIInv, StopStepIInv
  <2>6. CASE UNCHANGED vars
    BY <2>6, StutterIInv
  <2>7. QED
    BY <2>1, <2>2, <2>3, <2>4, <2>5, <2>6 DEF Next
<1>3. QED
  BY <1>1, <1>2, PTL DEF Spec

-----------------------------------------------------------------------------
(* The properties the runs check, for every instance *)

(* The variables of the pool keep their types: every timer within its range, the
   crash count within the exponent's cap. *)
THEOREM TypeCorrect == Spec => []TypeOK
<1>1. IInv => TypeOK
  BY DEF IInv
<1>2. QED
  BY <1>1, Invariance, PTL

(* No child is lost, kept twice, or kept after it was waited for. *)
THEOREM ChildrenHaveOneKeeper == Spec => []OneKeeper
<1>1. IInv => OneKeeper
  BY DEF IInv
<1>2. QED
  BY <1>1, Invariance, PTL

(* The back-off only blocks after enough consecutive crashes, and no longer than
   they justify. *)
THEOREM BackoffEarned == Spec => []BackoffIsEarned
<1>1. IInv => BackoffIsEarned
  BY DEF IInv
<1>2. QED
  BY <1>1, Invariance, PTL

(* A resident child is in pids(), or was detached at least drain_timeout ago. *)
THEOREM ResidentCounted == Spec => []ResidentIsCounted
<1>1. IInv => ResidentIsCounted
  BY DEF IInv
<1>2. QED
  BY <1>1, Invariance, PTL

(* The daemon does not exit before every worker of its registry has ended. *)
THEOREM RegisteredDrained == Spec => []RegisteredAreDrained
<1>1. IInv => RegisteredAreDrained
  BY DEF IInv
<1>2. QED
  BY <1>1, Invariance, PTL

(* A signal only goes to a pid whose child has not been waited for: signal_terminate
   and force_kill run only inside a request_stop, which keeps the child. *)
THEOREM SignalsReachOwnChild == Spec => SignalsOwnChild
<1>1. ASSUME IInv, [Next]_vars, NEW p \in Pid, signal'[p] \notin {signal[p], "none"}
      PROVE  Occupied(p)
  <2>1. ASSUME NEW q \in Pid, StopBegin(q) \/ StopKill(q)
        PROVE  Occupied(p)
    <3>1. Occupied(q)
      <4>1. stopper[q] # "idle"
        BY <2>1 DEF StopBegin, StopKill
      <4>2. QED
        BY <1>1, <4>1 DEF IInv, OneKeeper
    <3>2. p = q
      BY <1>1, <2>1 DEF StopBegin, StopKill, Waited, IInv, TypeOK
    <3>3. QED
      BY <3>1, <3>2
  <2>2. ASSUME NEW q \in Pid, StopPoll(q) \/ StopWait(q) \/ Exit(q) \/ SpawnOne(q)
        PROVE  FALSE
    BY <1>1, <2>2 DEF StopPoll, StopWait, Exit, SpawnOne, Waited, IInv, TypeOK
  <2>3. CASE Advance \/ StartTick \/ ReapDone \/ DetachOne \/ Hold \/ Stop \/ Leave
    BY <1>1, <2>3 DEF Advance, StartTick, ReapDone, DetachOne, Hold, Stop, Leave, osVars
  <2>4. CASE ReapNext
    BY <1>1, <2>4 DEF ReapNext, Waited, osVars, IInv, TypeOK
  <2>5. CASE UNCHANGED vars
    BY <1>1, <2>5 DEF vars, osVars
  <2>6. QED
    BY <1>1, <2>1, <2>2, <2>3, <2>4, <2>5 DEF Next, Tick, StopStep
<1>2. IInv /\ [Next]_vars =>
        [\A p \in Pid : signal'[p] \notin {signal[p], "none"} => Occupied(p)]_vars
  BY <1>1
<1>3. QED
  BY <1>2, Invariance, PTL DEF Spec, SignalsOwnChild

-----------------------------------------------------------------------------
(* Crashes are short lives *)

(* The pool never takes a worker for younger than it is. *)
UptimeCoversLife ==
    \A p \in Pid : /\ os[p] = "free" => lived[p] = 0
                   /\ p \in Elements(workers) => lived[p] <= uptime[p]

LEMMA UptimeStep ==
  ASSUME IInv, UptimeCoversLife, Next
  PROVE  UptimeCoversLife'
<1> USE DEF UptimeCoversLife
<1>0. TypeOK /\ OneKeeper /\ workers \in Seq(Pid) /\ Elements(workers) \subseteq Pid
  BY ElementsSubset DEF IInv, TypeOK
<1>1. CASE Advance
  <2>1. Elements(workers') = Elements(workers)
    BY <1>1 DEF Advance, Elements
  <2>2. \A p \in Pid : os'[p] = "free" => lived'[p] = 0
    BY <1>1 DEF Advance
  <2>3. ASSUME NEW p \in Pid, p \in Elements(workers) PROVE lived'[p] <= uptime'[p]
    <3>1. /\ lived[p] \in 0..MinHealthyUptime
          /\ uptime[p] \in 0..MinHealthyUptime
          /\ lived[p] <= uptime[p]
      BY <1>0, <2>3 DEF TypeOK
    <3>2. /\ lived'[p] = lived[p] \/ lived'[p] = Lesser(lived[p] + 1, MinHealthyUptime)
          /\ uptime'[p] = Lesser(uptime[p] + 1, MinHealthyUptime)
      BY <1>1, <2>3 DEF Advance
    <3>3. QED
      BY <3>1, <3>2, TimingAssumption DEF Lesser
  <2>4. QED
    BY <2>1, <2>2, <2>3
<1>2. CASE ReapNext
  <2> DEFINE p == workers[cursor]
  <2>1. cursor \in 1..Len(workers) /\ p \in Pid
    BY <1>0, <1>2, ElementOfSeq, LenProperties DEF TypeOK, ReapNext
  <2>2. CASE os[p] = "zombie"
    <3>1. /\ os' = [os EXCEPT ![p] = "free"]
          /\ lived' = [lived EXCEPT ![p] = 0]
          /\ workers' = Without(workers, cursor)
          /\ uptime' = [uptime EXCEPT ![p] = 0]
      BY <1>2, <2>2 DEF ReapNext, Waited
    <3>2. Elements(workers') \subseteq Elements(workers)
      BY <1>0, <2>1, <3>1, WithoutFacts
    <3> HIDE DEF p
    <3>3. QED
      BY <1>0, <2>1, <3>1, <3>2 DEF TypeOK
  <2>3. CASE os[p] # "zombie"
    BY <1>2, <2>3 DEF ReapNext, osVars, Elements
  <2>4. QED
    BY <2>2, <2>3
<1>3. CASE StartTick \/ ReapDone \/ Hold
  BY <1>3 DEF StartTick, ReapDone, Hold, osVars, poolVars, Elements
<1>4. CASE DetachOne
  <2> DEFINE p == workers[Len(workers)]
  <2>1. /\ workers' = Without(workers, Len(workers))
        /\ uptime' = [uptime EXCEPT ![p] = 0]
        /\ UNCHANGED <<os, lived>>
    BY <1>4 DEF DetachOne, osVars
  <2>2. Len(workers) \in 1..Len(workers)
    BY <1>0, <1>4, EmptySeq DEF DetachOne
  <2>3. Elements(workers') \subseteq Elements(workers) /\ p \notin Elements(workers')
    BY <1>0, <2>1, <2>2, WithoutFacts DEF OneKeeper, Injective
  <2> HIDE DEF p
  <2>4. QED
    BY <1>0, <2>1, <2>3 DEF TypeOK
<1>5. CASE Stop \/ Leave
  <2>1. Elements(workers') \subseteq Elements(workers) /\ (workers' = workers \/ workers' = <<>>)
    BY <1>5, EmptySeq DEF Stop, Leave, poolVars, Elements
  <2>2. workers' = <<>> => Elements(workers') = {}
    BY EmptySeq DEF Elements
  <2>3. CASE Leave
    BY <2>1, <2>3 DEF Leave, osVars, poolVars
  <2>4. CASE Stop
    <3>1. workers' = <<>>
      BY <2>4 DEF Stop
    <3>2. QED
      BY <2>2, <2>4, <3>1 DEF Stop, osVars
  <2>5. QED
    BY <1>5, <2>3, <2>4
<1>6. ASSUME NEW p \in Pid, Exit(p) PROVE UptimeCoversLife'
  BY <1>0, <1>6 DEF Exit, poolVars, Elements, TypeOK
<1>7. ASSUME NEW p \in Pid, SpawnOne(p) PROVE UptimeCoversLife'
  <2>1. Elements(workers') = Elements(workers) \union {p}
    BY <1>0, <1>7, AppendFacts DEF SpawnOne
  <2>2. lived[p] = 0 /\ p \notin Elements(workers)
    BY <1>0, <1>7 DEF SpawnOne, Occupied, OneKeeper, TypeOK
  <2>3. QED
    BY <1>0, <1>7, <2>1, <2>2 DEF SpawnOne, TypeOK
<1>8. ASSUME NEW p \in Pid, StopStep(p) PROVE UptimeCoversLife'
  <2>1. /\ Elements(workers') = Elements(workers) /\ UNCHANGED uptime
        /\ p \notin Elements(workers)
    BY <1>0, <1>8 DEF StopStep, StopBegin, StopPoll, StopKill, StopWait, poolVars,
                     Elements, OneKeeper
  <2>2. \/ /\ os' = [os EXCEPT ![p] = "free"] /\ lived' = [lived EXCEPT ![p] = 0]
        \/ /\ os' \in {os, [os EXCEPT ![p] = "zombie"]} /\ UNCHANGED lived
    BY <1>8 DEF StopStep, StopBegin, StopPoll, StopKill, StopWait, Waited
  <2>3. QED
    BY <1>0, <2>1, <2>2 DEF TypeOK
<1>9. QED
  BY <1>1, <1>2, <1>3, <1>4, <1>5, <1>6, <1>7, <1>8 DEF Next, Tick

(* record_exit counts a crash only for a worker that really lived less than
   MIN_HEALTHY_UPTIME. *)
THEOREM CrashesShortLived == Spec => CrashesAreShortLives
<1>1. Init => UptimeCoversLife
  <2>1. Init => Elements(workers) = {}
    BY EmptySeq DEF Init, Elements
  <2>2. QED
    BY <2>1 DEF Init, UptimeCoversLife
<1>2. IInv /\ UptimeCoversLife /\ [Next]_vars => UptimeCoversLife'
  BY UptimeStep DEF vars, osVars, poolVars, UptimeCoversLife, Elements
<1>3. ASSUME IInv, UptimeCoversLife, Next, consecutive_crashes' > consecutive_crashes
      PROVE  \E p \in Elements(workers) :
                p \notin Elements(workers') /\ lived[p] < MinHealthyUptime
  <2>0. TypeOK /\ OneKeeper
    BY <1>3 DEF IInv
  <2>1. ~(consecutive_crashes' = consecutive_crashes)
    BY <1>3, <2>0 DEF TypeOK
  <2>2. ReapNext
    BY <1>3, <2>1 DEF Next, Tick, Advance, StartTick, ReapDone, DetachOne, Hold, Stop,
       Leave, Exit, SpawnOne, StopStep, StopBegin, StopPoll, StopKill, StopWait, poolVars
  <2> DEFINE p == workers[cursor]
  <2>3. os[p] = "zombie"
    BY <2>1, <2>2 DEF ReapNext
  <2>4. workers' = Without(workers, cursor) /\ RecordExit(uptime[p] < MinHealthyUptime)
    BY <2>2, <2>3 DEF ReapNext
  <2>5. workers \in Seq(Pid) /\ cursor \in 1..Len(workers) /\ p \in Pid
    BY <2>0, <2>2, ElementOfSeq, LenProperties DEF TypeOK, ReapNext
  <2>6. p \in Elements(workers) /\ p \notin Elements(workers')
    BY <2>0, <2>4, <2>5, WithoutFacts DEF OneKeeper, Injective, Elements
  <2>7. uptime[p] < MinHealthyUptime
    BY <1>3, <2>0, <2>4 DEF RecordExit, TypeOK, CrashCap
  <2>8. lived[p] <= uptime[p]
    BY <1>3, <2>5, <2>6 DEF UptimeCoversLife
  <2>9. lived[p] < MinHealthyUptime
    BY <2>0, <2>5, <2>7, <2>8, TimingAssumption DEF TypeOK
  <2>10. QED
    BY <2>6, <2>9
<1>4. IInv /\ UptimeCoversLife /\ [Next]_vars =>
        [consecutive_crashes' > consecutive_crashes =>
            \E p \in Elements(workers) :
               /\ p \notin Elements(workers')
               /\ lived[p] < MinHealthyUptime]_vars
  BY <1>3
<1>5. QED
  BY <1>1, <1>2, <1>4, Invariance, PTL DEF Spec, CrashesAreShortLives

-----------------------------------------------------------------------------
(* The pool implements Custody *)

(* Whatever the order of exits, polls, kills, reaps and hand-overs, each step of the
   pool is a step of Custody or leaves custody alone. *)
LEMMA CustodyStep ==
  ASSUME IInv, IInv', Next
  PROVE  [Promise!Next]_(Promise!vars)
<1> DEFINE child  == [p \in Pid |-> ChildOf(p)]
           keeper == [p \in Pid |-> KeeperOf(p)]
<1> USE DEF Promise!vars
<1>0. TypeOK /\ OneKeeper /\ workers \in Seq(Pid) /\ Elements(workers) \subseteq Pid
  BY ElementsSubset DEF IInv, TypeOK
<1>a. ASSUME UNCHANGED <<os, workers, stopper>>, UNCHANGED DaemonState
      PROVE  UNCHANGED Promise!vars
  BY <1>a DEF ChildOf, KeeperOf, Elements
<1>1. CASE Advance \/ StartTick \/ ReapDone \/ Hold
  <2>1. UNCHANGED <<os, workers, stopper>>
    BY <1>1 DEF Advance, StartTick, ReapDone, Hold, osVars, poolVars, stopVars
  <2>2. UNCHANGED DaemonState
    BY <1>1 DEF Advance, StartTick, ReapDone, Hold, GoToSleep, DaemonState
  <2>3. QED
    BY <1>a, <2>1, <2>2
<1>2. ASSUME NEW p \in Pid, os[p] # "free", os' = [os EXCEPT ![p] = "zombie"],
             UNCHANGED workers, UNCHANGED phase,
             \A q \in Pid : stopper'[q] = "idle" <=> stopper[q] = "idle"
      PROVE  Promise!End(p) \/ UNCHANGED Promise!vars
  <2>1. keeper' = keeper /\ DaemonState' = DaemonState
    BY <1>2 DEF KeeperOf, Elements, DaemonState
  <2>2. CASE os[p] = "running"
    <3>1. child' = [child EXCEPT ![p] = "exited"] /\ child[p] = "running"
      BY <1>0, <1>2, <2>2 DEF ChildOf, TypeOK
    <3>2. QED
      BY <2>1, <3>1 DEF Promise!End
  <2>3. CASE os[p] = "zombie"
    <3>1. child' = child
      BY <1>0, <1>2, <2>3 DEF ChildOf, TypeOK
    <3>2. QED
      BY <2>1, <3>1
  <2>4. QED
    BY <1>0, <1>2, <2>2, <2>3 DEF TypeOK
<1>3. ASSUME NEW p \in Pid, os[p] = "zombie", os' = [os EXCEPT ![p] = "free"],
             KeeperOf(p) # "nobody", keeper' = [keeper EXCEPT ![p] = "nobody"],
             UNCHANGED phase
      PROVE  Promise!Wait(p)
  <2>1. child' = [child EXCEPT ![p] = "none"] /\ child[p] = "exited"
    BY <1>0, <1>3 DEF ChildOf, TypeOK
  <2>2. DaemonState' = DaemonState
    BY <1>3 DEF DaemonState
  <2>3. QED
    BY <1>3, <2>1, <2>2 DEF Promise!Wait
<1>4. CASE ReapNext
  <2> DEFINE p == workers[cursor]
  <2>1. cursor \in 1..Len(workers) /\ p \in Pid
    BY <1>0, <1>4, ElementOfSeq, LenProperties DEF TypeOK, ReapNext
  <2>2. CASE os[p] = "zombie"
    <3>1. /\ os' = [os EXCEPT ![p] = "free"]
          /\ workers' = Without(workers, cursor)
          /\ UNCHANGED <<stopper, phase>>
      BY <1>4, <2>2 DEF ReapNext, Waited, stopVars
    <3>2. /\ Elements(workers') \subseteq Elements(workers)
          /\ Elements(workers) \subseteq Elements(workers') \union {p}
          /\ p \notin Elements(workers')
          /\ p \in Elements(workers)
      <4>1. Injective(workers)
        BY <1>0 DEF OneKeeper, Injective
      <4>2. p \in Elements(workers)
        BY <2>1 DEF Elements
      <4>3. QED
        BY <1>0, <2>1, <3>1, <4>1, <4>2, WithoutFacts
    <3> HIDE DEF p
    <3>3. keeper' = [keeper EXCEPT ![p] = "nobody"] /\ KeeperOf(p) # "nobody"
      BY <1>0, <2>1, <3>1, <3>2 DEF KeeperOf, OneKeeper
    <3>4. Promise!Wait(p)
      BY <1>3, <2>1, <2>2, <3>1, <3>3
    <3>5. QED
      BY <2>1, <3>4 DEF Promise!Next
  <2>3. CASE os[p] # "zombie"
    BY <1>4, <1>a, <2>3 DEF ReapNext, osVars, stopVars, DaemonState
  <2>4. QED
    BY <2>2, <2>3
<1>5. CASE DetachOne
  <2> DEFINE p == workers[Len(workers)]
  <2>1. /\ workers' = Without(workers, Len(workers))
        /\ stopper' = [stopper EXCEPT ![p] = "begin"]
        /\ UNCHANGED os
        /\ phase = "act" /\ phase' = "sleep"
    BY <1>5 DEF DetachOne, GoToSleep, osVars
  <2>2. Len(workers) \in 1..Len(workers)
    BY <1>0, <1>5, EmptySeq DEF DetachOne
  <2>3. p \in Pid /\ p \in Elements(workers)
    BY <1>0, <2>2, ElementOfSeq DEF Elements
  <2>4. /\ Elements(workers') \subseteq Elements(workers)
        /\ Elements(workers) \subseteq Elements(workers') \union {p}
        /\ p \notin Elements(workers')
    BY <1>0, <2>1, <2>2, WithoutFacts DEF OneKeeper, Injective
  <2> HIDE DEF p
  <2>5. keeper' = [keeper EXCEPT ![p] = "drain"] /\ keeper[p] = "pool"
    BY <1>0, <2>1, <2>3, <2>4 DEF KeeperOf, TypeOK
  <2>6. child' = child /\ DaemonState = "up" /\ DaemonState' = "up"
    BY <2>1 DEF ChildOf, DaemonState
  <2>7. Promise!Detach(p)
    BY <2>3, <2>5, <2>6 DEF Promise!Detach
  <2>8. QED
    BY <2>3, <2>7 DEF Promise!Next
<1>6. CASE Stop
  <2>1. /\ \A p \in Pid : stopper'[p] = (IF p \in Elements(workers) THEN "begin" ELSE stopper[p])
        /\ Elements(workers') = {}
    BY <1>0, <1>6, EmptySeq DEF Stop, Elements, TypeOK
  <2>2. child' = child /\ DaemonState = "up" /\ DaemonState' = "leaving"
    BY <1>6 DEF Stop, osVars, ChildOf, DaemonState
  <2>3. keeper' = [p \in Pid |-> IF keeper[p] = "pool" THEN "drain" ELSE keeper[p]]
    BY <1>0, <2>1 DEF KeeperOf, OneKeeper
  <2>4. Promise!StopAll
    BY <2>2, <2>3 DEF Promise!StopAll
  <2>5. QED
    BY <2>4 DEF Promise!Next
<1>7. CASE Leave
  <2>1. Elements(workers) = {} /\ Elements(workers') = {}
    BY <1>7, EmptySeq DEF Leave, poolVars, IInv, Emptied, Elements
  <2>2. child' = child /\ DaemonState = "leaving" /\ DaemonState' = "down"
    BY <1>7 DEF Leave, osVars, ChildOf, DaemonState
  <2>3. keeper' = [p \in Pid |-> "nobody"]
    BY <1>7, <2>1 DEF Leave, KeeperOf
  <2>4. Promise!Quit
    BY <2>2, <2>3 DEF Promise!Quit
  <2>5. QED
    BY <2>4 DEF Promise!Next
<1>8. ASSUME NEW p \in Pid, Exit(p)
      PROVE  Promise!Next \/ UNCHANGED Promise!vars
  <2>1. Promise!End(p) \/ UNCHANGED Promise!vars
    BY <1>2, <1>8 DEF Exit, poolVars, stopVars, loopVars
  <2>2. QED
    BY <2>1 DEF Promise!Next
<1>9. ASSUME NEW p \in Pid, SpawnOne(p)
      PROVE  Promise!Next
  <2>1. Elements(workers') = Elements(workers) \union {p}
    BY <1>0, <1>9, AppendFacts DEF SpawnOne
  <2>2. child' = [child EXCEPT ![p] = "running"] /\ child[p] = "none"
    BY <1>0, <1>9 DEF SpawnOne, Occupied, ChildOf, TypeOK
  <2>3. keeper' = [keeper EXCEPT ![p] = "pool"]
    BY <1>9, <2>1 DEF SpawnOne, stopVars, KeeperOf
  <2>4. DaemonState = "up" /\ DaemonState' = "up"
    BY <1>9 DEF SpawnOne, GoToSleep, DaemonState
  <2>5. Promise!Start(p)
    BY <2>2, <2>3, <2>4 DEF Promise!Start
  <2>6. QED
    BY <2>5 DEF Promise!Next
<1>10. ASSUME NEW p \in Pid, StopStep(p)
       PROVE  Promise!Next \/ UNCHANGED Promise!vars
  <2>0. stopper[p] # "idle" /\ Occupied(p) /\ UNCHANGED <<workers, phase>>
    BY <1>0, <1>10 DEF StopStep, StopBegin, StopPoll, StopKill, StopWait, poolVars,
                     loopVars, OneKeeper
  <2>1. CASE os[p] = "zombie" /\ Waited(p) /\ stopper' = [stopper EXCEPT ![p] = "idle"]
    <3>1. keeper' = [keeper EXCEPT ![p] = "nobody"] /\ KeeperOf(p) # "nobody"
      <4>1. Elements(workers') = Elements(workers) /\ p \notin Elements(workers)
        BY <1>0, <2>0 DEF OneKeeper, Elements
      <4>2. \A q \in Pid : stopper'[q] = IF q = p THEN "idle" ELSE stopper[q]
        BY <1>0, <2>1 DEF TypeOK
      <4>3. QED
        BY <2>0, <4>1, <4>2 DEF KeeperOf
    <3>2. Promise!Wait(p)
      BY <1>3, <2>0, <2>1, <3>1 DEF Waited
    <3>3. QED
      BY <3>2 DEF Promise!Next
  <2>2. CASE StopBegin(p) /\ os[p] = "running"
    <3>1. /\ UNCHANGED <<os, workers, phase>>
          /\ \A q \in Pid : stopper'[q] = "idle" <=> stopper[q] = "idle"
      BY <1>0, <2>2 DEF StopBegin, poolVars, loopVars, TypeOK
    <3>2. keeper' = keeper /\ child' = child /\ DaemonState' = DaemonState
      BY <3>1 DEF KeeperOf, ChildOf, Elements, DaemonState
    <3>3. QED
      BY <3>2
  <2>3. CASE StopKill(p)
    <3>1. \A q \in Pid : stopper'[q] = "idle" <=> stopper[q] = "idle"
      BY <1>0, <2>3 DEF StopKill, TypeOK
    <3>2. Promise!End(p) \/ UNCHANGED Promise!vars
      BY <1>2, <2>0, <2>3, <3>1 DEF StopKill, Occupied
    <3>3. QED
      BY <3>2 DEF Promise!Next
  <2>4. QED
    BY <1>10, <2>1, <2>2, <2>3 DEF StopStep, StopBegin, StopPoll, StopWait
<1>11. QED
  BY <1>1, <1>4, <1>5, <1>6, <1>7, <1>8, <1>9, <1>10 DEF Next, Tick

(* The pool implements Custody for every set of pids and every timing. *)
THEOREM ImplementsCustody == Spec => KeepsCustody
<1>1. Init => Promise!Init
  <2>1. Init => Elements(workers) = {}
    BY EmptySeq DEF Init, Elements
  <2>2. QED
    BY <2>1 DEF Init, Promise!Init, ChildOf, KeeperOf, DaemonState
<1>2. ASSUME IInv, IInv', [Next]_vars
      PROVE  [Promise!Next]_(Promise!vars)
  <2>1. CASE Next
    BY <1>2, <2>1, CustodyStep
  <2>2. CASE UNCHANGED vars
    BY <2>2 DEF vars, osVars, poolVars, stopVars, loopVars, Promise!vars, ChildOf,
                KeeperOf, Elements, DaemonState
  <2>3. QED
    BY <1>2, <2>1, <2>2
<1>3. QED
  BY <1>1, <1>2, Invariance, PTL DEF Spec, KeepsCustody, Promise!Spec

-----------------------------------------------------------------------------
(* Why a stop comes to its end *)

(* What another actor may do to a stop under way, or to a pid nobody stops. *)
LEMMA StopsByItself ==
  ASSUME IInv, [Next]_vars, NEW q \in Pid
  PROVE  /\ stopper[q] = "idle" => stopper'[q] \in {"idle", "begin"}
         /\ stopper[q] # "idle" =>
               \/ /\ stopper'[q] = stopper[q]
                  /\ left'[q] = left[q] \/ (Advance /\ left'[q] = CountDown(left[q]))
                  /\ os'[q] = os[q] \/ os'[q] = "zombie"
                  /\ ~StopStep(q)
               \/ StopStep(q)
               \/ Leave /\ stopper'[q] = "idle"
<1> USE DEF IInv
<1>1. /\ stopper \in [Pid -> {"idle", "begin", "poll", "wait"}]
      /\ left \in [Pid -> 0..DrainTimeout]
      /\ os \in [Pid -> {"free", "running", "zombie"}]
      /\ workers \in Seq(Pid) /\ Elements(workers) \subseteq Pid
  BY ElementsSubset DEF TypeOK
<1>2. /\ q \in Elements(workers) => stopper[q] = "idle"
      /\ stopper[q] # "idle" => Occupied(q)
  BY DEF OneKeeper
<1>3. CASE UNCHANGED <<stopper, left>> /\ (os'[q] = os[q] \/ os'[q] = "zombie")
  BY <1>3
<1>4. CASE Advance
  <2>1. UNCHANGED <<stopper, os>> /\ left'[q] = CountDown(left[q])
    BY <1>4 DEF Advance
  <2>2. QED
    BY <1>4, <2>1
<1>5. CASE StartTick \/ ReapDone \/ Hold
  BY <1>3, <1>5 DEF StartTick, ReapDone, Hold, GoToSleep, osVars, stopVars
<1>6. CASE ReapNext
  <2> DEFINE p == workers[cursor]
  <2>1. UNCHANGED <<stopper, left>> /\ (os' = os \/ os' = [os EXCEPT ![p] = "free"])
    BY <1>6 DEF ReapNext, Waited, osVars, stopVars
  <2>2. workers[cursor] \in Elements(workers)
    <3>1. Len(workers) \in Nat /\ cursor \in Nat \ {0} /\ cursor <= Len(workers)
      BY <1>1, <1>6, LenProperties DEF ReapNext, TypeOK
    <3>2. cursor \in 1..Len(workers)
      BY <3>1
    <3>3. QED
      BY <3>2 DEF Elements
  <2>3. stopper[q] # "idle" => os'[q] = os[q]
    BY <1>1, <1>2, <2>1, <2>2
  <2>4. QED
    BY <2>1, <2>3
<1>7. CASE DetachOne
  <2> DEFINE p == workers[Len(workers)]
  <2>1. stopper' = [stopper EXCEPT ![p] = "begin"] /\ UNCHANGED <<left, os>>
    BY <1>7 DEF DetachOne, osVars
  <2>2. p \in Elements(workers)
    <3>1. Len(workers) \in Nat \ {0}
      BY <1>1, <1>7, EmptySeq DEF DetachOne
    <3>2. QED
      BY <3>1 DEF Elements
  <2>3. stopper'[q] = IF q = p THEN "begin" ELSE stopper[q]
    BY <1>1, <2>1
  <2>4. QED
    BY <1>2, <2>1, <2>2, <2>3
<1>8. CASE Stop
  <2>1. UNCHANGED <<left, os>>
    BY <1>8 DEF Stop, osVars
  <2>2. stopper' = stopper \/ stopper'[q] = IF q \in Elements(workers) THEN "begin" ELSE stopper[q]
    BY <1>8 DEF Stop
  <2>3. QED
    BY <1>2, <2>1, <2>2
<1>9. CASE Leave
  BY <1>9 DEF Leave
<1>10. ASSUME NEW p \in Pid, Exit(p) PROVE UNCHANGED <<stopper, left>> /\ (os'[q] = os[q] \/ os'[q] = "zombie")
  BY <1>1, <1>10 DEF Exit, stopVars
<1>11. ASSUME NEW p \in Pid, SpawnOne(p)
       PROVE  UNCHANGED <<stopper, left>> /\ (stopper[q] # "idle" => os'[q] = os[q])
  <2>1. os' = [os EXCEPT ![p] = "running"] /\ ~Occupied(p) /\ UNCHANGED <<stopper, left>>
    BY <1>11 DEF SpawnOne, stopVars
  <2>2. QED
    BY <1>1, <1>2, <2>1 DEF Occupied
<1>12. ASSUME NEW p \in Pid, StopStep(p), p # q
       PROVE  stopper'[q] = stopper[q] /\ left'[q] = left[q] /\ os'[q] = os[q]
  BY <1>1, <1>12 DEF StopStep, StopBegin, StopPoll, StopKill, StopWait, Waited
<1>13. stopper[q] = "idle" => ~StopStep(q)
  BY DEF StopStep, StopBegin, StopPoll, StopKill, StopWait
<1>14. CASE UNCHANGED vars
  BY <1>3, <1>14 DEF vars, osVars, stopVars
<1>15. ASSUME NEW p \in Pid, Exit(p) \/ SpawnOne(p) \/ StopStep(p)
       PROVE  /\ stopper[q] = "idle" => stopper'[q] \in {"idle", "begin"}
              /\ stopper[q] # "idle" =>
                    \/ /\ stopper'[q] = stopper[q] /\ left'[q] = left[q]
                       /\ os'[q] = os[q] \/ os'[q] = "zombie"
                    \/ StopStep(q)
  BY <1>10, <1>11, <1>12, <1>13, <1>15
<1>16. QED
  BY <1>4, <1>5, <1>6, <1>7, <1>8, <1>9, <1>14, <1>15 DEF Next, Tick

(* A stop that waits for its child waits for one that has exited: request_stop's last
   child.wait() (worker.rs:122) blocks nobody, as long as SIGKILL arrives. *)
WaitsForTheDead == \A p \in Pid : stopper[p] = "wait" => os[p] = "zombie"

THEOREM WaitIsShort == Spec => []WaitsForTheDead
<1>1. Init => WaitsForTheDead
  BY DEF Init, WaitsForTheDead
<1>2. ASSUME IInv, WaitsForTheDead, [Next]_vars PROVE WaitsForTheDead'
  <2> SUFFICES ASSUME NEW p \in Pid, stopper'[p] = "wait" PROVE os'[p] = "zombie"
    BY DEF WaitsForTheDead
  <2>1. CASE StopStep(p)
    BY <1>2, <2>1 DEF StopStep, StopBegin, StopPoll, StopKill, StopWait, IInv, TypeOK
  <2>2. CASE stopper'[p] = stopper[p] /\ (os'[p] = os[p] \/ os'[p] = "zombie")
    BY <1>2, <2>2 DEF WaitsForTheDead
  <2>3. QED
    BY <1>2, <2>1, <2>2, StopsByItself
<1>3. QED
  BY <1>1, <1>2, Invariance, PTL DEF Spec

(* The steps, and the time, a stop may still take. *)
StopRank(p) ==
  CASE stopper[p] = "begin" -> DrainTimeout + 3
    [] stopper[p] = "poll"  -> left[p] + 2
    [] stopper[p] = "wait"  -> 1
    [] stopper[p] = "idle"  -> 0

(* A stop under way only ever comes nearer to its end: each of its own steps and, until
   its deadline, each unit of time brings it there, and nothing sets it back.  What
   DrainCompletes adds is that its task is run and time passes. *)
THEOREM StopsRunDown ==
  Spec => [][\A p \in Pid : stopper[p] # "idle" =>
                /\ StopRank(p) \in Nat
                /\ StopRank(p)' <= StopRank(p)
                /\ StopStep(p) \/ (Advance /\ stopper[p] = "poll" /\ left[p] > 0) =>
                      StopRank(p)' < StopRank(p)]_vars
<1>1. ASSUME IInv, [Next]_vars, NEW p \in Pid, stopper[p] # "idle"
      PROVE  /\ StopRank(p) \in Nat
             /\ StopRank(p)' <= StopRank(p)
             /\ StopStep(p) \/ (Advance /\ stopper[p] = "poll" /\ left[p] > 0) =>
                   StopRank(p)' < StopRank(p)
  <2>1. /\ stopper \in [Pid -> {"idle", "begin", "poll", "wait"}]
        /\ left \in [Pid -> 0..DrainTimeout] /\ DrainTimeout \in Nat
    BY <1>1, TimingAssumption DEF IInv, TypeOK
  <2>2. /\ stopper[p] \in {"begin", "poll", "wait"}
        /\ left[p] \in Nat /\ left[p] <= DrainTimeout
    BY <1>1, <2>1
  <2>3. StopRank(p) \in Nat
    BY <2>1, <2>2 DEF StopRank
  <2>4. ASSUME StopStep(p) PROVE StopRank(p)' \in Nat /\ StopRank(p)' < StopRank(p)
    <3>1. \/ stopper'[p] = "idle"
          \/ stopper[p] = "begin" /\ stopper'[p] = "poll" /\ left'[p] = DrainTimeout
          \/ stopper[p] = "poll" /\ stopper'[p] = "wait"
      BY <2>1, <2>4 DEF StopStep, StopBegin, StopPoll, StopKill, StopWait
    <3>2. QED
      BY <2>1, <2>2, <3>1 DEF StopRank
  <2>5. ASSUME Advance
        PROVE  /\ StopRank(p)' <= StopRank(p)
               /\ stopper[p] = "poll" /\ left[p] > 0 => StopRank(p)' < StopRank(p)
    <3>1. stopper'[p] = stopper[p] /\ left'[p] = IF left[p] > 0 THEN left[p] - 1 ELSE 0
      BY <2>5 DEF Advance, CountDown
    <3>2. QED
      BY <2>1, <2>2, <3>1 DEF StopRank
  <2>6. CASE stopper'[p] = stopper[p] /\ left'[p] = left[p] /\ ~Advance /\ ~StopStep(p)
    <3>1. StopRank(p)' = StopRank(p)
      BY <2>6 DEF StopRank
    <3>2. QED
      BY <2>3, <2>6, <3>1
  <2>7. CASE stopper'[p] = "idle" /\ ~Advance
    <3>1. StopRank(p)' = 0 /\ StopRank(p) > 0
      BY <2>1, <2>2, <2>7 DEF StopRank
    <3>2. QED
      BY <2>3, <2>7, <3>1
  <2>8. ~(StopStep(p) /\ Advance) /\ (Leave => ~Advance)
    BY <1>1, <2>1 DEF StopStep, StopBegin, StopPoll, StopKill, StopWait, Advance, Leave
  <2>9. CASE StopStep(p)
    BY <2>3, <2>4, <2>8, <2>9
  <2>10. QED
    BY <1>1, <2>3, <2>5, <2>6, <2>7, <2>8, <2>9, StopsByItself
<1>2. ASSUME IInv, [Next]_vars
      PROVE  \A p \in Pid : stopper[p] # "idle" =>
                /\ StopRank(p) \in Nat
                /\ StopRank(p)' <= StopRank(p)
                /\ StopStep(p) \/ (Advance /\ stopper[p] = "poll" /\ left[p] > 0) =>
                      StopRank(p)' < StopRank(p)
  BY <1>1, <1>2
<1>3. QED
  BY <1>2, Invariance, PTL DEF Spec

=============================================================================
