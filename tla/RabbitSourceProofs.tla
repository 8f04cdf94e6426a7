------------------------- MODULE RabbitSourceProofs --------------------------
(***************************************************************************)
(* Proofs about RabbitSource, for every back-off and however the broker,    *)
(* the queue and the management API come and go.                            *)
(***************************************************************************)
EXTENDS RabbitSource, TLAPS

LEMMA BackoffFacts ==
    ASSUME NEW n \in Nat
    PROVE  /\ BackoffFor(n) \in 0..MaxBackoff
           /\ n < FailuresBeforeBackoff => BackoffFor(n) = 0
<1>1. CASE n < FailuresBeforeBackoff
  BY <1>1, BackoffAssumption DEF BackoffFor
<1>2. CASE n >= FailuresBeforeBackoff
  <2> DEFINE e == Lower(n - FailuresBeforeBackoff, MaxShift)
  <2>1. e \in 0..6
    BY <1>2, BackoffAssumption DEF Lower
  <2>2. e = 0 \/ e = 1 \/ e = 2 \/ e = 3 \/ e = 4 \/ e = 5 \/ e = 6
    BY <2>1
  <2> HIDE DEF e
  <2>3. PowersOfTwo[e + 1] \in Nat
    BY <2>2 DEF PowersOfTwo
  <2>4. BackoffFor(n) = Lower(PowersOfTwo[e + 1], MaxBackoff)
    BY <1>2, BackoffAssumption DEF BackoffFor, e
  <2>5. QED
    BY <1>2, <2>3, <2>4, BackoffAssumption DEF Lower
<1>3. QED
  BY <1>1, <1>2, BackoffAssumption

(* A dead handle costs one failed read: what the handles still have in store. *)
Pending == IF channel = "dead" THEN 2 ELSE IF conn = "dead" THEN 1 ELSE 0

(* The inductive invariant.  TwoMissesAtMost alone is not inductive: which failures
   are still to come is written in the handles, and that the network is not to blame
   for one in `steady`. *)
IInv ==
    /\ TypeOK
    /\ HandlesFit
    /\ channel = "dead" => conn = "dead"
    /\ BackoffFollowsFailures
    /\ pc = "stats" => management_backoff = 0
    /\ steady => server /\ queue
    /\ missed + Pending <= 2

LEMMA Initially == Init => IInv
<1> SUFFICES ASSUME Init PROVE IInv
  OBVIOUS
<1>1. TypeOK
  <2>1. FailureCap \in Nat /\ MaxBackoff \in Nat
    BY BackoffAssumption DEF FailureCap
  <2>2. /\ management_failures \in 0..FailureCap /\ management_backoff \in 0..MaxBackoff
        /\ missed \in 0..MissCap
    BY <2>1 DEF Init, MissCap
  <2>3. QED
    BY <2>2, Zenon DEF Init, TypeOK
<1>2. HandlesFit /\ BackoffFollowsFailures /\ missed + Pending <= 2
  BY DEF Init, HandlesFit, BackoffFollowsFailures, Pending
<1>3. QED
  BY <1>1, <1>2 DEF Init, IInv

LEMMA ReadStep ==
    ASSUME IInv, Read
    PROVE  IInv'
<1> USE DEF IInv, TypeOK, HandlesFit, BackoffFollowsFailures, Pending, MissCap
<1>1. CASE Begin
  BY <1>1, BackoffAssumption, BackoffFacts DEF Begin, handles, world, FailureCap
<1>2. CASE StatsAnswered
  BY <1>2, BackoffAssumption DEF StatsAnswered, handles, world, FailureCap
<1>3. CASE StatsFailed
  <2>1. /\ management_failures' \in 0..FailureCap
        /\ management_backoff' \in 0..MaxBackoff
        /\ management_backoff' > 0 => management_failures' >= FailuresBeforeBackoff
        /\ management_backoff' = BackoffFor(management_failures')
    <3>1. management_failures' \in 0..FailureCap
      BY <1>3, BackoffAssumption DEF StatsFailed, Lower, FailureCap
    <3>2. management_backoff' = BackoffFor(management_failures')
      BY <1>3 DEF StatsFailed
    <3>3. management_failures' \in Nat
      BY <3>1, BackoffAssumption DEF FailureCap
    <3>4. QED
      BY <3>1, <3>2, <3>3, BackoffFacts, BackoffAssumption
  <2>2. management_backoff' <= BackoffFor(management_failures')
    BY <2>1, BackoffAssumption
  <2>3. BackoffFollowsFailures'
    BY <2>1, <2>2
  <2>4. QED
    BY <1>3, <2>1, <2>3 DEF StatsFailed, handles, world
<1>4. CASE EnsureChannel
  BY <1>4 DEF EnsureChannel, handles, backing, world
<1>5. CASE Connect
  <2>1. CASE server
    <3>1. /\ pc = "connect" /\ conn' = "open" /\ pc' = "create"
          /\ UNCHANGED <<result, missed, channel, backing, world, steady>>
      BY <1>5, <2>1, Zenon DEF Connect
    <3>2. QED
      BY <3>1 DEF backing, world
  <2>2. CASE ~server
    <3>1. ~steady
      BY <2>2
    <3>2. missed' = missed /\ pc' = "idle" /\ result' = "error"
      BY <1>5, <2>2, <3>1 DEF Connect, Fail
    <3>3. UNCHANGED <<handles, backing, world, steady>>
      BY <1>5, <2>2 DEF Connect, handles
    <3>4. QED
      BY <3>2, <3>3 DEF handles, backing, world
  <2>3. QED
    BY <2>1, <2>2
<1>6. CASE CreateChannel
  BY <1>6 DEF CreateChannel, Fail, Lower, backing, world
<1>7. CASE Declare
  BY <1>7 DEF Declare, Fail, Lower, backing, world
<1>8. QED
  BY <1>1, <1>2, <1>3, <1>4, <1>5, <1>6, <1>7 DEF Read

LEMMA WorldStep ==
    ASSUME IInv, BrokerStops \/ BrokerStarts \/ QueueChanges \/ ApiChanges
    PROVE  IInv'
<1> USE DEF IInv, TypeOK, HandlesFit, BackoffFollowsFailures, Pending, MissCap
<1>1. CASE BrokerStops
  <2>1. /\ server' = FALSE /\ steady' = FALSE /\ missed' = 0
        /\ UNCHANGED <<pc, management_failures, management_backoff, result, api, queue>>
    BY <1>1, Zenon DEF BrokerStops, backing
  <2>2. /\ conn' \in {"none", "dead"} /\ channel' \in {"none", "dead"}
        /\ conn' = "none" <=> conn = "none"
        /\ channel' = "none" <=> channel = "none"
    BY <1>1 DEF BrokerStops, Broken
  <2>3. HandlesFit' /\ (channel' = "dead" => conn' = "dead") /\ BackoffFollowsFailures'
    BY <2>1, <2>2
  <2>4. missed' + Pending' <= 2 /\ missed' \in 0..MissCap
    BY <2>1
  <2>5. TypeOK'
    BY <2>1, <2>2, <2>4, Zenon
  <2>6. QED
    BY <2>1, <2>3, <2>4, <2>5, Zenon
<1>2. CASE BrokerStarts
  BY <1>2 DEF BrokerStarts, handles, backing
<1>3. CASE QueueChanges
  <2>1. /\ steady' = FALSE /\ missed' = 0 /\ queue' = ~queue
        /\ UNCHANGED <<pc, conn, channel, management_failures, management_backoff, result,
                       api, server>>
    BY <1>3, Zenon DEF QueueChanges, handles, backing
  <2>2. HandlesFit' /\ (channel' = "dead" => conn' = "dead") /\ BackoffFollowsFailures'
    BY <2>1
  <2>3. missed' + Pending' <= 2 /\ missed' \in 0..MissCap
    BY <2>1
  <2>4. queue' \in BOOLEAN /\ steady' \in BOOLEAN
    BY <2>1
  <2>5. TypeOK'
    BY <2>1, <2>3, <2>4, Zenon
  <2>6. QED
    BY <2>1, <2>2, <2>3, <2>5, Zenon
<1>4. CASE ApiChanges
  BY <1>4 DEF ApiChanges, handles, backing
<1>5. QED
  BY <1>1, <1>2, <1>3, <1>4

LEMMA Invariance == Spec => []IInv
<1>1. IInv /\ [Next]_vars => IInv'
  <2> SUFFICES ASSUME IInv, [Next]_vars PROVE IInv'
    OBVIOUS
  <2>1. CASE Read
    BY <2>1, ReadStep
  <2>2. CASE BrokerStops \/ BrokerStarts \/ QueueChanges \/ ApiChanges
    BY <2>2, WorldStep
  <2>3. CASE UNCHANGED vars
    BY <2>3
    DEF vars, handles, backing, world, IInv, TypeOK, HandlesFit, BackoffFollowsFailures,
        Pending
  <2>4. QED
    BY <2>1, <2>2, <2>3 DEF Next
<1>2. QED
  BY <1>1, Initially, PTL DEF Spec

(* Every field of RabbitSource keeps its range, management_backoff below
   MANAGEMENT_MAX_BACKOFF whatever the failure count. *)
THEOREM TypeCorrect == Spec => []TypeOK
<1>1. IInv => TypeOK
  BY DEF IInv
<1>2. QED
  BY <1>1, Invariance, PTL

(* ensure_channel never runs into a missing connection, and no open channel is left
   on a connection that is gone. *)
THEOREM HandlesAlwaysFit == Spec => []HandlesFit
<1>1. IInv => HandlesFit
  BY DEF IInv
<1>2. QED
  BY <1>1, Invariance, PTL

(* read_management skips the API only as long as its failures in a row have earned. *)
THEOREM BackoffEarned == Spec => []BackoffFollowsFailures
<1>1. IInv => BackoffFollowsFailures
  BY DEF IInv
<1>2. QED
  BY <1>1, Invariance, PTL

(* With broker and queue back, queue_depth fails at most twice more. *)
THEOREM AtMostTwoMisses == Spec => []TwoMissesAtMost
<1>1. IInv => TwoMissesAtMost
  BY DEF IInv, TypeOK, TwoMissesAtMost, Pending, MissCap
<1>2. QED
  BY <1>1, Invariance, PTL

=============================================================================
