---------------------------- MODULE RabbitSource -----------------------------
(***************************************************************************)
(* The source of one queue's depth (src/rabbitmq_connector.rs): the         *)
(* management API with its back-off, and the AMQP connection it degrades to *)
(* with its channel, both reopened as errors show that they are gone.       *)
(*                                                                          *)
(* A read awaits the network between its steps, and there the broker, the   *)
(* API and the queue come and go.  A handle the source holds (conn,         *)
(* channel) may be dead without the source knowing.                         *)
(***************************************************************************)
EXTENDS Integers

CONSTANTS
    HasManagement,    \* a management client is configured
    FailuresBeforeBackoff, \* MANAGEMENT_FAILURES_BEFORE_BACKOFF
    MaxBackoff,       \* MANAGEMENT_MAX_BACKOFF, in reads
    MaxShift          \* the cap of the back-off's exponent, 6 in the code

ASSUME BackoffAssumption ==
    /\ HasManagement \in BOOLEAN
    /\ FailuresBeforeBackoff \in Nat \ {0}
    /\ MaxBackoff \in Nat \ {0}
    /\ MaxShift \in 0..6

VARIABLES
    pc,        \* where the read stands; "idle": none is running
    conn,      \* the connection held: "none", "open" or "dead"
    channel,   \* the channel held: "none", "open" or "dead"
    management_failures,
    management_backoff,
    result,    \* how the last read ended
    api,       \* the management API answers
    server,    \* the broker accepts and keeps connections
    queue,     \* the queue exists
    steady,    \* broker and queue have been there since the running read began
    missed     \* reads that failed in a row although the broker and the queue were there

handles == <<conn, channel>>
backing == <<management_failures, management_backoff>>
world   == <<api, server, queue>>
vars    == <<pc, handles, backing, result, world, steady, missed>>

-----------------------------------------------------------------------------
Lower(a, b) == IF a <= b THEN a ELSE b

PowersOfTwo == <<1, 2, 4, 8, 16, 32, 64>>

(* Failures beyond the exponent's cap change nothing any more. *)
FailureCap == FailuresBeforeBackoff + MaxShift

(* More than this many misses are not told apart (bound of the counter). *)
MissCap == 4

(* Mutant: the exponent's cap is the only one. *)
BackoffUncapped(failures) ==
    IF failures < FailuresBeforeBackoff THEN 0
    ELSE PowersOfTwo[Lower(failures - FailuresBeforeBackoff, MaxShift) + 1]

BackoffFor(failures) ==
    IF failures < FailuresBeforeBackoff THEN 0
    ELSE Lower(PowersOfTwo[Lower(failures - FailuresBeforeBackoff, MaxShift) + 1], MaxBackoff)

Init ==
    /\ pc = "idle"
    /\ conn = "none" /\ channel = "none"
    /\ management_failures = 0 /\ management_backoff = 0
    /\ result = "none"
    /\ api \in BOOLEAN /\ server \in BOOLEAN /\ queue \in BOOLEAN
    /\ steady = FALSE
    /\ missed = 0

-----------------------------------------------------------------------------
(* read_management *)

(* Mutant: reads that the back-off skips do not count down. *)
BeginStuck ==
    /\ pc = "idle"
    /\ pc' = IF HasManagement /\ management_backoff = 0 THEN "stats" ELSE "depth"
    /\ steady' = (server /\ queue)
    /\ UNCHANGED <<handles, backing, result, world, missed>>

(* A read begins; during the back-off it counts down and goes straight to AMQP. *)
Begin ==
    /\ pc = "idle"
    /\ pc' = IF HasManagement /\ management_backoff = 0 THEN "stats" ELSE "depth"
    /\ management_backoff' = IF HasManagement /\ management_backoff > 0
                             THEN management_backoff - 1
                             ELSE management_backoff
    /\ steady' = (server /\ queue)
    /\ UNCHANGED <<handles, management_failures, result, world, missed>>

StatsAnswered ==
    /\ pc = "stats"
    /\ api
    /\ management_failures' = 0
    /\ result' = "stats"
    /\ pc' = "idle"
    /\ UNCHANGED <<handles, management_backoff, world, steady, missed>>

(* Mutant: the back-off starts one failure early. *)
StatsFailedEarly ==
    /\ pc = "stats"
    /\ ~api
    /\ management_failures' = Lower(management_failures + 1, FailureCap)
    /\ management_backoff' = BackoffFor(management_failures' + 1)
    /\ pc' = "depth"
    /\ UNCHANGED <<handles, result, world, steady, missed>>

(* From the third failure in a row on, each arms a longer back-off. *)
StatsFailed ==
    /\ pc = "stats"
    /\ ~api
    /\ management_failures' = Lower(management_failures + 1, FailureCap)
    /\ management_backoff' = BackoffFor(management_failures')
    /\ pc' = "depth"
    /\ UNCHANGED <<handles, result, world, steady, missed>>

-----------------------------------------------------------------------------
(* queue_depth and ensure_channel *)

Fail ==
    /\ pc' = "idle"
    /\ result' = "error"
    /\ missed' = IF steady THEN Lower(missed + 1, MissCap) ELSE missed

(* Whatever handle is there is used as it is. *)
EnsureChannel ==
    /\ pc = "depth"
    /\ pc' = IF channel # "none" THEN "declare" ELSE IF conn # "none" THEN "create" ELSE "connect"
    /\ UNCHANGED <<handles, backing, result, world, steady, missed>>

Connect ==
    /\ pc = "connect"
    /\ \/ /\ server
          /\ conn' = "open"
          /\ pc' = "create"
          /\ UNCHANGED <<result, missed>>
       \/ /\ ~server
          /\ Fail
          /\ UNCHANGED conn
    /\ UNCHANGED <<channel, backing, world, steady>>

(* Mutant: a connection that cannot open a channel is kept. *)
CreateKeepsConnection ==
    /\ pc = "create"
    /\ \/ /\ conn = "open"
          /\ channel' = "open"
          /\ pc' = "declare"
          /\ UNCHANGED <<result, missed>>
       \/ /\ conn = "dead"
          /\ Fail
          /\ UNCHANGED channel
    /\ UNCHANGED <<conn, backing, world, steady>>

(* A connection that cannot open a channel is dropped. *)
CreateChannel ==
    /\ pc = "create"
    /\ \/ /\ conn = "open"
          /\ channel' = "open"
          /\ pc' = "declare"
          /\ UNCHANGED <<conn, result, missed>>
       \/ /\ conn = "dead"
          /\ conn' = "none"
          /\ Fail
          /\ UNCHANGED channel
    /\ UNCHANGED <<backing, world, steady>>

(* Mutant: the error drops the connection and keeps the channel. *)
DeclareDropsConnection ==
    /\ pc = "declare"
    /\ \/ /\ channel = "open"
          /\ queue
          /\ pc' = "idle"
          /\ result' = "depth"
          /\ missed' = 0
          /\ UNCHANGED handles
       \/ /\ channel = "dead" \/ ~queue
          /\ conn' = "none"
          /\ Fail
          /\ UNCHANGED channel
    /\ UNCHANGED <<backing, world, steady>>

(* The passive declare: its error closes the channel, so it is dropped, but only
   the next create_channel finds out whether the connection is alive. *)
Declare ==
    /\ pc = "declare"
    /\ \/ /\ channel = "open"
          /\ queue
          /\ pc' = "idle"
          /\ result' = "depth"
          /\ missed' = 0
          /\ UNCHANGED channel
       \/ /\ channel = "dead" \/ ~queue
          /\ channel' = "none"
          /\ Fail
    /\ UNCHANGED <<conn, backing, world, steady>>

-----------------------------------------------------------------------------
(* The world around: the broker and its queue come and go, and so does the API *)

Broken(handle) == IF handle = "open" THEN "dead" ELSE handle

BrokerStops ==
    /\ server
    /\ server' = FALSE
    /\ conn' = Broken(conn)
    /\ channel' = Broken(channel)
    /\ steady' = FALSE
    /\ missed' = 0
    /\ UNCHANGED <<pc, backing, result, api, queue>>

BrokerStarts ==
    /\ ~server
    /\ server' = TRUE
    /\ UNCHANGED <<pc, handles, backing, result, api, queue, steady, missed>>

QueueChanges ==
    /\ queue' = ~queue
    /\ steady' = FALSE
    /\ missed' = 0
    /\ UNCHANGED <<pc, handles, backing, result, api, server>>

ApiChanges ==
    /\ api' = ~api
    /\ UNCHANGED <<pc, handles, backing, result, server, queue, steady, missed>>

Read ==
    \/ Begin \/ StatsAnswered \/ StatsFailed
    \/ EnsureChannel \/ Connect \/ CreateChannel \/ Declare

Next == Read \/ BrokerStops \/ BrokerStarts \/ QueueChanges \/ ApiChanges

Spec == Init /\ [][Next]_vars

(* The control loop reads again and again, and every await ends. *)
FairSpec == Spec /\ WF_vars(Read)

-----------------------------------------------------------------------------
(* Properties *)

(* Every variable keeps its type; the back-off never exceeds MANAGEMENT_MAX_BACKOFF. *)
TypeOK ==
    /\ pc \in {"idle", "stats", "depth", "connect", "create", "declare"}
    /\ conn \in {"none", "open", "dead"}
    /\ channel \in {"none", "open", "dead"}
    /\ management_failures \in 0..FailureCap
    /\ management_backoff \in 0..MaxBackoff
    /\ result \in {"none", "stats", "depth", "error"}
    /\ api \in BOOLEAN /\ server \in BOOLEAN /\ queue \in BOOLEAN
    /\ steady \in BOOLEAN
    /\ missed \in 0..MissCap

(* ensure_channel's "AMQP connection missing" cannot happen, and no channel outlives
   the connection it was opened on: at every await the handles fit together. *)
HandlesFit ==
    /\ conn = "none" => channel = "none"
    /\ pc = "connect" => conn = "none"
    /\ pc = "create" => conn # "none" /\ channel = "none"
    /\ pc = "declare" => channel # "none"
    /\ channel = "open" => conn = "open"

(* The management API is only left alone after enough failures in a row, and never
   for longer than the last of them asked for. *)
BackoffFollowsFailures ==
    management_backoff > 0 =>
        /\ management_failures >= FailuresBeforeBackoff
        /\ management_backoff <= BackoffFor(management_failures)

(* However often the broker was lost before, once it and the queue are back no more
   than two reads fail in a row. *)
TwoMissesAtMost == missed <= 2

(* When the API answers for good, the source returns to it for good. *)
ReturnsToManagement == HasManagement => (<>[]api => <>[](result = "stats"))

(* When broker and queue are there for good, reads succeed from some time on. *)
ReadsRecover == <>[](server /\ queue) => <>[](result # "error")

=============================================================================
