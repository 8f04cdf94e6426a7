------------------------------ MODULE Estimator ------------------------------
(***************************************************************************)
(* The estimator of src/estimator.rs, as operators on its state `e` and on  *)
(* one control window `o` (an Observation).  Rates are integers in units of *)
(* 1/RateUnit, as in Policy; the EWMA is the one of alpha = 1, the largest  *)
(* load_all accepts, whose value is its last sample.                        *)
(***************************************************************************)
EXTENDS Policy, Sequences, Functions

CONSTANTS
    MinSamples,  \* MIN_SAMPLES
    MinSpread,   \* MIN_SPREAD
    Capacity,    \* the window's capacity
    DirectGrace  \* DIRECT_GRACE_WINDOWS

ASSUME WindowAssumption ==
    /\ MinSamples \in Nat \ {0} /\ MinSpread \in Nat \ {0}
    /\ Capacity \in Nat /\ MinSamples <= Capacity
    /\ DirectGrace \in Nat

NewEstimator ==
    [mu |-> None, lambda |-> 0, source |-> "none", last_backlog |-> None,
     window |-> <<>>, direct_stale |-> 0]

(* forget_backlog() *)
ForgetBacklog(e) == [e EXCEPT !.last_backlog = None]

-----------------------------------------------------------------------------
(* The window of samples *)

(* Mutant: windows in which workers came or went by themselves are sampled too. *)
PushInterfered(e, o) ==
    LET y    == ((o.backlog - e.last_backlog) * RateUnit) \div o.dt
        kept == IF Len(e.window) = Capacity THEN Tail(e.window) ELSE e.window
    IN  [e EXCEPT !.last_backlog = o.backlog,
                  !.window = IF e.last_backlog # None /\ o.backlog > 0
                             THEN Append(kept, [n |-> o.running, y |-> y])
                             ELSE @]

(* Mutant: room is made one sample too late. *)
PushLate(e, o) ==
    LET y    == ((o.backlog - e.last_backlog) * RateUnit) \div o.dt
        kept == IF Len(e.window) > Capacity THEN Tail(e.window) ELSE e.window
    IN  [e EXCEPT !.last_backlog = o.backlog,
                  !.window = IF e.last_backlog # None /\ ~o.interference /\ o.backlog > 0
                             THEN Append(kept, [n |-> o.running, y |-> y])
                             ELSE @]

(* A window without a baseline, with interference or ending on an empty queue says
   nothing about mu; the oldest sample makes room. *)
PushSample(e, o) ==
    LET y    == ((o.backlog - e.last_backlog) * RateUnit) \div o.dt
        kept == IF Len(e.window) = Capacity THEN Tail(e.window) ELSE e.window
    IN  [e EXCEPT !.last_backlog = o.backlog,
                  !.window = IF e.last_backlog # None /\ ~o.interference /\ o.backlog > 0
                             THEN Append(kept, [n |-> o.running, y |-> y])
                             ELSE @]

SumN(w)  == SumFunction([k \in DOMAIN w |-> w[k].n])
SumY(w)  == SumFunction([k \in DOMAIN w |-> w[k].y])
SumNN(w) == SumFunction([k \in DOMAIN w |-> w[k].n * w[k].n])
SumNY(w) == SumFunction([k \in DOMAIN w |-> w[k].n * w[k].y])

(* Mutant: the squares are not taken about the mean. *)
SpreadUncentred(w) == Len(w) * SumNN(w)

(* Sxx and Sxy, each times the number of samples. *)
Spread(w)     == Len(w) * SumNN(w) - SumN(w) * SumN(w)
Covariance(w) == Len(w) * SumNY(w) - SumN(w) * SumY(w)

(* spread() >= MIN_SPREAD *)
Identifiable(w) == Spread(w) >= MinSpread * Len(w) /\ w # <<>>

(* Least squares of y = lambda - mu * n; a slope that is not negative is noise. *)
Fit(w) ==
    IF Len(w) < MinSamples \/ ~Identifiable(w) \/ Covariance(w) >= 0 THEN None
    ELSE [mu     |-> (-Covariance(w)) \div Spread(w),
          lambda |-> (SumY(w) * Spread(w) - Covariance(w) * SumN(w)) \div (Len(w) * Spread(w))]

-----------------------------------------------------------------------------
(* observe *)

(* The broker attributes throughput to workers that ran. *)
Measured(o) == o.rates # None /\ o.running > 0 /\ o.rates.ack_rate > 0

(* The broker's rates, taken before anything is inferred. *)
FromBroker(e, o) ==
    IF Measured(o)
    THEN [e EXCEPT !.lambda = o.rates.publish_rate, !.mu = o.rates.ack_rate \div o.running,
                   !.source = "direct", !.direct_stale = 0]
    ELSE IF o.rates # None THEN [e EXCEPT !.lambda = o.rates.publish_rate] ELSE e

(* Without a measurement the fit takes over; a broker's estimate outlives it by the
   grace at most. *)
Infer(e, o) ==
    LET fit   == Fit(e.window)
        stale == e.direct_stale + 1
    IN  IF fit # None
        THEN [e EXCEPT !.mu = fit.mu,
                       !.lambda = IF o.rates = None THEN Larger(fit.lambda, 0) ELSE @,
                       !.source = "regression"]
        ELSE IF e.source = "direct"
        THEN [e EXCEPT !.direct_stale = stale,
                       !.source = IF stale > DirectGrace THEN "none" ELSE @]
        ELSE e

Observe(e, o) ==
    LET pushed == PushSample(FromBroker(e, o), o)
    IN  IF o.dt = 0 THEN e
        ELSE IF Measured(o) THEN pushed
        ELSE Infer(pushed, o)

-----------------------------------------------------------------------------
(* What the controller reads *)

(* mu() *)
KnownMu(e) ==
    IF e.source # "none" /\ e.mu # None /\ e.mu > 0 THEN e.mu ELSE None

(* Mutant: nobody ever asks for a probe. *)
NeverProbes(e) == FALSE

(* needs_probe() *)
NeedsProbe(e) ==
    /\ ~(e.source = "direct" /\ e.direct_stale = 0)
    /\ KnownMu(e) = None
    /\ ~Identifiable(e.window)

=============================================================================
