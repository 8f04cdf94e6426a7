------------------------ MODULE IdentificationProofs -------------------------
(***************************************************************************)
(* Proofs about the estimator and the loop that identifies mu: any window,  *)
(* any grace, any queue of constant rates, any pool.                         *)
(***************************************************************************)
EXTENDS Identification, PolicyProofs, SumProofs, SequenceTheorems

-----------------------------------------------------------------------------
(* The window *)

(* The type of a sample that nothing is known of. *)
AnySample == [n : Nat, y : Int]

(* A new sample makes the window no longer than its capacity and adds no other. *)
LEMMA PushFacts ==
    ASSUME NEW S, NEW w \in Seq(S), Len(w) <= Capacity, NEW s \in S
    PROVE  LET kept == IF Len(w) = Capacity THEN Tail(w) ELSE w
           IN  Append(kept, s) \in Seq(S) /\ Len(Append(kept, s)) <= Capacity
<1> DEFINE kept == IF Len(w) = Capacity THEN Tail(w) ELSE w
<1>1. Len(w) \in Nat /\ Capacity \in Nat \ {0}
  BY LenProperties, WindowAssumption
<1>2. kept \in Seq(S) /\ Len(kept) \in Nat /\ Len(kept) < Capacity
  <2>1. CASE Len(w) = Capacity
    <3>1. w # <<>>
      BY <1>1, <2>1, EmptySeq
    <3>2. Tail(w) \in Seq(S) /\ Len(Tail(w)) = Len(w) - 1
      BY <3>1, HeadTailProperties
    <3>3. QED
      BY <1>1, <2>1, <3>2
  <2>2. CASE Len(w) # Capacity
    BY <1>1, <2>2
  <2>3. QED
    BY <2>1, <2>2
<1> HIDE DEF kept
<1>3. Append(kept, s) \in Seq(S) /\ Len(Append(kept, s)) = Len(kept) + 1
  BY <1>2, AppendProperties
<1>4. Append(kept, s) \in Seq(S) /\ Len(Append(kept, s)) <= Capacity
  BY <1>1, <1>2, <1>3
<1>5. QED
  BY <1>4 DEF kept

LEMMA SumsAreInts ==
    ASSUME NEW w \in Seq(AnySample)
    PROVE  /\ IsFiniteSet(DOMAIN w) /\ Len(w) \in Nat
           /\ \A k \in DOMAIN w : w[k].n \in Nat /\ w[k].y \in Int
           /\ SumN(w) \in Int /\ SumY(w) \in Int /\ SumNN(w) \in Int /\ SumNY(w) \in Int
<1>1. Len(w) \in Nat /\ DOMAIN w = 1..Len(w)
  BY LenProperties
<1>2. IsFiniteSet(DOMAIN w)
  BY <1>1, FS_Interval
<1>3. ASSUME NEW k \in DOMAIN w PROVE w[k].n \in Nat /\ w[k].y \in Int
  <2>1. w[k] \in AnySample
    BY <1>1, ElementOfSeq
  <2>2. QED
    BY <2>1 DEF AnySample
<1>4. \A a \in Int, b \in Int : a * b \in Int
  BY SMT
<1> DEFINE D  == DOMAIN w
           n  == [k \in D |-> w[k].n]
           y  == [k \in D |-> w[k].y]
           nn == [k \in D |-> w[k].n * w[k].n]
           ny == [k \in D |-> w[k].n * w[k].y]
<1>5. n \in [D -> Int]
  BY <1>3
<1>6. y \in [D -> Int]
  BY <1>3
<1>7. nn \in [D -> Int]
  BY <1>3, <1>4
<1>8. ny \in [D -> Int]
  BY <1>3, <1>4
<1>9. /\ SumN(w) = SumFunction(n) /\ SumY(w) = SumFunction(y)
      /\ SumNN(w) = SumFunction(nn) /\ SumNY(w) = SumFunction(ny)
  BY DEF SumN, SumY, SumNN, SumNY
<1>10. IsFiniteSet(D)
  BY <1>2
<1> HIDE DEF n, y, nn, ny, D
<1>11. SumFunction(n) \in Int
  BY <1>5, <1>10, SumSplits
<1>12. SumFunction(y) \in Int
  BY <1>6, <1>10, SumSplits
<1>13. SumFunction(nn) \in Int
  BY <1>7, <1>10, SumSplits
<1>14. SumFunction(ny) \in Int
  BY <1>8, <1>10, SumSplits
<1>15. QED
  BY <1>1, <1>2, <1>3, <1>9, <1>11, <1>12, <1>13, <1>14

LEMMA FitTypes ==
    ASSUME NEW w \in Seq(AnySample), Fit(w) # None
    PROVE  /\ Len(w) \in Nat \ {0} /\ Spread(w) \in Nat \ {0}
           /\ Covariance(w) \in Int /\ Covariance(w) < 0
           /\ Fit(w) = [mu     |-> (-Covariance(w)) \div Spread(w),
                        lambda |-> (SumY(w) * Spread(w) - Covariance(w) * SumN(w))
                                      \div (Len(w) * Spread(w))]
           /\ Fit(w).mu \in Nat /\ Fit(w).lambda \in Int
<1>1. /\ Len(w) >= MinSamples /\ Spread(w) >= MinSpread * Len(w) /\ ~(Covariance(w) >= 0)
      /\ Fit(w) = [mu     |-> (-Covariance(w)) \div Spread(w),
                   lambda |-> (SumY(w) * Spread(w) - Covariance(w) * SumN(w))
                                 \div (Len(w) * Spread(w))]
  <2>1. ~(Len(w) < MinSamples) /\ Identifiable(w) /\ ~(Covariance(w) >= 0)
    BY DEF Fit
  <2>2. Len(w) \in Nat /\ MinSamples \in Nat
    BY SumsAreInts, WindowAssumption
  <2>3. QED
    BY <2>1, <2>2 DEF Fit, Identifiable
<1>2. /\ Len(w) \in Nat \ {0} /\ MinSpread \in Nat \ {0}
      /\ SumN(w) \in Int /\ SumY(w) \in Int /\ SumNN(w) \in Int /\ SumNY(w) \in Int
  BY <1>1, SumsAreInts, WindowAssumption
<1>3. \A a \in Int, b \in Int : a * b \in Int
  BY SMT
<1>4. \A a \in Nat \ {0}, b \in Nat \ {0} : a * b \in Nat \ {0}
  BY SMT
<1>5. Spread(w) \in Int /\ Covariance(w) \in Int
  BY <1>2, <1>3 DEF Spread, Covariance
<1>6. Spread(w) \in Nat \ {0} /\ Covariance(w) < 0
  <2>1. MinSpread * Len(w) \in Nat \ {0}
    BY <1>2, <1>4
  <2>2. QED
    BY <1>1, <1>5, <2>1
<1>7. Fit(w).mu \in Nat
  <2>1. \A a \in Nat, b \in Nat \ {0} : a \div b \in Nat
    BY FitFacts
  <2>2. -Covariance(w) \in Nat
    BY <1>5, <1>6
  <2>3. (-Covariance(w)) \div Spread(w) \in Nat
    BY <1>6, <2>1, <2>2
  <2>4. Fit(w).mu = (-Covariance(w)) \div Spread(w)
    BY <1>1
  <2>5. QED
    BY <2>3, <2>4
<1>8. Fit(w).lambda \in Int
  <2>1. \A a \in Int, b \in Nat \ {0} : a \div b \in Int
    BY SMT
  <2>2. Len(w) * Spread(w) \in Nat \ {0}
    BY <1>2, <1>4, <1>6
  <2>3. SumY(w) * Spread(w) - Covariance(w) * SumN(w) \in Int
    BY <1>2, <1>3, <1>5, <1>6
  <2>4. QED
    BY <1>1, <2>1, <2>2, <2>3
<1>9. QED
  BY <1>1, <1>2, <1>5, <1>6, <1>7, <1>8

LEMMA HowMany == ASSUME NEW l \in Nat PROVE Cardinality(1..l) = l
<1>1. Cardinality(1..l) = IF 1 > l THEN 0 ELSE l - 1 + 1
  BY FS_Interval
<1>2. QED
  BY <1>1

(* Least squares of points that lie on a line returns the line. *)
LEMMA ExactFit ==
    ASSUME NEW w \in Seq(AnySample), NEW a \in Int, NEW m \in Int,
           \A k \in DOMAIN w : w[k].y = a - m * w[k].n,
           Fit(w) # None
    PROVE  Fit(w).mu = m /\ Fit(w).lambda = a
<1> DEFINE D    == DOMAIN w
           one  == [k \in D |-> 1]
           n    == [k \in D |-> w[k].n]
           y    == [k \in D |-> w[k].y]
           nn   == [k \in D |-> w[k].n * w[k].n]
           ny   == [k \in D |-> w[k].n * w[k].y]
           len  == Len(w)
           N    == SumN(w)
           Y    == SumY(w)
           NN   == SumNN(w)
           NY   == SumNY(w)
           spread == Spread(w)
           cov    == Covariance(w)
<1>1. /\ IsFiniteSet(D) /\ len \in Nat
      /\ \A k \in D : w[k].n \in Int /\ w[k].y \in Int
      /\ N \in Int /\ Y \in Int /\ NN \in Int /\ NY \in Int
  BY SumsAreInts
<1>2. /\ Y = a * len + (-m) * N
      /\ NY = a * N + (-m) * NN
  <2>1. \A u, v \in Int : u * v \in Int
    BY SMT
  <2>2. one \in [D -> Int] /\ \A k \in D : one[k] = 1
    OBVIOUS
  <2>3. n \in [D -> Int]
    BY <1>1
  <2>4. y \in [D -> Int]
    BY <1>1
  <2>5. nn \in [D -> Int]
    BY <1>1, <2>1
  <2>6. ny \in [D -> Int]
    BY <1>1, <2>1
  <2>7. \A k \in D : y[k] = a * one[k] + (-m) * n[k]
    <3>1. \A u \in Int : a - m * u = a * 1 + (-m) * u
      BY SMT
    <3>2. QED
      BY <1>1, <3>1
  <2>8. \A k \in D : ny[k] = a * n[k] + (-m) * nn[k]
    <3>1. \A u \in Int : u * (a - m * u) = a * u + (-m) * (u * u)
      BY SMT
    <3>2. QED
      BY <1>1, <3>1
  <2>9. /\ N = SumFunction(n) /\ Y = SumFunction(y)
        /\ NN = SumFunction(nn) /\ NY = SumFunction(ny)
    BY DEF SumN, SumY, SumNN, SumNY
  <2>10. Cardinality(D) = len
    <3>1. D = 1..len
      BY LenProperties
    <3>2. QED
      BY <1>1, <3>1, HowMany
  <2> HIDE DEF D, one, n, y, nn, ny, N, Y, NN, NY, len
  <2>11. SumFunction(one) = len
    BY <1>1, <2>2, <2>10, SumOfOnes
  <2> DEFINE b == -m
  <2>12. b \in Int
    OBVIOUS
  <2>13. y = Combination(D, a, one, b, n)
    BY <2>4, <2>7 DEF Combination
  <2>14. ny = Combination(D, a, n, b, nn)
    BY <2>6, <2>8 DEF Combination
  <2> HIDE DEF b
  <2>15. SumFunction(y) = a * SumFunction(one) + b * SumFunction(n)
    <3>1. IsFiniteSet(D)
      BY <1>1
    <3>2. QED
      BY <2>2, <2>3, <2>12, <2>13, <3>1, SumOfCombination
  <2>16. SumFunction(ny) = a * SumFunction(n) + b * SumFunction(nn)
    <3>1. IsFiniteSet(D)
      BY <1>1
    <3>2. QED
      BY <2>3, <2>5, <2>12, <2>14, <3>1, SumOfCombination
  <2>17. QED
    BY <2>9, <2>11, <2>15, <2>16 DEF b
<1>3. /\ len \in Nat \ {0} /\ spread \in Nat \ {0} /\ cov \in Int
      /\ Fit(w).mu = (-cov) \div spread
      /\ Fit(w).lambda = (Y * spread - cov * N) \div (len * spread)
  BY FitTypes
<1>4. spread = len * NN - N * N /\ cov = len * NY - N * Y
  BY DEF Spread, Covariance
<1> HIDE DEF len, N, Y, NN, NY, spread, cov
<1>5. -cov = m * spread
  <2>1. \A l, u, uu \in Int :
           -(l * (a * u + (-m) * uu) - u * (a * l + (-m) * u)) = m * (l * uu - u * u)
    BY SMT
  <2>2. -(len * NY - N * Y) = m * (len * NN - N * N)
    BY <1>1, <1>2, <2>1
  <2>3. QED
    BY <1>4, <2>2
<1>6. Y * spread - cov * N = a * (len * spread)
  <2>1. cov = -(m * spread)
    BY <1>3, <1>5
  <2>2. \A l, u, s \in Int : (a * l + (-m) * u) * s - (-(m * s)) * u = a * (l * s)
    BY SMT
  <2>3. QED
    BY <1>1, <1>2, <1>3, <2>1, <2>2
<1>7. \A u \in Int, v \in Nat \ {0} : (u * v) \div v = u
  BY SMT
<1>8. len * spread \in Nat \ {0}
  <2>1. \A u, v \in Nat \ {0} : u * v \in Nat \ {0}
    BY SMT
  <2>2. QED
    BY <1>3, <2>1
<1>9. QED
  BY <1>3, <1>5, <1>6, <1>7, <1>8

-----------------------------------------------------------------------------
(* observe *)

(* An estimator whose samples are all in S. *)
Estimates(S) ==
    [mu : Nat \union {None}, lambda : Nat, source : {"none", "direct", "regression"},
     last_backlog : Int \union {None}, window : Seq(S), direct_stale : 0..(DirectGrace + 1)]

Sound(e, S) ==
    /\ e \in Estimates(S)
    /\ Len(e.window) <= Capacity
    /\ e.source = "direct" => e.direct_stale <= DirectGrace

(* An Observation of a window that has passed. *)
IsObservation(o) ==
    /\ o.dt \in Nat \ {0} /\ o.backlog \in Nat /\ o.running \in Nat
    /\ o.rates # None => o.rates.ack_rate \in Nat /\ o.rates.publish_rate \in Nat

(* The sample it is worth. *)
SampleOf(e, o) ==
    [n |-> o.running, y |-> ((o.backlog - e.last_backlog) * RateUnit) \div o.dt]

LEMMA FromBrokerKeeps ==
    ASSUME NEW S, NEW e, Sound(e, S), NEW o, IsObservation(o)
    PROVE  /\ Sound(FromBroker(e, o), S)
           /\ FromBroker(e, o).last_backlog = e.last_backlog
           /\ FromBroker(e, o).window = e.window
<1>1. CASE Measured(o)
  <2>1. o.rates.publish_rate \in Nat /\ o.rates.ack_rate \in Nat /\ o.running \in Nat \ {0}
    BY <1>1 DEF Measured, IsObservation
  <2> DEFINE rate == o.rates.ack_rate \div o.running
  <2>2. rate \in Nat
    BY <2>1, FitFacts
  <2>3. FromBroker(e, o) =
          [e EXCEPT !.lambda = o.rates.publish_rate, !.mu = rate,
                    !.source = "direct", !.direct_stale = 0]
    BY <1>1 DEF FromBroker
  <2>4. 0 \in 0..(DirectGrace + 1) /\ 0 <= DirectGrace
    BY WindowAssumption
  <2> DEFINE lambda == o.rates.publish_rate
  <2>5. lambda \in Nat
    BY <2>1
  <2>6. FromBroker(e, o) = [e EXCEPT !.lambda = lambda, !.mu = rate,
                                     !.source = "direct", !.direct_stale = 0]
    BY <2>3
  <2> HIDE DEF rate, lambda
  <2>7. QED
    BY <2>2, <2>4, <2>5, <2>6 DEF Sound, Estimates
<1>2. CASE ~Measured(o) /\ o.rates # None
  <2>1. FromBroker(e, o) = [e EXCEPT !.lambda = o.rates.publish_rate]
    BY <1>2 DEF FromBroker
  <2>2. o.rates.publish_rate \in Nat
    BY <1>2 DEF IsObservation
  <2>3. QED
    BY <2>1, <2>2 DEF Sound, Estimates
<1>3. CASE ~Measured(o) /\ o.rates = None
  BY <1>3 DEF FromBroker
<1>4. QED
  BY <1>1, <1>2, <1>3

LEMMA PushSampleKeeps ==
    ASSUME NEW S, NEW e, Sound(e, S), NEW o, IsObservation(o),
           e.last_backlog # None /\ ~o.interference /\ o.backlog > 0 => SampleOf(e, o) \in S
    PROVE  /\ Sound(PushSample(e, o), S)
           /\ PushSample(e, o).last_backlog = o.backlog
<1> DEFINE kept == IF Len(e.window) = Capacity THEN Tail(e.window) ELSE e.window
           new  == IF e.last_backlog # None /\ ~o.interference /\ o.backlog > 0
                   THEN Append(kept, SampleOf(e, o)) ELSE e.window
<1>1. PushSample(e, o) = [e EXCEPT !.last_backlog = o.backlog, !.window = new]
  BY DEF PushSample, SampleOf, Sound, Estimates
<1>2. new \in Seq(S) /\ Len(new) <= Capacity
  <2>1. e.window \in Seq(S) /\ Len(e.window) <= Capacity
    BY DEF Sound, Estimates
  <2>2. CASE e.last_backlog # None /\ ~o.interference /\ o.backlog > 0
    <3>1. SampleOf(e, o) \in S
      BY <2>2
    <3>2. Append(kept, SampleOf(e, o)) \in Seq(S)
          /\ Len(Append(kept, SampleOf(e, o))) <= Capacity
      BY <2>1, <3>1, PushFacts
    <3> HIDE DEF kept
    <3>3. QED
      BY <2>2, <3>2
  <2>3. CASE ~(e.last_backlog # None /\ ~o.interference /\ o.backlog > 0)
    BY <2>1, <2>3
  <2>4. QED
    BY <2>2, <2>3
<1> HIDE DEF new
<1>3. o.backlog \in Int
  BY DEF IsObservation
<1>4. QED
  BY <1>1, <1>2, <1>3 DEF Sound, Estimates

LEMMA InferKeeps ==
    ASSUME NEW S \in SUBSET AnySample, NEW e, Sound(e, S), NEW o, IsObservation(o)
    PROVE  /\ Sound(Infer(e, o), S)
           /\ Infer(e, o).last_backlog = e.last_backlog
           /\ Infer(e, o).window = e.window
<1> DEFINE fit == Fit(e.window)
           stale == e.direct_stale + 1
<1>1. e.window \in Seq(AnySample)
  BY SeqMonotonic DEF Sound, Estimates
<1>2. CASE fit # None
  <2>1. fit.mu \in Nat /\ fit.lambda \in Int
    BY <1>1, <1>2, FitTypes
  <2> DEFINE lambda == IF o.rates = None THEN Larger(fit.lambda, 0) ELSE e.lambda
  <2>2. lambda \in Nat
    BY <2>1 DEF Larger, Sound, Estimates
  <2>3. Infer(e, o) = [e EXCEPT !.mu = fit.mu, !.lambda = lambda, !.source = "regression"]
    BY <1>2 DEF Infer, Sound, Estimates
  <2> HIDE DEF fit, lambda
  <2>4. QED
    BY <2>1, <2>2, <2>3 DEF Sound, Estimates
<1>3. CASE fit = None /\ e.source = "direct"
  <2>1. stale \in 0..(DirectGrace + 1) /\ (~(stale > DirectGrace) => stale <= DirectGrace)
    BY <1>3, WindowAssumption DEF Sound, Estimates
  <2> DEFINE source == IF stale > DirectGrace THEN "none" ELSE e.source
  <2>2. Infer(e, o) = [e EXCEPT !.direct_stale = stale, !.source = source]
    BY <1>3 DEF Infer, Sound, Estimates
  <2>3. source \in {"none", "direct", "regression"} /\ (source = "direct" => stale <= DirectGrace)
    BY <1>3, <2>1
  <2> HIDE DEF stale, source
  <2>4. QED
    BY <2>1, <2>2, <2>3 DEF Sound, Estimates
<1>4. CASE fit = None /\ e.source # "direct"
  BY <1>4 DEF Infer
<1>5. QED
  BY <1>2, <1>3, <1>4

(* observe keeps the estimator well-formed and adds, if anything, the one sample. *)
LEMMA ObserveKeeps ==
    ASSUME NEW S \in SUBSET AnySample, NEW e, Sound(e, S), NEW o, IsObservation(o),
           e.last_backlog # None /\ ~o.interference /\ o.backlog > 0 => SampleOf(e, o) \in S
    PROVE  Sound(Observe(e, o), S) /\ Observe(e, o).last_backlog = o.backlog
<1> DEFINE asked  == FromBroker(e, o)
           pushed == PushSample(asked, o)
<1>1. Sound(asked, S) /\ asked.last_backlog = e.last_backlog
  BY FromBrokerKeeps
<1>2. SampleOf(asked, o) = SampleOf(e, o)
  BY <1>1 DEF SampleOf
<1> HIDE DEF asked
<1>3. Sound(pushed, S) /\ pushed.last_backlog = o.backlog
  BY <1>1, <1>2, PushSampleKeeps
<1> HIDE DEF pushed
<1>4. Sound(Infer(pushed, o), S) /\ Infer(pushed, o).last_backlog = o.backlog
  BY <1>3, InferKeeps
<1>5. o.dt # 0
  BY DEF IsObservation
<1>6. Observe(e, o) = IF Measured(o) THEN pushed ELSE Infer(pushed, o)
  BY <1>5 DEF Observe, pushed, asked
<1>7. QED
  BY <1>3, <1>4, <1>6

(* If every sample lies on y = a - m * n, and a is what the broker says is published, then
   what observe infers is m and a. *)
Inferred(e, m, a) == e.source = "regression" => e.mu = m /\ e.lambda = a

LEMMA ObserveExact ==
    ASSUME NEW S \in SUBSET AnySample, NEW e, Sound(e, S), NEW o, IsObservation(o),
           e.last_backlog # None /\ ~o.interference /\ o.backlog > 0 => SampleOf(e, o) \in S,
           NEW a \in Nat, NEW m \in Nat, \A s \in S : s.y = a - m * s.n,
           o.rates # None => o.rates.publish_rate = a,
           Inferred(e, m, a)
    PROVE  Inferred(Observe(e, o), m, a)
<1> DEFINE asked  == FromBroker(e, o)
           pushed == PushSample(asked, o)
<1>1. Sound(asked, S) /\ asked.last_backlog = e.last_backlog
  BY FromBrokerKeeps
<1>2. /\ Inferred(asked, m, a)
      /\ o.rates # None => asked.lambda = a
  <2>1. CASE Measured(o)
    <3>1. asked.source = "direct" /\ asked.lambda = o.rates.publish_rate
      BY <2>1 DEF FromBroker, Sound, Estimates
    <3>2. QED
      BY <2>1, <3>1 DEF Inferred, Measured
  <2>2. CASE ~Measured(o) /\ o.rates # None
    <3>1. asked.source = e.source /\ asked.mu = e.mu /\ asked.lambda = a
      BY <2>2 DEF FromBroker, Sound, Estimates
    <3>2. QED
      BY <3>1 DEF Inferred
  <2>3. CASE ~Measured(o) /\ o.rates = None
    BY <2>3 DEF FromBroker
  <2>4. QED
    BY <2>1, <2>2, <2>3
<1>3. SampleOf(asked, o) = SampleOf(e, o)
  BY <1>1 DEF SampleOf
<1> HIDE DEF asked
<1>4. Sound(pushed, S)
  BY <1>1, <1>3, PushSampleKeeps
<1>5. pushed.source = asked.source /\ pushed.mu = asked.mu /\ pushed.lambda = asked.lambda
  BY <1>1 DEF PushSample, Sound, Estimates
<1>6. Inferred(pushed, m, a) /\ (o.rates # None => pushed.lambda = a)
  BY <1>2, <1>5 DEF Inferred
<1> HIDE DEF pushed
<1> DEFINE fit == Fit(pushed.window)
<1>7. CASE fit # None
  <2>1. pushed.window \in Seq(S) /\ pushed.window \in Seq(AnySample)
    BY <1>4, SeqMonotonic DEF Sound, Estimates
  <2>2. ASSUME NEW k \in DOMAIN pushed.window
        PROVE  pushed.window[k].y = a - m * pushed.window[k].n
    <3>1. pushed.window[k] \in S
      BY <2>1, LenProperties, ElementOfSeq
    <3>2. QED
      BY <3>1
  <2>3. fit.mu = m /\ fit.lambda = a
    BY <1>7, <2>1, <2>2, ExactFit
  <2> HIDE DEF fit
  <2>4. Larger(fit.lambda, 0) = a
    BY <2>3 DEF Larger
  <2>5. Infer(pushed, o).mu = m /\ Infer(pushed, o).lambda = a
    BY <1>4, <1>6, <1>7, <2>3, <2>4 DEF Infer, Sound, Estimates, fit
  <2>6. QED
    BY <1>6, <2>5 DEF Inferred, Observe, pushed, asked
<1>8. CASE fit = None
  <2>1. Inferred(Infer(pushed, o), m, a)
    <3>1. CASE pushed.source = "direct"
      <4>1. Infer(pushed, o).source # "regression"
        BY <1>4, <1>8, <3>1 DEF Infer, Sound, Estimates
      <4>2. QED
        BY <4>1 DEF Inferred
    <3>2. CASE pushed.source # "direct"
      BY <1>6, <1>8, <3>2 DEF Infer
    <3>3. QED
      BY <3>1, <3>2
  <2>2. QED
    BY <1>6, <2>1 DEF Observe, pushed, asked
<1>9. QED
  BY <1>7, <1>8

(* What the policy reads of it. *)
LEMMA KnownFacts ==
    ASSUME NEW S, NEW e, Sound(e, S)
    PROVE  /\ KnownMu(e) \in (Nat \ {0}) \union {None} /\ e.lambda \in Nat
           /\ NeedsProbe(e) \in BOOLEAN
<1>1. e.mu \in Nat \union {None} /\ e.lambda \in Nat
  BY DEF Sound, Estimates
<1>2. KnownMu(e) \in (Nat \ {0}) \union {None}
  BY <1>1 DEF KnownMu
<1>3. QED
  BY <1>1, <1>2 DEF NeedsProbe

-----------------------------------------------------------------------------
(* The slope a window measures *)

(* A change of slope * t + d over a window of length t, in units of 1/RateUnit, is taken
   for the slope give or take d. *)
LEMMA SlopeError ==
    ASSUME NEW t \in Nat \ {0}, NEW slope \in Int, NEW lo \in Nat, NEW hi \in Nat,
           NEW d \in (-lo)..hi
    PROVE  LET y == ((slope * t + d) * RateUnit) \div t
           IN  y \in Int /\ y - slope * RateUnit \in -(lo * RateUnit)..(hi * RateUnit)
<1> DEFINE a    == slope * RateUnit
           D    == d * RateUnit
           A    == lo * RateUnit
           B    == hi * RateUnit
           full == a * t + D
           y    == full \div t
           rest == full % t
           e    == y - a
<1>1. RateUnit \in Nat \ {0}
  BY RateUnitAssumption
<1>2. /\ a \in Int /\ D \in Int /\ A \in Nat /\ B \in Nat
      /\ -A <= D /\ D <= B
  <2>1. \A x \in Int, z \in Int : x * z \in Int
    BY SMT
  <2>2. \A x \in Nat, z \in Nat : x * z \in Nat
    BY SMT
  <2>3. \A x, z \in Int, u \in Nat : x <= z => x * u <= z * u
    BY SMT
  <2>4. (-lo) * RateUnit = -(lo * RateUnit)
    BY <1>1, SMT
  <2>5. d \in Int /\ -lo <= d /\ d <= hi /\ -lo \in Int
    OBVIOUS
  <2>6. (-lo) * RateUnit <= d * RateUnit /\ d * RateUnit <= hi * RateUnit
    BY <1>1, <2>3, <2>5
  <2>7. QED
    BY <1>1, <2>1, <2>2, <2>4, <2>5, <2>6
<1>3. (slope * t + d) * RateUnit = full
  BY <1>1, SMT
<1> HIDE DEF a, D, A, B
<1>4. full \in Int
  BY <1>2, SMT
<1> HIDE DEF full
<1>5. y \in Int /\ rest \in 0..(t - 1) /\ full = t * y + rest
  BY <1>4, SMT
<1> HIDE DEF y, rest
<1>6. e \in Int /\ t * e = D - rest
  <2>1. t * e = t * y - t * a
    BY <1>2, <1>5, SMT
  <2>2. t * a = a * t
    BY <1>2, SMT
  <2>3. t * y \in Int /\ a * t \in Int
    BY <1>2, <1>5, SMT
  <2>4. t * y = full - rest /\ full = a * t + D
    BY <1>4, <1>5, <2>3 DEF full
  <2>5. rest \in Int
    BY <1>5
  <2> HIDE DEF e
  <2>6. t * e = D - rest
    BY <1>2, <2>1, <2>2, <2>3, <2>4, <2>5
  <2>7. QED
    BY <1>2, <1>5, <2>6 DEF e
<1> HIDE DEF e
<1>7. e <= B
  <2>1. SUFFICES ASSUME e >= B + 1 PROVE FALSE
    BY <1>2, <1>6
  <2>2. t * e >= t * (B + 1)
    BY <1>2, <1>6, <2>1, SMT
  <2>3. t * (B + 1) >= B + 1
    BY <1>2, SMT
  <2>4. t * (B + 1) \in Int /\ t * e \in Int /\ rest \in Nat
    BY <1>2, <1>5, <1>6, SMT
  <2>5. QED
    BY <1>2, <1>6, <2>2, <2>3, <2>4
<1>8. -A <= e
  <2>1. SUFFICES ASSUME -e >= A + 1 PROVE FALSE
    BY <1>2, <1>6
  <2>2. t * (-e) >= t * (A + 1)
    BY <1>2, <1>6, <2>1, SMT
  <2>3. t * (A + 1) >= A + t
    BY <1>2, SMT
  <2>4. t * (-e) = -(t * e)
    BY <1>6, SMT
  <2>5. t * (A + 1) \in Int /\ t * e \in Int /\ rest \in Nat /\ rest <= t - 1
    BY <1>2, <1>5, <1>6, SMT
  <2>6. QED
    BY <1>2, <1>6, <2>2, <2>3, <2>4, <2>5
<1>9. y \in Int /\ y - a \in (-A)..B
  BY <1>2, <1>5, <1>6, <1>7, <1>8 DEF e
<1>10. QED
  BY <1>3, <1>9 DEF y, a, A, B

-----------------------------------------------------------------------------
(* The inductive invariant *)

(* What SamplesAreSlopes says of one sample. *)
OnTheLine(s) ==
    LET error == s.y - (queue.arrivals - Throughput * s.n) * RateUnit
    IN  error \in -(queue.prefetch * s.n * RateUnit)..(queue.prefetch * (s.n + 1) * RateUnit)

Sample == {s \in [n : 0..params.max_workers, y : Int] : OnTheLine(s)}

(* The messages the pool of the last reading may have held: the one of this window and a
   worker more, if one was stopped. *)
Held == queue.prefetch * (running_in_window + 1)

(* How the pool moves between two windows. *)
PoolMoves ==
    /\ params \in Params /\ queue \in Queues
    /\ backlog \in 0..Deep /\ elapsed \in queue.delays \union {0} /\ served \in Nat
    /\ alive \in 0..params.max_workers /\ dead \in 0..queue.exits
    /\ running_in_window \in 0..params.max_workers
    /\ ticks \in 0..params.cooldown_ticks
    /\ reading \in {"none", "rates", "depth", "error"}
    /\ probing \in BOOLEAN /\ exits \in 0..queue.exits
    /\ alive + dead = running_in_window
    /\ dead <= exits

(* The baseline is what the queue held at the last reading, less what its workers may have
   held of it; if no worker exits and the queue is not drained, it moves along the line. *)
Baseline ==
    est.last_backlog # None =>
        /\ elapsed = 0 => backlog - est.last_backlog \in 0..Held
        /\ elapsed > 0 /\ dead = 0 /\ backlog > 0 =>
              backlog - est.last_backlog
                - (queue.arrivals - Throughput * running_in_window) * elapsed \in 0..Held

IInv == PoolMoves /\ Sound(est, Sample) /\ Baseline

LEMMA PoolFacts ==
    ASSUME PoolMoves
    PROVE  /\ params.min_workers \in Nat /\ params.max_workers \in Nat \ {0}
           /\ params.min_workers <= params.max_workers
           /\ params.cooldown_ticks \in Nat
           /\ params.slo_drain_time \in Nat /\ params.hysteresis \in Nat
           /\ params.spike_backlog \in Nat
           /\ queue.arrivals \in Nat /\ queue.prefetch \in Nat /\ queue.exits \in Nat
           /\ queue.delays \subseteq Nat \ {0}
           /\ Throughput \in Nat \ {0} /\ Deep \in Nat \ {0}
           /\ backlog \in Nat /\ elapsed \in Nat /\ served \in Nat /\ alive \in Nat
           /\ dead \in Nat /\ running_in_window \in Nat /\ ticks \in Nat /\ exits \in Nat
<1>1. IsRunnable(params) /\ params.mode = "slo"
  BY ParamsAssumption DEF PoolMoves
<1>2. /\ params.min_workers \in Nat /\ params.max_workers \in Nat \ {0}
      /\ params.min_workers <= params.max_workers
      /\ params.cooldown_ticks \in Nat
      /\ params.slo_drain_time \in Nat /\ params.hysteresis \in Nat
      /\ params.spike_backlog \in Nat
  BY <1>1 DEF IsRunnable
<1>3. queue \in Queue /\ Throughput \in Nat \ {0} /\ Deep \in Nat \ {0}
  BY QueueAssumption DEF PoolMoves
<1>4. /\ queue.arrivals \in Nat /\ queue.prefetch \in Nat /\ queue.exits \in Nat
      /\ queue.delays \subseteq Nat \ {0}
  BY <1>3 DEF Queue
<1>5. /\ backlog \in Nat /\ elapsed \in Nat /\ served \in Nat /\ alive \in Nat
      /\ dead \in Nat /\ running_in_window \in Nat /\ ticks \in Nat /\ exits \in Nat
  BY <1>2, <1>3, <1>4 DEF PoolMoves
<1>6. QED
  BY <1>2, <1>3, <1>4, <1>5

LEMMA SamplesAreSamples ==
    ASSUME PoolMoves
    PROVE  Sample \in SUBSET AnySample
<1>1. 0..params.max_workers \subseteq Nat
  BY PoolFacts
<1>2. QED
  BY <1>1 DEF Sample, AnySample

LEMMA InitHas == Init => IInv
<1> SUFFICES ASSUME Init PROVE IInv
  OBVIOUS
<1>1. params \in Params /\ queue \in Queues
  BY DEF Init
<1>2. PoolMoves
  <2>1. /\ params.max_workers \in Nat /\ params.cooldown_ticks \in Nat
    BY <1>1, ParamsAssumption DEF IsRunnable
  <2>2. queue.exits \in Nat
    BY <1>1, QueueAssumption DEF Queue
  <2>3. backlog \in 0..Deep
    BY QueueAssumption DEF Init
  <2>4. 0 \in 0..params.max_workers /\ 0 \in 0..queue.exits
        /\ params.cooldown_ticks \in 0..params.cooldown_ticks
    BY <2>1, <2>2
  <2>5. /\ elapsed = 0 /\ served = 0 /\ alive = 0 /\ dead = 0 /\ running_in_window = 0
        /\ ticks = params.cooldown_ticks /\ reading = "none" /\ probing = FALSE /\ exits = 0
    BY DEF Init
  <2>6. /\ alive \in 0..params.max_workers /\ dead \in 0..queue.exits
        /\ running_in_window \in 0..params.max_workers /\ exits \in 0..queue.exits
        /\ ticks \in 0..params.cooldown_ticks
    BY <2>4, <2>5
  <2>7. /\ elapsed \in queue.delays \union {0} /\ served \in Nat
        /\ alive + dead = running_in_window /\ dead <= exits
    BY <2>5
  <2>8. reading \in {"none", "rates", "depth", "error"} /\ probing \in BOOLEAN
    BY <2>5
  <2>9. QED
    BY <1>1, <2>3, <2>6, <2>7, <2>8 DEF PoolMoves
<1>3. Sound(est, Sample)
  <2>1. 0 \in 0..(DirectGrace + 1) /\ Capacity \in Nat
    BY WindowAssumption
  <2>2. <<>> \in Seq(Sample) /\ Len(<<>>) = 0
    BY EmptySeq
  <2>3. est = [mu |-> None, lambda |-> 0, source |-> "none", last_backlog |-> None,
               window |-> <<>>, direct_stale |-> 0]
    BY DEF Init, NewEstimator
  <2> DEFINE empty == <<>>
  <2>4. empty \in Seq(Sample) /\ Len(empty) = 0 /\ est.window = empty
    BY <2>2, <2>3
  <2> HIDE DEF empty
  <2>5. QED
    BY <2>1, <2>3, <2>4 DEF Sound, Estimates
<1>4. Baseline
  BY DEF Init, NewEstimator, Baseline
<1>5. QED
  BY <1>2, <1>3, <1>4 DEF IInv

-----------------------------------------------------------------------------
(* A window passes *)

(* What the window leaves of the queue, and what that says unless it was drained. *)
LEMMA Leftover ==
    ASSUME NEW b \in Nat, NEW arrived \in Nat, NEW capable \in Nat
    PROVE  LET offered   == b + arrived
               handled   == Smaller(capable, offered)
               remaining == offered - handled
               excess    == Minus(remaining, Deep)
           IN  /\ handled \in Nat /\ excess \in Nat
               /\ remaining - excess \in 0..Deep
               /\ remaining - excess > 0 => remaining = b + (arrived - capable)
  BY QueueAssumption DEF Smaller, Minus, Larger

LEMMA WindowKeeps ==
    ASSUME IInv, NEW dt \in queue.delays, Window(dt)
    PROVE  IInv'
<1> USE DEF IInv
<1> DEFINE arrived   == queue.arrivals * dt
           capable   == alive * Throughput * dt
           slope     == queue.arrivals - Throughput * running_in_window
           offered   == backlog + arrived
           handled   == Smaller(capable, offered)
           remaining == offered - handled
           excess    == Minus(remaining, Deep)
<1>1. /\ elapsed = 0 /\ elapsed' = dt /\ served' = handled /\ backlog' = remaining - excess
      /\ est' = [est EXCEPT !.last_backlog = IF @ = None THEN None ELSE @ - excess]
      /\ UNCHANGED <<params, queue, alive, dead, running_in_window, ticks, reading,
                     probing, exits>>
  BY DEF Window
<1>2. /\ dt \in Nat \ {0} /\ arrived \in Nat /\ capable \in Nat /\ slope * dt \in Int
      /\ dead = 0 => slope * dt = arrived - capable
  <2>1. dt \in Nat \ {0}
    BY PoolFacts
  <2>2. \A x \in Nat, y \in Nat : x * y \in Nat
    BY SMT
  <2>3. \A x \in Int, y \in Int : x * y \in Int
    BY SMT
  <2>4. \A x \in Nat, y \in Nat, z \in Nat, u \in Nat : (x - y * z) * u = x * u - z * y * u
    BY SMT
  <2>5. arrived \in Nat /\ Throughput * running_in_window \in Nat
    BY <2>1, <2>2, PoolFacts
  <2>6. capable \in Nat
    <3>1. alive * Throughput \in Nat
      BY <2>2, PoolFacts
    <3>2. QED
      BY <2>1, <2>2, <3>1
  <2>7. slope \in Int
    BY <2>5, PoolFacts
  <2>8. slope * dt \in Int
    BY <2>1, <2>3, <2>7
  <2>9. ASSUME dead = 0 PROVE slope * dt = arrived - capable
    <3>1. running_in_window = alive
      BY <2>9, PoolFacts DEF PoolMoves
    <3>2. QED
      BY <2>1, <2>4, <3>1, PoolFacts
  <2>10. QED
    BY <2>1, <2>5, <2>6, <2>8, <2>9
<1>3. /\ handled \in Nat /\ excess \in Nat /\ remaining - excess \in 0..Deep
      /\ remaining - excess > 0 => remaining = backlog + (arrived - capable)
  <2>1. backlog \in Nat /\ arrived - capable \in Int
    BY <1>2, PoolFacts
  <2> HIDE DEF arrived, capable
  <2>2. QED
    BY <1>2, <2>1, Leftover
<1>4. PoolMoves'
  BY <1>1, <1>3 DEF PoolMoves
<1> HIDE DEF arrived, capable, handled, excess, remaining
<1>5. Sound(est, Sample) /\ Sample' = Sample
  BY <1>1 DEF Sample, OnTheLine
<1>6. Sound(est', Sample)
  BY <1>1, <1>3, <1>5 DEF Sound, Estimates
<1>7. Baseline'
  <2>1. SUFFICES ASSUME est'.last_backlog # None, dead' = 0, backlog' > 0
                 PROVE  backlog' - est'.last_backlog - slope * dt \in 0..Held
    BY <1>1, <1>2 DEF Baseline, Held
  <2>2. est.last_backlog \in Int /\ est'.last_backlog = est.last_backlog - excess
    BY <1>1, <1>5, <2>1 DEF Sound, Estimates
  <2>3. backlog - est.last_backlog \in 0..Held
    BY <1>1, <2>1, <2>2, NoneAssumption DEF Baseline
  <2>4. remaining = backlog + slope * dt
    BY <1>1, <1>2, <1>3, <2>1
  <2>5. backlog' = remaining - excess
    BY <1>1
  <2> HIDE DEF slope, Held
  <2>6. backlog \in Nat
    BY PoolFacts
  <2>7. backlog' - est'.last_backlog - slope * dt = backlog - est.last_backlog
    BY <1>2, <1>3, <2>2, <2>4, <2>5, <2>6
  <2>8. QED
    BY <2>3, <2>7
<1>8. QED
  BY <1>4, <1>5, <1>6, <1>7

LEMMA ExitKeeps ==
    ASSUME IInv, WorkerExits
    PROVE  IInv'
<1> USE DEF IInv
<1>1. /\ alive > 0 /\ exits < queue.exits /\ exits' = exits + 1 /\ alive' = alive - 1
      /\ dead' = dead + 1
      /\ UNCHANGED <<params, queue, backlog, elapsed, served, est, running_in_window, ticks,
                     reading, probing>>
  BY DEF WorkerExits, load
<1>2. PoolMoves'
  BY <1>1, PoolFacts DEF PoolMoves
<1>3. Sound(est', Sample) /\ Sample' = Sample
  BY <1>1 DEF Sample, OnTheLine
<1>4. dead' # 0
  BY <1>1, PoolFacts
<1>5. Baseline'
  BY <1>1, <1>4 DEF Baseline, Held
<1>6. QED
  BY <1>2, <1>3, <1>5

-----------------------------------------------------------------------------
(* A tick *)

LEMMA DepthFacts ==
    ASSUME PoolMoves, NEW how \in {"rates", "depth"}
    PROVE  /\ Depth(how) \in Nat
           /\ Depth(how) <= backlog
           /\ backlog - queue.prefetch * alive <= Depth(how)
           /\ queue.prefetch * alive \in Nat
<1>1. \A x \in Nat, y \in Nat : x * y = y * x /\ x * y \in Nat
  BY SMT
<1>2. alive * queue.prefetch = queue.prefetch * alive /\ queue.prefetch * alive \in Nat
  BY <1>1, PoolFacts
<1>3. backlog \in Nat
  BY PoolFacts
<1> DEFINE held == queue.prefetch * alive
<1> HIDE DEF held
<1>4. Depth(how) = IF how = "rates" THEN backlog ELSE Minus(backlog, held)
  BY <1>2 DEF Depth, held
<1>5. held \in Nat
  BY <1>2 DEF held
<1>6. /\ Depth(how) \in Nat /\ Depth(how) <= backlog
      /\ backlog - held <= Depth(how) /\ held \in Nat
  BY <1>3, <1>4, <1>5 DEF Minus, Larger
<1>7. QED
  BY <1>6 DEF held

LEMMA ObservationFacts ==
    ASSUME PoolMoves, elapsed > 0, NEW how \in {"rates", "depth"}
    PROVE  IsObservation(Observation(how))
<1>1. elapsed \in Nat \ {0} /\ running_in_window \in Nat /\ Depth(how) \in Nat
  BY PoolFacts, DepthFacts
<1>2. (served * RateUnit) \div elapsed \in Nat /\ queue.arrivals * RateUnit \in Nat
  <2>1. \A x \in Nat, y \in Nat : x * y \in Nat
    BY SMT
  <2>2. served * RateUnit \in Nat /\ queue.arrivals * RateUnit \in Nat
    BY <2>1, PoolFacts, RateUnitAssumption
  <2>3. QED
    BY <1>1, <2>2, FitFacts
<1> DEFINE ack     == (served * RateUnit) \div elapsed
           publish == queue.arrivals * RateUnit
           rates   == IF how = "rates" THEN [ack_rate |-> ack, publish_rate |-> publish] ELSE None
<1>3. ack \in Nat /\ publish \in Nat
  BY <1>2
<1>4. Observation(how) =
        [backlog |-> Depth(how), running |-> running_in_window, dt |-> elapsed,
         interference |-> alive # running_in_window, rates |-> rates]
  BY DEF Observation
<1> HIDE DEF ack, publish
<1>5. rates # None => rates.ack_rate \in Nat /\ rates.publish_rate \in Nat
  BY <1>3
<1> HIDE DEF rates
<1>6. QED
  BY <1>1, <1>4, <1>5 DEF IsObservation

(* The sample of a window in which nothing interfered lies on the line. *)
LEMMA NewSample ==
    ASSUME IInv, elapsed > 0, NEW how \in {"rates", "depth"},
           est.last_backlog # None, alive = running_in_window, Depth(how) > 0
    PROVE  SampleOf(est, Observation(how)) \in Sample
<1> USE DEF IInv
<1> DEFINE n     == running_in_window
           last  == est.last_backlog
           slope == queue.arrivals - Throughput * n
           d     == Depth(how) - last - slope * elapsed
           lo    == queue.prefetch * n
           hi    == queue.prefetch * (n + 1)
           y     == ((Depth(how) - last) * RateUnit) \div elapsed
<1>1. /\ n \in Nat /\ elapsed \in Nat \ {0} /\ backlog \in Nat /\ alive \in Nat
      /\ dead \in Nat /\ alive + dead = n /\ RateUnit \in Nat \ {0}
      /\ queue.arrivals \in Nat /\ queue.prefetch \in Nat /\ Throughput \in Nat
  BY PoolFacts, RateUnitAssumption DEF PoolMoves
<1>2. dead = 0
  BY <1>1
<1>3. last \in Int
  BY DEF Sound, Estimates
<1>4. /\ Depth(how) \in Nat /\ Depth(how) <= backlog /\ backlog - lo <= Depth(how)
      /\ lo \in Nat /\ backlog > 0
  <2>1. /\ Depth(how) \in Nat /\ Depth(how) <= backlog
        /\ backlog - lo <= Depth(how) /\ lo \in Nat
    BY DepthFacts
  <2> HIDE DEF lo
  <2>2. QED
    BY <1>1, <2>1
<1>5. hi \in Nat /\ slope \in Int /\ slope * elapsed \in Int
  <2>1. \A x \in Nat, z \in Nat : x * z \in Nat
    BY SMT
  <2>2. \A x \in Int, z \in Int : x * z \in Int
    BY SMT
  <2>3. n + 1 \in Nat
    BY <1>1
  <2>4. hi \in Nat
    BY <1>1, <2>1, <2>3
  <2>5. Throughput * n \in Nat
    BY <1>1, <2>1
  <2>6. slope \in Int
    BY <1>1, <2>5
  <2>7. slope * elapsed \in Int
    BY <1>1, <2>2, <2>6
  <2>8. QED
    BY <2>4, <2>6, <2>7
<1>6. backlog - last - slope * elapsed \in 0..hi
  BY <1>1, <1>2, <1>4 DEF Baseline, Held
<1>7. d \in (-lo)..hi
  <2> DEFINE move == slope * elapsed
  <2>1. move \in Int /\ backlog - last - move \in 0..hi
    BY <1>5, <1>6
  <2> HIDE DEF move, lo, hi, last
  <2>2. Depth(how) - last - move \in (-lo)..hi
    BY <1>1, <1>3, <1>4, <1>5, <2>1
  <2>3. QED
    BY <2>2 DEF move
<1>8. slope * elapsed + d = Depth(how) - last
  <2> DEFINE move == slope * elapsed
  <2>1. move \in Int
    BY <1>5
  <2> HIDE DEF move, last
  <2>2. move + (Depth(how) - last - move) = Depth(how) - last
    BY <1>3, <1>4, <2>1
  <2>3. QED
    BY <2>2 DEF move
<1> HIDE DEF d, lo, hi, slope, last
<1>9. y \in Int /\ y - slope * RateUnit \in -(lo * RateUnit)..(hi * RateUnit)
  <2>1. /\ ((slope * elapsed + d) * RateUnit) \div elapsed \in Int
        /\ ((slope * elapsed + d) * RateUnit) \div elapsed - slope * RateUnit
             \in -(lo * RateUnit)..(hi * RateUnit)
    BY <1>1, <1>4, <1>5, <1>7, SlopeError
  <2>2. QED
    BY <1>8, <2>1
<1> HIDE DEF y
<1>10. SampleOf(est, Observation(how)) = [n |-> n, y |-> y]
  BY DEF SampleOf, Observation, y, last
<1>11. OnTheLine([n |-> n, y |-> y])
  BY <1>9 DEF OnTheLine, slope, lo, hi
<1>12. n \in 0..params.max_workers
  BY DEF PoolMoves
<1>13. [n |-> n, y |-> y] \in [n : 0..params.max_workers, y : Int]
  BY <1>9, <1>12
<1>14. QED
  BY <1>10, <1>11, <1>13 DEF Sample

(* The next window starts from what was read. *)
LEMMA NewBaseline ==
    ASSUME PoolMoves, PoolMoves', NEW how \in {"rates", "depth"},
           queue' = queue, backlog' = backlog, elapsed' = 0,
           running_in_window' = alive', alive <= alive' + 1,
           est'.last_backlog = Depth(how)
    PROVE  Baseline'
<1>1. alive \in Nat /\ backlog \in Nat /\ queue.prefetch \in Nat
  BY PoolFacts
<1>2. alive' \in Nat
  <2>1. PoolMoves' => alive' \in Nat
    <3>1. params'.max_workers \in Nat
      BY ParamsAssumption DEF PoolMoves, IsRunnable
    <3>2. QED
      BY <3>1 DEF PoolMoves
  <2>2. QED
    BY <2>1
<1>3. queue.prefetch * alive <= queue.prefetch * (alive' + 1) /\ queue.prefetch * (alive' + 1) \in Nat
  <2>1. \A x, z, u \in Nat : x <= z => u * x <= u * z
    BY SMT
  <2>2. \A x, z \in Nat : x * z \in Nat
    BY SMT
  <2>3. \A x \in Nat : x + 1 \in Nat
    OBVIOUS
  <2>4. alive' + 1 \in Nat
    BY <1>2, <2>3
  <2>5. QED
    BY <1>1, <2>1, <2>2, <2>4
<1> DEFINE held == queue.prefetch * alive
           cap  == queue.prefetch * (alive' + 1)
<1>4. /\ Depth(how) \in Nat /\ Depth(how) <= backlog /\ backlog - held <= Depth(how)
      /\ held \in Nat /\ held <= cap /\ cap \in Nat
  BY <1>3, DepthFacts
<1> HIDE DEF held, cap
<1>5. backlog - Depth(how) \in 0..cap
  BY <1>1, <1>4
<1>6. Held' = cap
  BY DEF Held, cap
<1>7. QED
  BY <1>5, <1>6 DEF Baseline

LEMMA TickKeeps ==
    ASSUME IInv, NEW how \in {"rates", "depth"}, Tick(how)
    PROVE  IInv'
<1> USE DEF IInv
<1> DEFINE o == Observation(how)
           e == Observe(est, o)
           i == [backlog |-> Depth(how), running |-> alive, mu |-> KnownMu(e),
                 lambda |-> e.lambda, worker_rss |-> None, safe_ram_budget |-> 0,
                 swap_pressure |-> FALSE, ticks_since_change |-> ticks,
                 needs_probe |-> NeedsProbe(e)]
           step == DecideSlo(params, i)
           change == CASE step.action = "ScaleUp"   -> 1
                       [] step.action = "ScaleDown" -> -1
                       [] step.action = "Hold"      -> 0
<1>1. /\ elapsed > 0 /\ elapsed' = 0 /\ served' = 0 /\ dead' = 0
      /\ UNCHANGED <<params, queue, backlog, exits>>
      /\ reading' = how /\ est' = e
  BY DEF Tick, EndWindow
<1>2. /\ alive' = alive + change /\ running_in_window' = alive + change
      /\ ticks' = IF step.action = "Hold" THEN OneMore ELSE 0
      /\ probing' = step.probing
  BY <1>1 DEF Tick, Resize, Decided
<1>3. Sound(e, Sample) /\ e.last_backlog = Depth(how)
  <2>1. IsObservation(o)
    BY <1>1, ObservationFacts
  <2>2. /\ o.interference = (alive # running_in_window) /\ o.backlog = Depth(how)
    BY DEF Observation
  <2>3. est.last_backlog # None /\ ~o.interference /\ o.backlog > 0 => SampleOf(est, o) \in Sample
    BY <1>1, <2>2, NewSample
  <2>4. Sample \in SUBSET AnySample
    BY SamplesAreSamples
  <2> HIDE DEF o
  <2>5. QED
    BY <2>1, <2>2, <2>3, <2>4, ObserveKeeps
<1> HIDE DEF e, o
<1>4. Typed(params, i) /\ i.running = alive
  <2>1. KnownMu(e) \in (Nat \ {0}) \union {None} /\ e.lambda \in Nat /\ NeedsProbe(e) \in BOOLEAN
    BY <1>3, KnownFacts
  <2>2. Depth(how) \in Nat
    BY DepthFacts
  <2>3. /\ i.backlog \in Nat /\ i.running \in Nat /\ i.mu \in (Nat \ {0}) \union {None}
        /\ i.lambda \in Nat /\ i.worker_rss \in Nat \union {None}
        /\ i.safe_ram_budget \in Nat /\ i.swap_pressure \in BOOLEAN
        /\ i.ticks_since_change \in Nat /\ i.needs_probe \in BOOLEAN
    BY <2>1, <2>2, PoolFacts
  <2>4. i.running = alive
    OBVIOUS
  <2> HIDE DEF i
  <2>5. QED
    BY <2>3, <2>4, PoolFacts DEF Typed
<1> HIDE DEF i
<1>5. /\ alive \in Nat /\ params.max_workers \in Nat /\ alive <= params.max_workers
      /\ params.cooldown_ticks \in Nat /\ ticks \in Nat
  BY PoolFacts DEF PoolMoves
<1>6. /\ step.action \in {"ScaleUp", "ScaleDown", "Hold"} /\ step.probing \in BOOLEAN
      /\ step.action = "ScaleUp" => alive < params.max_workers
      /\ step.action = "ScaleDown" => alive > 0
  BY <1>4, <1>5, ActionFacts, GrowthFits
<1> HIDE DEF step
<1>7. /\ alive + change \in 0..params.max_workers
      /\ alive <= (alive + change) + 1
  BY <1>5, <1>6
<1> HIDE DEF change
<1>8. ticks' \in 0..params.cooldown_ticks
  BY <1>2, <1>5 DEF OneMore, Smaller
<1>9. PoolMoves'
  <2>1. 0 \in 0..queue.exits /\ exits \in 0..queue.exits /\ exits \in Nat
    BY PoolFacts DEF PoolMoves
  <2>2. /\ params' \in Params /\ queue' \in Queues /\ backlog' \in 0..Deep
        /\ reading' \in {"none", "rates", "depth", "error"} /\ served' \in Nat
        /\ elapsed' \in queue'.delays \union {0}
    BY <1>1 DEF PoolMoves
  <2>3. /\ alive' \in 0..params'.max_workers /\ running_in_window' \in 0..params'.max_workers
        /\ ticks' \in 0..params'.cooldown_ticks
    BY <1>1, <1>2, <1>7, <1>8
  <2>4. /\ dead' \in 0..queue'.exits /\ exits' \in 0..queue'.exits /\ dead' <= exits'
    BY <1>1, <2>1
  <2>5. alive' + dead' = running_in_window'
    BY <1>1, <1>2, <1>5, <1>7
  <2>6. probing' \in BOOLEAN
    BY <1>2, <1>6
  <2>7. QED
    BY <2>2, <2>3, <2>4, <2>5, <2>6 DEF PoolMoves
<1>10. Sound(est, Sample)'
  <2>1. Sample' = Sample
    BY <1>1 DEF Sample, OnTheLine
  <2>2. Sound(est', Sample)
    BY <1>1, <1>3
  <2>3. Sound(est', Sample')
    BY <2>1, <2>2
  <2>4. QED
    BY <2>3
<1>11. Baseline'
  <2>1. running_in_window' = alive' /\ alive <= alive' + 1
    BY <1>2, <1>7
  <2>2. est'.last_backlog = Depth(how)
    BY <1>1, <1>3
  <2>3. QED
    BY <1>1, <1>9, <2>1, <2>2, NewBaseline
<1>12. QED
  BY <1>9, <1>10, <1>11

LEMMA TickFailsKeeps ==
    ASSUME IInv, TickFails
    PROVE  IInv'
<1> USE DEF IInv
<1>1. /\ elapsed' = 0 /\ served' = 0 /\ dead' = 0 /\ probing' = FALSE
      /\ UNCHANGED <<params, queue, backlog, exits>>
      /\ reading' = "error" /\ est' = [est EXCEPT !.last_backlog = None]
  BY DEF TickFails, EndWindow, ForgetBacklog
<1>2. /\ alive' \in 0..params.max_workers /\ running_in_window' = alive'
      /\ ticks' \in 0..params.cooldown_ticks
  <2>1. /\ alive \in Nat /\ alive <= params.max_workers
        /\ ticks \in 0..params.cooldown_ticks /\ params.cooldown_ticks \in Nat
        /\ params.min_workers \in Nat /\ params.max_workers \in Nat
        /\ params.min_workers <= params.max_workers
    BY PoolFacts DEF PoolMoves
  <2>2. \/ /\ alive < params.min_workers /\ alive' = alive + 1
           /\ running_in_window' = alive + 1 /\ ticks' = 0
        \/ alive' = alive + 0 /\ running_in_window' = alive + 0 /\ ticks' = ticks
    BY DEF TickFails, Resize
  <2>3. QED
    BY <2>1, <2>2
<1>3. PoolMoves'
  <2>1. 0 \in 0..queue.exits /\ exits \in 0..queue.exits /\ exits \in Nat
    BY PoolFacts DEF PoolMoves
  <2>2. alive' + 0 = alive'
    <3>1. 0..params.max_workers \subseteq Nat /\ \A x \in Nat : x + 0 = x
      BY PoolFacts
    <3>2. QED
      BY <1>2, <3>1
  <2>3. /\ params' \in Params /\ queue' \in Queues /\ backlog' \in 0..Deep
        /\ reading' \in {"none", "rates", "depth", "error"} /\ served' \in Nat
        /\ elapsed' \in queue'.delays \union {0} /\ probing' \in BOOLEAN
    BY <1>1 DEF PoolMoves
  <2>4. QED
    BY <1>1, <1>2, <2>1, <2>2, <2>3 DEF PoolMoves
<1>4. Sample' = Sample /\ Sound(est', Sample)
  BY <1>1 DEF Sample, OnTheLine, Sound, Estimates
<1>5. Baseline'
  <2>1. est'.last_backlog = None
    BY <1>1 DEF Sound, Estimates
  <2>2. QED
    BY <2>1 DEF Baseline
<1>6. QED
  BY <1>3, <1>4, <1>5

LEMMA StepKeeps == IInv /\ [Next]_vars => IInv'
<1> SUFFICES ASSUME IInv, [Next]_vars PROVE IInv'
  OBVIOUS
<1>1. ASSUME NEW dt \in queue.delays, Window(dt) PROVE IInv'
  BY <1>1, WindowKeeps
<1>2. CASE TickFails
  BY <1>2, TickFailsKeeps
<1>3. CASE Tick("rates") \/ Tick("depth")
  BY <1>3, TickKeeps
<1>4. CASE WorkerExits
  BY <1>4, ExitKeeps
<1>5. CASE UNCHANGED vars
  BY <1>5 DEF vars, load, prog, IInv, PoolMoves, Sound, Estimates, Sample, OnTheLine,
       Baseline, Held
<1>6. QED
  BY <1>1, <1>2, <1>3, <1>4, <1>5 DEF Next, LoopTurn

(* The invariant is one. *)
THEOREM Invariance == Spec => []IInv
  BY InitHas, StepKeeps, PTL DEF Spec

-----------------------------------------------------------------------------
(* What the run checks on small pools, for any *)

(* The parts of the loop and of its estimator keep their types and bounds: the window its
   capacity, the age of a broker's estimate its grace, the pool its ceiling. *)
THEOREM TypeCorrect == Spec => []TypeOK
<1>1. ASSUME IInv PROVE TypeOK
  <2>1. /\ est.source \in {"none", "direct", "regression"}
        /\ est.direct_stale \in 0..(DirectGrace + 1)
        /\ est.last_backlog \in Int \union {None}
        /\ Len(est.window) <= Capacity /\ est.window \in Seq(Sample)
    BY <1>1 DEF IInv, Sound, Estimates
  <2>2. ASSUME NEW k \in DOMAIN est.window PROVE est.window[k].n \in 0..params.max_workers
    <3>1. est.window[k] \in Sample
      BY <2>1, LenProperties, ElementOfSeq
    <3>2. QED
      BY <3>1 DEF Sample
  <2>3. QED
    BY <1>1, <2>1, <2>2 DEF IInv, PoolMoves, TypeOK
<1>2. QED
  BY <1>1, Invariance, PTL

(* push_sample only ever stores points of the line that fit() looks for, give or take what
   the workers hold unacknowledged. *)
THEOREM WindowOnTheLine == Spec => []SamplesAreSlopes
<1>1. ASSUME IInv PROVE SamplesAreSlopes
  <2>1. est.window \in Seq(Sample)
    BY <1>1 DEF IInv, Sound, Estimates
  <2>2. ASSUME NEW k \in DOMAIN est.window PROVE OnTheLine(est.window[k])
    <3>1. est.window[k] \in Sample
      BY <2>1, LenProperties, ElementOfSeq
    <3>2. QED
      BY <3>1 DEF Sample
  <2>3. QED
    BY <2>2 DEF SamplesAreSlopes, OnTheLine
<1>2. QED
  BY <1>1, Invariance, PTL

(* Where workers hold nothing back, the fit is the truth: every sample lies on the line
   itself, and least squares of such points returns it. *)
THEOREM FitsAreTrue == Spec => []FitIsExact
<1>1. Init => FitIsExact
  BY DEF Init, NewEstimator, FitIsExact
<1>2. ASSUME IInv, FitIsExact, [Next]_vars PROVE FitIsExact'
  <2> USE <1>2 DEF IInv
  <2> DEFINE m == Throughput * RateUnit
             a == queue.arrivals * RateUnit
  <2>1. m \in Nat /\ a \in Nat
    <3>1. \A u, v \in Nat : u * v \in Nat
      BY SMT
    <3>2. QED
      BY <3>1, PoolFacts, RateUnitAssumption
  <2>2. queue' = queue
    BY DEF Next, LoopTurn, Window, TickFails, Tick, EndWindow, WorkerExits, vars
  <2>3. SUFFICES ASSUME queue.prefetch = 0 PROVE Inferred(est', m, a)
    BY <2>2 DEF FitIsExact, Inferred
  <2>4. Inferred(est, m, a)
    BY <2>3 DEF FitIsExact, Inferred
  <2>5. ASSUME NEW how \in {"rates", "depth"}, Tick(how) PROVE Inferred(est', m, a)
    <3> DEFINE o == Observation(how)
    <3>1. elapsed > 0 /\ est' = Observe(est, o)
      BY <2>5 DEF Tick, EndWindow
    <3>2. IsObservation(o)
      BY <3>1, ObservationFacts
    <3>3. /\ o.interference = (alive # running_in_window) /\ o.backlog = Depth(how)
          /\ o.rates # None => o.rates.publish_rate = a
      BY DEF Observation
    <3>4. est.last_backlog # None /\ ~o.interference /\ o.backlog > 0 => SampleOf(est, o) \in Sample
      BY <3>1, <3>3, NewSample
    <3>5. Sample \in SUBSET AnySample
      BY SamplesAreSamples
    <3>6. ASSUME NEW s \in Sample PROVE s.y = a - m * s.n
      <4>1. s.n \in Nat /\ s.y \in Int
        BY <3>5 DEF AnySample
      <4>2. s.y - (queue.arrivals - Throughput * s.n) * RateUnit
              \in -(0 * s.n * RateUnit)..(0 * (s.n + 1) * RateUnit)
        BY <2>3 DEF Sample, OnTheLine
      <4>3. 0 * s.n * RateUnit = 0 /\ 0 * (s.n + 1) * RateUnit = 0
        <5>1. \A u, v \in Int : 0 * u * v = 0
          BY SMT
        <5>2. s.n \in Int /\ s.n + 1 \in Int /\ RateUnit \in Int
          BY <4>1, RateUnitAssumption
        <5>3. QED
          BY <5>1, <5>2
      <4>4. (queue.arrivals - Throughput * s.n) * RateUnit = a - m * s.n
        <5>1. \A b, t, n, u \in Int : (b - t * n) * u = b * u - (t * u) * n
          BY SMT
        <5>2. QED
          BY <4>1, <5>1, PoolFacts, RateUnitAssumption
      <4>5. m * s.n \in Int
        BY <2>1, <4>1, SMT
      <4> HIDE DEF a, m
      <4>6. s.y - (a - m * s.n) \in -0..0
        BY <4>2, <4>3, <4>4
      <4> DEFINE x == m * s.n
      <4>7. x \in Int /\ s.y - (a - x) \in -0..0
        BY <4>5, <4>6
      <4> HIDE DEF x
      <4>8. s.y = a - x
        BY <2>1, <4>1, <4>7
      <4>9. QED
        BY <4>8 DEF x
    <3> HIDE DEF o, a, m
    <3>7. QED
      BY <2>1, <2>4, <3>1, <3>2, <3>3, <3>4, <3>5, <3>6, ObserveExact
  <2>6. ASSUME NEW dt \in queue.delays, Window(dt) PROVE Inferred(est', m, a)
    <3>1. est'.source = est.source /\ est'.mu = est.mu /\ est'.lambda = est.lambda
      BY <2>6 DEF Window, Sound, Estimates
    <3>2. QED
      BY <2>4, <3>1 DEF Inferred
  <2>7. CASE TickFails
    <3>1. est'.source = est.source /\ est'.mu = est.mu /\ est'.lambda = est.lambda
      BY <2>7 DEF TickFails, ForgetBacklog, Sound, Estimates
    <3>2. QED
      BY <2>4, <3>1 DEF Inferred
  <2>8. CASE WorkerExits \/ UNCHANGED vars
    <3>1. est' = est
      BY <2>8 DEF WorkerExits, vars, prog
    <3>2. QED
      BY <2>4, <3>1
  <2> HIDE DEF m, a
  <2>9. QED
    BY <2>5, <2>6, <2>7, <2>8 DEF Next, LoopTurn
<1>3. QED
  BY <1>1, <1>2, Invariance, PTL DEF Spec
=============================================================================
