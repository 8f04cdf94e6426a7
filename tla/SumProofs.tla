------------------------------ MODULE SumProofs ------------------------------
(***************************************************************************)
(* What the sum of a function over its finite domain does, for SumFunction  *)
(* as the community modules define it.  Induction is by way of sets, the    *)
(* form in which a prover can use it.                                        *)
(***************************************************************************)
EXTENDS Integers, Functions, FiniteSetTheorems, WellFoundedInduction, TLAPS

-----------------------------------------------------------------------------
(* Induction *)

(* A set of naturals that has 0 and the successor of each member is Nat. *)
LEMMA NatSetInduction ==
    ASSUME NEW Good \in SUBSET Nat, 0 \in Good, \A n \in Good : n + 1 \in Good
    PROVE  Good = Nat
<1> SUFFICES ASSUME Nat \ Good # {} PROVE FALSE
    OBVIOUS
<1>1. PICK m \in Nat \ Good : \A k \in Nat \ Good : ~(<<k, m>> \in OpToRel(<, Nat))
    BY NatLessThanWellFounded, WFMin
<1>2. \A k \in Nat \ Good : ~(k < m)
    BY <1>1 DEF OpToRel
<1>3. m \in Nat /\ m \notin Good
    OBVIOUS
<1> HIDE <1>1
<1>4. m - 1 \in Nat /\ m - 1 < m
    BY <1>3
<1>5. m - 1 \in Good
    BY <1>2, <1>4
<1>6. (m - 1) + 1 \in Good
    BY <1>5
<1>7. (m - 1) + 1 = m
    BY <1>3
<1>8. QED
    BY <1>3, <1>6, <1>7

(* What holds of a set once it holds of the set less any one member, holds of every
   subset of a finite set. *)
LEMMA SubsetInduction ==
    ASSUME NEW S, IsFiniteSet(S), NEW Good \in SUBSET (SUBSET S),
           \A s \in SUBSET S : (\A x \in s : s \ {x} \in Good) => s \in Good
    PROVE  Good = SUBSET S
<1> DEFINE Sizes == {n \in Nat : \A s \in SUBSET S : Cardinality(s) <= n => s \in Good}
<1>1. \A s \in SUBSET S : IsFiniteSet(s) /\ Cardinality(s) \in Nat
    BY FS_Subset, FS_CardinalityType
<1>2. \A s \in SUBSET S : \A x \in s : /\ s \ {x} \in SUBSET S
                                       /\ Cardinality(s \ {x}) = Cardinality(s) - 1
    BY <1>1, FS_RemoveElement
<1>3. 0 \in Sizes
    <2>1. \A s \in SUBSET S : Cardinality(s) <= 0 => s = {}
        BY <1>1, FS_EmptySet
    <2>2. {} \in Good
        OBVIOUS
    <2>3. QED
        BY <2>1, <2>2
<1>4. ASSUME NEW n \in Sizes PROVE n + 1 \in Sizes
    <2>1. ASSUME NEW s \in SUBSET S, Cardinality(s) <= n + 1 PROVE s \in Good
        <3>1. \A x \in s : Cardinality(s \ {x}) <= n /\ s \ {x} \in SUBSET S
            BY <1>1, <1>2, <2>1
        <3>2. \A x \in s : s \ {x} \in Good
            BY <3>1
        <3>3. QED
            BY <3>2
    <2>2. QED
        BY <2>1
<1>5. Sizes = Nat
    <2> HIDE DEF Sizes
    <2>1. Sizes \in SUBSET Nat
        BY DEF Sizes
    <2>2. QED
        BY <1>3, <1>4, <2>1, NatSetInduction
<1>6. \A s \in SUBSET S : s \in Good
    BY <1>1, <1>5
<1>7. QED
    BY <1>6

-----------------------------------------------------------------------------
(* The recursion behind the fold *)

Chosen(s) == CHOOSE x \in s : TRUE

Unfolds(f, S, g) ==
    g = [s \in SUBSET S |-> IF s = {} THEN 0 ELSE f[Chosen(s)] + g[s \ {Chosen(s)}]]

LEMMA SumIsFold ==
    ASSUME NEW f
    PROVE  SumFunction(f) = (CHOOSE g : Unfolds(f, DOMAIN f, g))[DOMAIN f]
BY DEF SumFunction, SumFunctionOnSet, FoldFunctionOnSet, MapThenFoldSet, Unfolds, Chosen

(* The recursion has a solution on the subsets of a finite set. *)
LEMMA FoldExists ==
    ASSUME NEW S, IsFiniteSet(S), NEW f \in [S -> Int]
    PROVE  \E g : Unfolds(f, S, g)
<1> DEFINE Next(g) == [s \in SUBSET S |-> IF s = {} THEN 0 ELSE f[Chosen(s)] + g[s \ {Chosen(s)}]]
           Depths  == {n \in Nat : \E g : \A s \in SUBSET S : Cardinality(s) <= n => g[s] = Next(g)[s]}
<1>1. \A s \in SUBSET S : IsFiniteSet(s) /\ Cardinality(s) \in Nat
    BY FS_Subset, FS_CardinalityType
<1>2. \A s \in SUBSET S : s # {} => /\ Chosen(s) \in s
                                    /\ s \ {Chosen(s)} \in SUBSET S
                                    /\ Cardinality(s \ {Chosen(s)}) = Cardinality(s) - 1
    <2>1. \A s \in SUBSET S : s # {} => Chosen(s) \in s
        BY DEF Chosen
    <2>2. QED
        BY <1>1, <2>1, FS_RemoveElement
<1>3. 0 \in Depths
    <2> DEFINE g == [s \in SUBSET S |-> 0]
    <2>1. \A s \in SUBSET S : Cardinality(s) <= 0 => s = {}
        BY <1>1, FS_EmptySet
    <2>2. \A s \in SUBSET S : Cardinality(s) <= 0 => g[s] = Next(g)[s]
        BY <2>1
    <2>3. QED
        BY <2>2
<1>4. ASSUME NEW n \in Depths PROVE n + 1 \in Depths
    <2>1. PICK g : \A s \in SUBSET S : Cardinality(s) <= n => g[s] = Next(g)[s]
        OBVIOUS
    <2> DEFINE h == Next(g)
    <2>2. ASSUME NEW s \in SUBSET S, Cardinality(s) <= n + 1 PROVE h[s] = Next(h)[s]
        <3>1. CASE s = {}
            BY <3>1
        <3>2. CASE s # {}
            <4> DEFINE t == s \ {Chosen(s)}
            <4>1. t \in SUBSET S /\ Cardinality(t) <= n
                BY <1>1, <1>2, <2>2, <3>2
            <4>2. g[t] = h[t]
                BY <2>1, <4>1
            <4>3. h[s] = f[Chosen(s)] + g[t] /\ Next(h)[s] = f[Chosen(s)] + h[t]
                BY <3>2
            <4>4. QED
                BY <4>2, <4>3
        <3>3. QED
            BY <3>1, <3>2
    <2> HIDE DEF h, Next
    <2>3. \E e : \A s \in SUBSET S : Cardinality(s) <= n + 1 => e[s] = Next(e)[s]
        BY <2>2
    <2>4. QED
        BY <2>3
<1>5. Depths = Nat
    <2> HIDE DEF Depths
    <2>1. Depths \in SUBSET Nat
        BY DEF Depths
    <2>2. QED
        BY <1>3, <1>4, <2>1, NatSetInduction
<1>6. PICK g : \A s \in SUBSET S : Cardinality(s) <= Cardinality(S) => g[s] = Next(g)[s]
    <2>1. Cardinality(S) \in Depths
        BY <1>5, FS_CardinalityType
    <2>2. QED
        BY <2>1
<1>7. \A s \in SUBSET S : Cardinality(s) <= Cardinality(S)
    BY FS_Subset
<1>8. \A s \in SUBSET S : g[s] = Next(g)[s]
    BY <1>6, <1>7
<1> DEFINE h == [s \in SUBSET S |-> g[s]]
<1>9. Unfolds(f, S, h)
    <2>1. \A s \in SUBSET S : h[s] = IF s = {} THEN 0 ELSE f[Chosen(s)] + h[s \ {Chosen(s)}]
        BY <1>2, <1>8
    <2>2. QED
        BY <2>1 DEF Unfolds
<1>10. QED
    BY <1>9

(* It does not matter in which order the members are taken. *)
LEMMA AnyOrder ==
    ASSUME NEW S, IsFiniteSet(S), NEW f \in [S -> Int], NEW g, Unfolds(f, S, g)
    PROVE  /\ g[{}] = 0
           /\ \A s \in SUBSET S : g[s] \in Int /\ \A x \in s : g[s] = f[x] + g[s \ {x}]
<1>1. g[{}] = 0
    BY DEF Unfolds
<1>2. \A s \in SUBSET S : s # {} =>
         /\ Chosen(s) \in s /\ f[Chosen(s)] \in Int
         /\ g[s] = f[Chosen(s)] + g[s \ {Chosen(s)}]
    <2>1. \A s \in SUBSET S : s # {} => Chosen(s) \in s
        BY DEF Chosen
    <2>2. QED
        BY <2>1 DEF Unfolds
<1>3. \A s \in SUBSET S : g[s] \in Int
    <2> DEFINE Typed == {s \in SUBSET S : g[s] \in Int}
    <2>1. ASSUME NEW s \in SUBSET S, \A x \in s : s \ {x} \in Typed PROVE s \in Typed
        <3>1. CASE s = {}
            BY <1>1, <3>1
        <3>2. CASE s # {}
            <4>1. g[s \ {Chosen(s)}] \in Int
                BY <1>2, <2>1, <3>2
            <4>2. QED
                BY <1>2, <3>2, <4>1
        <3>3. QED
            BY <3>1, <3>2
    <2> HIDE DEF Typed
    <2>2. Typed \in SUBSET (SUBSET S)
        BY DEF Typed
    <2>3. Typed = SUBSET S
        BY <2>1, <2>2, SubsetInduction
    <2>4. QED
        BY <2>3 DEF Typed
<1> DEFINE Good == {s \in SUBSET S : \A x \in s : g[s] = f[x] + g[s \ {x}]}
<1>4. ASSUME NEW s \in SUBSET S, \A x \in s : s \ {x} \in Good PROVE s \in Good
    <2>1. ASSUME NEW x \in s PROVE g[s] = f[x] + g[s \ {x}]
        <3> DEFINE y    == Chosen(s)
                   rest == (s \ {x}) \ {y}
        <3>1. y \in s /\ f[y] \in Int /\ f[x] \in Int /\ g[s] = f[y] + g[s \ {y}]
            BY <1>2
        <3> HIDE DEF y
        <3>2. CASE x = y
            BY <3>1, <3>2
        <3>3. CASE x # y
            <4>1. /\ g[s \ {x}] = f[y] + g[(s \ {x}) \ {y}]
                  /\ g[s \ {y}] = f[x] + g[(s \ {y}) \ {x}]
                BY <1>4, <3>1, <3>3
            <4>2. (s \ {y}) \ {x} = rest /\ rest \in SUBSET S /\ g[rest] \in Int
                BY <1>3
            <4>3. g[s \ {x}] = f[y] + g[rest] /\ g[s \ {y}] = f[x] + g[rest]
                BY <4>1, <4>2
            <4> HIDE DEF rest
            <4>4. QED
                BY <3>1, <4>2, <4>3
        <3>4. QED
            BY <3>2, <3>3
    <2>2. QED
        BY <2>1
<1>5. Good = SUBSET S
    <2> HIDE DEF Good
    <2>1. Good \in SUBSET (SUBSET S)
        BY DEF Good
    <2>2. QED
        BY <1>4, <2>1, SubsetInduction
<1>6. QED
    BY <1>1, <1>3, <1>5

(* On a smaller domain the recursion has the same values. *)
LEMMA SameBelow ==
    ASSUME NEW S, IsFiniteSet(S), NEW f \in [S -> Int], NEW g, Unfolds(f, S, g),
           NEW T \in SUBSET S, NEW e \in [T -> Int], \A x \in T : e[x] = f[x],
           NEW h, Unfolds(e, T, h)
    PROVE  \A s \in SUBSET T : h[s] = g[s]
<1> DEFINE Good == {s \in SUBSET T : h[s] = g[s]}
<1>1. IsFiniteSet(T)
    BY FS_Subset
<1>2. ASSUME NEW s \in SUBSET T, \A x \in s : s \ {x} \in Good PROVE s \in Good
    <2>1. CASE s = {}
        BY <2>1 DEF Unfolds
    <2>2. CASE s # {}
        <3>1. Chosen(s) \in s /\ s \in SUBSET S
            BY <2>2 DEF Chosen
        <3>2. /\ h[s] = e[Chosen(s)] + h[s \ {Chosen(s)}]
              /\ g[s] = f[Chosen(s)] + g[s \ {Chosen(s)}]
            BY <2>2, <3>1 DEF Unfolds
        <3>3. e[Chosen(s)] = f[Chosen(s)] /\ h[s \ {Chosen(s)}] = g[s \ {Chosen(s)}]
            BY <1>2, <3>1
        <3>4. QED
            BY <3>2, <3>3
    <2>3. QED
        BY <2>1, <2>2
<1>3. Good = SUBSET T
    <2> HIDE DEF Good
    <2>1. Good \in SUBSET (SUBSET T)
        BY DEF Good
    <2>2. QED
        BY <1>1, <1>2, <2>1, SubsetInduction
<1>4. QED
    BY <1>3

-----------------------------------------------------------------------------
(* The sum *)

(* The sum of integers is an integer, and any member may be taken out first. *)
LEMMA SumSplits ==
    ASSUME NEW S, IsFiniteSet(S), NEW f \in [S -> Int]
    PROVE  /\ SumFunction(f) \in Int
           /\ S = {} => SumFunction(f) = 0
           /\ \A x \in S : SumFunction(f) = f[x] + SumFunction(Restrict(f, S \ {x}))
<1> DEFINE g == CHOOSE g : Unfolds(f, S, g)
<1>1. Unfolds(f, S, g) /\ SumFunction(f) = g[S]
    <2>1. \E e : Unfolds(f, S, e)
        BY FoldExists
    <2>2. DOMAIN f = S
        OBVIOUS
    <2>3. QED
        BY <2>1, <2>2, SumIsFold
<1> HIDE DEF g
<1>2. ASSUME NEW x \in S
      PROVE  SumFunction(f) = f[x] + SumFunction(Restrict(f, S \ {x}))
    <2> DEFINE T == S \ {x}
               e == Restrict(f, T)
               h == CHOOSE h : Unfolds(e, T, h)
    <2>1. T \in SUBSET S /\ IsFiniteSet(T) /\ e \in [T -> Int] /\ DOMAIN e = T
        BY FS_Subset DEF Restrict
    <2>2. \A y \in T : e[y] = f[y]
        BY DEF Restrict
    <2> HIDE DEF e
    <2>3. Unfolds(e, T, h) /\ SumFunction(e) = h[T]
        <3>1. \E d : Unfolds(e, T, d)
            BY <2>1, FoldExists
        <3>2. QED
            BY <2>1, <3>1, SumIsFold
    <2> HIDE DEF h
    <2>4. h[T] = g[T]
        BY <1>1, <2>1, <2>2, <2>3, SameBelow
    <2>5. g[S] = f[x] + g[T]
        BY <1>1, AnyOrder
    <2>6. SumFunction(f) = f[x] + SumFunction(e)
        BY <1>1, <2>3, <2>4, <2>5
    <2>7. QED
        BY <2>6 DEF e
<1>3. g[S] \in Int /\ (S = {} => g[S] = 0)
    <2>1. S \in SUBSET S
        OBVIOUS
    <2>2. QED
        BY <1>1, <2>1, AnyOrder
<1>4. QED
    BY <1>1, <1>2, <1>3

(* The same of a part of the domain. *)
LEMMA SumOfPart ==
    ASSUME NEW S, IsFiniteSet(S), NEW f \in [S -> Int], NEW s \in SUBSET S
    PROVE  /\ SumFunction(Restrict(f, s)) \in Int
           /\ s = {} => SumFunction(Restrict(f, s)) = 0
           /\ \A x \in s : SumFunction(Restrict(f, s)) = f[x] + SumFunction(Restrict(f, s \ {x}))
<1> DEFINE F == Restrict(f, s)
<1>1. IsFiniteSet(s) /\ F \in [s -> Int]
    BY FS_Subset DEF Restrict
<1>2. ASSUME NEW x \in s PROVE SumFunction(F) = f[x] + SumFunction(Restrict(f, s \ {x}))
    <2>1. Restrict(F, s \ {x}) = Restrict(f, s \ {x}) /\ F[x] = f[x]
        BY DEF Restrict
    <2> HIDE DEF F
    <2>2. SumFunction(F) = F[x] + SumFunction(Restrict(F, s \ {x}))
        BY <1>1, SumSplits
    <2>3. QED
        BY <2>1, <2>2
<1> HIDE DEF F
<1>3. SumFunction(F) \in Int /\ (s = {} => SumFunction(F) = 0)
    BY <1>1, SumSplits
<1>4. QED
    BY <1>2, <1>3 DEF F

(* A function that is nowhere smaller has no smaller sum. *)
LEMMA SumMonotone ==
    ASSUME NEW S, IsFiniteSet(S), NEW f \in [S -> Int], NEW g \in [S -> Int],
           \A x \in S : f[x] <= g[x]
    PROVE  SumFunction(f) <= SumFunction(g)
<1> DEFINE Of(s)   == SumFunction(Restrict(f, s))
           Over(s) == SumFunction(Restrict(g, s))
           Good    == {s \in SUBSET S : Of(s) <= Over(s)}
<1>1. \A s \in SUBSET S : /\ Of(s) \in Int /\ Over(s) \in Int
                          /\ s = {} => Of(s) = 0 /\ Over(s) = 0
    BY SumOfPart
<1>2. ASSUME NEW s \in SUBSET S, NEW x \in s PROVE Of(s) = f[x] + Of(s \ {x})
    BY SumOfPart
<1>3. ASSUME NEW s \in SUBSET S, NEW x \in s PROVE Over(s) = g[x] + Over(s \ {x})
    BY SumOfPart
<1> HIDE DEF Of, Over
<1>4. ASSUME NEW s \in SUBSET S, \A x \in s : s \ {x} \in Good PROVE s \in Good
    <2>1. CASE s = {}
        BY <1>1, <2>1
    <2>2. CASE s # {}
        <3>1. PICK x \in s : TRUE
            BY <2>2
        <3>2. Of(s \ {x}) <= Over(s \ {x}) /\ s \ {x} \in SUBSET S
            BY <1>4
        <3>3. /\ f[x] \in Int /\ g[x] \in Int /\ f[x] <= g[x]
              /\ Of(s) = f[x] + Of(s \ {x}) /\ Over(s) = g[x] + Over(s \ {x})
              /\ Of(s \ {x}) \in Int /\ Over(s \ {x}) \in Int
            BY <1>1, <1>2, <1>3, <3>2
        <3>4. QED
            BY <3>2, <3>3
    <2>3. QED
        BY <2>1, <2>2
<1>5. Good = SUBSET S
    <2> HIDE DEF Good
    <2>1. Good \in SUBSET (SUBSET S)
        BY DEF Good
    <2>2. QED
        BY <1>4, <2>1, SubsetInduction
<1>6. Restrict(f, S) = f /\ Restrict(g, S) = g
    BY DEF Restrict
<1>7. Of(S) <= Over(S)
    BY <1>5
<1>8. QED
    BY <1>6, <1>7 DEF Of, Over

(* The sum of naturals is natural. *)
LEMMA SumIsNat ==
    ASSUME NEW S, IsFiniteSet(S), NEW f \in [S -> Nat]
    PROVE  SumFunction(f) \in Nat
<1> DEFINE Of(s) == SumFunction(Restrict(f, s))
           Good  == {s \in SUBSET S : Of(s) \in Nat}
<1>1. f \in [S -> Int]
    OBVIOUS
<1>2. \A s \in SUBSET S : /\ s = {} => Of(s) = 0
                          /\ \A x \in s : Of(s) = f[x] + Of(s \ {x})
    BY <1>1, SumOfPart
<1> HIDE DEF Of
<1>3. ASSUME NEW s \in SUBSET S, \A x \in s : s \ {x} \in Good PROVE s \in Good
    <2>1. CASE s = {}
        BY <1>2, <2>1
    <2>2. CASE s # {}
        <3>1. PICK x \in s : TRUE
            BY <2>2
        <3>2. Of(s \ {x}) \in Nat /\ f[x] \in Nat /\ Of(s) = f[x] + Of(s \ {x})
            BY <1>2, <1>3
        <3>3. QED
            BY <3>2
    <2>3. QED
        BY <2>1, <2>2
<1>4. Good = SUBSET S
    <2> HIDE DEF Good
    <2>1. Good \in SUBSET (SUBSET S)
        BY DEF Good
    <2>2. QED
        BY <1>3, <2>1, SubsetInduction
<1>5. Restrict(f, S) = f /\ Of(S) \in Nat
    BY <1>4 DEF Restrict
<1>6. QED
    BY <1>5 DEF Of

(* A function that is changed at one place changes its sum by as much. *)
LEMMA SumChangesAt ==
    ASSUME NEW S, IsFiniteSet(S), NEW f \in [S -> Int], NEW g \in [S -> Int],
           NEW x \in S, \A y \in S \ {x} : g[y] = f[y]
    PROVE  SumFunction(g) = SumFunction(f) + (g[x] - f[x])
<1> DEFINE rest == SumFunction(Restrict(f, S \ {x}))
<1>1. Restrict(g, S \ {x}) = Restrict(f, S \ {x})
    BY DEF Restrict
<1>2. SumFunction(f) = f[x] + rest
    BY SumSplits
<1>3. SumFunction(g) = g[x] + rest
    BY <1>1, SumSplits
<1>4. rest \in Int
    BY SumOfPart
<1> HIDE DEF rest
<1>5. QED
    BY <1>2, <1>3, <1>4

(* The sum of a linear combination. *)
Combination(S, a, f, b, g) == [x \in S |-> a * f[x] + b * g[x]]

LEMMA SumOfCombination ==
    ASSUME NEW S, IsFiniteSet(S), NEW f \in [S -> Int], NEW g \in [S -> Int],
           NEW a \in Int, NEW b \in Int
    PROVE  SumFunction(Combination(S, a, f, b, g)) = a * SumFunction(f) + b * SumFunction(g)
<1> DEFINE h == Combination(S, a, f, b, g)
<1>0. h \in [S -> Int] /\ \A x \in S : h[x] = a * f[x] + b * g[x]
    <2>1. \A u, v, p, q \in Int : u * v + p * q \in Int
        BY SMT
    <2>2. \A x \in S : a * f[x] + b * g[x] \in Int
        BY <2>1
    <2>3. QED
        BY <2>2 DEF Combination
<1> HIDE DEF h
<1> DEFINE F(s)  == SumFunction(Restrict(f, s))
           G(s)  == SumFunction(Restrict(g, s))
           H(s)  == SumFunction(Restrict(h, s))
           Good  == {s \in SUBSET S : H(s) = a * F(s) + b * G(s)}
<1>1. \A s \in SUBSET S : /\ F(s) \in Int /\ G(s) \in Int /\ H(s) \in Int
                          /\ s = {} => F(s) = 0 /\ G(s) = 0 /\ H(s) = 0
    BY <1>0, SumOfPart
<1>2. ASSUME NEW s \in SUBSET S, NEW x \in s PROVE F(s) = f[x] + F(s \ {x})
    BY SumOfPart
<1>3. ASSUME NEW s \in SUBSET S, NEW x \in s PROVE G(s) = g[x] + G(s \ {x})
    BY SumOfPart
<1>4. ASSUME NEW s \in SUBSET S, NEW x \in s PROVE H(s) = h[x] + H(s \ {x})
    BY <1>0, SumOfPart
<1> HIDE DEF F, G, H
<1>5. ASSUME NEW s \in SUBSET S, \A x \in s : s \ {x} \in Good PROVE s \in Good
    <2>1. CASE s = {}
        <3>1. F(s) = 0 /\ G(s) = 0 /\ H(s) = 0
            BY <1>1, <2>1
        <3>2. H(s) = a * F(s) + b * G(s)
            BY <3>1, SMT
        <3>3. QED
            BY <3>2
    <2>2. CASE s # {}
        <3>1. PICK x \in s : TRUE
            BY <2>2
        <3> DEFINE t == s \ {x}
        <3>2. t \in SUBSET S /\ H(t) = a * F(t) + b * G(t)
            BY <1>5
        <3>3. /\ f[x] \in Int /\ g[x] \in Int /\ h[x] = a * f[x] + b * g[x]
              /\ F(t) \in Int /\ G(t) \in Int
              /\ F(s) = f[x] + F(t) /\ G(s) = g[x] + G(t) /\ H(s) = h[x] + H(t)
            BY <1>0, <1>1, <1>2, <1>3, <1>4, <3>2
        <3> HIDE DEF t
        <3>4. \A u, v, p, q \in Int :
                 (a * u + b * v) + (a * p + b * q) = a * (u + p) + b * (v + q)
            BY SMT
        <3>5. H(s) = (a * f[x] + b * g[x]) + (a * F(t) + b * G(t))
            BY <3>2, <3>3
        <3>6. H(s) = a * (f[x] + F(t)) + b * (g[x] + G(t))
            BY <3>3, <3>4, <3>5
        <3>7. QED
            BY <3>3, <3>6
    <2>3. QED
        BY <2>1, <2>2
<1>6. Good = SUBSET S
    <2> HIDE DEF Good
    <2>1. Good \in SUBSET (SUBSET S)
        BY DEF Good
    <2>2. QED
        BY <1>5, <2>1, SubsetInduction
<1>7. Restrict(f, S) = f /\ Restrict(g, S) = g /\ Restrict(h, S) = h
    BY <1>0 DEF Restrict
<1>8. H(S) = a * F(S) + b * G(S)
    BY <1>6
<1>9. QED
    BY <1>7, <1>8 DEF F, G, H, h

(* As many ones as there are. *)
LEMMA SumOfOnes ==
    ASSUME NEW S, IsFiniteSet(S), NEW f \in [S -> Int], \A x \in S : f[x] = 1
    PROVE  SumFunction(f) = Cardinality(S)
<1> DEFINE Of(s) == SumFunction(Restrict(f, s))
           Good  == {s \in SUBSET S : Of(s) = Cardinality(s)}
<1>1. \A s \in SUBSET S : s = {} => Of(s) = 0
    BY SumOfPart
<1>2. ASSUME NEW s \in SUBSET S, NEW x \in s PROVE Of(s) = f[x] + Of(s \ {x})
    BY SumOfPart
<1> HIDE DEF Of
<1>3. ASSUME NEW s \in SUBSET S, \A x \in s : s \ {x} \in Good PROVE s \in Good
    <2>1. CASE s = {}
        BY <1>1, <2>1, FS_EmptySet
    <2>2. CASE s # {}
        <3>1. PICK x \in s : TRUE
            BY <2>2
        <3>2. Of(s \ {x}) = Cardinality(s \ {x}) /\ f[x] = 1
            BY <1>3
        <3>3. IsFiniteSet(s)
            BY FS_Subset
        <3>4. Cardinality(s \ {x}) = Cardinality(s) - 1 /\ Cardinality(s) \in Nat
            BY <3>3, FS_RemoveElement, FS_CardinalityType
        <3>5. Of(s) = 1 + (Cardinality(s) - 1)
            BY <1>2, <3>2, <3>4
        <3>6. Of(s) = Cardinality(s)
            BY <3>4, <3>5
        <3>7. QED
            BY <3>6
    <2>3. QED
        BY <2>1, <2>2
<1>4. Good = SUBSET S
    <2> HIDE DEF Good
    <2>1. Good \in SUBSET (SUBSET S)
        BY DEF Good
    <2>2. QED
        BY <1>3, <2>1, SubsetInduction
<1>5. Restrict(f, S) = f
    BY DEF Restrict
<1>6. Of(S) = Cardinality(S)
    BY <1>4
<1>7. QED
    BY <1>5, <1>6 DEF Of

=============================================================================
