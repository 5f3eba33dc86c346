---------------------------- MODULE SumTheorems -----------------------------
(***************************************************************************)
(* Facts about SumFunctionOnSet, the sum of a function over a finite set,  *)
(* which the models use for bytes and seconds: what an element adds, and   *)
(* how sums compare.  Induction is on the size of the set, from the fact   *)
(* that < on the naturals is well founded.                                 *)
(***************************************************************************)
EXTENDS Order, Functions, FiniteSetTheorems, WellFoundedInduction, TLAPS

LEMMA LeastNatural ==
  ASSUME NEW T \in SUBSET Nat, T # {}
  PROVE  \E x \in T : \A y \in T : x <= y
<1>1. PICK x \in T : \A y \in T : ~(<<y, x>> \in OpToRel(<, Nat))
  BY NatLessThanWellFounded, WFMin
<1>2. \A y \in T : ~(y < x)
  BY <1>1 DEF OpToRel
<1> QED
  BY <1>2

\* A set of naturals with 0 that is closed under successor is all of them.
LEMMA NaturalsByInduction ==
  ASSUME NEW T, 0 \in T, \A k \in Nat : k \in T => k + 1 \in T
  PROVE  Nat \subseteq T
<1> SUFFICES ASSUME Nat \ T # {} PROVE FALSE
  OBVIOUS
<1>1. PICK x \in Nat \ T : \A y \in Nat \ T : x <= y
  BY LeastNatural
<1>2. x # 0 /\ x - 1 \in Nat /\ ~(x <= x - 1) /\ (x - 1) + 1 = x
  BY <1>1
<1>3. x - 1 \in T
  BY <1>1, <1>2
<1> QED
  BY <1>1, <1>2, <1>3

-----------------------------------------------------------------------------
(* The sum is what its recursive definition says.                          *)

Pick(s) == CHOOSE x \in s : TRUE
Step(w, g, s) == IF s = {} THEN 0 ELSE w[Pick(s)] + g[s \ {Pick(s)}]
IsIter(w, g, S) == g = [s \in SUBSET S |-> Step(w, g, s)]

LEMMA PickIn ==
  ASSUME NEW s, s # {}
  PROVE  Pick(s) \in s
  BY DEF Pick

LEMMA SmallerSize ==
  ASSUME NEW s, IsFiniteSet(s), NEW x \in s, NEW k \in Nat, Cardinality(s) <= k + 1
  PROVE  IsFiniteSet(s \ {x}) /\ Cardinality(s \ {x}) <= k
<1>1. Cardinality(s) \in Nat /\ IsFiniteSet(s \ {x})
      /\ Cardinality(s \ {x}) = Cardinality(s) - 1
  BY FS_CardinalityType, FS_RemoveElement
<1> QED
  BY <1>1

LEMMA SizeZero ==
  ASSUME NEW s, IsFiniteSet(s), Cardinality(s) <= 0
  PROVE  s = {}
<1>1. Cardinality(s) \in Nat
  BY FS_CardinalityType
<1>2. Cardinality(s) = 0
  BY <1>1
<1> QED
  BY <1>2, FS_EmptySet

LEMMA IterExists ==
  ASSUME NEW w, NEW S, IsFiniteSet(S)
  PROVE  \E g : IsIter(w, g, S)
<1> DEFINE
      Upto(g, k) == \A s \in SUBSET S : Cardinality(s) <= k => g[s] = Step(w, g, s)
      T == {k \in Nat : \E g : DOMAIN g = SUBSET S /\ Upto(g, k)}
<1>0. \A s \in SUBSET S : IsFiniteSet(s) /\ Cardinality(s) \in Nat
                           /\ Cardinality(s) <= Cardinality(S)
  BY FS_Subset, FS_CardinalityType
<1>1. 0 \in T
  <2> DEFINE g == [s \in SUBSET S |-> 0]
  <2>1. \A s \in SUBSET S : Cardinality(s) <= 0 => g[s] = Step(w, g, s)
    BY <1>0, SizeZero DEF Step
  <2>2. DOMAIN g = SUBSET S
    OBVIOUS
  <2> QED
    BY <2>1, <2>2
<1>2. ASSUME NEW k \in Nat, k \in T PROVE k + 1 \in T
  <2>1. PICK g : DOMAIN g = SUBSET S /\ Upto(g, k)
    BY <1>2
  <2> DEFINE h == [s \in SUBSET S |-> IF Cardinality(s) <= k THEN g[s] ELSE Step(w, g, s)]
  <2>2. ASSUME NEW s \in SUBSET S, Cardinality(s) <= k + 1
        PROVE  h[s] = Step(w, h, s)
    <3>1. h[s] = Step(w, g, s)
      BY <2>1
    <3>2. CASE s = {}
      BY <3>1, <3>2 DEF Step
    <3>3. CASE s # {}
      <4>1. Pick(s) \in s
        BY <3>3, PickIn
      <4>2. s \ {Pick(s)} \in SUBSET S /\ Cardinality(s \ {Pick(s)}) <= k
        BY <1>0, <2>2, <4>1, SmallerSize
      <4>3. h[s \ {Pick(s)}] = g[s \ {Pick(s)}]
        BY <4>2
      <4> QED
        BY <3>1, <3>3, <4>3 DEF Step
    <3> QED
      BY <3>2, <3>3
  <2>3. DOMAIN h = SUBSET S
    OBVIOUS
  <2> HIDE DEF h
  <2> QED
    BY <2>2, <2>3
<1>3. Cardinality(S) \in T
  <2> HIDE DEF T
  <2> QED
    BY <1>0, <1>1, <1>2, NaturalsByInduction
<1>4. PICK g : DOMAIN g = SUBSET S /\ Upto(g, Cardinality(S))
  BY <1>3
<1>5. \A s \in SUBSET S : g[s] = Step(w, g, s)
  BY <1>0, <1>4
<1> DEFINE h == [s \in SUBSET S |-> g[s]]
<1>6. IsIter(w, h, S)
  <2>1. \A s \in SUBSET S : h[s] = Step(w, h, s)
    BY <1>5 DEF Step
  <2>2. h = [s \in SUBSET S |-> h[s]]
    OBVIOUS
  <2> HIDE DEF h
  <2> QED
    BY <2>1, <2>2 DEF IsIter
<1> QED
  BY <1>6

LEMMA SumIsIter ==
  ASSUME NEW w, NEW S, IsFiniteSet(S)
  PROVE  \E g : IsIter(w, g, S) /\ SumFunctionOnSet(w, S) = g[S]
<1> DEFINE h == CHOOSE h : IsIter(w, h, S)
<1>1. IsIter(w, h, S)
  BY IterExists
<1>2. SumFunctionOnSet(w, S) = h[S]
  BY Zenon DEF SumFunctionOnSet, FoldFunctionOnSet, MapThenFoldSet, IsIter, Step, Pick
<1> QED
  BY <1>1, <1>2

\* Two of them agree on the sets they share.
LEMMA IterUnique ==
  ASSUME NEW w, NEW S, NEW g, IsIter(w, g, S), NEW R, NEW h, IsIter(w, h, R),
         IsFiniteSet(S), S \subseteq R
  PROVE  g[S] = h[S]
<1> DEFINE T == {k \in Nat : \A s \in SUBSET S : Cardinality(s) <= k => g[s] = h[s]}
<1>0. \A s \in SUBSET S : IsFiniteSet(s) /\ Cardinality(s) \in Nat
  BY FS_Subset, FS_CardinalityType
<1>1. \A s \in SUBSET S : g[s] = Step(w, g, s) /\ h[s] = Step(w, h, s)
  BY DEF IsIter
<1>2. 0 \in T
  <2>1. \A s \in SUBSET S : Cardinality(s) <= 0 => g[s] = h[s]
    BY <1>0, <1>1, SizeZero DEF Step
  <2> QED
    BY <2>1
<1>3. ASSUME NEW k \in Nat, k \in T PROVE k + 1 \in T
  <2>1. ASSUME NEW s \in SUBSET S, Cardinality(s) <= k + 1 PROVE g[s] = h[s]
    <3>1. CASE s = {}
      BY <1>1, <3>1 DEF Step
    <3>2. CASE s # {}
      <4>1. Pick(s) \in s
        BY <3>2, PickIn
      <4>2. s \ {Pick(s)} \in SUBSET S /\ Cardinality(s \ {Pick(s)}) <= k
        BY <1>0, <2>1, <4>1, SmallerSize
      <4>3. g[s \ {Pick(s)}] = h[s \ {Pick(s)}]
        BY <1>3, <4>2
      <4> QED
        BY <1>1, <3>2, <4>3 DEF Step
    <3> QED
      BY <3>1, <3>2
  <2> QED
    BY <2>1
<1>4. Cardinality(S) \in T
  <2> HIDE DEF T
  <2> QED
    BY <1>0, <1>2, <1>3, NaturalsByInduction
<1> QED
  BY <1>0, <1>4

LEMMA SumStep ==
  ASSUME NEW w, NEW S, IsFiniteSet(S)
  PROVE  SumFunctionOnSet(w, S)
           = IF S = {} THEN 0 ELSE w[Pick(S)] + SumFunctionOnSet(w, S \ {Pick(S)})
<1>1. PICK g : IsIter(w, g, S) /\ SumFunctionOnSet(w, S) = g[S]
  BY SumIsIter
<1>2. g[S] = Step(w, g, S)
  BY <1>1 DEF IsIter
<1>3. CASE S = {}
  BY <1>1, <1>2, <1>3 DEF Step
<1>4. CASE S # {}
  <2> DEFINE R == S \ {Pick(S)}
  <2>1. IsFiniteSet(R) /\ R \subseteq S
    BY FS_Subset
  <2>2. PICK h : IsIter(w, h, R) /\ SumFunctionOnSet(w, R) = h[R]
    BY <2>1, SumIsIter
  <2>3. h[R] = g[R]
    BY <1>1, <2>1, <2>2, IterUnique
  <2> QED
    BY <1>1, <1>2, <1>4, <2>2, <2>3 DEF Step
<1> QED
  BY <1>3, <1>4

LEMMA SumEmpty ==
  ASSUME NEW w
  PROVE  SumFunctionOnSet(w, {}) = 0
  BY FS_EmptySet, SumStep

LEMMA SumInt ==
  ASSUME NEW w, NEW S, IsFiniteSet(S), \A x \in S : w[x] \in Int
  PROVE  SumFunctionOnSet(w, S) \in Int
<1> DEFINE T == {k \in Nat : \A s \in SUBSET S : Cardinality(s) <= k =>
                               SumFunctionOnSet(w, s) \in Int}
<1>0. \A s \in SUBSET S : IsFiniteSet(s) /\ Cardinality(s) \in Nat
  BY FS_Subset, FS_CardinalityType
<1>1. 0 \in T
  <2>1. \A s \in SUBSET S : Cardinality(s) <= 0 => s = {}
    BY <1>0, SizeZero
  <2> QED
    BY <2>1, SumEmpty
<1>2. ASSUME NEW k \in Nat, k \in T PROVE k + 1 \in T
  <2>1. ASSUME NEW s \in SUBSET S, Cardinality(s) <= k + 1
        PROVE  SumFunctionOnSet(w, s) \in Int
    <3>1. CASE s = {}
      BY <3>1, SumEmpty
    <3>2. CASE s # {}
      <4>1. Pick(s) \in s
        BY <3>2, PickIn
      <4>2. s \ {Pick(s)} \in SUBSET S /\ Cardinality(s \ {Pick(s)}) <= k
        BY <1>0, <2>1, <4>1, SmallerSize
      <4>3. SumFunctionOnSet(w, s \ {Pick(s)}) \in Int /\ w[Pick(s)] \in Int
        BY <1>2, <4>1, <4>2
      <4>4. SumFunctionOnSet(w, s) = w[Pick(s)] + SumFunctionOnSet(w, s \ {Pick(s)})
        BY <1>0, <3>2, SumStep
      <4> QED
        BY <4>3, <4>4
    <3> QED
      BY <3>1, <3>2
  <2> QED
    BY <2>1
<1>3. Cardinality(S) \in T
  <2> HIDE DEF T
  <2> QED
    BY <1>0, <1>1, <1>2, NaturalsByInduction
<1> QED
  BY <1>0, <1>3

\* Any element may be taken out first.
LEMMA SumTake ==
  ASSUME NEW w, NEW S, IsFiniteSet(S), \A x \in S : w[x] \in Int, NEW e \in S
  PROVE  SumFunctionOnSet(w, S) = w[e] + SumFunctionOnSet(w, S \ {e})
<1> DEFINE Sum(s) == SumFunctionOnSet(w, s)
           T == {k \in Nat : \A s \in SUBSET S : Cardinality(s) <= k =>
                               \A x \in s : Sum(s) = w[x] + Sum(s \ {x})}
<1>0. \A s \in SUBSET S : IsFiniteSet(s) /\ Cardinality(s) \in Nat /\ Sum(s) \in Int
  BY FS_Subset, FS_CardinalityType, SumInt
<1>1. 0 \in T
  <2>1. \A s \in SUBSET S : Cardinality(s) <= 0 => s = {}
    BY <1>0, SizeZero
  <2> QED
    BY <2>1
<1>2. ASSUME NEW k \in Nat, k \in T PROVE k + 1 \in T
  <2>1. ASSUME NEW s \in SUBSET S, Cardinality(s) <= k + 1, NEW x \in s
        PROVE  Sum(s) = w[x] + Sum(s \ {x})
    <3> DEFINE p == Pick(s)
    <3>1. p \in s
      BY PickIn
    <3>2. Sum(s) = w[p] + Sum(s \ {p})
      BY <1>0, SumStep
    <3>3. CASE x = p
      BY <3>2, <3>3
    <3>4. CASE x # p
      <4> DEFINE both == s \ {p, x}
      <4>1. /\ s \ {p} \in SUBSET S /\ Cardinality(s \ {p}) <= k /\ x \in s \ {p}
            /\ (s \ {p}) \ {x} = both
        BY <1>0, <2>1, <3>1, <3>4, SmallerSize
      <4>2. /\ s \ {x} \in SUBSET S /\ Cardinality(s \ {x}) <= k /\ p \in s \ {x}
            /\ (s \ {x}) \ {p} = both
        BY <1>0, <2>1, <3>1, <3>4, SmallerSize
      <4> HIDE DEF p, both
      <4>3. Sum(s \ {p}) = w[x] + Sum(both)
        BY <1>2, <4>1
      <4>4. Sum(s \ {x}) = w[p] + Sum(both)
        BY <1>2, <4>2
      <4>5. w[x] \in Int /\ w[p] \in Int /\ Sum(both) \in Int
        <5>1. both \in SUBSET S
          BY <4>1
        <5> QED
          BY <1>0, <3>1, <5>1
      <4> HIDE DEF Sum
      <4> QED
        BY <3>2, <4>3, <4>4, <4>5
    <3> QED
      BY <3>3, <3>4
  <2> QED
    BY <2>1
<1>3. Cardinality(S) \in T
  <2> HIDE DEF T
  <2> QED
    BY <1>0, <1>1, <1>2, NaturalsByInduction
<1> QED
  BY <1>0, <1>3

-----------------------------------------------------------------------------
(* What the proofs of the models cite.                                     *)

\* An element added.
LEMMA SumAdd ==
  ASSUME NEW w, NEW S, IsFiniteSet(S), \A x \in S : w[x] \in Int, NEW e, e \notin S,
         w[e] \in Int
  PROVE  SumFunctionOnSet(w, S \cup {e}) = SumFunctionOnSet(w, S) + w[e]
<1>1. /\ IsFiniteSet(S \cup {e}) /\ (\A x \in S \cup {e} : w[x] \in Int)
      /\ e \in S \cup {e} /\ (S \cup {e}) \ {e} = S
  BY FS_AddElement
<1>2. SumFunctionOnSet(w, S \cup {e}) = w[e] + SumFunctionOnSet(w, (S \cup {e}) \ {e})
  BY <1>1, SumTake
<1>3. SumFunctionOnSet(w, S \cup {e}) = w[e] + SumFunctionOnSet(w, S)
  BY <1>1, <1>2
<1>4. SumFunctionOnSet(w, S) \in Int
  BY SumInt
<1> QED
  BY <1>3, <1>4

\* Functions that agree on a set have one sum there; a smaller one a smaller sum.
LEMMA SumLeq ==
  ASSUME NEW S, IsFiniteSet(S), NEW w, NEW v,
         \A x \in S : w[x] \in Int /\ v[x] \in Int /\ w[x] <= v[x]
  PROVE  SumFunctionOnSet(w, S) <= SumFunctionOnSet(v, S)
<1> DEFINE T == {k \in Nat : \A s \in SUBSET S : Cardinality(s) <= k =>
                               SumFunctionOnSet(w, s) <= SumFunctionOnSet(v, s)}
<1>0. \A s \in SUBSET S : /\ IsFiniteSet(s) /\ Cardinality(s) \in Nat
                          /\ SumFunctionOnSet(w, s) \in Int /\ SumFunctionOnSet(v, s) \in Int
  BY FS_Subset, FS_CardinalityType, SumInt
<1>1. 0 \in T
  <2>1. \A s \in SUBSET S : Cardinality(s) <= 0 => s = {}
    BY <1>0, SizeZero
  <2> QED
    BY <2>1, SumEmpty
<1>2. ASSUME NEW k \in Nat, k \in T PROVE k + 1 \in T
  <2>1. ASSUME NEW s \in SUBSET S, Cardinality(s) <= k + 1
        PROVE  SumFunctionOnSet(w, s) <= SumFunctionOnSet(v, s)
    <3>1. CASE s = {}
      BY <3>1, SumEmpty
    <3>2. CASE s # {}
      <4> DEFINE r == s \ {Pick(s)}
      <4>1. Pick(s) \in s
        BY <3>2, PickIn
      <4>2. r \in SUBSET S /\ Cardinality(r) <= k
        BY <1>0, <2>1, <4>1, SmallerSize
      <4>3. SumFunctionOnSet(w, r) <= SumFunctionOnSet(v, r)
        BY <1>2, <4>2
      <4>4. /\ SumFunctionOnSet(w, s) = w[Pick(s)] + SumFunctionOnSet(w, r)
            /\ SumFunctionOnSet(v, s) = v[Pick(s)] + SumFunctionOnSet(v, r)
        BY <1>0, <3>2, SumStep
      <4>5. /\ w[Pick(s)] \in Int /\ v[Pick(s)] \in Int /\ w[Pick(s)] <= v[Pick(s)]
            /\ SumFunctionOnSet(w, r) \in Int /\ SumFunctionOnSet(v, r) \in Int
        BY <1>0, <4>1, <4>2
      <4> HIDE DEF r
      <4> QED
        BY <4>3, <4>4, <4>5
    <3> QED
      BY <3>1, <3>2
  <2> QED
    BY <2>1
<1>3. Cardinality(S) \in T
  <2> HIDE DEF T
  <2> QED
    BY <1>0, <1>1, <1>2, NaturalsByInduction
<1> QED
  BY <1>0, <1>3

LEMMA SumSame ==
  ASSUME NEW S, IsFiniteSet(S), NEW w, NEW v, \A x \in S : w[x] \in Int /\ v[x] = w[x]
  PROVE  SumFunctionOnSet(w, S) = SumFunctionOnSet(v, S)
<1>1. /\ SumFunctionOnSet(w, S) <= SumFunctionOnSet(v, S)
      /\ SumFunctionOnSet(v, S) <= SumFunctionOnSet(w, S)
  BY SumLeq
<1>2. SumFunctionOnSet(w, S) \in Int /\ SumFunctionOnSet(v, S) \in Int
  BY SumInt
<1> QED
  BY <1>1, <1>2

\* The sum over two disjoint sets.
LEMMA SumUnion ==
  ASSUME NEW w, NEW S, IsFiniteSet(S), NEW R, IsFiniteSet(R), S \cap R = {},
         \A x \in S \cup R : w[x] \in Int
  PROVE  SumFunctionOnSet(w, S \cup R) = SumFunctionOnSet(w, S) + SumFunctionOnSet(w, R)
<1> DEFINE Sum(s) == SumFunctionOnSet(w, s)
           T == {k \in Nat : \A s \in SUBSET R : Cardinality(s) <= k =>
                               Sum(S \cup s) = Sum(S) + Sum(s)}
<1>0. \A s \in SUBSET R : IsFiniteSet(s) /\ Cardinality(s) \in Nat /\ Sum(s) \in Int
  BY FS_Subset, FS_CardinalityType, SumInt
<1>1. Sum(S) \in Int
  BY SumInt
<1>2. 0 \in T
  <2>1. \A s \in SUBSET R : Cardinality(s) <= 0 => s = {}
    BY <1>0, SizeZero
  <2>2. S \cup {} = S /\ Sum({}) = 0
    BY SumEmpty
  <2> HIDE DEF Sum
  <2> QED
    BY <1>1, <2>1, <2>2
<1>3. ASSUME NEW k \in Nat, k \in T PROVE k + 1 \in T
  <2>1. ASSUME NEW s \in SUBSET R, Cardinality(s) <= k + 1
        PROVE  Sum(S \cup s) = Sum(S) + Sum(s)
    <3>1. CASE s = {}
      <4>1. S \cup s = S
        BY <3>1
      <4>2. Sum(S \cup s) = Sum(S) /\ Sum(s) = 0
        BY <3>1, <4>1, SumEmpty
      <4> HIDE DEF Sum
      <4> QED
        BY <1>1, <4>2
    <3>2. CASE s # {}
      <4> DEFINE p == Pick(s)
                 r == s \ {p}
      <4>1. p \in s
        BY <3>2, PickIn
      <4>2. r \in SUBSET R /\ Cardinality(r) <= k
        BY <1>0, <2>1, <4>1, SmallerSize
      <4>3. Sum(S \cup r) = Sum(S) + Sum(r)
        BY <1>3, <4>2
      <4>4. Sum(s) = w[p] + Sum(r)
        BY <1>0, <3>2, SumStep
      <4>5. Sum(S \cup s) = w[p] + Sum(S \cup r)
        <5>1. /\ IsFiniteSet(S \cup s) /\ p \in S \cup s /\ (S \cup s) \ {p} = S \cup r
              /\ \A x \in S \cup s : w[x] \in Int
          BY <1>0, <4>1, FS_Union
        <5> QED
          BY <5>1, SumTake
      <4>6. w[p] \in Int /\ Sum(r) \in Int
        BY <1>0, <4>1, <4>2
      <4> HIDE DEF p, r, Sum
      <4> QED
        BY <1>1, <4>3, <4>4, <4>5, <4>6
    <3> QED
      BY <3>1, <3>2
  <2> QED
    BY <2>1
<1>4. Cardinality(R) \in T
  <2> HIDE DEF T
  <2> QED
    BY <1>0, <1>2, <1>3, NaturalsByInduction
<1> QED
  BY <1>0, <1>4

\* The sum over a subset of what only adds is at most the whole.
THEOREM SumSubset ==
  ASSUME NEW w, NEW S, IsFiniteSet(S), \A x \in S : w[x] \in Nat, NEW R \in SUBSET S
  PROVE  /\ SumFunctionOnSet(w, R) \in Nat /\ SumFunctionOnSet(w, S) \in Nat
         /\ SumFunctionOnSet(w, R) <= SumFunctionOnSet(w, S)
         /\ SumFunctionOnSet(w, S \ R) = SumFunctionOnSet(w, S) - SumFunctionOnSet(w, R)
<1>1. ASSUME NEW s \in SUBSET S PROVE SumFunctionOnSet(w, s) \in Nat
  <2> DEFINE zero == [x \in S |-> 0]
             T == {k \in Nat : \A r \in SUBSET S : Cardinality(r) <= k =>
                                 SumFunctionOnSet(w, r) \in Nat}
  <2>0. \A r \in SUBSET S : IsFiniteSet(r) /\ Cardinality(r) \in Nat
    BY FS_Subset, FS_CardinalityType
  <2>1. 0 \in T
    <3>1. \A r \in SUBSET S : Cardinality(r) <= 0 => r = {}
      BY <2>0, SizeZero
    <3> QED
      BY <3>1, SumEmpty
  <2>2. ASSUME NEW k \in Nat, k \in T PROVE k + 1 \in T
    <3>1. ASSUME NEW r \in SUBSET S, Cardinality(r) <= k + 1
          PROVE  SumFunctionOnSet(w, r) \in Nat
      <4>1. CASE r = {}
        BY <4>1, SumEmpty
      <4>2. CASE r # {}
        <5>1. Pick(r) \in r
          BY <4>2, PickIn
        <5>2. r \ {Pick(r)} \in SUBSET S /\ Cardinality(r \ {Pick(r)}) <= k
          BY <2>0, <3>1, <5>1, SmallerSize
        <5>3. SumFunctionOnSet(w, r \ {Pick(r)}) \in Nat /\ w[Pick(r)] \in Nat
          BY <2>2, <5>1, <5>2
        <5>4. SumFunctionOnSet(w, r) = w[Pick(r)] + SumFunctionOnSet(w, r \ {Pick(r)})
          BY <2>0, <4>2, SumStep
        <5> QED
          BY <5>3, <5>4
      <4> QED
        BY <4>1, <4>2
    <3> QED
      BY <3>1
  <2>3. Cardinality(s) \in T
    <3> HIDE DEF T
    <3> QED
      BY <2>0, <2>1, <2>2, NaturalsByInduction
  <2> QED
    BY <2>0, <2>3
<1>2. IsFiniteSet(R) /\ IsFiniteSet(S \ R) /\ R \cup (S \ R) = S
  BY FS_Subset
<1>3. SumFunctionOnSet(w, S) = SumFunctionOnSet(w, R) + SumFunctionOnSet(w, S \ R)
  <2>1. R \cap (S \ R) = {} /\ \A x \in R \cup (S \ R) : w[x] \in Int
    OBVIOUS
  <2>2. SumFunctionOnSet(w, R \cup (S \ R))
          = SumFunctionOnSet(w, R) + SumFunctionOnSet(w, S \ R)
    BY <1>2, <2>1, SumUnion
  <2> QED
    BY <1>2, <2>2
<1>4. /\ SumFunctionOnSet(w, R) \in Nat /\ SumFunctionOnSet(w, S) \in Nat
      /\ SumFunctionOnSet(w, S \ R) \in Nat
  BY <1>1
<1> QED
  BY <1>3, <1>4

\* Of a finite set of things with values one has the greatest.
LEMMA HasGreatest ==
  ASSUME NEW S, IsFiniteSet(S), S # {}, NEW f, \A x \in S : f[x] \in Int
  PROVE  \E v \in S : \A w \in S : f[v] >= f[w]
<1> DEFINE Top(r) == \E v \in r : \A w \in r : f[v] >= f[w]
           T == {k \in Nat : \A r \in SUBSET S : Cardinality(r) <= k /\ r # {} => Top(r)}
<1>0. \A r \in SUBSET S : IsFiniteSet(r) /\ Cardinality(r) \in Nat
  BY FS_Subset, FS_CardinalityType
<1>1. 0 \in T
  <2>1. \A r \in SUBSET S : Cardinality(r) <= 0 => r = {}
    BY <1>0, SizeZero
  <2> QED
    BY <2>1
<1>2. ASSUME NEW k \in Nat, k \in T PROVE k + 1 \in T
  <2>1. ASSUME NEW r \in SUBSET S, Cardinality(r) <= k + 1, r # {} PROVE Top(r)
    <3> DEFINE rest == r \ {Pick(r)}
    <3>1. Pick(r) \in r
      BY <2>1, PickIn
    <3>2. rest \in SUBSET S /\ Cardinality(rest) <= k
      BY <1>0, <2>1, <3>1, SmallerSize
    <3>3. CASE rest = {}
      <4>1. r = {Pick(r)} /\ f[Pick(r)] \in Int
        BY <3>1, <3>3
      <4> QED
        BY <4>1
    <3>4. CASE rest # {}
      <4>1. PICK v \in rest : \A w \in rest : f[v] >= f[w]
        BY <1>2, <3>2, <3>4
      <4>2. /\ f[v] \in Int /\ f[Pick(r)] \in Int /\ v \in r
            /\ \A w \in r : w \in rest \/ w = Pick(r)
            /\ \A w \in rest : f[w] \in Int
        BY <3>1
      <4>3. CASE f[v] >= f[Pick(r)]
        <5>1. \A w \in r : f[v] >= f[w]
          BY <4>1, <4>2, <4>3
        <5> QED
          BY <4>2, <5>1
      <4>4. CASE f[Pick(r)] > f[v]
        <5>1. \A w \in r : f[Pick(r)] >= f[w]
          BY <4>1, <4>2, <4>4
        <5> QED
          BY <3>1, <5>1
      <4> QED
        BY <4>2, <4>3, <4>4
    <3> QED
      BY <3>3, <3>4
  <2> QED
    BY <2>1
<1>3. Cardinality(S) \in T
  <2> HIDE DEF T
  <2> QED
    BY <1>0, <1>1, <1>2, NaturalsByInduction
<1> QED
  BY <1>0, <1>3

\* Sums add up function by function.
LEMMA SumPlus ==
  ASSUME NEW S, IsFiniteSet(S), NEW w, NEW v, NEW u,
         \A x \in S : w[x] \in Int /\ v[x] \in Int /\ u[x] = w[x] + v[x]
  PROVE  SumFunctionOnSet(u, S) = SumFunctionOnSet(w, S) + SumFunctionOnSet(v, S)
<1> DEFINE Sums(s) == SumFunctionOnSet(u, s) = SumFunctionOnSet(w, s) + SumFunctionOnSet(v, s)
           T == {k \in Nat : \A s \in SUBSET S : Cardinality(s) <= k => Sums(s)}
<1>0. \A s \in SUBSET S : /\ IsFiniteSet(s) /\ Cardinality(s) \in Nat
                          /\ SumFunctionOnSet(w, s) \in Int /\ SumFunctionOnSet(v, s) \in Int
  BY FS_Subset, FS_CardinalityType, SumInt
<1>1. 0 \in T
  <2>1. \A s \in SUBSET S : Cardinality(s) <= 0 => s = {}
    BY <1>0, SizeZero
  <2>2. Sums({})
    <3>1. SumFunctionOnSet(u, {}) = 0 /\ SumFunctionOnSet(w, {}) = 0
          /\ SumFunctionOnSet(v, {}) = 0
      BY SumEmpty
    <3> QED
      BY <3>1
  <2> QED
    BY <2>1, <2>2
<1>2. ASSUME NEW k \in Nat, k \in T PROVE k + 1 \in T
  <2>1. ASSUME NEW s \in SUBSET S, Cardinality(s) <= k + 1 PROVE Sums(s)
    <3>1. CASE s = {}
      BY <3>1, SumEmpty
    <3>2. CASE s # {}
      <4>1. PICK x \in s : TRUE
        BY <3>2
      <4> DEFINE rest == s \ {x}
      <4>2. rest \in SUBSET S /\ Cardinality(rest) <= k
        BY <1>0, <2>1, SmallerSize
      <4>3. Sums(rest)
        BY <1>2, <4>2
      <4>4. \A y \in s : w[y] \in Int /\ v[y] \in Int /\ u[y] \in Int
        OBVIOUS
      <4>5. /\ SumFunctionOnSet(w, s) = w[x] + SumFunctionOnSet(w, rest)
            /\ SumFunctionOnSet(v, s) = v[x] + SumFunctionOnSet(v, rest)
            /\ SumFunctionOnSet(u, s) = u[x] + SumFunctionOnSet(u, rest)
        BY <1>0, <4>4, SumTake
      <4>6. /\ SumFunctionOnSet(w, rest) \in Int /\ SumFunctionOnSet(v, rest) \in Int
            /\ w[x] \in Int /\ v[x] \in Int /\ u[x] = w[x] + v[x]
        BY <1>0, <4>2
      <4> HIDE DEF rest
      <4> QED
        BY <4>3, <4>5, <4>6
    <3> QED
      BY <3>1, <3>2
  <2> QED
    BY <2>1
<1>3. Cardinality(S) \in T
  <2> HIDE DEF T
  <2> QED
    BY <1>0, <1>1, <1>2, NaturalsByInduction
<1> QED
  BY <1>0, <1>3

\* Nothing adds up to nothing.
LEMMA SumZero ==
  ASSUME NEW S, IsFiniteSet(S), NEW w, \A x \in S : w[x] = 0
  PROVE  SumFunctionOnSet(w, S) = 0
<1>1. \A x \in S : w[x] \in Int /\ w[x] = w[x] + w[x]
  OBVIOUS
<1>2. SumFunctionOnSet(w, S) = SumFunctionOnSet(w, S) + SumFunctionOnSet(w, S)
  BY <1>1, SumPlus
<1>3. SumFunctionOnSet(w, S) \in Int
  BY <1>1, SumInt
<1>4. ASSUME NEW n \in Int, n = n + n PROVE n = 0
  BY <1>4
<1> QED
  BY <1>2, <1>3, <1>4

\* A sum of naturals is a natural.
LEMMA SumNat ==
  ASSUME NEW S, IsFiniteSet(S), NEW w, \A x \in S : w[x] \in Nat
  PROVE  SumFunctionOnSet(w, S) \in Nat
<1> DEFINE z == [x \in S |-> 0]
<1>1. \A x \in S : z[x] = 0 /\ z[x] \in Int /\ w[x] \in Int /\ z[x] <= w[x]
  OBVIOUS
<1> HIDE DEF z
<1>2. SumFunctionOnSet(z, S) = 0
  BY <1>1, SumZero
<1>3. SumFunctionOnSet(z, S) <= SumFunctionOnSet(w, S)
  BY <1>1, SumLeq
<1>4. SumFunctionOnSet(w, S) \in Int
  BY <1>1, SumInt
<1> QED
  BY <1>2, <1>3, <1>4

\* A sum is the same over what an injection reaches.
LEMMA SumImage ==
  ASSUME NEW S, IsFiniteSet(S), NEW h, \A x, y \in S : h[x] = h[y] => x = y,
         NEW w, NEW v, \A x \in S : w[h[x]] \in Int /\ v[x] = w[h[x]]
  PROVE  SumFunctionOnSet(v, S) = SumFunctionOnSet(w, {h[x] : x \in S})
<1> DEFINE Im(s) == {h[x] : x \in s}
           Sums(s) == IsFiniteSet(Im(s)) /\ SumFunctionOnSet(v, s) = SumFunctionOnSet(w, Im(s))
           T == {k \in Nat : \A s \in SUBSET S : Cardinality(s) <= k => Sums(s)}
<1>0. \A s \in SUBSET S : IsFiniteSet(s) /\ Cardinality(s) \in Nat
  BY FS_Subset, FS_CardinalityType
<1>1. 0 \in T
  <2>1. \A s \in SUBSET S : Cardinality(s) <= 0 => s = {}
    BY <1>0, SizeZero
  <2>2. Im({}) = {}
    OBVIOUS
  <2> QED
    BY <2>1, <2>2, SumEmpty, FS_EmptySet, SMTT(60)
<1>2. ASSUME NEW k \in Nat, k \in T PROVE k + 1 \in T
  <2>1. ASSUME NEW s \in SUBSET S, Cardinality(s) <= k + 1 PROVE Sums(s)
    <3>1. CASE s = {}
      <4>1. Im({}) = {}
        OBVIOUS
      <4> QED
        BY <3>1, <4>1, SumEmpty, FS_EmptySet
    <3>2. CASE s # {}
      <4>1. PICK x \in s : TRUE
        BY <3>2
      <4> DEFINE rest == s \ {x}
      <4>2. rest \in SUBSET S /\ Cardinality(rest) <= k
        BY <1>0, <2>1, SmallerSize
      <4>3. Sums(rest)
        BY <1>2, <4>2
      <4>4. \A y \in s : v[y] \in Int
        OBVIOUS
      <4>5. SumFunctionOnSet(v, s) = v[x] + SumFunctionOnSet(v, rest)
        BY <1>0, <4>4, SumTake
      <4>6. h[x] \notin Im(rest) /\ Im(s) = Im(rest) \cup {h[x]}
        BY <4>2
      <4>7. w[h[x]] \in Int /\ v[x] = w[h[x]] /\ \A y \in Im(rest) : w[y] \in Int
        BY <4>2
      <4>8. SumFunctionOnSet(w, Im(rest) \cup {h[x]}) = SumFunctionOnSet(w, Im(rest)) + w[h[x]]
        <5>1. PICK R : R = Im(rest)
          OBVIOUS
        <5>2. IsFiniteSet(R) /\ (\A y \in R : w[y] \in Int) /\ h[x] \notin R
          BY <4>3, <4>6, <4>7, <5>1
        <5>3. SumFunctionOnSet(w, R \cup {h[x]}) = SumFunctionOnSet(w, R) + w[h[x]]
          BY <4>7, <5>2, SumAdd
        <5> QED
          BY <5>1, <5>3
      <4>9. IsFiniteSet(Im(rest) \cup {h[x]}) /\ SumFunctionOnSet(w, Im(rest)) \in Int
        <5> HIDE DEF Im
        <5> QED
          BY <4>3, <4>7, FS_AddElement, SumInt
      <4> HIDE DEF rest, Im
      <4> QED
        BY <4>3, <4>5, <4>6, <4>7, <4>8, <4>9
    <3> QED
      BY <3>1, <3>2
  <2> QED
    BY <2>1
<1>3. Cardinality(S) \in T
  <2> HIDE DEF T
  <2> QED
    BY <1>0, <1>1, <1>2, NaturalsByInduction
<1> QED
  BY <1>0, <1>3

\* Four tiers.
LEMMA SumOfFour ==
  ASSUME NEW f, \A t \in 1 .. 4 : f[t] \in Int
  PROVE  SumFunctionOnSet(f, 1 .. 4) = f[1] + f[2] + f[3] + f[4]
<1>1. \A n \in 0 .. 4 : IsFiniteSet(1 .. n) /\ \A x \in 1 .. n : f[x] \in Int
  <2> TAKE n \in 0 .. 4
  <2>1. IsFiniteSet(1 .. n)
    BY FS_Interval
  <2>2. \A x \in 1 .. n : x \in 1 .. 4
    OBVIOUS
  <2> QED
    BY <2>1, <2>2
<1>2. \A n \in 0 .. 3 : /\ 1 .. (n + 1) = (1 .. n) \cup {n + 1} /\ (n + 1) \notin 1 .. n
                        /\ f[n + 1] \in Int
  OBVIOUS
<1>3. \A n \in 0 .. 3 :
        SumFunctionOnSet(f, (1 .. n) \cup {n + 1}) = SumFunctionOnSet(f, 1 .. n) + f[n + 1]
  <2> TAKE n \in 0 .. 3
  <2>1. PICK R, e : R = 1 .. n /\ e = n + 1
    OBVIOUS
  <2>2. n \in 0 .. 4
    OBVIOUS
  <2>3. IsFiniteSet(R) /\ \A x \in R : f[x] \in Int
    BY <1>1, <2>1, <2>2
  <2>4. e \notin R /\ f[e] \in Int
    BY <1>2, <2>1
  <2>5. SumFunctionOnSet(f, R \cup {e}) = SumFunctionOnSet(f, R) + f[e]
    BY <2>3, <2>4, SumAdd
  <2> QED
    BY <2>1, <2>5
<1>4. SumFunctionOnSet(f, 1 .. 0) = 0
  <2>1. 1 .. 0 = {}
    OBVIOUS
  <2> QED
    BY <2>1, SumEmpty
<1> DEFINE P(n) == SumFunctionOnSet(f, 1 .. n)
<1>5. \A n \in 0 .. 3 : P(n + 1) = P(n) + f[n + 1]
  BY <1>2, <1>3
<1>6. P(0 + 1) = P(0) + f[0 + 1] /\ P(1 + 1) = P(1) + f[1 + 1]
      /\ P(2 + 1) = P(2) + f[2 + 1] /\ P(3 + 1) = P(3) + f[3 + 1]
  BY <1>5
<1>7. P(0) = 0
  BY <1>4
<1> HIDE DEF P
<1>8. P(4) = f[1] + f[2] + f[3] + f[4]
  BY <1>6, <1>7
<1> QED
  BY <1>8 DEF P

-----------------------------------------------------------------------------
(* Sorting.                                                                *)

\* A sorted list has every element once.
LEMMA SortedIsPermutation ==
  ASSUME NEW S \in SUBSET Int, IsFiniteSet(S), NEW key, \A x \in S : key[x] \in Int
  PROVE  /\ Cardinality(S) \in Nat
         /\ Sorted(S, key) \in [1 .. Cardinality(S) -> S]
         /\ \A a, b \in 1 .. Cardinality(S) : Sorted(S, key)[a] = Sorted(S, key)[b] => a = b
         /\ \A x \in S : \E a \in 1 .. Cardinality(S) : Sorted(S, key)[a] = x
<1> DEFINE n == Cardinality(S)
           B(x) == SortsBefore(x, S, key)
           rank == [x \in S |-> Cardinality(B(x))]
<1>1. n \in Nat
  BY FS_CardinalityType
<1>2. \A x \in S : B(x) \in SUBSET (S \ {x}) /\ IsFiniteSet(B(x))
  <2> TAKE x \in S
  <2>1. B(x) \in SUBSET (S \ {x})
    BY DEF SortsBefore
  <2> QED
    BY <2>1, FS_Subset
<1>3. \A x \in S : rank[x] \in 0 .. (n - 1)
  <2> TAKE x \in S
  <2>1. IsFiniteSet(S \ {x}) /\ Cardinality(S \ {x}) = n - 1
    BY FS_RemoveElement
  <2>2. Cardinality(B(x)) <= Cardinality(S \ {x}) /\ Cardinality(B(x)) \in Nat
    BY <1>2, <2>1, FS_Subset, FS_CardinalityType
  <2> QED
    BY <1>1, <2>1, <2>2
<1>4. \A x, y \in S : x \in B(y) => rank[x] < rank[y]
  <2> TAKE x, y \in S
  <2> HAVE x \in B(y)
  <2>1. B(x) \subseteq B(y) /\ x \notin B(x)
    <3>1. \A z \in S : z \in Int /\ key[z] \in Int
      OBVIOUS
    <3>2. key[x] < key[y] \/ (key[x] = key[y] /\ x < y)
      BY DEF SortsBefore
    <3>3. \A z \in S : key[z] < key[x] \/ (key[z] = key[x] /\ z < x)
                        => key[z] < key[y] \/ (key[z] = key[y] /\ z < y)
      BY <3>1, <3>2
    <3>4. ~(key[x] < key[x] \/ (key[x] = key[x] /\ x < x))
      BY <3>1
    <3> QED
      BY <3>3, <3>4 DEF SortsBefore
  <2>2. IsFiniteSet(B(y) \ {x}) /\ Cardinality(B(y) \ {x}) = Cardinality(B(y)) - 1
        /\ Cardinality(B(y)) \in Nat
    BY <1>2, FS_RemoveElement, FS_CardinalityType
  <2>3. Cardinality(B(x)) <= Cardinality(B(y) \ {x}) /\ Cardinality(B(x)) \in Nat
    <3>1. B(x) \in SUBSET (B(y) \ {x})
      BY <2>1
    <3> HIDE DEF B
    <3> QED
      BY <3>1, <2>2, <1>2, FS_Subset, FS_CardinalityType
  <2> HIDE DEF B
  <2> QED
    BY <2>2, <2>3
<1>5. \A x, y \in S : rank[x] = rank[y] => x = y
  <2> SUFFICES ASSUME NEW x \in S, NEW y \in S, rank[x] = rank[y], x # y PROVE FALSE
    OBVIOUS
  <2>1. x \in B(y) \/ y \in B(x)
    BY DEF SortsBefore
  <2>2. rank[x] \in Int /\ rank[y] \in Int
    BY <1>3
  <2> QED
    BY <2>1, <2>2, <1>4
<1>6. \A r \in 0 .. (n - 1) : \E x \in S : rank[x] = r
  <2>1. rank \in Injection(S, 0 .. (n - 1))
    <3> HIDE DEF B
    <3> QED
      BY <1>3, <1>5 DEF Injection, IsInjective
  <2>2. IsFiniteSet(0 .. (n - 1)) /\ Cardinality(0 .. (n - 1)) = n
    <3>1. 0 \in Int /\ n - 1 \in Int /\ (0 > n - 1 => n = 0) /\ (n - 1) - 0 + 1 = n
      BY <1>1
    <3> HIDE DEF n
    <3> QED
      BY <1>1, <3>1, FS_Interval
  <2>3. rank \in Surjection(S, 0 .. (n - 1))
    <3> HIDE DEF rank
    <3> QED
      BY <2>1, <2>2, FS_Injection
  <2> QED
    BY <2>3 DEF Surjection
<1> DEFINE f == Sorted(S, key)
<1>7. \A a \in 1 .. n : f[a] \in S /\ rank[f[a]] = a - 1
  <2> TAKE a \in 1 .. n
  <2>1. \E x \in S : rank[x] = a - 1
    BY <1>1, <1>6
  <2>2. \E x \in S : Cardinality(B(x)) = a - 1
    BY <2>1
  <2>3. f[a] = CHOOSE x \in S : Cardinality(B(x)) = a - 1
    BY DEF Sorted
  <2>4. f[a] \in S /\ Cardinality(B(f[a])) = a - 1
    BY <2>2, <2>3
  <2> QED
    BY <2>4
<1>8. f = [a \in 1 .. n |-> f[a]]
  BY DEF Sorted
<1> HIDE DEF f, rank
<1>9. f \in [1 .. n -> S]
  BY <1>7, <1>8
<1>10. \A a, b \in 1 .. n : f[a] = f[b] => a = b
  BY <1>1, <1>7
<1>11. \A x \in S : \E a \in 1 .. n : f[a] = x
  <2> TAKE x \in S
  <2>1. rank[x] \in 0 .. (n - 1) /\ rank[x] + 1 \in 1 .. n /\ (rank[x] + 1) - 1 = rank[x]
    BY <1>1, <1>3
  <2>2. f[rank[x] + 1] \in S /\ rank[f[rank[x] + 1]] = rank[x]
    BY <1>7, <2>1
  <2>3. f[rank[x] + 1] = x
    BY <1>5, <2>2
  <2> QED
    BY <2>1, <2>3
<1> QED
  BY <1>1, <1>9, <1>10, <1>11 DEF f

\* The sum over one element.
LEMMA SumSingle ==
  ASSUME NEW w, NEW e, w[e] \in Int
  PROVE  SumFunctionOnSet(w, {e}) = w[e]
<1>1. SumFunctionOnSet(w, {} \cup {e}) = SumFunctionOnSet(w, {}) + w[e]
  BY FS_EmptySet, SumAdd
<1>2. {} \cup {e} = {e}
  OBVIOUS
<1> QED
  BY <1>1, <1>2, SumEmpty

\* A function that differs from another in one element has another sum by as much.
LEMMA SumChange ==
  ASSUME NEW S, IsFiniteSet(S), NEW w, NEW v, NEW e \in S,
         \A x \in S : w[x] \in Int /\ v[x] \in Int,
         \A x \in S : x # e => v[x] = w[x]
  PROVE  SumFunctionOnSet(v, S) = SumFunctionOnSet(w, S) - w[e] + v[e]
<1> DEFINE R == S \ {e}
<1>1. IsFiniteSet(R)
  BY FS_Subset
<1>2. /\ SumFunctionOnSet(w, S) = w[e] + SumFunctionOnSet(w, R)
      /\ SumFunctionOnSet(v, S) = v[e] + SumFunctionOnSet(v, R)
  BY SumTake
<1>3. \A x \in R : w[x] \in Int /\ v[x] = w[x]
  OBVIOUS
<1>4. SumFunctionOnSet(w, R) = SumFunctionOnSet(v, R) /\ SumFunctionOnSet(w, R) \in Int
  <2> HIDE DEF R
  <2> QED
    BY <1>1, <1>3, SumSame, SumInt
<1> HIDE DEF R
<1> QED
  BY <1>2, <1>4

\* A sum of multiples is the multiple of the sum.
LEMMA SumScale ==
  ASSUME NEW S, IsFiniteSet(S), NEW c \in Int, NEW w, NEW v,
         \A x \in S : w[x] \in Int /\ v[x] = c * w[x]
  PROVE  SumFunctionOnSet(v, S) = c * SumFunctionOnSet(w, S)
<1> DEFINE Sums(s) == /\ SumFunctionOnSet(w, s) \in Int
                      /\ SumFunctionOnSet(v, s) = c * SumFunctionOnSet(w, s)
           T == {k \in Nat : \A s \in SUBSET S : Cardinality(s) <= k => Sums(s)}
<1>1. Sums({})
  BY SumEmpty
<1>2. 0 \in T
  <2> SUFFICES ASSUME NEW s \in SUBSET S, Cardinality(s) <= 0 PROVE Sums(s)
    OBVIOUS
  <2>1. s = {}
    BY FS_Subset, SizeZero
  <2> QED
    BY <2>1, <1>1
<1>3. ASSUME NEW k \in Nat, k \in T PROVE k + 1 \in T
  <2> SUFFICES ASSUME NEW s \in SUBSET S, Cardinality(s) <= k + 1
               PROVE  Sums(s)
    OBVIOUS
  <2> SUFFICES ASSUME s # {} PROVE Sums(s)
    <3> HIDE DEF Sums
    <3> QED
      BY <1>1
  <2>1. PICK x \in s : TRUE
    OBVIOUS
  <2> DEFINE r == s \ {x}
  <2>2. IsFiniteSet(s) /\ r \in SUBSET S
    BY FS_Subset
  <2>3. Cardinality(r) <= k
    BY <2>1, <2>2, SmallerSize
  <2>4. Sums(r)
    BY <2>2, <2>3, <1>3
  <2>5. \A y \in s : w[y] \in Int /\ v[y] \in Int
    OBVIOUS
  <2>6. /\ SumFunctionOnSet(w, s) = w[x] + SumFunctionOnSet(w, r)
        /\ SumFunctionOnSet(v, s) = v[x] + SumFunctionOnSet(v, r)
    BY <2>1, <2>2, <2>5, SumTake
  <2>7. w[x] \in Int /\ v[x] = c * w[x]
    BY <2>1
  <2> HIDE DEF r
  <2>8. c * (w[x] + SumFunctionOnSet(w, r)) = c * w[x] + c * SumFunctionOnSet(w, r)
    BY <2>4, <2>7
  <2> QED
    BY <2>4, <2>6, <2>7, <2>8
<1>4. Nat \subseteq T
  <2> HIDE DEF T
  <2> QED
    BY <1>2, <1>3, NaturalsByInduction
<1>5. Cardinality(S) \in T
  BY <1>4, FS_CardinalityType
<1> QED
  BY <1>5, FS_CardinalityType

\* A sum of terms that are zero off a subset is the sum over the subset.
LEMMA SumWithin ==
  ASSUME NEW S, IsFiniteSet(S), NEW R \in SUBSET S, NEW w, NEW v,
         \A x \in R : w[x] \in Int /\ v[x] = w[x], \A x \in S \ R : v[x] = 0
  PROVE  SumFunctionOnSet(v, S) = SumFunctionOnSet(w, R)
<1> DEFINE Q == S \ R
<1>1. IsFiniteSet(R) /\ IsFiniteSet(Q)
  BY FS_Subset
<1>2. R \cap Q = {} /\ R \cup Q = S /\ \A x \in R \cup Q : v[x] \in Int
  OBVIOUS
<1>3. SumFunctionOnSet(v, R \cup Q) = SumFunctionOnSet(v, R) + SumFunctionOnSet(v, Q)
  <2> HIDE DEF Q
  <2> QED
    BY <1>1, <1>2, SumUnion
<1>4. SumFunctionOnSet(v, Q) = 0
  BY <1>1, SumZero
<1>5. SumFunctionOnSet(v, R) = SumFunctionOnSet(w, R) /\ SumFunctionOnSet(v, R) \in Int
  BY <1>1, SumSame, SumInt
<1>6. SumFunctionOnSet(v, S) = SumFunctionOnSet(v, R) + SumFunctionOnSet(v, Q)
  BY <1>2, <1>3
<1> HIDE DEF Q
<1> QED
  BY <1>4, <1>5, <1>6
=============================================================================
