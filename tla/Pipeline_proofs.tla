--------------------------- MODULE Pipeline_proofs ---------------------------
(***************************************************************************)
(* The timing engine for every call and every setting.  Under "fill": its  *)
(* type invariant, the staging budget is never exceeded, reads issue in    *)
(* unit order, and _budget_floor's bisection is the walk back its          *)
(* docstring promises.  Then under either bus order: the same of           *)
(* PipelineFifo, and under "fifo" every bus and link serves one block      *)
(* after the other.  Last, no pass beats its compute or what a bus has to  *)
(* carry, and under "fill" no bus idles while a read waits for it.         *)
(***************************************************************************)
EXTENDS PipelineFifo, BusBook, SumTheorems, SequenceTheorems

-----------------------------------------------------------------------------
(* Arithmetic of blocks and units.                                         *)

\* Block u of a list of l units in k blocks each belongs to one of the units.
LEMMA UnitOfBlock ==
  ASSUME NEW l \in Nat, NEW k \in Nat \ {0}, NEW u \in 0 .. (l * k - 1)
  PROVE  u \div k \in 0 .. (l - 1) /\ u % k \in 0 .. (k - 1) /\ u = k * (u \div k) + (u % k)
<1> DEFINE q == u \div k
           r == u % k
<1>1. q \in Nat /\ r \in 0 .. (k - 1) /\ u = k * q + r
  OBVIOUS
<1>2. k \in Nat /\ k > 0 /\ u < l * k /\ u \in Nat
  OBVIOUS
<1> HIDE DEF q, r
<1>3. q < l
  <2> SUFFICES ASSUME q >= l PROVE FALSE
    BY <1>1
  <2>1. k * q >= k * l
    BY <1>1, <1>2
  <2> QED
    BY <2>1, <1>1, <1>2
<1> QED
  BY <1>1, <1>3 DEF q, r

\* A unit's first block, and those first blocks are in order.
LEMMA UnitStart ==
  ASSUME NEW l \in Nat, NEW k \in Nat \ {0}, NEW u \in 0 .. (l * k - 1)
  PROVE  u - (u % k) \in 0 .. u /\ (u \div k) * k = u - (u % k)
<1> DEFINE q == u \div k
           r == u % k
<1>1. q \in 0 .. (l - 1) /\ r \in 0 .. (k - 1) /\ u = k * q + r
  BY UnitOfBlock
<1> HIDE DEF q, r
<1>2. k * q \in Nat /\ q * k = k * q /\ u \in Nat
  BY <1>1
<1> QED
  BY <1>1, <1>2 DEF q, r

LEMMA UnitStartsInOrder ==
  ASSUME NEW l \in Nat, NEW k \in Nat \ {0}, NEW u \in 0 .. (l * k - 1),
         NEW v \in 0 .. (l * k - 1), u <= v
  PROVE  u - (u % k) <= v - (v % k)
<1> DEFINE qu == u \div k
           ru == u % k
           qv == v \div k
           rv == v % k
<1>1. /\ qu \in 0 .. (l - 1) /\ ru \in 0 .. (k - 1) /\ u = k * qu + ru
      /\ qv \in 0 .. (l - 1) /\ rv \in 0 .. (k - 1) /\ v = k * qv + rv
  BY UnitOfBlock
<1> HIDE DEF qu, qv, ru, rv
<1>2. qu <= qv
  <2> SUFFICES ASSUME qu >= qv + 1 PROVE FALSE
    BY <1>1
  <2>1. k * qu >= k * (qv + 1)
    BY <1>1
  <2>2. k * (qv + 1) = k * qv + k
    BY <1>1
  <2>3. k * qu \in Nat /\ k * qv \in Nat /\ u \in Nat /\ v \in Nat
    BY <1>1
  <2> QED
    BY <2>1, <2>2, <2>3, <1>1
<1>3. k * qu <= k * qv /\ k * qu \in Nat /\ k * qv \in Nat
  BY <1>1, <1>2
<1>4. u - ru = k * qu /\ v - rv = k * qv
  BY <1>1, <1>3
<1>5. u - ru <= v - rv
  BY <1>3, <1>4
<1> QED
  BY <1>5 DEF ru, rv

\* Products and rounded quotients of sizes and rates are sizes and rates.
LEMMA NatProduct ==
  ASSUME NEW x \in Nat, NEW y \in Nat
  PROVE  x * y \in Nat
  OBVIOUS

LEMMA NatQuotient ==
  ASSUME NEW x \in Nat, NEW y \in Nat \ {0}
  PROVE  x \div y \in Nat
  OBVIOUS

-----------------------------------------------------------------------------
(* What the arguments and the settings say of every block.                 *)

LEMMA CallTyped ==
  ASSUME TypeOK
  PROVE  /\ K \in Nat \ {0} /\ N \in Nat /\ N = Len(call.units) * K
         /\ call.units \in Seq(UnitType) /\ call.depth \in Nat
         /\ call.budget \in Nat \cup {NoBudget}
<1>1. call \in CallType
  BY PipelineConstants DEF TypeOK
<1>2. call.blocks \in Nat \ {0} /\ call.units \in Seq(UnitType) /\ call.depth \in Nat
      /\ call.budget \in Nat \cup {NoBudget}
  BY <1>1 DEF CallType
<1>3. Len(call.units) \in Nat
  BY <1>2, LenProperties
<1> QED
  BY <1>2, <1>3, NatProduct DEF K, N

LEMMA BlockTyped ==
  ASSUME TypeOK, NEW u \in Blocks
  PROVE  /\ \A tier \in Tiers : BytesOf(u, tier) \in Nat
         /\ CompOf(u) \in Nat
         /\ staged_bytes(u) \in Nat
<1>1. u \div K \in 0 .. (Len(call.units) - 1)
  BY CallTyped, UnitOfBlock, LenProperties DEF Blocks
<1>2. UnitOf(u) \in UnitType
  BY <1>1, CallTyped, ElementOfSeq, LenProperties, SMTT(60) DEF UnitOf
<1>3. UnitOf(u).comp \in Nat /\ \A tier \in Tiers : UnitOf(u).bytes[tier] \in Nat
  BY <1>2 DEF UnitType
<1>4. CompOf(u) \in Nat /\ \A tier \in Tiers : BytesOf(u, tier) \in Nat
  BY <1>3, CallTyped, NatQuotient DEF CompOf, BytesOf
<1>5. staged_bytes(u) \in Nat
  BY <1>4 DEF staged_bytes, Tiers
<1> QED
  BY <1>4, <1>5

LEMMA TimesTyped ==
  ASSUME TypeOK, NEW u \in Blocks, NEW tier \in Tiers
  PROVE  /\ TransferTime(u, tier) \in Nat
         /\ \A b \in Buses : HoldTime(u, tier, b) \in Nat
<1>1. env \in SettingType
  BY PipelineConstants DEF TypeOK
<1>2. /\ env.tierTime[tier] \in Nat /\ env.tierLat[tier] \in Nat
      /\ env.tierTime[DEVICE_DRAM] \in Nat /\ env.chunk \in Nat \ {0}
      /\ env.hostLinkTime \in Nat /\ env.gpuLinkTime \in Nat /\ env.passThrough \in Nat
  BY <1>1 DEF SettingType, Tiers
<1> DEFINE n == BytesOf(u, tier)
<1>3. n \in Nat
  BY BlockTyped
<1> HIDE DEF n
<1>4. n + env.chunk - 1 \in Nat
  BY <1>2, <1>3
<1>5. (n + env.chunk - 1) \div env.chunk \in Nat
  BY <1>2, <1>4, NatQuotient
<1>6. n * env.tierTime[tier] \in Nat
      /\ ((n + env.chunk - 1) \div env.chunk) * env.tierLat[tier] \in Nat
  BY <1>2, <1>3, <1>5, NatProduct
<1>7. TransferTime(u, tier) \in Nat
  BY <1>6 DEF TransferTime, n
<1>8. env.passThrough * env.tierTime[DEVICE_DRAM] \in Nat
  BY <1>2, NatProduct
<1>9. ASSUME NEW b \in Buses
      PROVE  HoldTime(u, tier, b) \in Nat
  <2>1. CASE b = HostLink
    BY <2>1, <1>2, <1>3, NatProduct DEF HoldTime, n
  <2>2. CASE b # HostLink /\ b = GpuLink
    BY <2>2, <1>2, <1>3, NatProduct DEF HoldTime, n
  <2>3. CASE b # HostLink /\ b # GpuLink
    BY <2>3, <1>8, <1>3, NatProduct DEF HoldTime, n
  <2> QED
    BY <2>1, <2>2, <2>3
<1> QED
  BY <1>7, <1>9
-----------------------------------------------------------------------------
(* The staged prefix and its bisection.                                    *)

\* Entry w of an ascending list is below x exactly when the bisection passes it.
LEMMA BisectCounts ==
  ASSUME TypeOK, PrefixSums, NEW x \in Int
  PROVE  /\ bisect_left(x) \in 0 .. Len(p)
         /\ \A w \in 0 .. (Len(p) - 1) : P(w) < x <=> w < bisect_left(x)
<1> DEFINE below == {y \in DOMAIN p : p[y] < x}
<1>1. Len(p) \in Nat /\ DOMAIN p = 1 .. Len(p) /\ \A y \in 1 .. Len(p) : p[y] \in Nat
  BY LenProperties, ElementOfSeq DEF TypeOK
<1>2. IsFiniteSet(1 .. Len(p)) /\ Cardinality(1 .. Len(p)) = Len(p)
  BY <1>1, FS_Interval, SMTT(60)
<1>3. IsFiniteSet(below) /\ Cardinality(below) <= Len(p)
  BY <1>1, <1>2, FS_Subset
<1>4. Cardinality(below) \in Nat
  BY <1>3, FS_CardinalityType
<1>5. bisect_left(x) = Cardinality(below)
  BY DEF bisect_left
<1>6. \A y, z \in 1 .. Len(p) : y <= z /\ p[z] < x => p[y] < x
  BY <1>1 DEF PrefixSums
<1>7. ASSUME NEW w \in 0 .. (Len(p) - 1), P(w) < x
      PROVE  w < Cardinality(below)
  <2>1. w + 1 \in 1 .. Len(p) /\ p[w + 1] < x
    BY <1>1, <1>7 DEF P
  <2>2. (1 .. (w + 1)) \subseteq below
    BY <2>1, <1>1, <1>6
  <2>3. Cardinality(1 .. (w + 1)) <= Cardinality(below)
    BY <2>2, <1>3, FS_Subset
  <2>4. Cardinality(1 .. (w + 1)) = w + 1
    BY <2>1, <1>1, FS_Interval
  <2> QED
    BY <2>3, <2>4, <1>1, <1>4
<1>8. ASSUME NEW w \in 0 .. (Len(p) - 1), ~(P(w) < x)
      PROVE  ~(w < Cardinality(below))
  <2>1. w + 1 \in 1 .. Len(p) /\ ~(p[w + 1] < x)
    BY <1>1, <1>8 DEF P
  <2>2. below \subseteq 1 .. w
    <3> SUFFICES ASSUME NEW y \in 1 .. Len(p), p[y] < x, ~(y <= w) PROVE FALSE
      BY <1>1
    <3> QED
      BY <2>1, <1>1, <1>6
  <2>3. IsFiniteSet(1 .. w) /\ Cardinality(1 .. w) = w
    <3>1. w \in Nat
      BY <1>1
    <3>2. IsFiniteSet(1 .. w) /\ Cardinality(1 .. w) = IF 1 > w THEN 0 ELSE w - 1 + 1
      BY <3>1, FS_Interval
    <3> QED
      BY <3>1, <3>2
  <2>4. Cardinality(below) <= w
    BY <2>2, <2>3, FS_Subset
  <2> QED
    BY <2>4, <1>1, <1>4
<1> HIDE DEF below
<1> QED
  BY <1>1, <1>3, <1>4, <1>5, <1>7, <1>8

\* _budget_floor is the walk back of its docstring: nothing later than it (and
\* before u) stages more than the budget up to u, and it either does or is the
\* depth's own limit.
THEOREM BudgetFloorWalksBack ==
  ASSUME TypeOK, PrefixSums, NEW u \in Blocks, Len(p) = N + 1,
         NEW j \in Int, j < u, NEW budget \in Nat
  PROVE  LET m == _budget_floor(u, j, budget) IN
         /\ m \in Later(j, -1) .. (u - 1)
         /\ \A w \in (m + 1) .. (u - 1) : P(u + 1) - P(w) <= budget
         /\ m = Later(j, -1) \/ P(u + 1) - P(m) > budget
<1> DEFINE x == P(u + 1) - budget
           c == bisect_left(x)
           m == _budget_floor(u, j, budget)
<1>1. N \in Nat /\ u \in Nat /\ u < N
  BY CallTyped DEF Blocks
<1>2. \A w \in 0 .. N : P(w) \in Nat
  <2>1. p \in Seq(Nat)
    BY DEF TypeOK
  <2> SUFFICES ASSUME NEW w \in 0 .. N PROVE p[w + 1] \in Nat
    BY DEF P
  <2>2. w + 1 \in 1 .. Len(p)
    BY <1>1
  <2> QED
    BY <2>1, <2>2, ElementOfSeq
<1>3. x \in Int
  BY <1>1, <1>2
<1>4. c \in 0 .. (N + 1) /\ \A w \in 0 .. N : P(w) < x <=> w < c
  <2> HIDE DEF x
  <2>1. bisect_left(x) \in 0 .. Len(p)
        /\ \A w \in 0 .. (Len(p) - 1) : P(w) < x <=> w < bisect_left(x)
    BY <1>3, BisectCounts
  <2>2. Len(p) - 1 = N
    BY <1>1
  <2> QED
    BY <2>1, <2>2
<1>5. m = LET lo == Later(j, -1)
              b  == Earlier(c - 1, u - 1)
          IN  IF b > lo THEN b ELSE lo
  BY DEF _budget_floor
<1> HIDE DEF c, m
<1>6. m \in Later(j, -1) .. (u - 1)
  BY <1>5, <1>4, <1>1 DEF Later, Earlier
<1>7. ASSUME NEW w \in (m + 1) .. (u - 1)
      PROVE  P(u + 1) - P(w) <= budget
  <2>1. w \in 0 .. N /\ w >= c
    BY <1>5, <1>6, <1>4, <1>1 DEF Later, Earlier
  <2>2. ~(P(w) < x)
    BY <2>1, <1>4
  <2> QED
    BY <2>1, <2>2, <1>2, <1>1, SMTT(60)
<1>8. m = Later(j, -1) \/ P(u + 1) - P(m) > budget
  <2> SUFFICES ASSUME m # Later(j, -1) PROVE P(u + 1) - P(m) > budget
    OBVIOUS
  <2>1. m \in 0 .. N /\ m < c
    BY <1>5, <1>6, <1>4, <1>1 DEF Later, Earlier
  <2>2. P(m) < x
    BY <2>1, <1>4
  <2> QED
    BY <2>1, <2>2, <1>2, <1>1, SMTT(60)
<1> QED
  BY <1>6, <1>7, <1>8 DEF m
-----------------------------------------------------------------------------
(* The issue rule.                                                         *)

LEMMA LookbackFacts ==
  ASSUME TypeOK, NEW u \in Blocks
  PROVE  /\ Lookback(u) \in Int /\ Lookback(u) < u
         /\ DemandAfter(u) \in Int /\ DemandAfter(u) < u
         /\ \A v \in Blocks : u <= v => Lookback(u) <= Lookback(v)
<1> DEFINE l == Len(call.units)
           d == call.depth * K
<1>1. K \in Nat \ {0} /\ l \in Nat /\ Blocks = 0 .. (l * K - 1) /\ call.depth \in Nat
  BY CallTyped, LenProperties DEF Blocks
<1>2. d \in Nat
  BY <1>1, NatProduct
<1>3. \A v \in Blocks : /\ v \in Nat /\ v - (v % K) \in 0 .. v
                        /\ (v \div K) * K = v - (v % K)
                        /\ v % K \in Int
  <2> HIDE DEF l
  <2> SUFFICES ASSUME NEW v \in Blocks
               PROVE  /\ v \in Nat /\ v - (v % K) \in 0 .. v
                      /\ (v \div K) * K = v - (v % K) /\ v % K \in Int
    OBVIOUS
  <2>1. v \in 0 .. (l * K - 1)
    BY <1>1
  <2>2. v - (v % K) \in 0 .. v /\ (v \div K) * K = v - (v % K)
    BY <1>1, <2>1, UnitStart
  <2>3. v % K \in 0 .. (K - 1)
    BY <1>1, <2>1, UnitOfBlock
  <2>4. v \in Nat /\ v % K \in Int
    BY <1>1, <2>1, <2>3
  <2> QED
    BY <2>2, <2>4
<1>4. \A v \in Blocks : u <= v => u - (u % K) <= v - (v % K)
  BY <1>1, UnitStartsInOrder
<1>5. \A v \in Blocks : Lookback(v) = v - (d + (v % K)) - 1
  BY DEF Lookback, DepthOf
<1>6. DemandAfter(u) = (u \div K) * K - 1
  BY DEF DemandAfter
<1> HIDE DEF d, l
<1>7. \A v \in Blocks : Lookback(v) = (v - (v % K)) - d - 1
  BY <1>2, <1>3, <1>5
<1>8. Lookback(u) \in Int /\ Lookback(u) < u /\ DemandAfter(u) \in Int /\ DemandAfter(u) < u
  BY <1>2, <1>3, <1>6, <1>7
<1>9. \A v \in Blocks : u <= v => Lookback(u) <= Lookback(v)
  BY <1>2, <1>3, <1>4, <1>7
<1> QED
  BY <1>8, <1>9

LEMMA CompDoneTyped ==
  ASSUME TypeOK, NEW m \in Int, m < N
  PROVE  CompDone(m) \in Nat
<1>1. CASE m >= 0
  <2>1. m \in Blocks
    BY <1>1, CallTyped DEF Blocks
  <2>2. comp_done \in [Blocks -> Nat]
    BY DEF TypeOK
  <2> QED
    BY <2>1, <2>2, <1>1 DEF CompDone
<1>2. CASE m < 0
  BY <1>2 DEF CompDone
<1> QED
  BY <1>1, <1>2

LEMMA CompDoneGrows ==
  ASSUME TypeOK, ComputeInOrder, NEW m \in Int, NEW n \in Int, m <= n, n < i
  PROVE  CompDone(m) <= CompDone(n)
<1>1. CompDone(m) \in Nat /\ CompDone(n) \in Nat /\ i \in Nat
  <2>1. i \in Nat /\ m < N /\ n < N
    BY CallTyped, SMTT(60) DEF TypeOK
  <2> QED
    BY <2>1, CompDoneTyped
<1>2. CASE m >= 0
  BY <1>1, <1>2 DEF CompDone, ComputeInOrder
<1>3. CASE m < 0
  BY <1>1, <1>3 DEF CompDone
<1> QED
  BY <1>2, <1>3

\* A read never issues before the computes its floor and its depth name.
LEMMA IssueTimeFacts ==
  ASSUME TypeOK, PrefixSums, pc # "stage", NEW u \in Blocks
  PROVE  /\ _issue_time(u) \in Nat
         /\ call.budget # NoBudget =>
              /\ _budget_floor(u, Lookback(u), call.budget) \in -1 .. (u - 1)
              /\ _issue_time(u) >= CompDone(_budget_floor(u, Lookback(u), call.budget))
<1> DEFINE j == Lookback(u)
           m == _budget_floor(u, j, call.budget)
<1>1. u \in Nat /\ u < N /\ N \in Nat
  BY CallTyped DEF Blocks
<1>2. j \in Int /\ j < u /\ DemandAfter(u) \in Int /\ DemandAfter(u) < u
  BY LookbackFacts
<1>3. CompDone(j) \in Nat /\ CompDone(DemandAfter(u)) \in Nat
  BY <1>1, <1>2, CompDoneTyped
<1>4. ASSUME call.budget # NoBudget
      PROVE  m \in -1 .. (u - 1) /\ CompDone(m) \in Nat
  <2>1. call.budget \in Nat /\ Len(p) = N + 1
    BY <1>4, CallTyped DEF PrefixSums
  <2>2. m \in Later(j, -1) .. (u - 1)
    BY <2>1, <1>2, BudgetFloorWalksBack
  <2>3. m \in -1 .. (u - 1)
    BY <2>2, <1>2, <1>1 DEF Later
  <2> QED
    BY <2>3, <1>1, CompDoneTyped
<1>5. _issue_time(u) =
        LET staged == IF call.budget = NoBudget THEN CompDone(j)
                      ELSE Later(CompDone(j), CompDone(m))
        IN  IF OnDemand(u) THEN Later(staged, CompDone(DemandAfter(u))) ELSE staged
  BY DEF _issue_time
<1> HIDE DEF j, m
<1>6. _issue_time(u) \in Nat /\ (call.budget # NoBudget => _issue_time(u) >= CompDone(m))
  BY <1>3, <1>4, <1>5 DEF Later
<1> QED
  BY <1>4, <1>6 DEF m, j

\* The later of two blocks is not let in by an earlier compute.
LEMMA FloorGrows ==
  ASSUME TypeOK, PrefixSums, pc # "stage", call.budget # NoBudget,
         NEW u \in Blocks, NEW v \in Blocks, u <= v
  PROVE  _budget_floor(u, Lookback(u), call.budget) <= _budget_floor(v, Lookback(v), call.budget)
<1> DEFINE mu == _budget_floor(u, Lookback(u), call.budget)
           mv == _budget_floor(v, Lookback(v), call.budget)
<1> SUFFICES mu <= mv
  OBVIOUS
<1>1. call.budget \in Nat /\ Len(p) = N + 1 /\ N \in Nat /\ u \in Nat /\ v \in Nat /\ v < N
  BY CallTyped, SMTT(60) DEF PrefixSums, Blocks
<1>2. /\ Lookback(u) \in Int /\ Lookback(u) < u /\ Lookback(v) \in Int /\ Lookback(v) < v
      /\ Lookback(u) <= Lookback(v)
  BY LookbackFacts
<1>3. /\ mu \in Later(Lookback(u), -1) .. (u - 1)
      /\ mu = Later(Lookback(u), -1) \/ P(u + 1) - P(mu) > call.budget
  BY <1>1, <1>2, BudgetFloorWalksBack
<1>4. /\ mv \in Later(Lookback(v), -1) .. (v - 1)
      /\ \A w \in (mv + 1) .. (v - 1) : P(v + 1) - P(w) <= call.budget
  BY <1>1, <1>2, BudgetFloorWalksBack
<1> HIDE DEF mu, mv
<1>5. mu \in Int /\ mv \in Int /\ mu >= -1 /\ mv >= -1
  BY <1>3, <1>4, <1>2 DEF Later
<1>6. CASE mu = Later(Lookback(u), -1)
  BY <1>6, <1>4, <1>2, <1>5 DEF Later
<1>7. CASE P(u + 1) - P(mu) > call.budget
  <2> SUFFICES ASSUME mu > mv PROVE FALSE
    BY <1>5
  <2>1. mu \in 0 .. (u - 1)
    BY <1>3, <1>5, <1>1
  <2>2. P(v + 1) - P(mu) <= call.budget
    BY <2>1, <1>4, <1>5, <1>1
  <2>3. /\ P(u + 1) \in Nat /\ P(v + 1) \in Nat /\ P(mu) \in Nat
    <3>1. p \in Seq(Nat) /\ mu + 1 \in 1 .. Len(p) /\ (u + 1) + 1 \in 1 .. Len(p)
          /\ (v + 1) + 1 \in 1 .. Len(p)
      BY <2>1, <1>1 DEF TypeOK
    <3> QED
      BY <3>1, ElementOfSeq DEF P
  <2>4. P(u + 1) <= P(v + 1)
    BY <1>1 DEF PrefixSums, P
  <2> QED
    BY <1>7, <2>2, <2>3, <2>4, <1>1, SMTT(60)
<1> QED
  BY <1>3, <1>6, <1>7

LEMMA IssueTimeGrows ==
  ASSUME TypeOK, PrefixSums, ComputeInOrder, pc # "stage", call.demand = {},
         NEW u \in Blocks, NEW v \in Blocks, u <= v, v <= i
  PROVE  _issue_time(u) <= _issue_time(v)
<1> DEFINE fu == _budget_floor(u, Lookback(u), call.budget)
           fv == _budget_floor(v, Lookback(v), call.budget)
<1>1. ~OnDemand(u) /\ ~OnDemand(v)
  BY DEF OnDemand
<1>2. i \in Nat /\ N \in Nat /\ u \in Nat /\ v \in Nat /\ v < N
  BY CallTyped, SMTT(60) DEF TypeOK, Blocks
<1>3. CompDone(Lookback(u)) <= CompDone(Lookback(v))
      /\ CompDone(Lookback(u)) \in Nat /\ CompDone(Lookback(v)) \in Nat
  <2>1. /\ Lookback(u) \in Int /\ Lookback(v) \in Int
        /\ Lookback(u) <= Lookback(v) /\ Lookback(v) < v
    BY LookbackFacts
  <2> QED
    BY <2>1, <1>2, CompDoneGrows, CompDoneTyped
<1>4. CASE call.budget = NoBudget
  BY <1>1, <1>3, <1>4 DEF _issue_time
<1>5. CASE call.budget # NoBudget
  <2>1. fu \in -1 .. (u - 1) /\ fv \in -1 .. (v - 1) /\ fu <= fv
    BY <1>5, IssueTimeFacts, FloorGrows
  <2> HIDE DEF fu, fv
  <2>2. CompDone(fu) <= CompDone(fv) /\ CompDone(fu) \in Nat /\ CompDone(fv) \in Nat
    BY <2>1, <1>2, CompDoneGrows, CompDoneTyped
  <2>3. /\ _issue_time(u) = Later(CompDone(Lookback(u)), CompDone(fu))
        /\ _issue_time(v) = Later(CompDone(Lookback(v)), CompDone(fv))
    BY <1>1, <1>5 DEF _issue_time, fu, fv
  <2> QED
    BY <1>3, <2>2, <2>3 DEF Later
<1> QED
  BY <1>4, <1>5
-----------------------------------------------------------------------------
(* The inductive invariant.                                                *)

LEMMA InitIInv == Init => IInv
<1> SUFFICES ASSUME Init PROVE IInv
  OBVIOUS
<1> USE DEF Init
<1>1. call.blocks \in Nat \ {0} /\ Len(call.units) \in Nat
  BY PipelineConstants, LenProperties DEF CallType
<1>2. N \in Nat
  BY <1>1, NatProduct DEF N, K
<1>3. p \in Seq(Nat) /\ Len(p) = 1 /\ p[1] = 0
  OBVIOUS
<1>4. TypeOK
  BY <1>2, <1>3 DEF TypeOK, Blocks
<1>5. Fetched = {}
  BY DEF Fetched
<1> QED
  BY <1>3, <1>4, <1>5 DEF IInv, PrefixSums, ComputeInOrder, IssuedByRule, StagingFits

\* Booking a bus keeps the buses, the trace and the landing time well typed.
LEMMA BookTyped ==
  ASSUME TypeOK, NEW b \in Buses, NEW d \in Nat, NEW a \in Nat,
         NEW s \in Candidates(b, a), Book(b, a, d, s)
  PROVE  /\ s \in Nat /\ ready' \in Nat
         /\ buses' \in [Buses -> SUBSET Nat]
         /\ trace' \subseteq [block : Nat, bus : Buses, start : Nat, end : Nat]
<1>1. buses \in [Buses -> SUBSET Nat] /\ i \in Nat /\ ready \in Nat
      /\ trace \subseteq [block : Nat, bus : Buses, start : Nat, end : Nat]
  BY CallTyped DEF TypeOK
<1>2. buses[b] \subseteq Nat
  BY <1>1
<1>3. s \in Nat
  BY <1>2 DEF Candidates
<1>4. Slots(s, d) \subseteq Nat
  BY <1>3 DEF Slots
<1>5. /\ buses' = [buses EXCEPT ![b] = @ \cup Slots(s, d)]
      /\ trace' = trace \cup {[block |-> i, bus |-> b, start |-> s, end |-> s + d]}
      /\ ready' = Later(ready, s + d)
  BY DEF Book
<1>6. buses' \in [Buses -> SUBSET Nat]
  BY <1>1, <1>2, <1>4, <1>5
<1>7. ready' \in Nat /\ s + d \in Nat
  BY <1>1, <1>3, <1>5 DEF Later
<1>8. trace' \subseteq [block : Nat, bus : Buses, start : Nat, end : Nat]
  BY <1>1, <1>3, <1>5, <1>7
<1> QED
  BY <1>3, <1>6, <1>7, <1>8

LEMMA BusesTyped ==
  ASSUME NEW tier \in Tiers
  PROVE  BusOf(tier) \in Buses /\ Held(tier) \subseteq Buses
  BY DEF BusOf, Held, Buses, Tiers

\* What a step that keeps the arguments keeps of the sizes.
LEMMA SameCall ==
  ASSUME UNCHANGED call
  PROVE  N' = N /\ K' = K /\ Blocks' = Blocks
  BY DEF N, K, Blocks

LEMMA NextTypeOK ==
  ASSUME IInv, [Next]_vars
  PROVE  TypeOK'
<1> USE DEF IInv
<1>0. /\ N \in Nat /\ i \in Nat /\ Len(p) \in Nat
  BY CallTyped DEF TypeOK
<1>1. CASE StagePrefix
  <2>1. Len(p) - 1 \in Blocks /\ p \in Seq(Nat) /\ Len(p) \in 1 .. Len(p)
    BY <1>0, <1>1 DEF StagePrefix, Blocks, TypeOK
  <2>2. staged_bytes(Len(p) - 1) \in Nat /\ p[Len(p)] \in Nat
    BY <2>1, BlockTyped, ElementOfSeq
  <2>3. p[Len(p)] + staged_bytes(Len(p) - 1) \in Nat
    BY <2>2
  <2>4. p' \in Seq(Nat) /\ Len(p') = Len(p) + 1
    BY <2>1, <2>3, <1>1, AppendProperties DEF StagePrefix
  <2> QED
    BY <2>4, <1>0, <1>1, SameCall, SMTT(60) DEF StagePrefix, TypeOK
<1>2. CASE Staged
  BY <1>2, <1>0, SameCall DEF Staged, TypeOK
<1>3. CASE Issue
  <2>1. i \in Blocks /\ pc # "stage"
    BY <1>0, <1>3 DEF Issue, Blocks
  <2>2. _issue_time(i) \in Nat
    BY <2>1, IssueTimeFacts
  <2>3. issued' \in [Blocks -> Nat] /\ ready' \in Nat /\ pending' \subseteq Tiers
    BY <2>1, <2>2, <1>3 DEF Issue, TypeOK
  <2> QED
    BY <2>3, <1>0, <1>3, SameCall DEF Issue, TypeOK
<1>4. ASSUME NEW tier \in Tiers, Transfer(tier)
      PROVE  TypeOK'
  <2>1. i \in Blocks
    BY <1>0, <1>4 DEF Transfer, TypeOK, Blocks
  <2>2. /\ TransferTime(i, tier) \in Nat /\ issued[i] \in Nat
        /\ \A b \in Buses : HoldTime(i, tier, b) \in Nat
    BY <2>1, TimesTyped DEF TypeOK
  <2>3. PICK s \in Candidates(BusOf(tier), issued[i]) :
          /\ Book(BusOf(tier), issued[i], TransferTime(i, tier), s)
          /\ begun' = HeldFrom(s, TransferTime(i, tier))
          /\ holding' = {<<h, HoldTime(i, tier, h)>> : h \in Held(tier)}
    BY <1>4 DEF Transfer
  <2>4. /\ s \in Nat /\ ready' \in Nat /\ buses' \in [Buses -> SUBSET Nat]
        /\ trace' \subseteq [block : Nat, bus : Buses, start : Nat, end : Nat]
    BY <2>2, <2>3, BusesTyped, BookTyped
  <2>5. begun' \in Nat /\ holding' \subseteq Buses \X Nat
    BY <2>2, <2>3, <2>4, BusesTyped DEF HeldFrom
  <2>6. /\ UNCHANGED <<call, env, p, i, issued, comp_done>>
        /\ pc = "move" /\ pc' = "hold" /\ pending' \subseteq Tiers
    BY <1>4 DEF Transfer, TypeOK
  <2> QED
    BY <2>4, <2>5, <2>6, SameCall DEF TypeOK
<1>5. ASSUME NEW h \in holding, Hold(h)
      PROVE  TypeOK'
  <2>1. h[1] \in Buses /\ h[2] \in Nat /\ begun \in Nat
    BY DEF TypeOK
  <2>2. PICK s \in Candidates(h[1], begun) : Book(h[1], begun, h[2], s)
    BY <1>5 DEF Hold
  <2>3. /\ ready' \in Nat /\ buses' \in [Buses -> SUBSET Nat]
        /\ trace' \subseteq [block : Nat, bus : Buses, start : Nat, end : Nat]
    BY <2>1, <2>2, BookTyped
  <2>4. /\ UNCHANGED <<call, env, p, pc, i, pending, begun, issued, comp_done>>
        /\ holding' \subseteq holding
    BY <1>5 DEF Hold
  <2> QED
    BY <2>3, <2>4, SameCall DEF TypeOK
<1>6. CASE Landed
  BY <1>6, <1>0, SameCall DEF Landed, TypeOK
<1>7. CASE Consume
  <2>1. i \in Blocks /\ i < N
    BY <1>0, <1>7 DEF Consume, TypeOK, Blocks
  <2>2. CompDone(i - 1) \in Nat /\ CompOf(i) \in Nat /\ issued[i] \in Nat /\ ready \in Nat
    <3>1. i - 1 \in Int /\ i - 1 < N
      BY <2>1, <1>0
    <3>2. CompDone(i - 1) \in Nat
      BY <3>1, CompDoneTyped
    <3>3. CompOf(i) \in Nat
      BY <2>1, BlockTyped
    <3> QED
      BY <2>1, <3>2, <3>3 DEF TypeOK
  <2>3. ComputeEnd(CompDone(i - 1)) \in Nat
    BY <2>2 DEF ComputeEnd, Later
  <2>4. comp_done' \in [Blocks -> Nat]
    BY <2>1, <2>3, <1>7 DEF Consume, TypeOK
  <2>5. /\ UNCHANGED <<call, env, p, pending, holding, begun, issued, ready, buses, trace>>
        /\ pc' = "issue" /\ i' = i + 1
    BY <1>7 DEF Consume
  <2>6. i' \in 0 .. N
    BY <2>1, <2>5, <1>0
  <2> QED
    BY <2>4, <2>5, <2>6, SameCall DEF TypeOK
<1>8. CASE Return
  BY <1>8, <1>0, SameCall, SMTT(60) DEF Return, AllTimed, TypeOK
<1>9. CASE UNCHANGED vars
  BY <1>9, SameCall DEF vars, TypeOK
<1> QED
  BY <1>1, <1>2, <1>3, <1>4, <1>5, <1>6, <1>7, <1>8, <1>9 DEF Next
LEMMA NextPrefixSums ==
  ASSUME IInv, [Next]_vars
  PROVE  PrefixSums'
<1> USE DEF IInv
<1>1. CASE StagePrefix
  <2>1. /\ Len(p) \in Nat /\ p \in Seq(Nat) /\ N \in Nat /\ Len(p) <= N /\ Len(p) >= 1
        /\ \A x \in 1 .. Len(p) : p[x] \in Nat
    <3>1. p \in Seq(Nat) /\ N \in Nat /\ Len(p) \in 1 .. (N + 1) /\ Len(p) <= N
      BY <1>1, CallTyped DEF StagePrefix, TypeOK
    <3>2. \A x \in 1 .. Len(p) : p[x] \in Nat
      BY <3>1, ElementOfSeq
    <3> QED
      BY <3>1, <3>2
  <2>2. staged_bytes(Len(p) - 1) \in Nat
    <3>1. Len(p) - 1 \in Blocks
      BY <2>1 DEF Blocks
    <3> QED
      BY <3>1, BlockTyped
  <2> DEFINE e == p[Len(p)] + staged_bytes(Len(p) - 1)
  <2>3. e \in Nat /\ e >= p[Len(p)]
    BY <2>1, <2>2
  <2>4. p' = Append(p, e) /\ UNCHANGED <<call, pc, i>> /\ pc = "stage"
    BY <1>1 DEF StagePrefix
  <2> HIDE DEF e
  <2>5. /\ Len(p') = Len(p) + 1 /\ p'[Len(p) + 1] = e
        /\ \A x \in 1 .. Len(p) : p'[x] = p[x]
    BY <2>1, <2>3, <2>4, AppendProperties
  <2>6. \A x \in 1 .. Len(p) : p[x] <= e
    <3> SUFFICES ASSUME NEW x \in 1 .. Len(p) PROVE p[x] <= e
      OBVIOUS
    <3>1. p[x] <= p[Len(p)]
      BY <2>1 DEF PrefixSums
    <3>2. Len(p) \in 1 .. Len(p)
      BY <2>1
    <3> QED
      BY <3>1, <3>2, <2>1, <2>3
  <2>7. ASSUME NEW x \in 1 .. Len(p'), NEW y \in 1 .. Len(p'), x <= y
        PROVE  p'[x] <= p'[y]
    <3>1. CASE y \in 1 .. Len(p)
      <4>1. x \in 1 .. Len(p)
        BY <3>1, <2>7, <2>1
      <4> QED
        BY <4>1, <3>1, <2>5, <2>7 DEF PrefixSums
    <3>2. CASE y = Len(p) + 1
      <4>1. CASE x = Len(p) + 1
        BY <3>2, <4>1, <2>3, <2>5
      <4>2. CASE x \in 1 .. Len(p)
        BY <3>2, <4>2, <2>5, <2>6
      <4> QED
        BY <4>1, <4>2, <2>1, <2>5
    <3> QED
      BY <3>1, <3>2, <2>1, <2>5
  <2> QED
    BY <2>4, <2>7 DEF PrefixSums
<1>2. CASE Staged
  <2>1. p' = p /\ N' = N /\ call' = call /\ i' = i /\ pc' # "stage" /\ pc = "stage"
        /\ (call.budget # NoBudget => Len(p) = N + 1)
    BY <1>2, SameCall DEF Staged
  <2> QED
    BY <2>1 DEF PrefixSums
<1>3. CASE pc # "stage"
  <2>1. p' = p /\ N' = N /\ call' = call
    BY <1>3, SameCall DEF Next, vars, StagePrefix, Staged, Issue, Transfer, Hold, Landed,
                          Consume, Return
  <2>2. pc' # "stage"
    BY <1>3 DEF Next, vars, StagePrefix, Staged, Issue, Transfer, Hold, Landed,
                          Consume, Return
  <2> QED
    BY <1>3, <2>1, <2>2 DEF PrefixSums
<1>4. CASE UNCHANGED vars
  BY <1>4, SameCall DEF vars, PrefixSums
<1>5. CASE pc = "stage" /\ Next /\ ~StagePrefix /\ ~Staged
  BY <1>5 DEF Next, Issue, Transfer, Hold, Landed, Consume, Return
<1> QED
  BY <1>1, <1>2, <1>3, <1>4, <1>5

\* A step that fixes no compute time leaves every issue time as it was, and so
\* does fixing the time of a block no earlier than the one issued.
LEMMA SameIssueTime ==
  ASSUME TypeOK, PrefixSums, pc # "stage", UNCHANGED <<call, p>>, NEW u \in Blocks,
         \A x \in 0 .. (u - 1) : comp_done'[x] = comp_done[x]
  PROVE  _issue_time(u)' = _issue_time(u)
<1> DEFINE j == Lookback(u)
           m == _budget_floor(u, j, call.budget)
           f == DemandAfter(u)
<1>1. u \in Nat
  BY CallTyped DEF Blocks
<1>2. j' = j /\ f' = f /\ m' = m /\ OnDemand(u)' = OnDemand(u)
  BY DEF Lookback, DepthOf, DemandAfter, OnDemand, K, _budget_floor, bisect_left, P
<1>3. j \in Int /\ j < u /\ f \in Int /\ f < u
  BY LookbackFacts
<1>4. call.budget # NoBudget => m \in -1 .. (u - 1)
  BY IssueTimeFacts
<1>5. _issue_time(u) =
        LET staged == IF call.budget = NoBudget THEN CompDone(j)
                      ELSE Later(CompDone(j), CompDone(m))
        IN  IF OnDemand(u) THEN Later(staged, CompDone(f)) ELSE staged
  BY DEF _issue_time
<1>6. _issue_time(u)' =
        LET staged == IF call'.budget = NoBudget THEN CompDone(j)'
                      ELSE Later(CompDone(j)', CompDone(m)')
        IN  IF OnDemand(u)' THEN Later(staged, CompDone(f)') ELSE staged
  BY DEF _issue_time
<1> HIDE DEF j, m, f
<1>7. \A x \in Int : x < u => (IF x >= 0 THEN comp_done'[x] ELSE 0)
                            = (IF x >= 0 THEN comp_done[x] ELSE 0)
  BY <1>1
<1>8. CompDone(j)' = CompDone(j) /\ CompDone(f)' = CompDone(f)
  BY <1>2, <1>3, <1>7 DEF CompDone
<1>9. call.budget # NoBudget => CompDone(m)' = CompDone(m)
  BY <1>1, <1>2, <1>4, <1>7 DEF CompDone
<1> QED
  BY <1>2, <1>5, <1>6, <1>8, <1>9
\* The steps other than Issue and Consume keep everything the issue rule is about.
Moves == UNCHANGED <<call, i, issued, comp_done>> /\ Fetched' = Fetched

LEMMA StepKinds ==
  ASSUME IInv, [Next]_vars
  PROVE  \/ Moves /\ (p' = p \/ Fetched = {})
         \/ Issue
         \/ Consume
<1> USE DEF IInv
<1>1. CASE StagePrefix
  <2>1. i = 0
    BY <1>1 DEF StagePrefix, PrefixSums
  <2> QED
    BY <1>1, <2>1 DEF StagePrefix, Moves, Fetched
<1>2. CASE Staged
  BY <1>2 DEF Staged, Moves, Fetched
<1>3. ASSUME NEW tier \in Tiers, Transfer(tier) PROVE Moves /\ p' = p
  BY <1>3 DEF Transfer, Moves, Fetched
<1>4. ASSUME NEW h \in holding, Hold(h) PROVE Moves /\ p' = p
  BY <1>4 DEF Hold, Moves, Fetched
<1>5. CASE Landed
  BY <1>5 DEF Landed, Moves, Fetched
<1>6. CASE Return
  BY <1>6 DEF Return, Moves, Fetched
<1>7. CASE UNCHANGED vars
  BY <1>7 DEF vars, Moves, Fetched
<1> QED
  BY <1>1, <1>2, <1>3, <1>4, <1>5, <1>6, <1>7 DEF Next

LEMMA NextComputeInOrder ==
  ASSUME IInv, [Next]_vars
  PROVE  ComputeInOrder'
<1> USE DEF IInv
<1>1. CASE UNCHANGED <<i, comp_done>>
  BY <1>1 DEF ComputeInOrder
<1>2. CASE Consume
  <2>1. i \in Nat /\ i < N /\ N \in Nat /\ i \in Blocks /\ i' = i + 1
    BY <1>2, CallTyped, SMTT(60) DEF Consume, TypeOK, Blocks
  <2> DEFINE e == ComputeEnd(CompDone(i - 1))
  <2>2. /\ \A x \in 0 .. (i - 1) : comp_done'[x] = comp_done[x]
        /\ comp_done'[i] = e
    BY <1>2, <2>1 DEF Consume, TypeOK, Blocks
  <2>3. CompDone(i - 1) \in Nat /\ CompOf(i) \in Nat /\ issued[i] \in Nat /\ ready \in Nat
    <3>1. i - 1 \in Int /\ i - 1 < N
      BY <2>1
    <3>2. CompDone(i - 1) \in Nat /\ CompOf(i) \in Nat
      BY <3>1, <2>1, CompDoneTyped, BlockTyped
    <3> QED
      BY <2>1, <3>2 DEF TypeOK
  <2>4. e \in Nat /\ e >= CompDone(i - 1)
    BY <2>3 DEF ComputeEnd, Later
  <2> HIDE DEF e
  <2>5. ASSUME NEW x \in 0 .. (i - 1) PROVE comp_done[x] <= e
    <3>1. CompDone(x) <= CompDone(i - 1)
      BY <2>1, CompDoneGrows
    <3>2. CompDone(x) = comp_done[x] /\ CompDone(x) \in Nat
      BY <2>1, CompDoneTyped DEF CompDone
    <3> QED
      BY <3>1, <3>2, <2>3, <2>4
  <2>6. \A x, y \in 0 .. i : x <= y => comp_done'[x] <= comp_done'[y]
    <3> SUFFICES ASSUME NEW x \in 0 .. i, NEW y \in 0 .. i, x <= y
                 PROVE  comp_done'[x] <= comp_done'[y]
      OBVIOUS
    <3>1. CASE y = i /\ x = i
      BY <3>1, <2>2, <2>4
    <3>2. CASE y = i /\ x \in 0 .. (i - 1)
      BY <3>2, <2>2, <2>5
    <3>3. CASE y \in 0 .. (i - 1) /\ x \in 0 .. (i - 1)
      BY <3>3, <2>2 DEF ComputeInOrder
    <3> QED
      BY <3>1, <3>2, <3>3, <2>1
  <2> QED
    BY <2>1, <2>6 DEF ComputeInOrder
<1>3. CASE Issue
  BY <1>1, <1>3 DEF Issue
<1> QED
  BY <1>1, <1>2, <1>3, StepKinds DEF Moves

LEMMA FetchedBlocks ==
  ASSUME TypeOK
  PROVE  /\ Fetched \subseteq Blocks
         /\ \A u \in Fetched : u \in Nat /\ u <= i
  BY CallTyped, SMTT(60) DEF Fetched, Blocks, TypeOK

\* What the step that issues block i changes.
LEMMA IssueStep ==
  ASSUME TypeOK, Issue
  PROVE  /\ i \in Blocks /\ i \in Nat /\ pc = "issue" /\ i < N /\ UNCHANGED <<call, p, i>>
         /\ comp_done' = comp_done /\ issued' = [issued EXCEPT ![i] = _issue_time(i)]
         /\ issued \in [Blocks -> Nat]
         /\ Fetched = 0 .. (i - 1) /\ Fetched' = 0 .. i
         /\ \A u \in 0 .. i : u \in Blocks
<1>1. /\ pc = "issue" /\ pc' = "move" /\ i < N /\ UNCHANGED <<call, p, i>>
      /\ comp_done' = comp_done /\ issued' = [issued EXCEPT ![i] = _issue_time(i)]
  BY DEF Issue
<1>2. i \in Nat /\ N \in Nat /\ issued \in [Blocks -> Nat]
  BY CallTyped DEF TypeOK
<1> QED
  BY <1>1, <1>2 DEF Fetched, Blocks

\* What the step that consumes block i changes.
LEMMA ConsumeStep ==
  ASSUME TypeOK, Consume
  PROVE  /\ i \in Blocks /\ i \in Nat /\ pc = "move" /\ UNCHANGED <<call, p, issued>>
         /\ i' = i + 1
         /\ comp_done' = [comp_done EXCEPT ![i] = ComputeEnd(CompDone(i - 1))]
         /\ Fetched = 0 .. i /\ Fetched' = 0 .. i
         /\ \A u \in 0 .. i : u \in Blocks
<1>1. /\ pc = "move" /\ pc' = "issue" /\ i' = i + 1 /\ UNCHANGED <<call, p, issued>>
      /\ comp_done' = [comp_done EXCEPT ![i] = ComputeEnd(CompDone(i - 1))]
  BY DEF Consume
<1>2. i \in Nat /\ N \in Nat /\ i < N
  BY <1>1, CallTyped, SMTT(60) DEF TypeOK
<1> QED
  BY <1>1, <1>2 DEF Fetched, Blocks

LEMMA NextIssuedByRule ==
  ASSUME IInv, [Next]_vars
  PROVE  IssuedByRule'
<1> USE DEF IInv
<1>1. CASE Moves /\ (p' = p \/ Fetched = {})
  <2>1. CASE Fetched = {}
    BY <1>1, <2>1 DEF Moves, IssuedByRule
  <2>2. CASE Fetched # {} /\ p' = p
    <3>1. pc # "stage"
      BY <2>2 DEF Fetched, PrefixSums
    <3>2. ASSUME NEW u \in Fetched PROVE issued'[u] = _issue_time(u)'
      <4>1. u \in Blocks /\ UNCHANGED <<call, p>> /\ comp_done' = comp_done /\ issued' = issued
        BY <1>1, <2>2, FetchedBlocks DEF Moves
      <4>2. _issue_time(u)' = _issue_time(u)
        BY <3>1, <4>1, SameIssueTime
      <4> QED
        BY <4>1, <4>2 DEF IssuedByRule
    <3> QED
      BY <1>1, <3>2 DEF Moves, IssuedByRule
  <2> QED
    BY <1>1, <2>1, <2>2
<1>2. CASE Issue
  <2>1. /\ pc # "stage" /\ UNCHANGED <<call, p>> /\ comp_done' = comp_done
        /\ issued' = [issued EXCEPT ![i] = _issue_time(i)] /\ issued \in [Blocks -> Nat]
        /\ Fetched = 0 .. (i - 1) /\ Fetched' = 0 .. i /\ i \in Nat
        /\ \A u \in 0 .. i : u \in Blocks
    BY <1>2, IssueStep
  <2>2. ASSUME NEW u \in 0 .. i PROVE issued'[u] = _issue_time(u)'
    <3>1. u \in Blocks
      BY <2>1
    <3>2. _issue_time(u)' = _issue_time(u)
      BY <3>1, <2>1, SameIssueTime
    <3>3. CASE u = i
      BY <3>2, <3>3, <2>1
    <3>4. CASE u # i
      BY <3>1, <3>2, <3>4, <2>1 DEF IssuedByRule
    <3> QED
      BY <3>3, <3>4
  <2> QED
    BY <2>1, <2>2 DEF IssuedByRule
<1>3. CASE Consume
  <2>1. /\ pc # "stage" /\ UNCHANGED <<call, p, issued>> /\ i \in Nat
        /\ comp_done' = [comp_done EXCEPT ![i] = ComputeEnd(CompDone(i - 1))]
        /\ Fetched = 0 .. i /\ Fetched' = 0 .. i
        /\ \A u \in 0 .. i : u \in Blocks
    BY <1>3, ConsumeStep
  <2>2. ASSUME NEW u \in 0 .. i PROVE issued'[u] = _issue_time(u)'
    <3>1. u \in Blocks
      BY <2>1
    <3>2. \A x \in 0 .. (u - 1) : comp_done'[x] = comp_done[x]
      BY <2>1, <2>2 DEF Blocks, TypeOK
    <3>3. _issue_time(u)' = _issue_time(u)
      BY <3>1, <3>2, <2>1, SameIssueTime
    <3> QED
      BY <3>3, <2>1 DEF IssuedByRule
  <2> QED
    BY <2>1, <2>2 DEF IssuedByRule
<1> QED
  BY <1>1, <1>2, <1>3, StepKinds

\* The read about to issue finds room: every older block not consumed by then
\* lies after the floor.
LEMMA IssueFits ==
  ASSUME IInv, pc = "issue", i < N, call.budget # NoBudget,
         NEW w \in 0 .. (i - 1), comp_done[w] > _issue_time(i)
  PROVE  P(i + 1) - P(w) <= call.budget
<1> USE DEF IInv
<1> DEFINE m == _budget_floor(i, Lookback(i), call.budget)
<1>1. i \in Blocks /\ i \in Nat /\ N \in Nat /\ Len(p) = N + 1 /\ call.budget \in Nat
  BY CallTyped, SMTT(60) DEF TypeOK, Blocks, PrefixSums
<1>2. /\ _issue_time(i) \in Nat /\ m \in -1 .. (i - 1)
      /\ _issue_time(i) >= CompDone(m)
  BY <1>1, IssueTimeFacts
<1>3. \A x \in (m + 1) .. (i - 1) : P(i + 1) - P(x) <= call.budget
  BY <1>1, LookbackFacts, BudgetFloorWalksBack
<1> HIDE DEF m
<1>4. w > m
  <2> SUFFICES ASSUME w <= m PROVE FALSE
    BY <1>2
  <2>1. CompDone(w) <= CompDone(m)
    BY <1>1, <1>2, CompDoneGrows
  <2>2. CompDone(w) = comp_done[w] /\ CompDone(w) \in Nat /\ CompDone(m) \in Nat
    <3>1. CompDone(w) = comp_done[w]
      BY DEF CompDone
    <3>2. w < N /\ m < N /\ w \in Int /\ m \in Int
      BY <1>1, <1>2
    <3> QED
      BY <3>1, <3>2, CompDoneTyped
  <2> QED
    BY <2>1, <2>2, <1>2
<1> QED
  BY <1>3, <1>4, <1>2, <1>1

LEMMA NextStagingFits ==
  ASSUME IInv, [Next]_vars
  PROVE  StagingFits'
<1> USE DEF IInv
<1> SUFFICES ASSUME call'.budget # NoBudget, NEW u \in Fetched', NEW w \in 0 .. u,
                    Unconsumed(w, issued[u])', w # u
             PROVE  (P(u + 1) - P(w) <= call.budget)'
  BY DEF StagingFits
<1>1. CASE Moves /\ (p' = p \/ Fetched = {})
  BY <1>1 DEF Moves, StagingFits, Unconsumed, P
<1>2. CASE Issue
  <2>1. /\ i \in Nat /\ pc = "issue" /\ i < N /\ UNCHANGED <<call, p, i>>
        /\ comp_done' = comp_done /\ issued' = [issued EXCEPT ![i] = _issue_time(i)]
        /\ issued \in [Blocks -> Nat]
        /\ Fetched = 0 .. (i - 1) /\ Fetched' = 0 .. i
        /\ \A x \in 0 .. i : x \in Blocks
    BY <1>2, IssueStep
  <2>2. CASE u = i
    <3>1. w \in 0 .. (i - 1) /\ comp_done[w] > _issue_time(i)
      BY <2>1, <2>2 DEF Unconsumed
    <3>2. P(i + 1) - P(w) <= call.budget
      BY <2>1, <3>1, IssueFits
    <3> QED
      BY <3>2, <2>1, <2>2 DEF P
  <2>3. CASE u # i
    <3>1. u \in Fetched /\ u \in Blocks /\ issued'[u] = issued[u]
      BY <2>1, <2>3
    <3>2. Unconsumed(w, issued[u])
      BY <2>1, <3>1 DEF Unconsumed
    <3>3. P(u + 1) - P(w) <= call.budget
      BY <2>1, <3>1, <3>2 DEF StagingFits
    <3> QED
      BY <3>3, <2>1 DEF P
  <2> QED
    BY <2>2, <2>3
<1>3. CASE Consume
  <2>1. /\ i \in Nat /\ UNCHANGED <<call, p, issued>> /\ i' = i + 1
        /\ comp_done' = [comp_done EXCEPT ![i] = ComputeEnd(CompDone(i - 1))]
        /\ Fetched = 0 .. i /\ Fetched' = 0 .. i
        /\ \A x \in 0 .. i : x \in Blocks
    BY <1>3, ConsumeStep
  <2>2. Unconsumed(w, issued[u])
    <3>1. CASE w < i
      BY <2>1, <3>1 DEF Unconsumed, TypeOK, Blocks
    <3>2. CASE w >= i
      BY <3>2 DEF Unconsumed
    <3> QED
      BY <3>1, <3>2, <2>1
  <2>3. P(u + 1) - P(w) <= call.budget
    BY <2>1, <2>2 DEF StagingFits
  <2> QED
    BY <2>1, <2>3 DEF P
<1> QED
  BY <1>1, <1>2, <1>3, StepKinds
-----------------------------------------------------------------------------
\* The engine keeps its types, its staged prefix ascends, computes end in block
\* order, every read was issued by the rule, and staging fits the budget.
THEOREM EngineInvariant == Spec => []IInv
<1>1. ASSUME IInv, [Next]_vars PROVE IInv'
  BY <1>1, NextTypeOK, NextPrefixSums, NextComputeInOrder, NextIssuedByRule, NextStagingFits
     DEF IInv
<1> QED
  BY <1>1, InitIInv, PTL DEF Spec

\* pipelined_time_s never leaves its types, whatever the call.
THEOREM EngineTypeCorrect == Spec => []TypeOK
  BY EngineInvariant, PTL DEF IInv

\* Reads fetched but not yet consumed never take more room than inflight_budget,
\* a single block that is larger than the budget alone excepted.
THEOREM BudgetNeverExceeded == Spec => []StagingFits
  BY EngineInvariant, PTL DEF IInv

\* The invariant puts the reads in unit order when there are no demand blocks.
LEMMA RuleInOrder ==
  ASSUME IInv
  PROVE  IssueInOrder
<1> USE DEF IInv
<1> SUFFICES ASSUME call.demand = {}, NEW u \in Fetched, NEW w \in Fetched, w <= u
             PROVE  issued[w] <= issued[u]
  BY DEF IssueInOrder
<1>1. pc # "stage"
  BY DEF Fetched, PrefixSums
<1>2. u \in Blocks /\ w \in Blocks /\ u <= i
  BY FetchedBlocks
<1>3. _issue_time(w) <= _issue_time(u)
  BY <1>1, <1>2, IssueTimeGrows
<1> QED
  BY <1>3 DEF IssuedByRule

\* Without demand blocks the reads issue in unit order.
THEOREM ReadsIssueInOrder == Spec => []IssueInOrder
  BY RuleInOrder, EngineInvariant, PTL

\* The last block of unit x is a block exactly when x is a unit.
LEMMA LastBlock ==
  ASSUME NEW k \in Nat \ {0}, NEW x \in Int
  PROVE  x * k \in Int /\ (x * k + k - 1 >= 0 <=> x >= 0)
<1>1. CASE x >= 0
  <2>1. x * k \in Nat
    BY <1>1, NatProduct
  <2> QED
    BY <1>1, <2>1
<1>2. CASE x < 0
  <2>1. (-x - 1) \in Nat /\ (-x - 1) * k \in Nat
    BY <1>2, NatProduct
  <2>2. (-x - 1) * k = -(x * k) - k /\ x * k \in Int
    OBVIOUS
  <2> QED
    BY <1>2, <2>1, <2>2
<1> QED
  BY <1>1, <1>2

\* The blocks the rule looks back to are the last of their units.
LEMMA LooksBackToUnitEnds ==
  ASSUME TypeOK, NEW u \in Blocks
  PROVE  /\ CompDone(Lookback(u)) = UnitEnd((u \div K) - call.depth - 1)
         /\ CompDone(DemandAfter(u)) = UnitEnd((u \div K) - 1)
<1> DEFINE q == u \div K
           r == u % K
           d == call.depth
<1>1. K \in Nat \ {0} /\ d \in Nat /\ u \in Nat
  BY CallTyped DEF Blocks
<1>2. q \in Nat /\ r \in Nat /\ u = K * q + r
  BY <1>1
<1>3. Lookback(u) = u - (d * K + r) - 1 /\ DemandAfter(u) = q * K - 1
  BY DEF Lookback, DepthOf, DemandAfter
<1> HIDE DEF q, r, d
<1>4. /\ q * K \in Int /\ d * K \in Int /\ K * q = q * K
      /\ (q - d - 1) * K = q * K - d * K - K /\ (q - 1) * K = q * K - K
  BY <1>1, <1>2
<1>5. Lookback(u) = (q - d - 1) * K + K - 1 /\ DemandAfter(u) = (q - 1) * K + K - 1
  BY <1>1, <1>2, <1>3, <1>4
<1>6. q - d - 1 \in Int /\ q - 1 \in Int
  BY <1>1, <1>2
<1>7. /\ Lookback(u) >= 0 <=> q - d - 1 >= 0
      /\ DemandAfter(u) >= 0 <=> q - 1 >= 0
  BY <1>1, <1>5, <1>6, LastBlock
<1>8. /\ CompDone(Lookback(u)) = UnitEnd(q - d - 1)
      /\ CompDone(DemandAfter(u)) = UnitEnd(q - 1)
  BY <1>5, <1>7 DEF CompDone, UnitEnd
<1> QED
  BY <1>8 DEF q, d

\* The invariant, without a budget, issues the blocks of a unit together.
LEMMA RuleByUnits ==
  ASSUME IInv
  PROVE  BlocksIssueTogether
<1> USE DEF IInv
<1> SUFFICES ASSUME call.budget = NoBudget, NEW u \in Fetched
             PROVE  issued[u] = IF OnDemand(u)
                                THEN Later(UnitEnd((u \div K) - call.depth - 1),
                                           UnitEnd((u \div K) - 1))
                                ELSE UnitEnd((u \div K) - call.depth - 1)
  BY DEF BlocksIssueTogether
<1>1. u \in Blocks /\ issued[u] = _issue_time(u)
  BY FetchedBlocks DEF IssuedByRule
<1>2. _issue_time(u) = IF OnDemand(u)
                       THEN Later(CompDone(Lookback(u)), CompDone(DemandAfter(u)))
                       ELSE CompDone(Lookback(u))
  BY DEF _issue_time
<1> QED
  BY <1>1, <1>2, LooksBackToUnitEnds

\* Without a budget every block of a unit is issued when its unit would be.
THEOREM BlocksTogether == Spec => []BlocksIssueTogether
  BY RuleByUnits, EngineInvariant, PTL
-----------------------------------------------------------------------------
(* The steps.                                                              *)

\* Every step is one of the fill engine's that leaves the free times alone, or a
\* transfer under fifo; under fifo the former book nothing.
LEMMA EngineSteps ==
  ASSUME FifoInv, [EngineNext]_engine
  PROVE  \/ [Next]_vars /\ UNCHANGED <<bus_order, tier_free, link_free, gpu_link_free>>
              /\ (bus_order = "fifo" => trace' = trace /\ env' = env /\ i <= i')
         \/ \E tier \in Tiers : FifoTransfer(tier)
<1>0. i \in Nat /\ N \in Nat
  BY CallTyped, SMTT(60) DEF FifoInv, IInv, TypeOK
<1>1. CASE EngineStagePrefix
  BY <1>0, <1>1 DEF EngineStagePrefix, Common, free, Next, StagePrefix
<1>2. CASE EngineStaged
  BY <1>0, <1>2 DEF EngineStaged, Common, free, Next, Staged
<1>3. CASE EngineIssue
  BY <1>0, <1>3 DEF EngineIssue, Common, free, Next, Issue
<1>4. ASSUME NEW tier \in Tiers, FillTransfer(tier)
      PROVE  /\ Next /\ bus_order = "fill"
             /\ UNCHANGED <<bus_order, tier_free, link_free, gpu_link_free>>
  BY <1>4 DEF FillTransfer, FillOnly, free, Next
<1>5. ASSUME NEW h \in holding, FillHold(h)
      PROVE  /\ Next /\ bus_order = "fill"
             /\ UNCHANGED <<bus_order, tier_free, link_free, gpu_link_free>>
  BY <1>5 DEF FillHold, FillOnly, free, Next
<1>6. CASE FillLanded
  BY <1>0, <1>6 DEF FillLanded, FillOnly, free, Next, Landed
<1>7. CASE EngineConsume
  BY <1>0, <1>7 DEF EngineConsume, Common, free, Next, Consume
<1>8. CASE EngineReturn
  BY <1>0, <1>8 DEF EngineReturn, Common, free, Next, Return
<1>9. CASE UNCHANGED engine
  BY <1>0, <1>9 DEF engine, free, vars
<1> QED
  BY <1>1, <1>2, <1>3, <1>4, <1>5, <1>6, <1>7, <1>8, <1>9 DEF EngineNext

\* The times of a transfer under fifo: its start is not before any bus or link it
\* crosses is free.
LEMMA StartIsFree ==
  ASSUME FifoInv, NEW tier \in Tiers, pc = "move"
  PROVE  /\ FifoStart(tier) \in Nat
         /\ FifoStart(tier) >= tier_free[tier]
         /\ CrossesHostLink(tier) => FifoStart(tier) >= link_free
         /\ CrossesGpuLink(tier) => FifoStart(tier) >= gpu_link_free
<1>0. TypeOK
  BY DEF FifoInv, IInv
<1>1. i \in Blocks
  BY <1>0, CallTyped, SMTT(60) DEF TypeOK, Blocks
<1>2. issued[i] \in Nat /\ tier_free[tier] \in Nat /\ link_free \in Nat /\ gpu_link_free \in Nat
  BY <1>1 DEF FifoInv, IInv, TypeOK, FreeTypeOK
<1> QED
  BY <1>2 DEF FifoStart, Later

\* A transfer under fifo leaves the free times typed and no earlier, and books each
\* bus once, from no earlier than it was free until it is next free.
LEMMA FifoTransferBooks ==
  ASSUME FifoInv, NEW tier \in Tiers, FifoTransfer(tier)
  PROVE  /\ FreeTypeOK' /\ ready' \in Nat
         /\ env.serial => (tier_free[DEVICE_DRAM] = tier_free[DEVICE_NAND])'
         /\ \A b \in Buses : FreeAt(b)' >= FreeAt(b) /\ FreeAt(b) \in Nat /\ FreeAt(b)' \in Nat
         /\ trace \subseteq trace'
         /\ \A x \in trace' \ trace :
              /\ x \in [block : Nat, bus : Buses, start : Nat, end : Nat]
              /\ x.block = i /\ x.start <= x.end
              /\ x.start >= FreeAt(x.bus) /\ x.end = FreeAt(x.bus)'
         /\ \A x, y \in trace' \ trace : x.bus = y.bus => x = y
<1> DEFINE s == FifoStart(tier)
           e == s + TransferTime(i, tier)
           hold(b) == HoldTime(i, tier, b)
           d0 == Later(s, tier_free[DEVICE_DRAM])
           d1 == IF PassesThrough(tier) THEN d0 + hold(DEVICE_DRAM) ELSE e
           own == [block |-> i, bus |-> BusOf(tier), start |-> s, end |-> e]
           link(b) == [block |-> i, bus |-> b, start |-> s, end |-> s + hold(b)]
           through == [block |-> i, bus |-> DEVICE_DRAM, start |-> d0, end |-> d1]
<1>1. /\ pc = "move" /\ bus_order' = bus_order /\ bus_order = "fifo" /\ env' = env
      /\ tier_free' = [t \in Tiers |->
                         IF t \in Occupied(tier) THEN e
                         ELSE IF t = DEVICE_DRAM /\ PassesThrough(tier) THEN d1
                         ELSE tier_free[t]]
      /\ link_free' = IF CrossesHostLink(tier) THEN s + hold(HostLink) ELSE link_free
      /\ gpu_link_free' = IF CrossesGpuLink(tier) THEN s + hold(GpuLink) ELSE gpu_link_free
      /\ ready' = Later(ready, Later(e, d1))
      /\ trace' = trace \cup {own} \cup {link(b) : b \in Held(tier) \ {DEVICE_DRAM}}
                    \cup {through : b \in Held(tier) \cap {DEVICE_DRAM}}
  BY DEF FifoTransfer
<1> HIDE DEF s, e, hold, d0, d1, own, link, through
<1>2. /\ i \in Nat /\ i \in Blocks /\ ready \in Nat
      /\ trace \subseteq [block : Nat, bus : Buses, start : Nat, end : Nat]
  <2>1. TypeOK /\ IInv
    BY DEF FifoInv, IInv
  <2>2. N \in Nat /\ i \in Blocks
    <3>1. N \in Nat
      BY <2>1, CallTyped
    <3>2. i \in 0 .. N /\ i < N
      BY <1>1, <2>1 DEF TypeOK
    <3> QED
      BY <3>1, <3>2 DEF Blocks
  <2> QED
    BY <2>1, <2>2 DEF TypeOK, Blocks
<1> USE DEF s, e, hold, d0, d1, own, link, through
<1>3. /\ tier_free \in [Tiers -> Nat] /\ link_free \in Nat /\ gpu_link_free \in Nat
      /\ bus_order \in {"fill", "fifo"}
      /\ (env.serial => tier_free[DEVICE_DRAM] = tier_free[DEVICE_NAND])
  BY DEF FifoInv, FreeTypeOK
<1>4. /\ TransferTime(i, tier) \in Nat /\ hold(HostLink) \in Nat /\ hold(GpuLink) \in Nat
      /\ hold(DEVICE_DRAM) \in Nat
  BY <1>2, TimesTyped DEF FifoInv, IInv, Buses, Tiers
<1>5. /\ s \in Nat /\ s >= tier_free[tier]
      /\ (CrossesHostLink(tier) => s >= link_free)
      /\ (CrossesGpuLink(tier) => s >= gpu_link_free)
  BY <1>1, StartIsFree
<1>6. e \in Nat /\ s <= e
  BY <1>4, <1>5
<1>7. DEVICE_DRAM \in Tiers /\ DEVICE_NAND \in Tiers /\ tier_free[DEVICE_DRAM] \in Nat
  BY <1>3 DEF Tiers
<1>8. d0 \in Nat /\ d0 >= tier_free[DEVICE_DRAM] /\ d1 \in Nat
      /\ (PassesThrough(tier) => d0 <= d1 /\ d1 = d0 + hold(DEVICE_DRAM))
  BY <1>4, <1>5, <1>6, <1>7 DEF Later
<1>9. /\ BusOf(tier) \in Occupied(tier) /\ BusOf(tier) \in Tiers
      /\ Occupied(tier) \subseteq Tiers
      /\ tier_free[BusOf(tier)] = tier_free[tier]
      /\ \A t \in Occupied(tier) : tier_free[t] = tier_free[tier]
      /\ (env.serial => (DEVICE_DRAM \in Occupied(tier) <=> DEVICE_NAND \in Occupied(tier)))
      /\ (PassesThrough(tier) => ~env.serial /\ DEVICE_DRAM \notin Occupied(tier)
                                   /\ BusOf(tier) # DEVICE_DRAM)
  BY <1>3 DEF BusOf, Occupied, SHARED_LINK, Tiers, PassesThrough, GPU_TIER, HOST_DRAM,
              DEVICE_DRAM, DEVICE_NAND
<1>10. /\ Held(tier) = {b \in {HostLink, GpuLink, DEVICE_DRAM} : Crosses(tier, b)}
       /\ HostLink # GpuLink /\ HostLink # DEVICE_DRAM /\ GpuLink # DEVICE_DRAM
       /\ HostLink \notin Tiers /\ GpuLink \notin Tiers
       /\ (Crosses(tier, HostLink) <=> CrossesHostLink(tier))
       /\ (Crosses(tier, GpuLink) <=> CrossesGpuLink(tier))
       /\ (Crosses(tier, DEVICE_DRAM) <=> PassesThrough(tier))
  BY DEF Held, Crosses, HostLink, GpuLink, Tiers, GPU_TIER, HOST_DRAM, DEVICE_DRAM, DEVICE_NAND
<1> HIDE DEF s, e, hold, d0, d1
<1>11. \A x \in trace' \ trace :
         \/ x = own
         \/ x = link(HostLink) /\ CrossesHostLink(tier)
         \/ x = link(GpuLink) /\ CrossesGpuLink(tier)
         \/ x = through /\ PassesThrough(tier)
  BY <1>1, <1>10
<1>12. FreeTypeOK' /\ ready' \in Nat
  <2>1. tier_free' \in [Tiers -> Nat]
    BY <1>1, <1>3, <1>6, <1>8
  <2>2. ready' \in Nat
    BY <1>1, <1>2, <1>6, <1>8 DEF Later
  <2>3. link_free' \in Nat /\ gpu_link_free' \in Nat
    BY <1>1, <1>3, <1>4, <1>5
  <2> QED
    BY <2>1, <2>2, <2>3, <1>1, <1>3 DEF FreeTypeOK
<1>13. env.serial => (tier_free[DEVICE_DRAM] = tier_free[DEVICE_NAND])'
  BY <1>1, <1>3, <1>7, <1>9
<1>14. /\ FreeAt(HostLink) = link_free /\ FreeAt(HostLink)' = link_free'
       /\ FreeAt(GpuLink) = gpu_link_free /\ FreeAt(GpuLink)' = gpu_link_free'
       /\ \A t \in Tiers : FreeAt(t) = tier_free[t] /\ FreeAt(t)' = tier_free'[t]
  BY <1>10 DEF FreeAt
<1>15. /\ \A t \in Tiers : tier_free'[t] >= tier_free[t]
       /\ link_free' >= link_free /\ gpu_link_free' >= gpu_link_free
       /\ (CrossesHostLink(tier) => link_free' = s + hold(HostLink))
       /\ (CrossesGpuLink(tier) => gpu_link_free' = s + hold(GpuLink))
       /\ tier_free'[BusOf(tier)] = e
       /\ (PassesThrough(tier) => tier_free'[DEVICE_DRAM] = d1)
  <2>1. ASSUME NEW t \in Tiers PROVE tier_free'[t] >= tier_free[t]
    <3>1. tier_free[t] \in Nat /\ tier_free[tier] \in Nat
      BY <1>3
    <3>2. CASE t \in Occupied(tier)
      BY <3>1, <3>2, <1>1, <1>5, <1>6, <1>9
    <3>3. CASE t \notin Occupied(tier) /\ t = DEVICE_DRAM /\ PassesThrough(tier)
      BY <3>1, <3>3, <1>1, <1>4, <1>8
    <3>4. CASE t \notin Occupied(tier) /\ ~(t = DEVICE_DRAM /\ PassesThrough(tier))
      BY <3>1, <3>4, <1>1
    <3> QED
      BY <3>2, <3>3, <3>4
  <2>2. link_free' >= link_free /\ gpu_link_free' >= gpu_link_free
    BY <1>1, <1>3, <1>4, <1>5
  <2>3. tier_free'[BusOf(tier)] = e /\ (PassesThrough(tier) => tier_free'[DEVICE_DRAM] = d1)
    BY <1>1, <1>7, <1>9
  <2> QED
    BY <2>1, <2>2, <2>3, <1>1
<1>16. \A b \in Buses : FreeAt(b)' >= FreeAt(b) /\ FreeAt(b) \in Nat /\ FreeAt(b)' \in Nat
  BY <1>3, <1>12, <1>14, <1>15 DEF Buses, FreeTypeOK
<1>17. ASSUME NEW x \in trace' \ trace
       PROVE  /\ x \in [block : Nat, bus : Buses, start : Nat, end : Nat]
              /\ x.block = i /\ x.start <= x.end
              /\ x.start >= FreeAt(x.bus) /\ x.end = FreeAt(x.bus)'
  <2>1. CASE x = own
    BY <2>1, <1>2, <1>5, <1>6, <1>9, <1>14, <1>15 DEF Buses
  <2>2. CASE x = link(HostLink) /\ CrossesHostLink(tier)
    BY <2>2, <1>2, <1>4, <1>5, <1>14, <1>15 DEF Buses
  <2>3. CASE x = link(GpuLink) /\ CrossesGpuLink(tier)
    BY <2>3, <1>2, <1>4, <1>5, <1>14, <1>15 DEF Buses
  <2>4. CASE x = through /\ PassesThrough(tier)
    BY <2>4, <1>2, <1>7, <1>8, <1>14, <1>15 DEF Buses
  <2> QED
    BY <2>1, <2>2, <2>3, <2>4, <1>11
<1>18. \A x, y \in trace' \ trace : x.bus = y.bus => x = y
  BY <1>7, <1>9, <1>10, <1>11
<1> QED
  BY <1>1, <1>12, <1>13, <1>16, <1>17, <1>18

-----------------------------------------------------------------------------
(* The inductive invariant.                                                *)

LEMMA InitFifoInv ==
  ASSUME EngineInit
  PROVE  FifoInv
<1>1. IInv /\ trace = {}
  BY InitIInv DEF EngineInit, Init
<1>2. tier_free = [tier \in Tiers |-> 0] /\ link_free = 0 /\ gpu_link_free = 0
      /\ bus_order \in {"fill", "fifo"}
  BY DEF EngineInit
<1>3. tier_free[DEVICE_DRAM] = tier_free[DEVICE_NAND]
  BY <1>2 DEF Tiers
<1> QED
  BY <1>1, <1>2, <1>3 DEF FifoInv, FreeTypeOK, BookedBehind, ServesInOrder

\* What a transfer under fifo keeps of the engine: all but the landing time and
\* the bookings, so the issue rule and the staging budget with it.
LEMMA FifoTransferKeeps ==
  ASSUME FifoInv, NEW tier \in Tiers, FifoTransfer(tier)
  PROVE  IInv'
<1> USE DEF FifoInv, IInv
<1>1. /\ UNCHANGED <<call, env, p, pc, i, holding, begun, issued, comp_done, buses>>
      /\ pc = "move" /\ pending' \subseteq pending
  BY DEF FifoTransfer
<1>2. /\ ready' \in Nat
      /\ trace' \subseteq [block : Nat, bus : Buses, start : Nat, end : Nat]
  BY FifoTransferBooks DEF TypeOK
<1>3. TypeOK'
  BY <1>1, <1>2, SameCall DEF TypeOK
<1>4. PrefixSums' /\ ComputeInOrder'
  BY <1>1, SameCall DEF PrefixSums, ComputeInOrder
<1>5. Fetched' = Fetched
  BY <1>1 DEF Fetched
<1>6. IssuedByRule'
  <2>1. ASSUME NEW u \in Fetched PROVE issued'[u] = _issue_time(u)'
    <3>1. u \in Blocks
      BY FetchedBlocks
    <3>2. _issue_time(u)' = _issue_time(u)
      BY <3>1, <1>1, SameIssueTime
    <3> QED
      BY <3>2, <1>1 DEF IssuedByRule
  <2> QED
    BY <2>1, <1>5 DEF IssuedByRule
<1>7. StagingFits'
  BY <1>1, <1>5 DEF StagingFits, Unconsumed, P
<1> QED
  BY <1>3, <1>4, <1>6, <1>7

LEMMA FifoTransferOrders ==
  ASSUME FifoInv, NEW tier \in Tiers, FifoTransfer(tier)
  PROVE  BookedBehind' /\ ServesInOrder'
<1>1. bus_order = "fifo" /\ bus_order' = bus_order /\ i' = i /\ i \in Nat
      /\ BookedBehind /\ ServesInOrder
      /\ trace \subseteq [block : Nat, bus : Buses, start : Nat, end : Nat]
  BY CallTyped DEF FifoTransfer, FifoInv, IInv, TypeOK
<1>2. /\ \A b \in Buses : FreeAt(b)' >= FreeAt(b) /\ FreeAt(b) \in Nat /\ FreeAt(b)' \in Nat
      /\ \A x \in trace' \ trace :
           /\ x \in [block : Nat, bus : Buses, start : Nat, end : Nat]
           /\ x.block = i /\ x.start <= x.end
           /\ x.start >= FreeAt(x.bus) /\ x.end = FreeAt(x.bus)'
      /\ \A x, y \in trace' \ trace : x.bus = y.bus => x = y
  BY FifoTransferBooks
<1>3. ASSUME NEW x \in trace
      PROVE  /\ x.block \in Nat /\ x.bus \in Buses /\ x.start \in Nat /\ x.end \in Nat
             /\ x.start <= x.end /\ x.end <= FreeAt(x.bus) /\ x.block <= i
  BY <1>1 DEF BookedBehind
<1>4. ASSUME NEW x \in trace'
      PROVE  x.start <= x.end /\ x.end <= FreeAt(x.bus)' /\ x.block <= i
  <2>1. CASE x \in trace
    BY <2>1, <1>2, <1>3
  <2>2. CASE x \in trace' \ trace
    BY <2>2, <1>1, <1>2
  <2> QED
    BY <2>1, <2>2
<1>5. BookedBehind'
  BY <1>1, <1>4 DEF BookedBehind
<1>6. ASSUME NEW x \in trace, NEW y \in trace' \ trace, x.bus = y.bus
      PROVE  x.end <= y.start /\ x.block <= y.block
  <2>1. y.start >= FreeAt(x.bus) /\ y.block = i /\ y.start \in Nat
    BY <1>2, <1>6
  <2>2. x.end <= FreeAt(x.bus) /\ x.block <= i /\ x.bus \in Buses /\ x.end \in Nat
    BY <1>3
  <2>3. FreeAt(x.bus) \in Nat
    BY <1>2, <2>2
  <2> QED
    BY <2>1, <2>2, <2>3
<1>7. ServesInOrder'
  <2> SUFFICES ASSUME NEW x \in trace', NEW y \in trace', x # y, x.bus = y.bus
               PROVE  \/ x.end <= y.start /\ x.block <= y.block
                      \/ y.end <= x.start /\ y.block <= x.block
    BY DEF ServesInOrder
  <2>1. CASE x \in trace /\ y \in trace
    BY <2>1, <1>1 DEF ServesInOrder
  <2>2. CASE x \in trace /\ y \in trace' \ trace
    BY <2>2, <1>6
  <2>3. CASE x \in trace' \ trace /\ y \in trace
    BY <2>3, <1>6
  <2>4. CASE x \in trace' \ trace /\ y \in trace' \ trace
    BY <2>4, <1>2
  <2> QED
    BY <2>1, <2>2, <2>3, <2>4
<1> QED
  BY <1>5, <1>7

LEMMA NextFifoInv ==
  ASSUME FifoInv, [EngineNext]_engine
  PROVE  FifoInv'
<1>1. CASE /\ [Next]_vars /\ UNCHANGED <<bus_order, tier_free, link_free, gpu_link_free>>
           /\ (bus_order = "fifo" => trace' = trace /\ env' = env /\ i <= i')
  <2>1. IInv'
    BY <1>1, NextTypeOK, NextPrefixSums, NextComputeInOrder, NextIssuedByRule,
       NextStagingFits DEF FifoInv, IInv
  <2>2. FreeTypeOK'
    BY <1>1 DEF FifoInv, FreeTypeOK
  <2>3. env' = env
    BY <1>1 DEF Next, vars, StagePrefix, Staged, Issue, Transfer, Hold, Landed, Consume, Return
  <2>4. ASSUME bus_order = "fifo" PROVE BookedBehind'
    <3>1. i \in Nat /\ i' \in Nat /\ i <= i' /\ trace' = trace
          /\ trace \subseteq [block : Nat, bus : Buses, start : Nat, end : Nat]
      BY <1>1, <2>1, <2>4, CallTyped DEF FifoInv, IInv, TypeOK
    <3>2. \A b \in Buses : FreeAt(b)' = FreeAt(b)
      BY <1>1 DEF FreeAt
    <3> QED
      BY <3>1, <3>2, <2>4 DEF FifoInv, BookedBehind
  <2>5. ServesInOrder'
    BY <1>1 DEF FifoInv, ServesInOrder
  <2> QED
    BY <1>1, <2>1, <2>2, <2>3, <2>4, <2>5 DEF FifoInv
<1>2. ASSUME NEW tier \in Tiers, FifoTransfer(tier) PROVE FifoInv'
  <2>1. env' = env
    BY <1>2 DEF FifoTransfer
  <2> QED
    BY <2>1, <1>2, FifoTransferKeeps, FifoTransferOrders, FifoTransferBooks DEF FifoInv
<1> QED
  BY <1>1, <1>2, EngineSteps
-----------------------------------------------------------------------------
\* The engine under either bus order: PipelineFill's invariant, and under fifo every
\* booking lies behind the time its bus is next free.
THEOREM FifoInvariant == EngineSpec => []FifoInv
  BY InitFifoInv, NextFifoInv, PTL DEF EngineSpec

\* Under either bus order, reads fetched but not yet consumed never take more room
\* than inflight_budget, a single block larger than the budget alone excepted.
THEOREM BudgetHeldInEitherOrder == EngineSpec => []StagingFits
  BY FifoInvariant, PTL DEF FifoInv, IInv

\* Under either bus order the reads issue in unit order but for demand blocks.
THEOREM IssueOrderInEitherOrder == EngineSpec => []IssueInOrder
  BY FifoInvariant, RuleInOrder, PTL DEF FifoInv

\* Under either bus order the blocks of a unit issue together without a budget.
THEOREM BlocksTogetherInEitherOrder == EngineSpec => []BlocksIssueTogether
  BY FifoInvariant, RuleByUnits, PTL DEF FifoInv

\* Under fifo no bus or link carries two transfers at once or a later block's
\* before an earlier block's.
THEOREM BusesServeInOrder == EngineSpec => []ServesInOrder
  BY FifoInvariant, PTL DEF FifoInv
-----------------------------------------------------------------------------
(* No pass beats the hardware: what each bus has carried, and by when.     *)

\* What one tier's transfer of block u asks of bus b, what a set of tiers does, and
\* all the tiers the block is charged for.
Work(u, tier, b) ==
  (IF BusOf(tier) = b THEN TransferTime(u, tier) ELSE 0)
  + (IF b \in Held(tier) THEN HoldTime(u, tier, b) ELSE 0)
TierWork(u, b) == [tier \in Tiers |-> Work(u, tier, b)]
BlockWork(b) ==
  [u \in Blocks |-> [S \in SUBSET Tiers |-> SumFunctionOnSet(TierWork(u, b), S)]]
Charges == [u \in Blocks |-> {tier \in Tiers : Charged(u, tier)}]
BusWork(b) == [u \in Blocks |-> BlockWork(b)[u][Charges[u]]]
Computes == [u \in Blocks |-> CompOf(u)]

\* The work asked of bus b so far, what it has carried, and the latest a booking or
\* a compute ends.
Moving == pc \in {"move", "hold"}
AskedOf(b) ==
  SumFunctionOnSet(BusWork(b), 0 .. (i - 1))
  + (IF Moving THEN BlockWork(b)[i][Charges[i] \ pending] ELSE 0)
Carried(b) == IF bus_order = "fill" THEN Cardinality(buses[b]) ELSE FreeAt(b)
Before == IF i > 0 THEN comp_done[i - 1] ELSE 0
PassEnd == IF Moving THEN Later(ready, Before) ELSE Before

HoldsOnce ==
  /\ Moving => pending \subseteq Charges[i]
  /\ pc # "hold" => holding = {}
  /\ \A g, h \in holding : g[1] = h[1] => g = h

ComputesFit == SumFunctionOnSet(Computes, 0 .. (i - 1)) <= Before

\* Every bus has carried what was asked of it but for what the transfer under way
\* has yet to hold it for.
CarriesAll ==
  \A b \in Buses :
    /\ \A h \in holding : h[1] = b => AskedOf(b) <= Carried(b) + h[2]
    /\ (\A h \in holding : h[1] # b) => AskedOf(b) <= Carried(b)

\* Whatever is booked ends by the time the pass has reached.
EndsInTime ==
  \A b \in Buses :
    /\ bus_order = "fill" => buses[b] \subseteq 0 .. (PassEnd - 1)
    /\ bus_order = "fifo" /\ NoFasterThanLinks => FreeAt(b) <= PassEnd

FloorInv == HoldsOnce /\ ComputesFit /\ CarriesAll /\ EndsInTime

-----------------------------------------------------------------------------
LEMMA TiersFinite == IsFiniteSet(Tiers)
<1>1. IsFiniteSet({GPU_TIER}) /\ IsFiniteSet({HOST_DRAM}) /\ IsFiniteSet({DEVICE_DRAM})
      /\ IsFiniteSet({DEVICE_NAND})
  BY FS_Singleton
<1>2. IsFiniteSet(({GPU_TIER} \cup {HOST_DRAM}) \cup ({DEVICE_DRAM} \cup {DEVICE_NAND}))
  BY <1>1, FS_Union
<1>3. Tiers = ({GPU_TIER} \cup {HOST_DRAM}) \cup ({DEVICE_DRAM} \cup {DEVICE_NAND})
  BY DEF Tiers
<1> QED
  BY <1>2, <1>3

LEMMA WorkTyped ==
  ASSUME TypeOK, NEW u \in Blocks, NEW b \in Buses
  PROVE  /\ \A tier \in Tiers : Work(u, tier, b) \in Nat /\ TierWork(u, b)[tier] = Work(u, tier, b)
         /\ \A S \in SUBSET Tiers : BlockWork(b)[u][S] \in Nat
         /\ BlockWork(b)[u][{}] = 0
         /\ \A S \in SUBSET Tiers : \A tier \in Tiers \ S :
              BlockWork(b)[u][S \cup {tier}] = BlockWork(b)[u][S] + Work(u, tier, b)
<1>1. ASSUME NEW tier \in Tiers
      PROVE  Work(u, tier, b) \in Nat /\ TierWork(u, b)[tier] = Work(u, tier, b)
  BY TimesTyped DEF Work, TierWork
<1>2. ASSUME NEW S \in SUBSET Tiers
      PROVE  IsFiniteSet(S) /\ BlockWork(b)[u][S] = SumFunctionOnSet(TierWork(u, b), S)
  BY TiersFinite, FS_Subset DEF BlockWork
<1>3. ASSUME NEW S \in SUBSET Tiers PROVE BlockWork(b)[u][S] \in Nat
  <2>1. SumFunctionOnSet(TierWork(u, b), S) \in Nat
    BY <1>1, TiersFinite, SumSubset, ZenonT(60)
  <2> QED
    BY <2>1, <1>2
<1>4. BlockWork(b)[u][{}] = 0
  BY <1>2, SumEmpty
<1>5. ASSUME NEW S \in SUBSET Tiers, NEW tier \in Tiers \ S
      PROVE  BlockWork(b)[u][S \cup {tier}] = BlockWork(b)[u][S] + Work(u, tier, b)
  <2>1. \A x \in S : TierWork(u, b)[x] \in Int
    BY <1>1
  <2>2. TierWork(u, b)[tier] \in Int /\ IsFiniteSet(S)
    BY <1>1, <1>2
  <2>3. SumFunctionOnSet(TierWork(u, b), S \cup {tier})
          = SumFunctionOnSet(TierWork(u, b), S) + TierWork(u, b)[tier]
    BY <2>1, <2>2, SumAdd
  <2>4. S \cup {tier} \in SUBSET Tiers
    OBVIOUS
  <2> QED
    BY <2>3, <2>4, <1>1, <1>2
<1> QED
  BY <1>1, <1>3, <1>4, <1>5

\* Over blocks: the sums are natural numbers and grow by the block.
LEMMA BlocksSum ==
  ASSUME TypeOK, NEW w \in [Blocks -> Nat], NEW k \in 0 .. N
  PROVE  /\ SumFunctionOnSet(w, 0 .. (k - 1)) \in Nat
         /\ k = 0 => SumFunctionOnSet(w, 0 .. (k - 1)) = 0
         /\ k < N => SumFunctionOnSet(w, 0 .. ((k + 1) - 1))
                       = SumFunctionOnSet(w, 0 .. (k - 1)) + w[k]
<1>1. N \in Nat /\ k \in Nat /\ k <= N
  BY CallTyped
<1>2. IsFiniteSet(Blocks) /\ (0 .. (k - 1)) \in SUBSET Blocks /\ IsFiniteSet(0 .. (k - 1))
  BY <1>1, FS_Interval DEF Blocks
<1>3. SumFunctionOnSet(w, 0 .. (k - 1)) \in Nat
  BY <1>2, SumSubset
<1>4. ASSUME k = 0 PROVE SumFunctionOnSet(w, 0 .. (k - 1)) = 0
  <2>1. 0 .. (k - 1) = {}
    BY <1>4
  <2> QED
    BY <2>1, SumEmpty
<1>5. ASSUME k < N
      PROVE  SumFunctionOnSet(w, 0 .. ((k + 1) - 1)) = SumFunctionOnSet(w, 0 .. (k - 1)) + w[k]
  <2>1. 0 .. ((k + 1) - 1) = (0 .. (k - 1)) \cup {k} /\ k \notin 0 .. (k - 1)
    BY <1>1
  <2>2. k \in Blocks /\ (\A x \in 0 .. (k - 1) : w[x] \in Int) /\ w[k] \in Int
    BY <1>1, <1>2, <1>5 DEF Blocks
  <2>3. SumFunctionOnSet(w, (0 .. (k - 1)) \cup {k}) = SumFunctionOnSet(w, 0 .. (k - 1)) + w[k]
    BY <1>2, <2>1, <2>2, SumAdd
  <2> QED
    BY <2>1, <2>3
<1> QED
  BY <1>3, <1>4, <1>5

LEMMA WorkFunctions ==
  ASSUME TypeOK
  PROVE  /\ Computes \in [Blocks -> Nat]
         /\ \A b \in Buses : BusWork(b) \in [Blocks -> Nat]
         /\ \A u \in Blocks : Charges[u] \in SUBSET Tiers
<1>1. \A u \in Blocks : Charges[u] \in SUBSET Tiers
  BY DEF Charges
<1>2. Computes \in [Blocks -> Nat]
  BY BlockTyped DEF Computes
<1>3. ASSUME NEW b \in Buses PROVE BusWork(b) \in [Blocks -> Nat]
  <2>1. \A u \in Blocks : BlockWork(b)[u][Charges[u]] \in Nat
    BY <1>1, WorkTyped
  <2> QED
    BY <2>1 DEF BusWork
<1> QED
  BY <1>1, <1>2, <1>3

\* Steps keep the arguments, so what they ask of the buses.
LEMMA SameWork ==
  ASSUME TypeOK, call' = call, env' = env
  PROVE  /\ Blocks' = Blocks /\ Charges' = Charges /\ Computes' = Computes
         /\ \A b \in Buses : BlockWork(b)' = BlockWork(b) /\ BusWork(b)' = BusWork(b)
         /\ NoFasterThanLinks' = NoFasterThanLinks
<1>0. Blocks' = Blocks
  BY SameCall
<1>1. \A u \in Blocks : \A tier \in Tiers :
        /\ Charged(u, tier)' = Charged(u, tier)
        /\ TransferTime(u, tier)' = TransferTime(u, tier)
        /\ BusOf(tier)' = BusOf(tier)
        /\ Held(tier)' = Held(tier)
        /\ \A b \in Buses : HoldTime(u, tier, b)' = HoldTime(u, tier, b)
  BY DEF Charged, TransferTime, BusOf, Held, Crosses, CrossesHostLink, CrossesGpuLink,
         PassesThrough, HoldTime, BytesOf, UnitOf, K
<1>2. Charges' = Charges
  BY <1>0, <1>1 DEF Charges
<1>3. Computes' = Computes
  BY <1>0 DEF Computes, CompOf, UnitOf, K
<1>4. ASSUME NEW b \in Buses PROVE BlockWork(b)' = BlockWork(b)
  <2>1. \A u \in Blocks : TierWork(u, b)' = TierWork(u, b)
    BY <1>1 DEF TierWork, Work
  <2> QED
    BY <2>1, <1>0 DEF BlockWork
<1>5. \A b \in Buses : BusWork(b)' = BusWork(b)
  BY <1>0, <1>2, <1>4 DEF BusWork
<1>6. NoFasterThanLinks' = NoFasterThanLinks
  BY DEF NoFasterThanLinks
<1> QED
  BY <1>0, <1>2, <1>3, <1>4, <1>5, <1>6

\* The counts are natural numbers.
LEMMA FloorTyped ==
  ASSUME FifoInv, FloorInv
  PROVE  /\ i \in 0 .. N /\ N \in Nat /\ Before \in Nat /\ PassEnd \in Nat /\ ready \in Nat
         /\ PassEnd >= Before
         /\ (Moving => i \in Blocks)
         /\ \A b \in Buses : AskedOf(b) \in Nat /\ FreeAt(b) \in Nat
         /\ \A b \in Buses : bus_order = "fill" =>
              IsFiniteSet(buses[b]) /\ Cardinality(buses[b]) \in Nat
         /\ \A b \in Buses : Carried(b) \in Nat
<1>0. TypeOK /\ FreeTypeOK
  BY DEF FifoInv, IInv
<1>1. i \in 0 .. N /\ N \in Nat /\ ready \in Nat /\ (Moving => i < N)
  BY <1>0, CallTyped DEF TypeOK, Moving
<1>2. Moving => i \in Blocks
  BY <1>1 DEF Blocks
<1>3. Before \in Nat
  <2>1. ASSUME i > 0 PROVE i - 1 \in Blocks
    BY <1>1, <2>1 DEF Blocks
  <2> QED
    BY <2>1, <1>0 DEF Before, TypeOK
<1>4. PassEnd \in Nat /\ PassEnd >= Before
  BY <1>1, <1>3 DEF PassEnd, Later
<1>5. ASSUME NEW b \in Buses PROVE AskedOf(b) \in Nat
  <2>1. SumFunctionOnSet(BusWork(b), 0 .. (i - 1)) \in Nat
    BY <1>0, <1>1, WorkFunctions, BlocksSum
  <2>2. Moving => BlockWork(b)[i][Charges[i] \ pending] \in Nat
    <3>1. ASSUME Moving PROVE Charges[i] \ pending \in SUBSET Tiers
      BY <3>1, <1>0, <1>2, WorkFunctions
    <3> QED
      BY <3>1, <1>0, <1>2, WorkTyped
  <2> QED
    BY <2>1, <2>2 DEF AskedOf
<1>6. ASSUME NEW b \in Buses PROVE FreeAt(b) \in Nat
  BY <1>0 DEF FreeTypeOK, FreeAt, Buses
<1>7. ASSUME NEW b \in Buses, bus_order = "fill"
      PROVE  IsFiniteSet(buses[b]) /\ Cardinality(buses[b]) \in Nat
  <2>1. buses[b] \subseteq 0 .. (PassEnd - 1)
    BY <1>7 DEF FloorInv, EndsInTime
  <2>2. IsFiniteSet(0 .. (PassEnd - 1))
    BY <1>4, FS_Interval
  <2> QED
    BY <2>1, <2>2, FS_Subset, FS_CardinalityType
<1>8. \A b \in Buses : Carried(b) \in Nat
  BY <1>6, <1>7 DEF Carried
<1> QED
  BY <1>1, <1>2, <1>3, <1>4, <1>5, <1>6, <1>7, <1>8

LEMMA InitFloorInv ==
  ASSUME EngineInit
  PROVE  FloorInv
<1>0. TypeOK /\ FreeTypeOK
  BY InitFifoInv DEF FifoInv, IInv
<1>1. /\ i = 0 /\ pc = "stage" /\ holding = {} /\ buses = [b \in Buses |-> {}]
      /\ tier_free = [tier \in Tiers |-> 0] /\ link_free = 0 /\ gpu_link_free = 0
  BY DEF EngineInit, Init
<1>2. Before = 0 /\ PassEnd = 0 /\ ~Moving
  BY <1>1 DEF Before, PassEnd, Moving
<1>3. HoldsOnce
  BY <1>1, <1>2 DEF HoldsOnce
<1>4. 0 \in 0 .. N
  BY <1>0, CallTyped
<1>5. ComputesFit
  <2>1. SumFunctionOnSet(Computes, 0 .. (0 - 1)) = 0
    BY <1>0, <1>4, WorkFunctions, BlocksSum
  <2> QED
    BY <2>1, <1>1, <1>2 DEF ComputesFit
<1>6. ASSUME NEW b \in Buses PROVE AskedOf(b) = 0 /\ FreeAt(b) = 0 /\ buses[b] = {}
  <2>1. SumFunctionOnSet(BusWork(b), 0 .. (0 - 1)) = 0
    BY <1>0, <1>4, WorkFunctions, BlocksSum
  <2> QED
    BY <2>1, <1>1, <1>2 DEF AskedOf, FreeAt, Buses
<1>7. CarriesAll
  <2>1. \A b \in Buses : Carried(b) = 0
    BY <1>6, FS_EmptySet DEF Carried
  <2> QED
    BY <2>1, <1>1, <1>6 DEF CarriesAll
<1>8. EndsInTime
  BY <1>2, <1>6 DEF EndsInTime
<1> QED
  BY <1>3, <1>5, <1>7, <1>8 DEF FloorInv

\* A step that books nothing and times no block.
LEMMA QuietKeeps ==
  ASSUME FifoInv, FloorInv,
         UNCHANGED <<call, env, i, pending, holding, ready, comp_done, buses, bus_order,
                     tier_free, link_free, gpu_link_free>>,
         Moving' = Moving, pc' # "hold" => holding = {}
  PROVE  FloorInv'
<1>0. TypeOK
  BY DEF FifoInv, IInv
<1>1. Before' = Before /\ PassEnd' = PassEnd
  BY DEF Before, PassEnd
<1>2. HoldsOnce'
  BY <1>0, SameWork DEF FloorInv, HoldsOnce
<1>3. ComputesFit'
  BY <1>0, <1>1, SameWork DEF FloorInv, ComputesFit
<1>4. ASSUME NEW b \in Buses
      PROVE  AskedOf(b)' = AskedOf(b) /\ Carried(b)' = Carried(b) /\ FreeAt(b)' = FreeAt(b)
  <2>1. BlockWork(b)' = BlockWork(b) /\ BusWork(b)' = BusWork(b) /\ Charges' = Charges
    BY <1>0, SameWork
  <2>2. AskedOf(b)' = AskedOf(b)
    BY <2>1 DEF AskedOf
  <2>3. FreeAt(b)' = FreeAt(b)
    BY DEF FreeAt
  <2>4. Carried(b)' = Carried(b)
    BY <2>3 DEF Carried
  <2> QED
    BY <2>2, <2>3, <2>4
<1>5. CarriesAll'
  BY <1>4 DEF FloorInv, CarriesAll
<1>6. EndsInTime'
  BY <1>0, <1>1, <1>4, SameWork DEF FloorInv, EndsInTime
<1> QED
  BY <1>2, <1>3, <1>5, <1>6 DEF FloorInv

\* A block is taken up: nothing of it has been carried yet.
LEMMA IssueKeepsFloors ==
  ASSUME FifoInv, FloorInv, EngineIssue
  PROVE  FloorInv'
<1>0. TypeOK /\ TypeOK'
  <2>1. Next
    BY DEF EngineIssue, Common, Next
  <2> QED
    BY <2>1, NextTypeOK DEF FifoInv, IInv
<1>1. /\ UNCHANGED <<call, env, i, holding, comp_done, buses, bus_order,
                     tier_free, link_free, gpu_link_free>>
      /\ pc = "issue" /\ pc' = "move" /\ i < N
      /\ pending' = {tier \in Tiers : Charged(i, tier)}
  BY DEF EngineIssue, Common, Issue, free
<1>2. i \in Blocks /\ i \in Nat /\ ~Moving /\ Moving' /\ pending' = Charges[i]
  <2>0. N \in Nat /\ i \in 0 .. N
    BY <1>0, CallTyped DEF TypeOK
  <2>1. i \in Blocks /\ i \in Nat
    BY <2>0, <1>1 DEF Blocks
  <2> QED
    BY <2>1, <1>1 DEF Moving, Charges
<1>3. /\ Charges' = Charges /\ Computes' = Computes
      /\ \A b \in Buses : BlockWork(b)' = BlockWork(b) /\ BusWork(b)' = BusWork(b)
      /\ NoFasterThanLinks' = NoFasterThanLinks
  BY <1>0, <1>1, SameWork
<1>4. HoldsOnce'
  BY <1>1, <1>2, <1>3 DEF FloorInv, HoldsOnce
<1>5. Before' = Before /\ PassEnd' >= PassEnd /\ PassEnd \in Nat /\ PassEnd' \in Nat
  <2>1. Before' = Before
    BY <1>1 DEF Before
  <2>2. Before \in Nat /\ ready' \in Nat
    BY <1>0, FloorTyped DEF TypeOK
  <2>3. PassEnd = Before /\ PassEnd' = Later(ready', Before)
    BY <1>2, <2>1 DEF PassEnd
  <2> QED
    BY <2>1, <2>2, <2>3 DEF Later
<1>6. ComputesFit'
  BY <1>1, <1>3, <1>5 DEF FloorInv, ComputesFit
<1>7. ASSUME NEW b \in Buses
      PROVE  AskedOf(b)' = AskedOf(b) /\ Carried(b)' = Carried(b) /\ FreeAt(b)' = FreeAt(b)
  <2>1. BlockWork(b)[i][{}] = 0
    BY <1>0, <1>2, WorkTyped
  <2>2. Charges[i] \ pending' = {}
    BY <1>2
  <2>3. SumFunctionOnSet(BusWork(b), 0 .. (i - 1)) \in Nat
    BY <1>0, <1>2, WorkFunctions, BlocksSum DEF TypeOK
  <2>4. AskedOf(b)' = SumFunctionOnSet(BusWork(b), 0 .. (i - 1)) + 0
    BY <2>1, <2>2, <1>1, <1>2, <1>3 DEF AskedOf
  <2>5. AskedOf(b)' = AskedOf(b)
    BY <2>3, <2>4, <1>2 DEF AskedOf
  <2>6. FreeAt(b)' = FreeAt(b)
    BY <1>1 DEF FreeAt
  <2>7. Carried(b)' = Carried(b)
    BY <2>6, <1>1 DEF Carried
  <2> QED
    BY <2>5, <2>6, <2>7
<1>8. CarriesAll'
  BY <1>1, <1>7 DEF FloorInv, CarriesAll
<1>9. EndsInTime'
  <2> SUFFICES ASSUME NEW b \in Buses
               PROVE  /\ bus_order = "fill" => buses[b] \subseteq 0 .. (PassEnd' - 1)
                      /\ bus_order = "fifo" /\ NoFasterThanLinks => FreeAt(b)' <= PassEnd'
    BY <1>1, <1>3 DEF EndsInTime
  <2>1. /\ bus_order = "fill" => buses[b] \subseteq 0 .. (PassEnd - 1)
        /\ bus_order = "fifo" /\ NoFasterThanLinks => FreeAt(b) <= PassEnd
        /\ FreeAt(b) \in Nat
    BY FloorTyped DEF FloorInv, EndsInTime
  <2> QED
    BY <2>1, <1>5, <1>7
<1> QED
  BY <1>4, <1>6, <1>8, <1>9 DEF FloorInv

\* A block is consumed: what it asked of the buses joins what is past.
LEMMA ConsumeKeepsFloors ==
  ASSUME FifoInv, FloorInv, EngineConsume
  PROVE  FloorInv'
<1>0. TypeOK /\ TypeOK'
  <2>1. Next
    BY DEF EngineConsume, Common, Next
  <2> QED
    BY <2>1, NextTypeOK DEF FifoInv, IInv
<1>1. /\ UNCHANGED <<call, env, pending, holding, ready, buses, bus_order,
                     tier_free, link_free, gpu_link_free>>
      /\ pc = "move" /\ pc' = "issue" /\ i' = i + 1 /\ pending = {}
      /\ comp_done' = [comp_done EXCEPT ![i] = ComputeEnd(CompDone(i - 1))]
  BY DEF EngineConsume, Common, Consume, free
<1>2. i \in Blocks /\ i \in Nat /\ i < N /\ i \in 0 .. N /\ Moving /\ ~Moving' /\ holding = {}
  <2>1. Moving /\ ~Moving' /\ holding = {}
    BY <1>1 DEF Moving, FloorInv, HoldsOnce
  <2>2. N \in Nat /\ i \in 0 .. N /\ i < N
    BY <1>0, <1>1, CallTyped DEF TypeOK
  <2> QED
    BY <2>1, <2>2 DEF Blocks
<1>3. /\ Charges' = Charges /\ Computes' = Computes
      /\ \A b \in Buses : BlockWork(b)' = BlockWork(b) /\ BusWork(b)' = BusWork(b)
      /\ NoFasterThanLinks' = NoFasterThanLinks
  BY <1>0, <1>1, SameWork
<1>4. HoldsOnce'
  BY <1>1, <1>2 DEF HoldsOnce
<1>5. /\ Before \in Nat /\ Before' \in Nat /\ PassEnd' = Before' /\ PassEnd \in Nat
      /\ Before' >= PassEnd /\ Before' >= Before + CompOf(i) /\ CompOf(i) \in Nat
  <2>1. Before \in Nat /\ PassEnd \in Nat /\ ready \in Nat /\ PassEnd = Later(ready, Before)
    BY <1>2, FloorTyped DEF PassEnd
  <2>2. CompDone(i - 1) = Before
    BY <1>2 DEF CompDone, Before
  <2>3. Before' = ComputeEnd(Before)
    <3>1. i + 1 > 0 /\ (i + 1) - 1 = i
      BY <1>2
    <3> QED
      BY <3>1, <2>2, <1>0, <1>1, <1>2 DEF Before, TypeOK
  <2>4. CompOf(i) \in Nat /\ issued[i] \in Nat
    BY <1>0, <1>2, BlockTyped DEF TypeOK
  <2>5. ComputeEnd(Before) \in Nat /\ ComputeEnd(Before) >= Later(ready, Before)
        /\ ComputeEnd(Before) >= Before + CompOf(i)
    BY <2>1, <2>4 DEF ComputeEnd, Later
  <2> QED
    BY <2>1, <2>3, <2>4, <2>5, <1>2 DEF PassEnd
<1>6. ComputesFit'
  <2>1. /\ SumFunctionOnSet(Computes, 0 .. (i - 1)) \in Nat
        /\ SumFunctionOnSet(Computes, 0 .. ((i + 1) - 1))
             = SumFunctionOnSet(Computes, 0 .. (i - 1)) + Computes[i]
    BY <1>0, <1>2, WorkFunctions, BlocksSum
  <2>2. Computes[i] = CompOf(i)
    BY <1>2 DEF Computes
  <2>3. SumFunctionOnSet(Computes, 0 .. (i - 1)) <= Before
    BY DEF FloorInv, ComputesFit
  <2>4. SumFunctionOnSet(Computes, 0 .. ((i + 1) - 1)) <= Before'
    BY <2>1, <2>2, <2>3, <1>5
  <2> QED
    BY <2>4, <1>1, <1>3 DEF ComputesFit
<1>7. ASSUME NEW b \in Buses
      PROVE  AskedOf(b)' = AskedOf(b) /\ Carried(b)' = Carried(b) /\ FreeAt(b)' = FreeAt(b)
  <2>1. SumFunctionOnSet(BusWork(b), 0 .. ((i + 1) - 1))
             = SumFunctionOnSet(BusWork(b), 0 .. (i - 1)) + BusWork(b)[i]
        /\ SumFunctionOnSet(BusWork(b), 0 .. (i - 1)) \in Nat /\ BusWork(b)[i] \in Nat
    BY <1>0, <1>2, WorkFunctions, BlocksSum
  <2>2. BusWork(b)[i] = BlockWork(b)[i][Charges[i] \ pending]
    <3>1. Charges[i] \ pending = Charges[i]
      BY <1>1
    <3> QED
      BY <3>1, <1>2 DEF BusWork
  <2>3. AskedOf(b)' = SumFunctionOnSet(BusWork(b), 0 .. ((i + 1) - 1)) + 0
    BY <1>1, <1>2, <1>3 DEF AskedOf
  <2>4. AskedOf(b)' = AskedOf(b)
    BY <2>1, <2>2, <2>3, <1>2 DEF AskedOf
  <2>6. FreeAt(b)' = FreeAt(b)
    BY <1>1 DEF FreeAt
  <2>7. Carried(b)' = Carried(b)
    BY <2>6, <1>1 DEF Carried
  <2> QED
    BY <2>4, <2>6, <2>7
<1>8. CarriesAll'
  BY <1>1, <1>7 DEF FloorInv, CarriesAll
<1>9. EndsInTime'
  <2> SUFFICES ASSUME NEW b \in Buses
               PROVE  /\ bus_order = "fill" => buses[b] \subseteq 0 .. (PassEnd' - 1)
                      /\ bus_order = "fifo" /\ NoFasterThanLinks => FreeAt(b)' <= PassEnd'
    BY <1>1, <1>3 DEF EndsInTime
  <2>1. /\ bus_order = "fill" => buses[b] \subseteq 0 .. (PassEnd - 1)
        /\ bus_order = "fifo" /\ NoFasterThanLinks => FreeAt(b) <= PassEnd
        /\ FreeAt(b) \in Nat
    BY FloorTyped DEF FloorInv, EndsInTime
  <2>2. PassEnd' >= PassEnd /\ PassEnd \in Nat /\ PassEnd' \in Nat
    BY <1>5
  <2> QED
    BY <2>1, <2>2, <1>7
<1> QED
  BY <1>4, <1>6, <1>8, <1>9 DEF FloorInv

LEMMA SlotsBelow ==
  ASSUME NEW s \in Nat, NEW d \in Nat
  PROVE  /\ \A e \in Nat : s + d <= e => Slots(s, d) \subseteq 0 .. (e - 1)
         /\ IsFiniteSet(Slots(s, d)) /\ Cardinality(Slots(s, d)) = d
<1>1. ASSUME NEW e \in Nat, s + d <= e
      PROVE  Slots(s, d) \subseteq 0 .. (e - 1)
  BY <1>1 DEF Slots
<1> DEFINE l == s + d - 1
<1>2. l \in Int
  OBVIOUS
<1>3. (IF s > l THEN 0 ELSE l - s + 1) = d
  OBVIOUS
<1> HIDE DEF l
<1>4. IsFiniteSet(s .. l) /\ Cardinality(s .. l) = d
  BY <1>2, <1>3, FS_Interval
<1> QED
  BY <1>1, <1>4 DEF Slots, l

\* A slot before one end is before every later end.
LEMMA EarlierSlot ==
  ASSUME NEW e \in Nat, NEW f \in Nat, e <= f, NEW x \in 0 .. (e - 1)
  PROVE  x \in 0 .. (f - 1)
OBVIOUS

\* A booking of length d on bus b adds d slots to it, ending by the time the block's
\* bytes have landed, and touches no other bus.
LEMMA BookAdds ==
  ASSUME FifoInv, FloorInv, bus_order = "fill", NEW b \in Buses, NEW t \in Nat, NEW d \in Nat,
         NEW s \in Candidates(b, t), Book(b, t, d, s), UNCHANGED <<i, comp_done>>, Moving, Moving'
  PROVE  /\ Before' = Before /\ PassEnd' \in Nat
         /\ \A c \in Buses : buses'[c] \subseteq 0 .. (PassEnd' - 1)
         /\ Cardinality(buses'[b]) = Cardinality(buses[b]) + d
         /\ \A c \in Buses : c # b => buses'[c] = buses[c]
<1>0. TypeOK /\ TypeOK
  BY DEF FifoInv, IInv
<1>1. s \in Nat /\ ready' \in Nat
  BY <1>0, BookTyped
<1>2. /\ buses' = [buses EXCEPT ![b] = @ \cup Slots(s, d)]
      /\ ready' = Later(ready, s + d) /\ Slots(s, d) \cap buses[b] = {}
      /\ buses \in [Buses -> SUBSET Nat]
  BY <1>0 DEF Book, IsFirstFit, Fits, TypeOK
<1>3. /\ Before \in Nat /\ ready \in Nat /\ PassEnd \in Nat
      /\ IsFiniteSet(buses[b]) /\ Cardinality(buses[b]) \in Nat
  BY FloorTyped
<1>4. Before' = Before
  BY DEF Before
<1>5. PassEnd = Later(ready, Before) /\ PassEnd' = Later(ready', Before)
  BY <1>4 DEF PassEnd
<1>6. PassEnd' \in Nat /\ PassEnd' >= PassEnd /\ PassEnd' >= s + d
  BY <1>1, <1>2, <1>3, <1>5 DEF Later
<1>7. /\ buses'[b] = buses[b] \cup Slots(s, d)
      /\ \A c \in Buses : c # b => buses'[c] = buses[c]
  BY <1>2
<1>8. Slots(s, d) \subseteq 0 .. (PassEnd' - 1)
  BY <1>1, <1>6, SlotsBelow
<1>9. \A c \in Buses : buses[c] \subseteq 0 .. (PassEnd' - 1)
  <2> SUFFICES ASSUME NEW c \in Buses, NEW x \in buses[c] PROVE x \in 0 .. (PassEnd' - 1)
    OBVIOUS
  <2>1. x \in 0 .. (PassEnd - 1)
    BY DEF FloorInv, EndsInTime
  <2>2. PassEnd \in Nat /\ PassEnd' \in Nat /\ PassEnd <= PassEnd'
    BY <1>3, <1>6
  <2> QED
    BY <2>1, <2>2, EarlierSlot
<1>10. \A c \in Buses : buses'[c] \subseteq 0 .. (PassEnd' - 1)
  BY <1>7, <1>8, <1>9
<1>11. IsFiniteSet(Slots(s, d)) /\ Cardinality(Slots(s, d)) = d
  BY <1>1, SlotsBelow
<1>12. Cardinality(buses[b] \cup Slots(s, d)) = Cardinality(buses[b]) + d
  <2>1. /\ IsFiniteSet(buses[b] \cup Slots(s, d))
        /\ Cardinality(buses[b] \cup Slots(s, d))
             = Cardinality(buses[b]) + Cardinality(Slots(s, d))
               - Cardinality(buses[b] \cap Slots(s, d))
    BY <1>3, <1>11, FS_Union
  <2>2. buses[b] \cap Slots(s, d) = {}
    BY <1>2
  <2>3. Cardinality(buses[b] \cap Slots(s, d)) = 0
    BY <2>2, FS_EmptySet
  <2> QED
    BY <2>1, <2>3, <1>3, <1>11
<1> QED
  BY <1>4, <1>6, <1>7, <1>10, <1>12

\* Charging one more tier of block i asks for its work.
LEMMA TransferAsks ==
  ASSUME FifoInv, FloorInv, NEW tier \in pending, pending' = pending \ {tier},
         UNCHANGED <<call, env, i>>, Moving, Moving', NEW b \in Buses
  PROVE  /\ AskedOf(b)' = AskedOf(b) + Work(i, tier, b)
         /\ Work(i, tier, b) \in Nat
<1>0. TypeOK
  BY DEF FifoInv, IInv
<1>1. i \in Blocks /\ pending \subseteq Charges[i] /\ tier \in Tiers /\ i \in 0 .. N
      /\ Charges[i] \in SUBSET Tiers
  BY <1>0, FloorTyped, WorkFunctions DEF FloorInv, HoldsOnce, TypeOK
<1> DEFINE S == Charges[i] \ pending
<1>2. S \in SUBSET Tiers /\ tier \in Tiers \ S /\ Charges[i] \ pending' = S \cup {tier}
  BY <1>1
<1>3. /\ BlockWork(b)[i][S \cup {tier}] = BlockWork(b)[i][S] + Work(i, tier, b)
      /\ BlockWork(b)[i][S] \in Nat /\ Work(i, tier, b) \in Nat
  <2>1. /\ \A u \in Tiers : Work(i, u, b) \in Nat
        /\ \A A \in SUBSET Tiers : BlockWork(b)[i][A] \in Nat
        /\ \A A \in SUBSET Tiers : \A u \in Tiers \ A :
             BlockWork(b)[i][A \cup {u}] = BlockWork(b)[i][A] + Work(i, u, b)
    BY <1>0, <1>1, WorkTyped, Zenon
  <2> HIDE DEF S
  <2> QED
    BY <1>1, <1>2, <2>1, Zenon
<1>4. SumFunctionOnSet(BusWork(b), 0 .. (i - 1)) \in Nat
  BY <1>0, <1>1, WorkFunctions, BlocksSum
<1>5. BlockWork(b)' = BlockWork(b) /\ BusWork(b)' = BusWork(b) /\ Charges' = Charges
  BY <1>0, SameWork
<1>6. AskedOf(b)' = SumFunctionOnSet(BusWork(b), 0 .. (i - 1)) + BlockWork(b)[i][S \cup {tier}]
  BY <1>2, <1>5 DEF AskedOf
<1>7. AskedOf(b) = SumFunctionOnSet(BusWork(b), 0 .. (i - 1)) + BlockWork(b)[i][S]
  BY DEF AskedOf
<1> HIDE DEF S
<1> QED
  BY <1>3, <1>4, <1>6, <1>7

LEMMA FillTransferKeepsFloors ==
  ASSUME FifoInv, FloorInv, NEW tier \in Tiers, FillTransfer(tier)
  PROVE  FloorInv'
<1>0. TypeOK
  BY DEF FifoInv, IInv
<1>1. /\ UNCHANGED <<call, env, i, comp_done, bus_order, tier_free, link_free, gpu_link_free>>
      /\ bus_order = "fill" /\ pc = "move" /\ pc' = "hold" /\ tier \in pending
      /\ pending' = pending \ {tier}
  BY DEF FillTransfer, FillOnly, Transfer, free
<1>2. Moving /\ Moving' /\ holding = {} /\ i \in Blocks /\ bus_order' = "fill"
  <2>1. Moving /\ Moving' /\ holding = {}
    BY <1>1 DEF Moving, FloorInv, HoldsOnce
  <2> QED
    BY <2>1, <1>1, FloorTyped
<1> DEFINE d == TransferTime(i, tier)
           a == BusOf(tier)
<1>3. PICK s \in Candidates(a, issued[i]) :
        /\ Book(a, issued[i], d, s)
        /\ holding' = {<<h, HoldTime(i, tier, h)>> : h \in Held(tier)}
  BY DEF FillTransfer, FillOnly, Transfer
<1>4. /\ d \in Nat /\ a \in Buses /\ issued[i] \in Nat /\ Held(tier) \subseteq Buses
      /\ \A b \in Buses : HoldTime(i, tier, b) \in Nat
  BY <1>0, <1>2, TimesTyped, BusesTyped DEF TypeOK
<1> HIDE DEF d, a
<1>5. /\ Before' = Before /\ PassEnd' \in Nat
      /\ \A c \in Buses : buses'[c] \subseteq 0 .. (PassEnd' - 1)
      /\ Cardinality(buses'[a]) = Cardinality(buses[a]) + d
      /\ \A c \in Buses : c # a => buses'[c] = buses[c]
  BY <1>1, <1>2, <1>3, <1>4, BookAdds
<1>6. Charges' = Charges /\ Computes' = Computes
  BY <1>0, <1>1, SameWork
<1>7. HoldsOnce'
  BY <1>1, <1>2, <1>3, <1>6 DEF FloorInv, HoldsOnce
<1>8. ComputesFit'
  BY <1>1, <1>5, <1>6 DEF FloorInv, ComputesFit
<1>9. ASSUME NEW b \in Buses
      PROVE  /\ \A h \in holding' : h[1] = b => AskedOf(b)' <= Carried(b)' + h[2]
             /\ (\A h \in holding' : h[1] # b) => AskedOf(b)' <= Carried(b)'
  <2>1. AskedOf(b)' = AskedOf(b) + Work(i, tier, b) /\ Work(i, tier, b) \in Nat
    BY <1>1, <1>2, TransferAsks
  <2>2. AskedOf(b) <= Carried(b) /\ AskedOf(b) \in Nat /\ Carried(b) \in Nat
    BY <1>2, FloorTyped DEF FloorInv, CarriesAll
  <2>3. Carried(b)' = Carried(b) + (IF a = b THEN d ELSE 0)
    <3>1. Cardinality(buses[b]) \in Nat
      BY <1>1, FloorTyped
    <3> QED
      BY <3>1, <1>1, <1>2, <1>4, <1>5 DEF Carried
  <2>4. HoldTime(i, tier, b) \in Nat
    BY <1>4
  <2>5. Work(i, tier, b) = (IF a = b THEN d ELSE 0)
                           + (IF b \in Held(tier) THEN HoldTime(i, tier, b) ELSE 0)
    BY DEF Work, a, d
  <2>6. ASSUME NEW h \in holding', h[1] = b
        PROVE  b \in Held(tier) /\ h[2] = HoldTime(i, tier, b)
    BY <2>6, <1>3
  <2>7. ASSUME \A h \in holding' : h[1] # b PROVE b \notin Held(tier)
    <3> SUFFICES ASSUME b \in Held(tier) PROVE FALSE
      OBVIOUS
    <3>1. <<b, HoldTime(i, tier, b)>> \in holding'
      BY <1>3
    <3> QED
      BY <3>1, <2>7
  <2>8. AskedOf(b)' <= Carried(b)' + (IF b \in Held(tier) THEN HoldTime(i, tier, b) ELSE 0)
    BY <2>1, <2>2, <2>3, <2>4, <2>5, <1>4
  <2>9. Carried(b)' \in Nat /\ AskedOf(b)' \in Nat
    BY <2>1, <2>2, <2>3, <1>4
  <2> QED
    BY <2>4, <2>6, <2>7, <2>8, <2>9
<1>10. CarriesAll'
  BY <1>9 DEF CarriesAll
<1>11. EndsInTime'
  BY <1>2, <1>5 DEF EndsInTime
<1> QED
  BY <1>7, <1>8, <1>10, <1>11 DEF FloorInv

LEMMA FillHoldKeepsFloors ==
  ASSUME FifoInv, FloorInv, NEW h \in holding, FillHold(h)
  PROVE  FloorInv'
<1>0. TypeOK
  BY DEF FifoInv, IInv
<1>1. /\ UNCHANGED <<call, env, pc, i, pending, comp_done, bus_order,
                     tier_free, link_free, gpu_link_free>>
      /\ bus_order = "fill" /\ pc = "hold" /\ holding' = holding \ {h}
  BY DEF FillHold, FillOnly, Hold, free
<1>2. Moving /\ Moving' /\ bus_order' = "fill" /\ h[1] \in Buses /\ h[2] \in Nat /\ begun \in Nat
  BY <1>0, <1>1 DEF Moving, TypeOK
<1>3. PICK s \in Candidates(h[1], begun) : Book(h[1], begun, h[2], s)
  BY DEF FillHold, FillOnly, Hold
<1>5. /\ Before' = Before /\ PassEnd' \in Nat
      /\ \A c \in Buses : buses'[c] \subseteq 0 .. (PassEnd' - 1)
      /\ Cardinality(buses'[h[1]]) = Cardinality(buses[h[1]]) + h[2]
      /\ \A c \in Buses : c # h[1] => buses'[c] = buses[c]
  BY <1>1, <1>2, <1>3, BookAdds
<1>6. /\ Charges' = Charges /\ Computes' = Computes
      /\ \A b \in Buses : BlockWork(b)' = BlockWork(b) /\ BusWork(b)' = BusWork(b)
  BY <1>0, <1>1, SameWork
<1>7. HoldsOnce'
  BY <1>1, <1>6 DEF FloorInv, HoldsOnce, Moving
<1>8. ComputesFit'
  BY <1>1, <1>5, <1>6 DEF FloorInv, ComputesFit
<1>9. ASSUME NEW b \in Buses
      PROVE  /\ \A g \in holding' : g[1] = b => AskedOf(b)' <= Carried(b)' + g[2]
             /\ (\A g \in holding' : g[1] # b) => AskedOf(b)' <= Carried(b)'
  <2>1. AskedOf(b)' = AskedOf(b)
    BY <1>1, <1>2, <1>6 DEF AskedOf
  <2>2. /\ \A g \in holding : g[1] = b => AskedOf(b) <= Carried(b) + g[2]
        /\ (\A g \in holding : g[1] # b) => AskedOf(b) <= Carried(b)
    BY DEF FloorInv, CarriesAll
  <2>3. Carried(b)' = IF b = h[1] THEN Carried(b) + h[2] ELSE Carried(b)
    BY <1>1, <1>2, <1>5 DEF Carried
  <2>4. CASE b = h[1]
    <3>1. \A g \in holding' : g[1] # b
      BY <2>4, <1>1 DEF FloorInv, HoldsOnce
    <3> QED
      BY <3>1, <2>1, <2>2, <2>3, <2>4
  <2>5. CASE b # h[1]
    <3>1. \A g \in holding : g \in holding' \/ g[1] # b
      BY <2>5, <1>1
    <3> QED
      BY <3>1, <1>1, <2>1, <2>2, <2>3, <2>5
  <2> QED
    BY <2>4, <2>5
<1>10. CarriesAll'
  BY <1>9 DEF CarriesAll
<1>11. EndsInTime'
  BY <1>2, <1>5 DEF EndsInTime
<1> QED
  BY <1>7, <1>8, <1>10, <1>11 DEF FloorInv

\* The tiers a transfer holds further buses for, and for how long under fifo for
\* tiers no faster than the links.
LEMMA LinksInTime ==
  ASSUME TypeOK, NoFasterThanLinks, NEW u \in Blocks, NEW tier \in Tiers, Charged(u, tier)
  PROVE  /\ CrossesHostLink(tier) => HoldTime(u, tier, HostLink) <= TransferTime(u, tier)
         /\ CrossesGpuLink(tier) => HoldTime(u, tier, GpuLink) <= TransferTime(u, tier)
<1> DEFINE n == BytesOf(u, tier)
           c == ((n + env.chunk - 1) \div env.chunk) * env.tierLat[tier]
<1>1. env \in SettingType
  BY PipelineConstants DEF TypeOK
<1>2. /\ env.tierTime[tier] \in Nat /\ env.tierLat[tier] \in Nat /\ env.chunk \in Nat \ {0}
      /\ env.hostLinkTime \in Nat /\ env.gpuLinkTime \in Nat
  BY <1>1 DEF SettingType
<1>3. n \in Nat /\ env.tierTime[tier] > 0
  BY BlockTyped DEF Charged
<1> HIDE DEF n
<1>4. c \in Nat
  <2>1. n + env.chunk - 1 \in Nat
    BY <1>2, <1>3
  <2>2. (n + env.chunk - 1) \div env.chunk \in Nat
    BY <1>2, <2>1, NatQuotient
  <2> QED
    BY <1>2, <2>2, NatProduct
<1> HIDE DEF c
<1>5. TransferTime(u, tier) = n * env.tierTime[tier] + c
  BY DEF TransferTime, n, c
<1>6. \A r \in Nat : env.tierTime[tier] >= r => n * r <= n * env.tierTime[tier] + c
  <2> SUFFICES ASSUME NEW r \in Nat, env.tierTime[tier] >= r
               PROVE  n * r <= n * env.tierTime[tier] + c
    OBVIOUS
  <2>1. n * r <= n * env.tierTime[tier] /\ n * r \in Nat /\ n * env.tierTime[tier] \in Nat
    BY <1>2, <1>3
  <2> QED
    BY <2>1, <1>4
<1>7. ASSUME CrossesHostLink(tier)
      PROVE  HoldTime(u, tier, HostLink) <= TransferTime(u, tier)
  <2>1. HoldTime(u, tier, HostLink) = n * env.hostLinkTime
    BY DEF HoldTime, n, HostLink, GpuLink
  <2>2. env.tierTime[tier] >= env.hostLinkTime
    BY <1>3, <1>7 DEF NoFasterThanLinks, CrossesHostLink
  <2> QED
    BY <1>2, <1>5, <1>6, <2>1, <2>2
<1>8. ASSUME CrossesGpuLink(tier)
      PROVE  HoldTime(u, tier, GpuLink) <= TransferTime(u, tier)
  <2>1. HoldTime(u, tier, GpuLink) = n * env.gpuLinkTime
    BY DEF HoldTime, n, GpuLink, HostLink
  <2>2. env.tierTime[tier] >= env.gpuLinkTime
    BY <1>3, <1>8 DEF NoFasterThanLinks, CrossesGpuLink
  <2> QED
    BY <1>2, <1>5, <1>6, <2>1, <2>2
<1> QED
  BY <1>7, <1>8

\* Under fifo a transfer moves each bus on by its work at least, and no further than
\* its bytes have landed.
LEMMA FifoTransferCarries ==
  ASSUME FifoInv, FloorInv, NEW tier \in Tiers, FifoTransfer(tier), NEW b \in Buses
  PROVE  /\ FreeAt(b)' >= FreeAt(b) + Work(i, tier, b)
         /\ NoFasterThanLinks => FreeAt(b)' <= FreeAt(b) \/ FreeAt(b)' <= ready'
<1>0. TypeOK /\ FreeTypeOK
  BY DEF FifoInv, IInv
<1>1. pc = "move" /\ tier \in pending /\ i \in Blocks /\ ready \in Nat
  BY <1>0, FloorTyped DEF FifoTransfer, Moving
<1> DEFINE s == FifoStart(tier)
           e == s + TransferTime(i, tier)
           hold(x) == HoldTime(i, tier, x)
           d0 == Later(s, tier_free[DEVICE_DRAM])
           d1 == IF PassesThrough(tier) THEN d0 + hold(DEVICE_DRAM) ELSE e
<1>2. /\ tier_free' = [t \in Tiers |->
                         IF t \in Occupied(tier) THEN e
                         ELSE IF t = DEVICE_DRAM /\ PassesThrough(tier) THEN d1
                         ELSE tier_free[t]]
      /\ link_free' = IF CrossesHostLink(tier) THEN s + hold(HostLink) ELSE link_free
      /\ gpu_link_free' = IF CrossesGpuLink(tier) THEN s + hold(GpuLink) ELSE gpu_link_free
      /\ ready' = Later(ready, Later(e, d1))
  BY DEF FifoTransfer
<1>3. /\ s \in Nat /\ TransferTime(i, tier) \in Nat /\ hold(HostLink) \in Nat
      /\ hold(GpuLink) \in Nat /\ hold(DEVICE_DRAM) \in Nat
  BY <1>0, <1>1, StartIsFree, TimesTyped DEF Buses, Tiers
<1>4. /\ s >= tier_free[tier]
      /\ CrossesHostLink(tier) => s >= link_free
      /\ CrossesGpuLink(tier) => s >= gpu_link_free
  BY <1>1, StartIsFree
<1>5. /\ \A t \in Tiers : tier_free[t] \in Nat
      /\ link_free \in Nat /\ gpu_link_free \in Nat
      /\ env.serial => tier_free[DEVICE_DRAM] = tier_free[DEVICE_NAND]
  BY DEF FifoInv, FreeTypeOK
<1>6. Charged(i, tier)
  BY <1>1 DEF FloorInv, HoldsOnce, Charges, Moving
<1>7. NoFasterThanLinks =>
        /\ CrossesHostLink(tier) => hold(HostLink) <= TransferTime(i, tier)
        /\ CrossesGpuLink(tier) => hold(GpuLink) <= TransferTime(i, tier)
  BY <1>0, <1>1, <1>6, LinksInTime
<1> HIDE DEF s, hold
<1>8. /\ e \in Nat /\ d0 \in Nat /\ d1 \in Nat /\ d0 >= s /\ d0 >= tier_free[DEVICE_DRAM]
      /\ PassesThrough(tier) => d1 = d0 + hold(DEVICE_DRAM)
      /\ e = s + TransferTime(i, tier)
  BY <1>3, <1>5 DEF Later, Tiers
<1> HIDE DEF e, d0, d1
<1>9. ready' \in Nat /\ ready' >= e /\ ready' >= d1
  BY <1>1, <1>2, <1>8 DEF Later
<1>10. CASE b = HostLink
  <2>1. FreeAt(b) = link_free /\ FreeAt(b)' = link_free'
    BY <1>10 DEF FreeAt
  <2>2. BusOf(tier) # b /\ (b \in Held(tier) <=> CrossesHostLink(tier))
    BY <1>10 DEF BusOf, Tiers, Held, Crosses, HostLink, GPU_TIER, HOST_DRAM, DEVICE_DRAM,
                 DEVICE_NAND, GpuLink
  <2>3. Work(i, tier, b) = IF CrossesHostLink(tier) THEN hold(HostLink) ELSE 0
    BY <2>2, <1>3, <1>10 DEF Work, hold
  <2> QED
    BY <2>1, <2>3, <1>2, <1>3, <1>4, <1>5, <1>7, <1>8, <1>9
<1>11. CASE b = GpuLink
  <2>1. FreeAt(b) = gpu_link_free /\ FreeAt(b)' = gpu_link_free'
    BY <1>11 DEF FreeAt, GpuLink, HostLink
  <2>2. BusOf(tier) # b /\ (b \in Held(tier) <=> CrossesGpuLink(tier))
    BY <1>11 DEF BusOf, Tiers, Held, Crosses, HostLink, GPU_TIER, HOST_DRAM, DEVICE_DRAM,
                 DEVICE_NAND, GpuLink
  <2>3. Work(i, tier, b) = IF CrossesGpuLink(tier) THEN hold(GpuLink) ELSE 0
    BY <2>2, <1>3, <1>11 DEF Work, hold
  <2> QED
    BY <2>1, <2>3, <1>2, <1>3, <1>4, <1>5, <1>7, <1>8, <1>9
<1>12. CASE b \in Tiers
  <2>1. FreeAt(b) = tier_free[b] /\ FreeAt(b)' = tier_free'[b]
    BY <1>12 DEF FreeAt, Tiers, HostLink, GPU_TIER, HOST_DRAM, DEVICE_DRAM, DEVICE_NAND, GpuLink
  <2>2. b \in Held(tier) <=> b = DEVICE_DRAM /\ PassesThrough(tier)
    BY <1>12 DEF Tiers, Held, Crosses, HostLink, GPU_TIER, HOST_DRAM, DEVICE_DRAM,
                 DEVICE_NAND, GpuLink
  <2>3. PassesThrough(tier) => ~env.serial /\ tier = DEVICE_NAND
    BY DEF PassesThrough
  <2>4. tier_free'[b] = IF b \in Occupied(tier) THEN e
                        ELSE IF b = DEVICE_DRAM /\ PassesThrough(tier) THEN d1
                        ELSE tier_free[b]
    BY <1>2, <1>12
  <2>5. CASE b \in Occupied(tier)
    <3>1. b \notin Held(tier) /\ tier_free[b] <= s
      <4>1. CASE env.serial /\ tier \in SHARED_LINK
        BY <4>1, <2>2, <2>3, <2>5, <1>4, <1>5 DEF Occupied, SHARED_LINK
      <4>2. CASE ~(env.serial /\ tier \in SHARED_LINK)
        <5>1. b = tier
          BY <4>2, <2>5 DEF Occupied
        <5>2. b # DEVICE_DRAM \/ tier # DEVICE_NAND
          BY <5>1 DEF DEVICE_DRAM, DEVICE_NAND
        <5> QED
          BY <5>1, <5>2, <2>2, <2>3, <1>4
      <4> QED
        BY <4>1, <4>2
    <3>2. Work(i, tier, b) = (IF BusOf(tier) = b THEN TransferTime(i, tier) ELSE 0)
      BY <3>1, <1>3 DEF Work
    <3> QED
      BY <3>1, <3>2, <2>1, <2>4, <2>5, <1>3, <1>5, <1>8, <1>9, <1>12
  <2>6. CASE b \notin Occupied(tier) /\ b = DEVICE_DRAM /\ PassesThrough(tier)
    <3>1. BusOf(tier) # b /\ b \in Held(tier)
      BY <2>2, <2>3, <2>6 DEF BusOf, DEVICE_DRAM, DEVICE_NAND
    <3>2. Work(i, tier, b) = hold(DEVICE_DRAM)
      BY <3>1, <2>6, <1>3 DEF Work, hold
    <3> QED
      BY <3>2, <2>1, <2>4, <2>6, <1>3, <1>5, <1>8, <1>9, <1>12
  <2>7. CASE b \notin Occupied(tier) /\ ~(b = DEVICE_DRAM /\ PassesThrough(tier))
    <3>1. BusOf(tier) # b
      BY <2>7 DEF BusOf, Occupied, SHARED_LINK
    <3>2. Work(i, tier, b) = 0
      BY <3>1, <2>2, <2>7 DEF Work
    <3> QED
      BY <3>2, <2>1, <2>4, <2>7, <1>5, <1>12
  <2> QED
    BY <2>5, <2>6, <2>7
<1> QED
  BY <1>10, <1>11, <1>12 DEF Buses

LEMMA FifoTransferKeepsFloors ==
  ASSUME FifoInv, FloorInv, NEW tier \in Tiers, FifoTransfer(tier)
  PROVE  FloorInv'
<1>0. TypeOK /\ TypeOK'
  BY FifoTransferKeeps DEF FifoInv, IInv
<1>1. /\ UNCHANGED <<call, env, pc, i, holding, comp_done, buses, bus_order>>
      /\ bus_order = "fifo" /\ pc = "move" /\ tier \in pending
      /\ pending' = pending \ {tier}
  BY DEF FifoTransfer
<1>2. Moving /\ Moving' /\ holding = {} /\ i \in Blocks /\ bus_order' = "fifo"
  <2>1. Moving /\ Moving' /\ holding = {}
    BY <1>1 DEF Moving, FloorInv, HoldsOnce
  <2> QED
    BY <2>1, <1>1, FloorTyped
<1>6. Charges' = Charges /\ Computes' = Computes /\ NoFasterThanLinks' = NoFasterThanLinks
  BY <1>0, <1>1, SameWork
<1>7. HoldsOnce'
  BY <1>1, <1>2, <1>6 DEF FloorInv, HoldsOnce
<1>5. /\ Before' = Before /\ Before \in Nat /\ PassEnd \in Nat /\ PassEnd' \in Nat
      /\ PassEnd' >= ready' /\ ready' \in Nat /\ PassEnd' >= PassEnd
  <2>1. Before' = Before /\ Before \in Nat /\ ready \in Nat /\ ready' \in Nat
    BY <1>0, <1>1, FloorTyped DEF Before, TypeOK
  <2>2. PassEnd = Later(ready, Before) /\ PassEnd' = Later(ready', Before)
    BY <1>2, <2>1 DEF PassEnd
  <2>3. ready' >= ready
    <3>1. ready' = Later(ready, Later(FifoStart(tier) + TransferTime(i, tier),
                     IF PassesThrough(tier)
                     THEN Later(FifoStart(tier), tier_free[DEVICE_DRAM])
                            + HoldTime(i, tier, DEVICE_DRAM)
                     ELSE FifoStart(tier) + TransferTime(i, tier)))
      BY DEF FifoTransfer
    <3> QED
      BY <3>1, <2>1 DEF Later
  <2> QED
    BY <2>1, <2>2, <2>3 DEF Later
<1>8. ComputesFit'
  BY <1>1, <1>5, <1>6 DEF FloorInv, ComputesFit
<1>9. ASSUME NEW b \in Buses PROVE AskedOf(b)' <= Carried(b)'
  <2>1. AskedOf(b)' = AskedOf(b) + Work(i, tier, b) /\ Work(i, tier, b) \in Nat
    BY <1>1, <1>2, TransferAsks
  <2>2. AskedOf(b) <= Carried(b) /\ AskedOf(b) \in Nat /\ Carried(b) \in Nat
    BY <1>2, FloorTyped DEF FloorInv, CarriesAll
  <2>3. Carried(b) = FreeAt(b) /\ Carried(b)' = FreeAt(b)'
    BY <1>1 DEF Carried
  <2>4. FreeAt(b)' >= FreeAt(b) + Work(i, tier, b) /\ FreeAt(b)' \in Nat
    BY FifoTransferCarries, FifoTransferBooks
  <2> QED
    BY <2>1, <2>2, <2>3, <2>4
<1>10. CarriesAll'
  BY <1>1, <1>2, <1>9 DEF CarriesAll
<1>11. EndsInTime'
  <2> SUFFICES ASSUME NEW b \in Buses, NoFasterThanLinks PROVE FreeAt(b)' <= PassEnd'
    BY <1>2, <1>6 DEF EndsInTime
  <2>1. FreeAt(b) <= PassEnd /\ FreeAt(b) \in Nat
    BY <1>1, FloorTyped DEF FloorInv, EndsInTime
  <2>2. (FreeAt(b)' <= FreeAt(b) \/ FreeAt(b)' <= ready') /\ FreeAt(b)' \in Nat
    BY FifoTransferCarries, FifoTransferBooks
  <2> QED
    BY <2>1, <2>2, <1>5
<1> QED
  BY <1>7, <1>8, <1>10, <1>11 DEF FloorInv

LEMMA NextFloorInv ==
  ASSUME FifoInv, FloorInv, [EngineNext]_engine
  PROVE  FloorInv'
<1>1. CASE EngineStagePrefix
  BY <1>1, QuietKeeps DEF EngineStagePrefix, Common, StagePrefix, free, Moving, FloorInv, HoldsOnce
<1>2. CASE EngineStaged
  BY <1>2, QuietKeeps DEF EngineStaged, Common, Staged, free, Moving, FloorInv, HoldsOnce
<1>3. CASE EngineIssue
  BY <1>3, IssueKeepsFloors
<1>4. ASSUME NEW tier \in Tiers, FillTransfer(tier) PROVE FloorInv'
  BY <1>4, FillTransferKeepsFloors
<1>5. ASSUME NEW h \in holding, FillHold(h) PROVE FloorInv'
  BY <1>5, FillHoldKeepsFloors
<1>6. CASE FillLanded
  BY <1>6, QuietKeeps DEF FillLanded, FillOnly, Landed, free, Moving
<1>7. ASSUME NEW tier \in Tiers, FifoTransfer(tier) PROVE FloorInv'
  BY <1>7, FifoTransferKeepsFloors
<1>8. CASE EngineConsume
  BY <1>8, ConsumeKeepsFloors
<1>9. CASE EngineReturn
  BY <1>9, QuietKeeps DEF EngineReturn, Common, Return, free, Moving, FloorInv, HoldsOnce
<1>10. CASE UNCHANGED engine
  BY <1>10, QuietKeeps DEF engine, vars, free, Moving, FloorInv, HoldsOnce
<1> QED
  BY <1>1, <1>2, <1>3, <1>4, <1>5, <1>6, <1>7, <1>8, <1>9, <1>10 DEF EngineNext

\* On every bus, what has been asked of it so far was carried by the time the pass has
\* reached, under fill always and under fifo for tiers no faster than their links.
THEOREM FloorInvariant == EngineSpec => [](FifoInv /\ FloorInv)
<1>1. EngineInit => FifoInv /\ FloorInv
  BY InitFifoInv, InitFloorInv
<1>2. FifoInv /\ FloorInv /\ [EngineNext]_engine => (FifoInv /\ FloorInv)'
  BY NextFifoInv, NextFloorInv
<1> QED
  BY <1>1, <1>2, PTL DEF EngineSpec

-----------------------------------------------------------------------------
(* The floors of the differential test.                                    *)

LEMMA FourTiers ==
  ASSUME NEW w, \A x \in Tiers : w[x] \in Int, NEW S \in SUBSET Tiers
  PROVE  SumFunctionOnSet(w, S)
           = (IF GPU_TIER \in S THEN w[GPU_TIER] ELSE 0)
             + (IF HOST_DRAM \in S THEN w[HOST_DRAM] ELSE 0)
             + (IF DEVICE_DRAM \in S THEN w[DEVICE_DRAM] ELSE 0)
             + (IF DEVICE_NAND \in S THEN w[DEVICE_NAND] ELSE 0)
<1>1. ASSUME NEW R \in SUBSET Tiers, NEW x \in Tiers
      PROVE  /\ SumFunctionOnSet(w, R)
                  = (IF x \in R THEN w[x] ELSE 0) + SumFunctionOnSet(w, R \ {x})
             /\ SumFunctionOnSet(w, R) \in Int
  <2>1. IsFiniteSet(R) /\ \A y \in R : w[y] \in Int
    BY TiersFinite, FS_Subset
  <2>2. SumFunctionOnSet(w, R) \in Int
    BY <2>1, SumInt
  <2>3. CASE x \in R
    BY <2>1, <2>2, <2>3, SumTake
  <2>4. CASE x \notin R
    <3>1. R \ {x} = R
      BY <2>4
    <3> QED
      BY <3>1, <2>2, <2>4
  <2> QED
    BY <2>2, <2>3, <2>4
<1> DEFINE S1 == S \ {GPU_TIER}
           S2 == S1 \ {HOST_DRAM}
           S3 == S2 \ {DEVICE_DRAM}
           S4 == S3 \ {DEVICE_NAND}
           c(x) == IF x \in S THEN w[x] ELSE 0
<1>2. /\ GPU_TIER \in Tiers /\ HOST_DRAM \in Tiers
      /\ DEVICE_DRAM \in Tiers /\ DEVICE_NAND \in Tiers
  BY DEF Tiers
<1>3. /\ S1 \in SUBSET Tiers /\ S2 \in SUBSET Tiers /\ S3 \in SUBSET Tiers /\ S4 = {}
  BY DEF Tiers
<1>4. /\ HOST_DRAM \in S1 <=> HOST_DRAM \in S
      /\ DEVICE_DRAM \in S2 <=> DEVICE_DRAM \in S
      /\ DEVICE_NAND \in S3 <=> DEVICE_NAND \in S
  BY DEF GPU_TIER, HOST_DRAM, DEVICE_DRAM, DEVICE_NAND
<1>5. /\ c(GPU_TIER) \in Int /\ c(HOST_DRAM) \in Int
      /\ c(DEVICE_DRAM) \in Int /\ c(DEVICE_NAND) \in Int
  BY <1>2
<1>6. SumFunctionOnSet(w, S4) = 0
  BY <1>3, SumEmpty
<1>7. /\ SumFunctionOnSet(w, S) = c(GPU_TIER) + SumFunctionOnSet(w, S1)
      /\ SumFunctionOnSet(w, S1) \in Int
  BY <1>1, <1>2, <1>3
<1>8. /\ SumFunctionOnSet(w, S1) = c(HOST_DRAM) + SumFunctionOnSet(w, S2)
      /\ SumFunctionOnSet(w, S2) \in Int
  BY <1>1, <1>2, <1>3, <1>4
<1>9. /\ SumFunctionOnSet(w, S2) = c(DEVICE_DRAM) + SumFunctionOnSet(w, S3)
      /\ SumFunctionOnSet(w, S3) \in Int
  BY <1>1, <1>2, <1>3, <1>4
<1>10. SumFunctionOnSet(w, S3) = c(DEVICE_NAND) + SumFunctionOnSet(w, S4)
  BY <1>1, <1>2, <1>3, <1>4
<1>11. SumFunctionOnSet(w, S)
         = c(GPU_TIER) + c(HOST_DRAM) + c(DEVICE_DRAM) + c(DEVICE_NAND)
  <2> HIDE DEF c, S1, S2, S3, S4
  <2> QED
    BY <1>5, <1>6, <1>7, <1>8, <1>9, <1>10
<1> QED
  BY <1>11

\* What a block asks of a bus, tier by tier.
LEMMA BlockAsks ==
  ASSUME TypeOK, NEW u \in Blocks, NEW b \in Buses
  PROVE  /\ BusWork(b)[u] = (IF Charged(u, GPU_TIER) THEN Work(u, GPU_TIER, b) ELSE 0)
                  + (IF Charged(u, HOST_DRAM) THEN Work(u, HOST_DRAM, b) ELSE 0)
                  + (IF Charged(u, DEVICE_DRAM) THEN Work(u, DEVICE_DRAM, b) ELSE 0)
                  + (IF Charged(u, DEVICE_NAND) THEN Work(u, DEVICE_NAND, b) ELSE 0)
         /\ \A tier \in Tiers : Work(u, tier, b) \in Nat
         /\ Work(u, GPU_TIER, b) \in Nat /\ Work(u, HOST_DRAM, b) \in Nat
         /\ Work(u, DEVICE_DRAM, b) \in Nat /\ Work(u, DEVICE_NAND, b) \in Nat
<1>1. \A tier \in Tiers : Work(u, tier, b) \in Nat /\ TierWork(u, b)[tier] = Work(u, tier, b)
  BY WorkTyped
<1>2. Charges[u] \in SUBSET Tiers /\ \A tier \in Tiers : tier \in Charges[u] <=> Charged(u, tier)
  BY DEF Charges
<1>3. BusWork(b)[u] = SumFunctionOnSet(TierWork(u, b), Charges[u])
  BY <1>2 DEF BusWork, BlockWork
<1>4. \A tier \in Tiers : TierWork(u, b)[tier] \in Int
  BY <1>1
<1>5. /\ GPU_TIER \in Tiers /\ HOST_DRAM \in Tiers
      /\ DEVICE_DRAM \in Tiers /\ DEVICE_NAND \in Tiers
  BY DEF Tiers
<1> QED
  BY <1>1, <1>2, <1>3, <1>4, <1>5, FourTiers

\* The bytes a block is charged for in a set of tiers.
LEMMA BlockCarries ==
  ASSUME TypeOK, NEW u \in Blocks, NEW S \in SUBSET Tiers
  PROVE  CarriedBy(u, S)
           = (IF GPU_TIER \in S /\ Charged(u, GPU_TIER) THEN BytesOf(u, GPU_TIER) ELSE 0)
             + (IF HOST_DRAM \in S /\ Charged(u, HOST_DRAM) THEN BytesOf(u, HOST_DRAM) ELSE 0)
             + (IF DEVICE_DRAM \in S /\ Charged(u, DEVICE_DRAM)
                THEN BytesOf(u, DEVICE_DRAM) ELSE 0)
             + (IF DEVICE_NAND \in S /\ Charged(u, DEVICE_NAND)
                THEN BytesOf(u, DEVICE_NAND) ELSE 0)
<1> DEFINE w == [x \in Tiers |-> IF Charged(u, x) THEN BytesOf(u, x) ELSE 0]
<1>1. \A x \in Tiers : w[x] \in Int /\ w[x] = IF Charged(u, x) THEN BytesOf(u, x) ELSE 0
  BY BlockTyped
<1>2. CarriedBy(u, S) = SumFunctionOnSet(w, S)
  BY DEF CarriedBy
<1> HIDE DEF w
<1>3. /\ GPU_TIER \in Tiers /\ HOST_DRAM \in Tiers
      /\ DEVICE_DRAM \in Tiers /\ DEVICE_NAND \in Tiers
  BY DEF Tiers
<1> QED
  BY <1>1, <1>2, <1>3, FourTiers

\* Which further buses a transfer holds.
LEMMA HeldFor ==
  ASSUME NEW tier
  PROVE  /\ HostLink \in Held(tier) <=> CrossesHostLink(tier)
         /\ GpuLink \in Held(tier) <=> CrossesGpuLink(tier)
         /\ DEVICE_DRAM \in Held(tier) <=> PassesThrough(tier)
  BY DEF Held, Crosses, HostLink, GpuLink, DEVICE_DRAM

LEMMA WorkAtLeast ==
  ASSUME TypeOK, NEW u \in Blocks, NEW tier \in Tiers, NEW b \in Buses
  PROVE  /\ BusOf(tier) = b => TransferTime(u, tier) <= Work(u, tier, b)
         /\ b \in Held(tier) => HoldTime(u, tier, b) <= Work(u, tier, b)
         /\ TransferTime(u, tier) \in Nat /\ HoldTime(u, tier, b) \in Nat
  BY TimesTyped DEF Work

LEMMA SumTimes ==
  ASSUME NEW x \in Nat, NEW y \in Nat, NEW z \in Nat, NEW r \in Nat
  PROVE  (x + y + z) * r = x * r + y * r + z * r
  OBVIOUS

LEMMA ProductRegroups ==
  ASSUME NEW x \in Nat, NEW y \in Nat, NEW z \in Nat
  PROVE  (x * y) * z = y * (x * z) /\ x * z \in Nat
  OBVIOUS

\* What each floor counts of a block is no more than what the block asks of the bus.
LEMMA LoadAsked ==
  ASSUME TypeOK, NEW u \in Blocks, NEW tier \in Tiers
  PROVE  /\ BusOf(tier) \in Buses /\ LoadOf(u, tier) \in Nat
         /\ LoadOf(u, tier) <= BusWork(BusOf(tier))[u]
<1>1. BusOf(tier) \in Buses
  BY BusesTyped
<1>2. LoadOf(u, tier) \in Nat /\ LoadOf(u, tier) <= Work(u, tier, BusOf(tier))
      /\ (~Charged(u, tier) => LoadOf(u, tier) = 0)
  BY <1>1, WorkAtLeast, BlockAsks DEF LoadOf
<1> QED
  BY <1>1, <1>2, BlockAsks DEF Tiers

LEMMA SerialAsked ==
  ASSUME TypeOK, env.serial, NEW u \in Blocks
  PROVE  LoadOf(u, DEVICE_DRAM) + LoadOf(u, DEVICE_NAND) <= BusWork(DEVICE_DRAM)[u]
<1>1. /\ DEVICE_DRAM \in Tiers /\ DEVICE_NAND \in Tiers /\ DEVICE_DRAM \in Buses
      /\ BusOf(DEVICE_DRAM) = DEVICE_DRAM /\ BusOf(DEVICE_NAND) = DEVICE_DRAM
  BY DEF BusOf, Tiers, Buses, SHARED_LINK
<1>2. /\ TransferTime(u, DEVICE_DRAM) <= Work(u, DEVICE_DRAM, DEVICE_DRAM)
      /\ TransferTime(u, DEVICE_NAND) <= Work(u, DEVICE_NAND, DEVICE_DRAM)
      /\ TransferTime(u, DEVICE_DRAM) \in Nat /\ TransferTime(u, DEVICE_NAND) \in Nat
  BY <1>1, WorkAtLeast
<1> QED
  BY <1>1, <1>2, BlockAsks DEF LoadOf

\* What the device DRAM carries of block u, the bytes that pass through it included.
DramLoad(u) ==
  LoadOf(u, DEVICE_DRAM)
  + env.passThrough * CarriedBy(u, {DEVICE_NAND}) * env.tierTime[DEVICE_DRAM]

LEMMA PassThroughAsked ==
  ASSUME TypeOK, ~env.serial, env.tierTime[DEVICE_DRAM] > 0, NEW u \in Blocks
  PROVE  DramLoad(u) <= BusWork(DEVICE_DRAM)[u] /\ DramLoad(u) \in Nat
<1> DEFINE c == CarriedBy(u, {DEVICE_NAND})
           t == env.tierTime[DEVICE_DRAM]
           n == BytesOf(u, DEVICE_NAND)
<1>1. /\ DEVICE_DRAM \in Tiers /\ DEVICE_NAND \in Tiers /\ DEVICE_DRAM \in Buses
      /\ BusOf(DEVICE_DRAM) = DEVICE_DRAM
  BY DEF BusOf, Tiers, Buses
<1>2. env.passThrough \in Nat /\ t \in Nat
  <2>1. env \in SettingType
    BY PipelineConstants DEF TypeOK
  <2> QED
    BY <2>1, <1>1 DEF SettingType
<1>3. n \in Nat
  BY <1>1, BlockTyped
<1>4. c = IF Charged(u, DEVICE_NAND) THEN n ELSE 0
  <2>1. {DEVICE_NAND} \in SUBSET Tiers
    BY <1>1
  <2>2. /\ GPU_TIER \notin {DEVICE_NAND} /\ HOST_DRAM \notin {DEVICE_NAND}
        /\ DEVICE_DRAM \notin {DEVICE_NAND} /\ DEVICE_NAND \in {DEVICE_NAND}
    BY DEF GPU_TIER, HOST_DRAM, DEVICE_DRAM, DEVICE_NAND
  <2> QED
    BY <2>1, <2>2, <1>3, BlockCarries
<1>5. /\ TransferTime(u, DEVICE_DRAM) <= Work(u, DEVICE_DRAM, DEVICE_DRAM)
      /\ TransferTime(u, DEVICE_DRAM) \in Nat
  BY <1>1, WorkAtLeast
<1>6. (env.passThrough * c) * t \in Nat
      /\ (env.passThrough * c) * t
           <= IF Charged(u, DEVICE_NAND) THEN Work(u, DEVICE_NAND, DEVICE_DRAM) ELSE 0
  <2>1. CASE ~Charged(u, DEVICE_NAND)
    <3>1. (env.passThrough * 0) * t = 0
      BY <1>2
    <3> QED
      BY <3>1, <2>1, <1>4
  <2>2. CASE Charged(u, DEVICE_NAND) /\ env.passThrough = 0
    <3>1. (0 * n) * t = 0
      BY <1>2, <1>3
    <3>2. Work(u, DEVICE_NAND, DEVICE_DRAM) \in Nat
      BY <1>1, BlockAsks
    <3> QED
      BY <3>1, <3>2, <2>2, <1>4
  <2>3. CASE Charged(u, DEVICE_NAND) /\ env.passThrough # 0
    <3>1. DEVICE_DRAM \in Held(DEVICE_NAND)
      BY <2>3, <1>2, HeldFor DEF PassesThrough
    <3>2. HoldTime(u, DEVICE_NAND, DEVICE_DRAM) = n * (env.passThrough * t)
      BY DEF HoldTime, HostLink, GpuLink, DEVICE_DRAM
    <3>3. HoldTime(u, DEVICE_NAND, DEVICE_DRAM) <= Work(u, DEVICE_NAND, DEVICE_DRAM)
          /\ HoldTime(u, DEVICE_NAND, DEVICE_DRAM) \in Nat
      BY <3>1, <1>1, WorkAtLeast
    <3>4. (env.passThrough * n) * t = n * (env.passThrough * t)
      <4> HIDE DEF n, t
      <4> QED
        BY <1>2, <1>3, ProductRegroups
    <3> QED
      BY <3>2, <3>3, <3>4, <2>3, <1>4
  <2> QED
    BY <2>1, <2>2, <2>3
<1> HIDE DEF c, t
<1>7. LoadOf(u, DEVICE_DRAM) + (env.passThrough * c) * t <= BusWork(DEVICE_DRAM)[u]
      /\ LoadOf(u, DEVICE_DRAM) + (env.passThrough * c) * t \in Nat
  <2> DEFINE x == (env.passThrough * c) * t
  <2>1. x \in Nat /\ x <= IF Charged(u, DEVICE_NAND) THEN Work(u, DEVICE_NAND, DEVICE_DRAM) ELSE 0
    BY <1>6
  <2> HIDE DEF x
  <2>2. LoadOf(u, DEVICE_DRAM) + x <= BusWork(DEVICE_DRAM)[u]
        /\ LoadOf(u, DEVICE_DRAM) + x \in Nat
    BY <1>1, <1>5, <2>1, BlockAsks DEF LoadOf
  <2> QED
    BY <2>2 DEF x
<1> QED
  BY <1>7 DEF c, t, DramLoad

LEMMA HostLinkAsked ==
  ASSUME TypeOK, NEW u \in Blocks
  PROVE  CarriedBy(u, SHARED_LINK) * env.hostLinkTime <= BusWork(HostLink)[u]
         /\ CarriedBy(u, SHARED_LINK) * env.hostLinkTime \in Nat
<1> DEFINE r == env.hostLinkTime
           c(x) == IF Charged(u, x) THEN BytesOf(u, x) ELSE 0
<1>1. DEVICE_DRAM \in Tiers /\ DEVICE_NAND \in Tiers /\ HostLink \in Buses
  BY DEF Tiers, Buses
<1>2. r \in Nat
  BY PipelineConstants DEF TypeOK, SettingType
<1>3. BytesOf(u, DEVICE_DRAM) \in Nat /\ BytesOf(u, DEVICE_NAND) \in Nat
  BY <1>1, BlockTyped
<1>4. CarriedBy(u, SHARED_LINK) = 0 + c(DEVICE_DRAM) + c(DEVICE_NAND)
  <2>1. SHARED_LINK \in SUBSET Tiers
    BY DEF SHARED_LINK, Tiers
  <2>2. /\ GPU_TIER \notin SHARED_LINK /\ HOST_DRAM \notin SHARED_LINK
        /\ DEVICE_DRAM \in SHARED_LINK /\ DEVICE_NAND \in SHARED_LINK
    BY DEF SHARED_LINK, GPU_TIER, HOST_DRAM, DEVICE_DRAM, DEVICE_NAND
  <2> QED
    BY <2>1, <2>2, <1>3, BlockCarries
<1>5. ASSUME NEW x \in SHARED_LINK
      PROVE  BytesOf(u, x) * r <= Work(u, x, HostLink) /\ BytesOf(u, x) * r \in Nat
  <2>1. x \in Tiers /\ HostLink \in Held(x)
    BY HeldFor DEF SHARED_LINK, Tiers, CrossesHostLink
  <2>2. HoldTime(u, x, HostLink) = BytesOf(u, x) * r
    BY DEF HoldTime, HostLink, GpuLink
  <2> QED
    BY <2>1, <2>2, <1>1, WorkAtLeast
<1>6. c(DEVICE_DRAM) \in Nat /\ c(DEVICE_NAND) \in Nat
  BY <1>3
<1>7. (0 + c(DEVICE_DRAM) + c(DEVICE_NAND)) * r
        = 0 * r + c(DEVICE_DRAM) * r + c(DEVICE_NAND) * r
  <2> HIDE DEF c, r
  <2> QED
    BY <1>2, <1>6, SumTimes
<1>8. 0 * r = 0
  BY <1>2
<1>9. /\ c(DEVICE_DRAM) * r
           <= IF Charged(u, DEVICE_DRAM) THEN Work(u, DEVICE_DRAM, HostLink) ELSE 0
      /\ c(DEVICE_NAND) * r
           <= IF Charged(u, DEVICE_NAND) THEN Work(u, DEVICE_NAND, HostLink) ELSE 0
      /\ c(DEVICE_DRAM) * r \in Nat /\ c(DEVICE_NAND) * r \in Nat
  BY <1>5, <1>8 DEF SHARED_LINK
<1> HIDE DEF c, r
<1>10. CarriedBy(u, SHARED_LINK) * r <= BusWork(HostLink)[u]
       /\ CarriedBy(u, SHARED_LINK) * r \in Nat
  BY <1>1, <1>4, <1>7, <1>8, <1>9, BlockAsks
<1> QED
  BY <1>10 DEF r

LEMMA GpuLinkAsked ==
  ASSUME TypeOK, NEW u \in Blocks
  PROVE  CarriedBy(u, Tiers \ {GPU_TIER}) * env.gpuLinkTime <= BusWork(GpuLink)[u]
         /\ CarriedBy(u, Tiers \ {GPU_TIER}) * env.gpuLinkTime \in Nat
<1> DEFINE r == env.gpuLinkTime
           c(x) == IF Charged(u, x) THEN BytesOf(u, x) ELSE 0
           S == Tiers \ {GPU_TIER}
<1>1. HOST_DRAM \in S /\ DEVICE_DRAM \in S /\ DEVICE_NAND \in S /\ GpuLink \in Buses
      /\ S \in SUBSET Tiers /\ GPU_TIER \notin S
  BY DEF Tiers, Buses, GPU_TIER, HOST_DRAM, DEVICE_DRAM, DEVICE_NAND
<1> HIDE DEF S
<1>2. r \in Nat
  BY PipelineConstants DEF TypeOK, SettingType
<1>3. \A x \in S : BytesOf(u, x) \in Nat /\ c(x) \in Nat
  BY <1>1, BlockTyped
<1>4. CarriedBy(u, S) = c(HOST_DRAM) + c(DEVICE_DRAM) + c(DEVICE_NAND)
  BY <1>1, <1>3, BlockCarries
<1>5. ASSUME NEW x \in S
      PROVE  /\ c(x) * r <= IF Charged(u, x) THEN Work(u, x, GpuLink) ELSE 0
             /\ c(x) * r \in Nat
  <2>0. x \in Tiers /\ x # GPU_TIER /\ BytesOf(u, x) \in Nat /\ Work(u, x, GpuLink) \in Nat
    BY <1>1, <1>3, BlockAsks
  <2>1. CASE ~Charged(u, x)
    <3>1. 0 * r = 0
      BY <1>2
    <3> QED
      BY <3>1, <2>1
  <2>2. CASE Charged(u, x) /\ r = 0
    <3>1. BytesOf(u, x) * 0 = 0
      BY <2>0
    <3> QED
      BY <3>1, <2>0, <2>2
  <2>3. CASE Charged(u, x) /\ r # 0
    <3>1. GpuLink \in Held(x)
      BY <2>0, <2>3, <1>2, HeldFor DEF CrossesGpuLink
    <3>2. HoldTime(u, x, GpuLink) = BytesOf(u, x) * r
      BY DEF HoldTime, HostLink, GpuLink
    <3> QED
      BY <3>1, <3>2, <2>0, <2>3, <1>1, WorkAtLeast
  <2> QED
    BY <2>1, <2>2, <2>3
<1>6. c(HOST_DRAM) \in Nat /\ c(DEVICE_DRAM) \in Nat /\ c(DEVICE_NAND) \in Nat
  BY <1>1, <1>3
<1>7. (c(HOST_DRAM) + c(DEVICE_DRAM) + c(DEVICE_NAND)) * r
        = c(HOST_DRAM) * r + c(DEVICE_DRAM) * r + c(DEVICE_NAND) * r
  <2> HIDE DEF c, r
  <2> QED
    BY <1>2, <1>6, SumTimes
<1>9. /\ c(HOST_DRAM) * r
           <= IF Charged(u, HOST_DRAM) THEN Work(u, HOST_DRAM, GpuLink) ELSE 0
      /\ c(DEVICE_DRAM) * r
           <= IF Charged(u, DEVICE_DRAM) THEN Work(u, DEVICE_DRAM, GpuLink) ELSE 0
      /\ c(DEVICE_NAND) * r
           <= IF Charged(u, DEVICE_NAND) THEN Work(u, DEVICE_NAND, GpuLink) ELSE 0
      /\ c(HOST_DRAM) * r \in Nat /\ c(DEVICE_DRAM) * r \in Nat /\ c(DEVICE_NAND) * r \in Nat
  BY <1>1, <1>5
<1> HIDE DEF c, r
<1>10. CarriedBy(u, S) * r <= BusWork(GpuLink)[u] /\ CarriedBy(u, S) * r \in Nat
  BY <1>1, <1>4, <1>7, <1>9, BlockAsks
<1> QED
  BY <1>10 DEF r, S

\* At the end of a pass no bus was asked for more than fits before its end.
LEMMA AskedFits ==
  ASSUME FifoInv, FloorInv, pc = "done", bus_order = "fill" \/ NoFasterThanLinks,
         NEW b \in Buses, NEW w, \A u \in Blocks : w[u] \in Int /\ w[u] <= BusWork(b)[u]
  PROVE  CompDone(N - 1) >= Total(w)
<1>0. TypeOK /\ i = N /\ N \in Nat /\ bus_order \in {"fill", "fifo"}
  BY CallTyped DEF FifoInv, FreeTypeOK, IInv, TypeOK
<1>1. PassEnd = CompDone(N - 1) /\ ~Moving /\ holding = {} /\ PassEnd \in Nat
  <2>1. ~Moving /\ holding = {} /\ PassEnd \in Nat
    BY FloorTyped DEF Moving, FloorInv, HoldsOnce
  <2>2. Before = CompDone(N - 1)
    BY <1>0 DEF Before, CompDone
  <2> QED
    BY <2>1, <2>2 DEF PassEnd
<1>2. IsFiniteSet(Blocks)
  BY <1>0, FS_Interval DEF Blocks
<1>3. \A u \in Blocks : BusWork(b)[u] \in Int
  BY <1>0, WorkFunctions
<1>4. SumFunctionOnSet(w, Blocks) <= SumFunctionOnSet(BusWork(b), Blocks)
      /\ SumFunctionOnSet(w, Blocks) \in Int /\ SumFunctionOnSet(BusWork(b), Blocks) \in Int
  BY <1>2, <1>3, SumLeq, SumInt
<1>5. AskedOf(b) = SumFunctionOnSet(BusWork(b), Blocks)
  BY <1>0, <1>1, <1>4 DEF AskedOf, Blocks
<1>6. AskedOf(b) <= Carried(b) /\ Carried(b) \in Nat
  BY <1>1, FloorTyped DEF FloorInv, CarriesAll
<1>7. Carried(b) <= PassEnd
  <2>1. CASE bus_order = "fill"
    <3>1. buses[b] \subseteq 0 .. (PassEnd - 1)
      BY <2>1 DEF FloorInv, EndsInTime
    <3>2. IsFiniteSet(0 .. (PassEnd - 1)) /\ Cardinality(0 .. (PassEnd - 1)) = PassEnd
      <4>1. Slots(0, PassEnd) = 0 .. (PassEnd - 1)
        BY <1>1 DEF Slots
      <4>2. IsFiniteSet(Slots(0, PassEnd)) /\ Cardinality(Slots(0, PassEnd)) = PassEnd
        BY <1>1, SlotsBelow
      <4> QED
        BY <4>1, <4>2
    <3> QED
      BY <3>1, <3>2, <2>1, FS_Subset, ZenonT(60) DEF Carried
  <2>2. CASE bus_order = "fifo"
    <3>1. FreeAt(b) <= PassEnd
      BY <2>2 DEF FloorInv, EndsInTime
    <3> QED
      BY <3>1, <2>2 DEF Carried
  <2> QED
    BY <2>1, <2>2, <1>0
<1> QED
  BY <1>1, <1>4, <1>5, <1>6, <1>7 DEF Total

LEMMA NoneBeaten ==
  ASSUME FifoInv, FloorInv
  PROVE  FloorsHold
<1> SUFFICES ASSUME bus_order = "fill" \/ NoFasterThanLinks, pc = "done"
             PROVE  NeverBeatsHardware
  BY DEF FloorsHold, NeverBeatsHardware
<1>0. TypeOK /\ i = N /\ N \in Nat
  BY CallTyped DEF FifoInv, IInv, TypeOK
<1>1. CompDone(N - 1) >= Total([u \in Blocks |-> CompOf(u)])
  <2>1. Before = CompDone(N - 1) /\ Before \in Nat
    BY <1>0, FloorTyped DEF Before, CompDone
  <2>2. SumFunctionOnSet(Computes, 0 .. (N - 1)) <= Before
    BY <1>0 DEF FloorInv, ComputesFit
  <2>3. SumFunctionOnSet(Computes, 0 .. (N - 1)) \in Nat
    BY <1>0, WorkFunctions, BlocksSum
  <2> QED
    BY <2>1, <2>2, <2>3 DEF Total, Blocks, Computes
<1>2. ASSUME NEW tier \in Tiers
      PROVE  CompDone(N - 1) >= Total([u \in Blocks |-> LoadOf(u, tier)])
  <2> DEFINE w == [u \in Blocks |-> LoadOf(u, tier)]
  <2>1. BusOf(tier) \in Buses
    BY BusesTyped
  <2>2. \A u \in Blocks : w[u] \in Int /\ w[u] <= BusWork(BusOf(tier))[u]
    BY <1>0, LoadAsked
  <2> HIDE DEF w
  <2>3. CompDone(N - 1) >= Total(w)
    BY <2>1, <2>2, AskedFits
  <2> QED
    BY <2>3 DEF w
<1>3. ASSUME ~env.serial, env.tierTime[DEVICE_DRAM] > 0
      PROVE  CompDone(N - 1) >= Total([u \in Blocks |-> DramLoad(u)])
  <2> DEFINE w == [u \in Blocks |-> DramLoad(u)]
  <2>1. DEVICE_DRAM \in Buses
    BY DEF Buses, Tiers
  <2>2. \A u \in Blocks : w[u] \in Int /\ w[u] <= BusWork(DEVICE_DRAM)[u]
    BY <1>0, <1>3, PassThroughAsked
  <2> HIDE DEF w
  <2>3. CompDone(N - 1) >= Total(w)
    BY <2>1, <2>2, AskedFits
  <2> QED
    BY <2>3 DEF w
<1>4. CompDone(N - 1) >= Total([u \in Blocks |-> CarriedBy(u, SHARED_LINK) * env.hostLinkTime])
  <2> DEFINE w == [u \in Blocks |-> CarriedBy(u, SHARED_LINK) * env.hostLinkTime]
  <2>1. HostLink \in Buses
    BY DEF Buses
  <2>2. \A u \in Blocks : w[u] \in Int /\ w[u] <= BusWork(HostLink)[u]
    BY <1>0, HostLinkAsked
  <2> HIDE DEF w
  <2>3. CompDone(N - 1) >= Total(w)
    BY <2>1, <2>2, AskedFits
  <2> QED
    BY <2>3 DEF w
<1>5. ASSUME env.serial
      PROVE  CompDone(N - 1)
               >= Total([u \in Blocks |-> LoadOf(u, DEVICE_DRAM) + LoadOf(u, DEVICE_NAND)])
  <2> DEFINE w == [u \in Blocks |-> LoadOf(u, DEVICE_DRAM) + LoadOf(u, DEVICE_NAND)]
  <2>1. DEVICE_DRAM \in Buses /\ DEVICE_DRAM \in Tiers /\ DEVICE_NAND \in Tiers
    BY DEF Buses, Tiers
  <2>2. \A u \in Blocks : w[u] \in Int /\ w[u] <= BusWork(DEVICE_DRAM)[u]
    BY <1>0, <1>5, <2>1, SerialAsked, LoadAsked
  <2> HIDE DEF w
  <2>3. CompDone(N - 1) >= Total(w)
    BY <2>1, <2>2, AskedFits
  <2> QED
    BY <2>3 DEF w
<1>6. CompDone(N - 1)
        >= Total([u \in Blocks |-> CarriedBy(u, Tiers \ {GPU_TIER}) * env.gpuLinkTime])
  <2> DEFINE w == [u \in Blocks |-> CarriedBy(u, Tiers \ {GPU_TIER}) * env.gpuLinkTime]
  <2>1. GpuLink \in Buses
    BY DEF Buses
  <2>2. \A u \in Blocks : w[u] \in Int /\ w[u] <= BusWork(GpuLink)[u]
    BY <1>0, GpuLinkAsked
  <2> HIDE DEF w
  <2>3. CompDone(N - 1) >= Total(w)
    BY <2>1, <2>2, AskedFits
  <2> QED
    BY <2>3 DEF w
<1> QED
  BY <1>1, <1>2, <1>3, <1>4, <1>5, <1>6 DEF NeverBeatsHardware, DramLoad

\* The pass is never faster than its compute, nor than what any serial bus has to
\* carry: under fill always, under fifo for tiers no faster than the links they cross.
THEOREM NoPassBeatsHardware == EngineSpec => []FloorsHold
  BY FloorInvariant, NoneBeaten, PTL

-----------------------------------------------------------------------------
(* Work conservation under fill.                                           *)

\* From time t on, bus b is busy without a gap up to its last booking.
Solid(b, t) == \A z \in buses[b] : t .. z \subseteq buses[b]

LastIssue ==
  IF Moving THEN issued[i] ELSE IF i > 0 THEN issued[i - 1] ELSE 0

\* The bookings are those of the single tier's transfers: on its own bus first, from
\* the issue of the block's reads, then on the buses it holds, from its start.
Primary(x, tier) == x.bus = BusOf(tier)

BookedInTurn(tier) ==
  /\ \A x \in trace : x.block < i \/ (Moving /\ x.block = i)
  /\ Moving /\ tier \in pending => \A x \in trace : x.block # i
  /\ \A h \in holding : h[1] \in Held(tier)
  /\ pc = "hold" => \E y \in trace : y.block = i /\ Primary(y, tier)
  /\ pc = "hold" => \A y \in trace : y.block = i /\ Primary(y, tier) => y.start = begun
  /\ \A x \in trace : \E y \in trace : y.block = x.block /\ Primary(y, tier)

NoGaps(tier) ==
  /\ Solid(BusOf(tier), LastIssue)
  /\ \A b \in Buses \ {BusOf(tier)} : Solid(b, begun)
  /\ begun = 0 \/ begun \in buses[BusOf(tier)]

BusyWhileWaiting(tier) ==
  /\ \A x \in trace : Primary(x, tier) => issued[x.block] .. (x.start - 1) \subseteq buses[x.bus]
  /\ \A x, y \in trace :
       ~Primary(x, tier) /\ Primary(y, tier) /\ x.block = y.block =>
         y.start .. (x.start - 1) \subseteq buses[x.bus]

ConserveInv ==
  bus_order = "fill" =>
    \A tier \in Tiers : SingleTier(tier) =>
      BookedInTurn(tier) /\ NoGaps(tier) /\ BusyWhileWaiting(tier)

LEMMA FirstFitLeavesNoGap ==
  ASSUME NEW busy \in SUBSET Nat, NEW t \in Nat, NEW d \in Nat, NEW s \in Nat,
         IsFirstFit(busy, t, d, s), \A z \in busy : t .. z \subseteq busy
  PROVE  /\ t .. (s - 1) \subseteq busy /\ s >= t
         /\ \A z \in busy \cup Slots(s, d) : t .. z \subseteq busy \cup Slots(s, d)
<1>1. s >= t /\ \A y \in t .. (s - 1) : ~Fits(busy, y, d)
  BY DEF IsFirstFit
<1>2. ASSUME NEW y \in t .. (s - 1) PROVE y \in busy
  <2>1. PICK z \in Slots(y, d) : z \in busy
    BY <1>1 DEF Fits
  <2>2. y \in t .. z
    BY <2>1 DEF Slots
  <2> QED
    BY <2>1, <2>2
<1>3. ASSUME NEW z \in Slots(s, d), NEW y \in t .. z PROVE y \in busy \cup Slots(s, d)
  <2>1. CASE y < s
    BY <2>1, <1>2
  <2>2. CASE y >= s
    BY <2>2 DEF Slots
  <2> QED
    BY <2>1, <2>2
<1> QED
  BY <1>1, <1>2, <1>3

LEMMA SolidFromLater ==
  ASSUME TypeOK, NEW b \in Buses, NEW t \in Nat, NEW v \in Nat, t <= v, Solid(b, t)
  PROVE  Solid(b, v)
<1>1. buses[b] \subseteq Nat
  BY DEF TypeOK
<1>2. ASSUME NEW z \in buses[b], NEW y \in v .. z PROVE y \in buses[b]
  <2>1. y \in t .. z
    BY <1>1
  <2> QED
    BY <2>1 DEF Solid
<1> QED
  BY <1>2 DEF Solid

\* A transfer's own bus is none of the further buses it holds.
LEMMA OwnBusNotHeld ==
  ASSUME NEW tier \in Tiers
  PROVE  BusOf(tier) \in Buses /\ BusOf(tier) \notin Held(tier) /\ Held(tier) \subseteq Buses
<1>1. BusOf(tier) \in Tiers /\ BusOf(tier) # HostLink /\ BusOf(tier) # GpuLink
  BY DEF BusOf, Tiers, HostLink, GpuLink, GPU_TIER, HOST_DRAM, DEVICE_DRAM, DEVICE_NAND
<1>2. ASSUME BusOf(tier) = DEVICE_DRAM PROVE ~PassesThrough(tier)
  BY <1>2 DEF BusOf, PassesThrough, SHARED_LINK, DEVICE_DRAM, DEVICE_NAND
<1>3. DEVICE_DRAM \in Held(tier) <=> PassesThrough(tier)
  BY HeldFor
<1>4. BusOf(tier) \notin Held(tier)
  BY <1>1, <1>2, <1>3 DEF Held
<1> QED
  BY <1>4, BusesTyped

\* With one tier in use only that tier is ever pending.
LEMMA OnlyTier ==
  ASSUME FifoInv, FloorInv, NEW tier \in Tiers, SingleTier(tier), Moving
  PROVE  pending \subseteq {tier}
<1>1. i \in Blocks /\ pending \subseteq Charges[i]
  BY FloorTyped DEF FloorInv, HoldsOnce
<1>2. ASSUME NEW x \in pending, x # tier PROVE FALSE
  <2>1. x \in Tiers /\ Charged(i, x)
    BY <1>1 DEF Charges
  <2>2. BytesOf(i, x) = 0
    BY <1>1, <1>2, <2>1 DEF SingleTier
  <2> QED
    BY <2>1, <2>2 DEF Charged
<1> QED
  BY <1>2

\* A charged transfer takes time on its own bus.
LEMMA ChargedTakesTime ==
  ASSUME TypeOK, NEW u \in Blocks, NEW tier \in Tiers, Charged(u, tier)
  PROVE  TransferTime(u, tier) > 0 /\ TransferTime(u, tier) \in Nat
<1> DEFINE n == BytesOf(u, tier)
           c == ((n + env.chunk - 1) \div env.chunk) * env.tierLat[tier]
<1>1. /\ env.tierTime[tier] \in Nat /\ env.tierLat[tier] \in Nat /\ env.chunk \in Nat \ {0}
  BY PipelineConstants DEF TypeOK, SettingType
<1>2. n \in Nat /\ n > 0 /\ env.tierTime[tier] > 0
  BY BlockTyped DEF Charged
<1> HIDE DEF n
<1>3. c \in Nat
  <2>1. n + env.chunk - 1 \in Nat
    BY <1>1, <1>2
  <2>2. (n + env.chunk - 1) \div env.chunk \in Nat
    BY <1>1, <2>1, NatQuotient
  <2> QED
    BY <1>1, <2>2, NatProduct
<1> HIDE DEF c
<1>4. TransferTime(u, tier) = n * env.tierTime[tier] + c
  BY DEF TransferTime, n, c
<1>5. n * env.tierTime[tier] \in Nat /\ n * env.tierTime[tier] > 0
  BY <1>1, <1>2
<1> QED
  BY <1>3, <1>4, <1>5

LEMMA InitConserveInv ==
  ASSUME EngineInit
  PROVE  ConserveInv
<1>1. /\ trace = {} /\ begun = 0 /\ holding = {} /\ pc = "stage"
      /\ \A b \in Buses : buses[b] = {}
  BY DEF EngineInit, Init
<1>2. ASSUME NEW tier \in Tiers PROVE BusOf(tier) \in Buses
  BY BusesTyped
<1> QED
  BY <1>1, <1>2 DEF ConserveInv, BookedInTurn, NoGaps, BusyWhileWaiting, Solid

\* A step that books nothing and issues nothing.
LEMMA QuietConserves ==
  ASSUME FifoInv, ConserveInv,
         UNCHANGED <<call, env, i, pending, holding, begun, issued, buses, trace, bus_order>>,
         Moving' = Moving, pc' = "hold" => pc = "hold"
  PROVE  ConserveInv'
<1> SUFFICES ASSUME bus_order = "fill", NEW tier \in Tiers, SingleTier(tier)'
             PROVE  (BookedInTurn(tier) /\ NoGaps(tier) /\ BusyWhileWaiting(tier))'
  BY DEF ConserveInv
<1>1. SingleTier(tier)
  BY DEF SingleTier, Blocks, N, K, BytesOf, UnitOf
<1>2. BookedInTurn(tier) /\ NoGaps(tier) /\ BusyWhileWaiting(tier)
  BY <1>1 DEF ConserveInv
<1>3. BusOf(tier)' = BusOf(tier) /\ Held(tier)' = Held(tier)
  BY DEF BusOf, Held, Crosses, CrossesHostLink, CrossesGpuLink, PassesThrough
<1>4. BookedInTurn(tier)'
  BY <1>2, <1>3 DEF BookedInTurn, Primary
<1>5. NoGaps(tier)'
  <2>1. LastIssue' = LastIssue
    BY DEF LastIssue
  <2> QED
    BY <1>2, <1>3, <2>1 DEF NoGaps, Solid
<1>6. BusyWhileWaiting(tier)'
  BY <1>2, <1>3 DEF BusyWhileWaiting, Primary
<1> QED
  BY <1>4, <1>5, <1>6

\* What a step that keeps the arguments keeps for the single tier.
LEMMA SameTier ==
  ASSUME call' = call, env' = env, NEW tier \in Tiers
  PROVE  /\ SingleTier(tier)' => SingleTier(tier)
         /\ BusOf(tier)' = BusOf(tier) /\ Held(tier)' = Held(tier)
         /\ \A x : Primary(x, tier)' <=> Primary(x, tier)
<1>1. SingleTier(tier)' => SingleTier(tier)
  BY DEF SingleTier, Blocks, N, K, BytesOf, UnitOf
<1>2. BusOf(tier)' = BusOf(tier) /\ Held(tier)' = Held(tier)
  BY DEF BusOf, Held, Crosses, CrossesHostLink, CrossesGpuLink, PassesThrough
<1> QED
  BY <1>1, <1>2 DEF Primary

LEMMA TraceTyped ==
  ASSUME TypeOK, NEW x \in trace
  PROVE  x.block \in Nat /\ x.bus \in Buses /\ x.start \in Nat /\ x.end \in Nat
  BY DEF TypeOK

\* Reads issue no earlier than the ones before, so what was solid stays so.
LEMMA IssueConserves ==
  ASSUME FifoInv, FloorInv, ConserveInv, EngineIssue, FifoInv'
  PROVE  ConserveInv'
<1>0. TypeOK /\ TypeOK'
  BY DEF FifoInv, IInv
<1>1. /\ UNCHANGED <<call, env, i, holding, begun, comp_done, buses, trace, bus_order>>
      /\ pc = "issue" /\ pc' = "move" /\ i < N
      /\ issued' = [issued EXCEPT ![i] = _issue_time(i)]
  BY DEF EngineIssue, Common, Issue, free
<1>2. i \in Blocks /\ i \in Nat /\ ~Moving /\ Moving'
  <2>1. N \in Nat /\ i \in 0 .. N
    BY <1>0, CallTyped DEF TypeOK
  <2>2. i \in Blocks /\ i \in Nat
    BY <2>1, <1>1 DEF Blocks
  <2>3. ~Moving /\ Moving'
    BY <1>1 DEF Moving
  <2> QED
    BY <2>2, <2>3
<1> SUFFICES ASSUME bus_order = "fill", NEW tier \in Tiers, SingleTier(tier)'
             PROVE  (BookedInTurn(tier) /\ NoGaps(tier) /\ BusyWhileWaiting(tier))'
  BY <1>1 DEF ConserveInv
<1>3. /\ SingleTier(tier) /\ BusOf(tier)' = BusOf(tier) /\ Held(tier)' = Held(tier)
      /\ \A x : Primary(x, tier)' <=> Primary(x, tier)
  BY <1>1, SameTier
<1>4. BookedInTurn(tier) /\ NoGaps(tier) /\ BusyWhileWaiting(tier)
  BY <1>3 DEF ConserveInv
<1>5. \A x \in trace : x.block < i /\ x.block \in Nat
  BY <1>0, <1>2, <1>4, TraceTyped DEF BookedInTurn
<1>6. BookedInTurn(tier)'
  <2>1. \A x \in trace : x.block # i
    BY <1>2, <1>5
  <2> QED
    BY <2>1, <1>1, <1>3, <1>4, <1>5 DEF BookedInTurn
<1>7. LastIssue \in Nat /\ LastIssue' \in Nat /\ LastIssue <= LastIssue'
  <2>1. LastIssue' = issued'[i] /\ issued'[i] \in Nat
    BY <1>0, <1>1, <1>2 DEF LastIssue, TypeOK
  <2>2. CASE i = 0
    BY <2>1, <2>2, <1>2 DEF LastIssue
  <2>3. CASE i > 0
    <3>1. i - 1 \in Blocks /\ i - 1 \in Nat /\ i - 1 # i /\ i - 1 <= i
      BY <2>3, <1>2, CallTyped, <1>0 DEF Blocks
    <3>2. LastIssue = issued[i - 1] /\ issued[i - 1] \in Nat /\ issued'[i - 1] = issued[i - 1]
      BY <3>1, <2>3, <1>0, <1>1, <1>2 DEF LastIssue, TypeOK
    <3>3. IssueInOrder'
      <4>1. (IInv => IssueInOrder)'
        BY RuleInOrder, PTL
      <4> QED
        BY <4>1 DEF FifoInv
    <3>4. call'.demand = {} /\ Fetched' = 0 .. i
      BY <1>1, <1>3 DEF SingleTier, Fetched
    <3>5. issued'[i - 1] <= issued'[i]
      BY <3>1, <3>3, <3>4, <1>2 DEF IssueInOrder
    <3> QED
      BY <2>1, <3>2, <3>5
  <2> QED
    BY <2>2, <2>3, <1>2
<1>8. NoGaps(tier)'
  <2>1. BusOf(tier) \in Buses
    BY BusesTyped
  <2>2. Solid(BusOf(tier), LastIssue)
    BY <1>4 DEF NoGaps
  <2> DEFINE v == LastIssue'
             a == BusOf(tier)
  <2>3. Solid(a, v)
    <3>1. v \in Nat /\ LastIssue <= v
      BY <1>7
    <3> HIDE DEF v
    <3> QED
      BY <3>1, <2>1, <2>2, <1>0, <1>7, SolidFromLater
  <2>4. \A z \in buses'[BusOf(tier)] : v .. z \subseteq buses'[BusOf(tier)]
    BY <2>3, <1>1 DEF Solid
  <2> QED
    BY <2>4, <1>1, <1>3, <1>4 DEF NoGaps, Solid
<1>9. BusyWhileWaiting(tier)'
  <2>1. \A x \in trace : issued'[x.block] = issued[x.block]
    <3> SUFFICES ASSUME NEW x \in trace PROVE issued'[x.block] = issued[x.block]
      OBVIOUS
    <3>1. x.block # i /\ x.block \in Blocks
      BY <1>5, <1>2, <1>1, <1>0, CallTyped, SMTT(60) DEF Blocks
    <3> QED
      BY <3>1, <1>1, <1>0 DEF TypeOK
  <2> QED
    BY <2>1, <1>1, <1>3, <1>4 DEF BusyWhileWaiting
<1> QED
  BY <1>6, <1>8, <1>9

LEMMA ConsumeConserves ==
  ASSUME FifoInv, FloorInv, ConserveInv, EngineConsume
  PROVE  ConserveInv'
<1>0. TypeOK
  BY DEF FifoInv, IInv
<1>1. /\ UNCHANGED <<call, env, pending, holding, begun, issued, buses, trace, bus_order>>
      /\ pc = "move" /\ pc' = "issue" /\ i' = i + 1
  BY DEF EngineConsume, Common, Consume, free
<1>2. i \in Nat /\ Moving /\ ~Moving'
  <2>1. i \in Nat
    BY <1>0, CallTyped DEF TypeOK
  <2>2. Moving /\ ~Moving'
    BY <1>1 DEF Moving
  <2> QED
    BY <2>1, <2>2
<1> SUFFICES ASSUME bus_order = "fill", NEW tier \in Tiers, SingleTier(tier)'
             PROVE  (BookedInTurn(tier) /\ NoGaps(tier) /\ BusyWhileWaiting(tier))'
  BY <1>1 DEF ConserveInv
<1>3. /\ SingleTier(tier) /\ BusOf(tier)' = BusOf(tier) /\ Held(tier)' = Held(tier)
      /\ \A x : Primary(x, tier)' <=> Primary(x, tier)
  BY <1>1, SameTier
<1>4. BookedInTurn(tier) /\ NoGaps(tier) /\ BusyWhileWaiting(tier)
  BY <1>3 DEF ConserveInv
<1>5. \A x \in trace : x.block < i'
  BY <1>0, <1>1, <1>2, <1>4, TraceTyped DEF BookedInTurn
<1>6. BookedInTurn(tier)'
  BY <1>1, <1>2, <1>3, <1>4, <1>5 DEF BookedInTurn
<1>7. LastIssue' = LastIssue
  <2>1. i + 1 > 0 /\ (i + 1) - 1 = i
    BY <1>2
  <2> QED
    BY <2>1, <1>1, <1>2 DEF LastIssue
<1>8. NoGaps(tier)'
  BY <1>1, <1>3, <1>4, <1>7 DEF NoGaps, Solid
<1>9. BusyWhileWaiting(tier)'
  BY <1>1, <1>3, <1>4 DEF BusyWhileWaiting
<1> QED
  BY <1>6, <1>8, <1>9

LEMMA TransferConserves ==
  ASSUME FifoInv, FloorInv, ConserveInv, NEW x0 \in Tiers, FillTransfer(x0)
  PROVE  ConserveInv'
<1>0. TypeOK
  BY DEF FifoInv, IInv
<1>1. /\ UNCHANGED <<call, env, i, issued, comp_done, bus_order>>
      /\ bus_order = "fill" /\ pc = "move" /\ pc' = "hold" /\ x0 \in pending
      /\ pending' = pending \ {x0}
  BY DEF FillTransfer, FillOnly, Transfer, free
<1> SUFFICES ASSUME NEW tier \in Tiers, SingleTier(tier)'
             PROVE  (BookedInTurn(tier) /\ NoGaps(tier) /\ BusyWhileWaiting(tier))'
  BY <1>1 DEF ConserveInv
<1>2. /\ SingleTier(tier) /\ BusOf(tier)' = BusOf(tier) /\ Held(tier)' = Held(tier)
      /\ \A x : Primary(x, tier)' <=> Primary(x, tier)
  BY <1>1, SameTier
<1>3. BookedInTurn(tier) /\ NoGaps(tier) /\ BusyWhileWaiting(tier)
  BY <1>1, <1>2 DEF ConserveInv
<1>4. Moving /\ Moving' /\ i \in Blocks /\ i \in Nat /\ LastIssue = issued[i] /\ issued[i] \in Nat
  <2>1. Moving /\ Moving'
    BY <1>1 DEF Moving
  <2>2. i \in Blocks /\ i \in Nat
    BY <2>1, FloorTyped
  <2> QED
    BY <2>1, <2>2, <1>0 DEF LastIssue, TypeOK
<1>5. x0 = tier /\ pending' = {}
  BY <1>1, <1>2, <1>4, OnlyTier
<1>6. Charged(i, tier)
  BY <1>1, <1>4, <1>5 DEF FloorInv, HoldsOnce, Charges
<1> DEFINE d == TransferTime(i, tier)
           a == BusOf(tier)
           t == issued[i]
<1>7. d \in Nat /\ d > 0 /\ a \in Buses /\ t \in Nat
  BY <1>0, <1>4, <1>6, ChargedTakesTime, BusesTyped
<1>8. PICK s \in Candidates(a, t) :
        /\ Book(a, t, d, s) /\ begun' = s
        /\ holding' = {<<h, HoldTime(i, tier, h)>> : h \in Held(tier)}
  BY <1>5 DEF FillTransfer, FillOnly, Transfer, HeldFrom
<1> HIDE DEF d, a, t
<1>9. s \in Nat
  BY <1>0, <1>7, <1>8, BookTyped
<1> DEFINE new == [block |-> i, bus |-> a, start |-> s, end |-> s + d]
<1>10. /\ buses' = [buses EXCEPT ![a] = @ \cup Slots(s, d)] /\ trace' = trace \cup {new}
       /\ IsFirstFit(buses[a], t, d, s) /\ buses[a] \in SUBSET Nat
       /\ buses'[a] = buses[a] \cup Slots(s, d)
       /\ \A b \in Buses : b # a => buses'[b] = buses[b]
       /\ \A b \in Buses : buses[b] \subseteq buses'[b]
  BY <1>0, <1>7, <1>8 DEF Book, TypeOK
<1>11. new.block = i /\ new.bus = a /\ new.start = s /\ Primary(new, tier)
  BY DEF Primary, a
<1> HIDE DEF new
<1>12. Solid(a, t)
  BY <1>3, <1>4 DEF NoGaps, a, t
<1>13. /\ t .. (s - 1) \subseteq buses[a] /\ s >= t
       /\ \A z \in buses[a] \cup Slots(s, d) : t .. z \subseteq buses[a] \cup Slots(s, d)
  BY <1>7, <1>9, <1>10, <1>12, FirstFitLeavesNoGap DEF Solid
<1>14. s \in Slots(s, d) /\ s \notin buses[a]
  BY <1>7, <1>9, <1>10 DEF Slots, IsFirstFit, Fits
<1>15. begun \in Nat /\ begun <= s
  <2>1. begun \in Nat
    BY <1>0 DEF TypeOK
  <2>2. ASSUME begun \in buses[a], s < begun PROVE FALSE
    <3>1. s \in t .. begun
      BY <2>1, <2>2, <1>7, <1>9, <1>13
    <3> QED
      BY <3>1, <2>2, <1>12, <1>14 DEF Solid
  <2>3. begun = 0 \/ begun \in buses[a]
    BY <1>3 DEF NoGaps, a
  <2> QED
    BY <2>1, <2>2, <2>3, <1>9
<1>16. \A x \in trace : x.block # i
  BY <1>1, <1>3, <1>4, <1>5 DEF BookedInTurn
<1>17. BookedInTurn(tier)'
  <2>1. \A x \in trace' : x.block < i \/ x.block = i
    BY <1>3, <1>10, <1>11 DEF BookedInTurn
  <2>2. \A h \in holding' : h[1] \in Held(tier)
    BY <1>8
  <2>3. \E y \in trace' : y.block = i /\ Primary(y, tier)
    BY <1>10, <1>11
  <2>4. \A y \in trace' : y.block = i => y.start = s
    BY <1>10, <1>11, <1>16
  <2>5. \A x \in trace' : \E y \in trace' : y.block = x.block /\ Primary(y, tier)
    BY <1>3, <1>10, <1>11 DEF BookedInTurn
  <2> QED
    BY <2>1, <2>2, <2>3, <2>4, <2>5, <1>1, <1>2, <1>4, <1>5, <1>8 DEF BookedInTurn
<1>18. NoGaps(tier)'
  <2>1. LastIssue' = t
    BY <1>1, <1>4 DEF LastIssue, t
  <2>2. \A z \in buses'[a] : t .. z \subseteq buses'[a]
    BY <1>10, <1>13
  <2>3. ASSUME NEW b \in Buses, b # a
        PROVE  \A z \in buses'[b] : s .. z \subseteq buses'[b]
    <3>1. Solid(b, begun)
      BY <2>3, <1>3 DEF NoGaps, a
    <3>2. Solid(b, s)
      BY <3>1, <1>0, <1>9, <1>15, SolidFromLater
    <3> QED
      BY <3>2, <2>3, <1>10 DEF Solid
  <2>4. s \in buses'[a]
    BY <1>10, <1>14
  <2> QED
    BY <2>1, <2>2, <2>3, <2>4, <1>2, <1>8 DEF NoGaps, Solid, a
<1>19. BusyWhileWaiting(tier)'
  <2>1. ASSUME NEW x \in trace', Primary(x, tier)
        PROVE  issued[x.block] .. (x.start - 1) \subseteq buses'[x.bus]
    <3>1. CASE x \in trace
      BY <3>1, <2>1, <1>0, <1>3, <1>10, TraceTyped DEF BusyWhileWaiting
    <3>2. CASE x = new
      BY <3>2, <1>10, <1>11, <1>13 DEF t
    <3> QED
      BY <3>1, <3>2, <1>10
  <2>2. ASSUME NEW x \in trace', NEW y \in trace',
               ~Primary(x, tier), Primary(y, tier), x.block = y.block
        PROVE  y.start .. (x.start - 1) \subseteq buses'[x.bus]
    <3>1. x \in trace
      BY <2>2, <1>10, <1>11
    <3>2. y \in trace
      BY <3>1, <2>2, <1>10, <1>11, <1>16
    <3> QED
      BY <3>1, <3>2, <2>2, <1>0, <1>3, <1>10, TraceTyped DEF BusyWhileWaiting
  <2> QED
    BY <2>1, <2>2, <1>1, <1>2 DEF BusyWhileWaiting
<1> QED
  BY <1>17, <1>18, <1>19

LEMMA HoldConserves ==
  ASSUME FifoInv, FloorInv, ConserveInv, NEW h \in holding, FillHold(h)
  PROVE  ConserveInv'
<1>0. TypeOK
  BY DEF FifoInv, IInv
<1>1. /\ UNCHANGED <<call, env, pc, i, pending, begun, issued, comp_done, bus_order>>
      /\ bus_order = "fill" /\ pc = "hold" /\ holding' = holding \ {h}
  BY DEF FillHold, FillOnly, Hold, free
<1> SUFFICES ASSUME NEW tier \in Tiers, SingleTier(tier)'
             PROVE  (BookedInTurn(tier) /\ NoGaps(tier) /\ BusyWhileWaiting(tier))'
  BY <1>1 DEF ConserveInv
<1>2. /\ SingleTier(tier) /\ BusOf(tier)' = BusOf(tier) /\ Held(tier)' = Held(tier)
      /\ \A x : Primary(x, tier)' <=> Primary(x, tier)
  BY <1>1, SameTier
<1>3. BookedInTurn(tier) /\ NoGaps(tier) /\ BusyWhileWaiting(tier)
  BY <1>1, <1>2 DEF ConserveInv
<1>4. Moving /\ Moving' /\ i \in Nat
  <2>1. Moving /\ Moving'
    BY <1>1 DEF Moving
  <2> QED
    BY <2>1, FloorTyped
<1> DEFINE c == h[1]
           d == h[2]
<1>5. c \in Buses /\ d \in Nat /\ begun \in Nat /\ c # BusOf(tier)
  BY <1>0, <1>3, OwnBusNotHeld DEF TypeOK, BookedInTurn
<1>6. PICK s \in Candidates(c, begun) : Book(c, begun, d, s)
  BY DEF FillHold, FillOnly, Hold
<1> HIDE DEF c, d
<1>7. s \in Nat
  BY <1>0, <1>5, <1>6, BookTyped
<1> DEFINE new == [block |-> i, bus |-> c, start |-> s, end |-> s + d]
<1>8. /\ buses' = [buses EXCEPT ![c] = @ \cup Slots(s, d)] /\ trace' = trace \cup {new}
      /\ IsFirstFit(buses[c], begun, d, s) /\ buses[c] \in SUBSET Nat
      /\ buses'[c] = buses[c] \cup Slots(s, d)
      /\ \A b \in Buses : b # c => buses'[b] = buses[b]
      /\ \A b \in Buses : buses[b] \subseteq buses'[b]
  BY <1>0, <1>5, <1>6 DEF Book, TypeOK
<1>9. new.block = i /\ new.bus = c /\ new.start = s /\ ~Primary(new, tier)
  BY <1>5 DEF Primary
<1> HIDE DEF new
<1>10. Solid(c, begun)
  BY <1>3, <1>5 DEF NoGaps
<1>11. /\ begun .. (s - 1) \subseteq buses[c]
       /\ \A z \in buses[c] \cup Slots(s, d) : begun .. z \subseteq buses[c] \cup Slots(s, d)
  BY <1>5, <1>7, <1>8, <1>10, FirstFitLeavesNoGap DEF Solid
<1>12. /\ \E y \in trace : y.block = i /\ Primary(y, tier)
       /\ \A y \in trace : y.block = i /\ Primary(y, tier) => y.start = begun
  BY <1>1, <1>3 DEF BookedInTurn
<1>13. BookedInTurn(tier)'
  <2>1. \A x \in trace' : x.block < i \/ x.block = i
    BY <1>3, <1>8, <1>9 DEF BookedInTurn
  <2>2. tier \notin pending
    BY <1>3, <1>4, <1>12 DEF BookedInTurn
  <2>3. \A g \in holding' : g[1] \in Held(tier)
    BY <1>1, <1>3 DEF BookedInTurn
  <2>4. \E y \in trace' : y.block = i /\ Primary(y, tier)
    BY <1>8, <1>12
  <2>5. \A y \in trace' : y.block = i /\ Primary(y, tier) => y.start = begun
    BY <1>8, <1>9, <1>12
  <2>6. \A x \in trace' : \E y \in trace' : y.block = x.block /\ Primary(y, tier)
    BY <1>3, <1>8, <1>9, <1>12 DEF BookedInTurn
  <2> QED
    BY <2>1, <2>2, <2>3, <2>4, <2>5, <2>6, <1>1, <1>2, <1>4 DEF BookedInTurn
<1>14. NoGaps(tier)'
  <2>1. LastIssue' = LastIssue
    BY <1>1 DEF LastIssue, Moving
  <2>2. BusOf(tier) \in Buses /\ buses'[BusOf(tier)] = buses[BusOf(tier)]
    BY <1>5, <1>8, BusesTyped
  <2>3. ASSUME NEW b \in Buses, b # BusOf(tier)
        PROVE  \A z \in buses'[b] : begun .. z \subseteq buses'[b]
    <3>1. CASE b = c
      BY <3>1, <1>8, <1>11
    <3>2. CASE b # c
      BY <3>2, <2>3, <1>3, <1>8 DEF NoGaps, Solid
    <3> QED
      BY <3>1, <3>2
  <2> QED
    BY <2>1, <2>2, <2>3, <1>1, <1>2, <1>3 DEF NoGaps, Solid
<1>15. BusyWhileWaiting(tier)'
  <2>1. ASSUME NEW x \in trace', Primary(x, tier)
        PROVE  issued[x.block] .. (x.start - 1) \subseteq buses'[x.bus]
    <3>1. x \in trace
      BY <2>1, <1>8, <1>9
    <3> QED
      BY <3>1, <2>1, <1>0, <1>3, <1>8, TraceTyped DEF BusyWhileWaiting
  <2>2. ASSUME NEW x \in trace', NEW y \in trace',
               ~Primary(x, tier), Primary(y, tier), x.block = y.block
        PROVE  y.start .. (x.start - 1) \subseteq buses'[x.bus]
    <3>1. y \in trace
      BY <2>2, <1>8, <1>9
    <3>2. CASE x \in trace
      BY <3>1, <3>2, <2>2, <1>0, <1>3, <1>8, TraceTyped DEF BusyWhileWaiting
    <3>3. CASE x = new
      <4>1. y.start = begun
        BY <3>1, <3>3, <2>2, <1>9, <1>12
      <4> QED
        BY <4>1, <3>3, <1>8, <1>9, <1>11
    <3> QED
      BY <3>2, <3>3, <1>8
  <2> QED
    BY <2>1, <2>2, <1>1, <1>2 DEF BusyWhileWaiting
<1> QED
  BY <1>13, <1>14, <1>15

LEMMA NextConserveInv ==
  ASSUME FifoInv, FloorInv, ConserveInv, [EngineNext]_engine
  PROVE  ConserveInv'
<1>1. CASE EngineStagePrefix
  BY <1>1, QuietConserves DEF EngineStagePrefix, Common, StagePrefix, free, Moving
<1>2. CASE EngineStaged
  BY <1>2, QuietConserves DEF EngineStaged, Common, Staged, free, Moving
<1>3. CASE EngineIssue
  BY <1>3, IssueConserves, NextFifoInv
<1>4. ASSUME NEW tier \in Tiers, FillTransfer(tier) PROVE ConserveInv'
  BY <1>4, TransferConserves
<1>5. ASSUME NEW h \in holding, FillHold(h) PROVE ConserveInv'
  BY <1>5, HoldConserves
<1>6. CASE FillLanded
  BY <1>6, QuietConserves DEF FillLanded, FillOnly, Landed, free, Moving
<1>7. ASSUME NEW tier \in Tiers, FifoTransfer(tier) PROVE ConserveInv'
  BY <1>7 DEF FifoTransfer, ConserveInv
<1>8. CASE EngineConsume
  BY <1>8, ConsumeConserves
<1>9. CASE EngineReturn
  BY <1>9, QuietConserves DEF EngineReturn, Common, Return, free, Moving
<1>10. CASE UNCHANGED engine
  BY <1>10, QuietConserves DEF engine, vars, free, Moving
<1> QED
  BY <1>1, <1>2, <1>3, <1>4, <1>5, <1>6, <1>7, <1>8, <1>9, <1>10 DEF EngineNext

\* Under fill and with a single tier in use, bookings come in the order of the blocks
\* and leave no gap: the own bus is solid from the latest issue on, every bus held
\* from the latest start on.
THEOREM ConserveInvariant == EngineSpec => []ConserveInv
<1>1. EngineInit => FifoInv /\ FloorInv /\ ConserveInv
  BY InitFifoInv, InitFloorInv, InitConserveInv
<1>2. FifoInv /\ FloorInv /\ ConserveInv /\ [EngineNext]_engine
        => (FifoInv /\ FloorInv /\ ConserveInv)'
  BY NextFifoInv, NextFloorInv, NextConserveInv
<1> QED
  BY <1>1, <1>2, PTL DEF EngineSpec

LEMMA NoBusIdles ==
  ASSUME ConserveInv
  PROVE  FillConservesWork
<1> SUFFICES ASSUME bus_order = "fill", NEW tier \in Tiers, SingleTier(tier), NEW x \in trace
             PROVE  AskedAt(x, tier) .. (x.start - 1) \subseteq buses[x.bus]
  BY DEF FillConservesWork, WorkConserving
<1>1. BookedInTurn(tier) /\ BusyWhileWaiting(tier)
  BY DEF ConserveInv
<1>2. CASE x.bus = BusOf(tier)
  BY <1>1, <1>2 DEF AskedAt, BusyWhileWaiting, Primary
<1>3. CASE x.bus # BusOf(tier)
  <2> DEFINE y == CHOOSE z \in trace : z.block = x.block /\ z.bus = BusOf(tier)
  <2>1. \E z \in trace : z.block = x.block /\ z.bus = BusOf(tier)
    BY <1>1 DEF BookedInTurn, Primary
  <2>2. y \in trace /\ y.block = x.block /\ y.bus = BusOf(tier)
    BY <2>1
  <2>3. AskedAt(x, tier) = y.start
    BY <1>3 DEF AskedAt
  <2> HIDE DEF y
  <2> QED
    BY <2>2, <2>3, <1>1, <1>3 DEF BusyWhileWaiting, Primary
<1> QED
  BY <1>2, <1>3

\* Under fill, when every unit reads one and the same tier and none is on demand, a
\* bus is never idle between the moment a transfer asks for it and its start.
THEOREM FillNeverIdles == EngineSpec => []FillConservesWork
  BY ConserveInvariant, NoBusIdles, PTL

-----------------------------------------------------------------------------
(* The booking list of one bus (BusBook), for every set of requests: its   *)
(* intervals stay sorted and separated, and book() answers with the first  *)
(* idle stretch.  So the list implements BusSpec: the engine above books   *)
(* on sets of slots by the same rule.                                      *)

\* Intervals in order, none empty, that may touch only at position pos.
TouchingAt(s, pos) ==
  /\ \A n \in 1 .. Len(s) : s[n].start < s[n].end
  /\ \A n, j \in 1 .. Len(s) : n < j => s[n].end <= s[j].start
  /\ \A n, j \in 1 .. Len(s) : n < j /\ n # pos /\ j # pos => s[n].end < s[j].start

\* The same once pos's right neighbour has been merged: only pos's start may touch.
TouchingBefore(s, pos) ==
  /\ \A n \in 1 .. Len(s) : s[n].start < s[n].end
  /\ \A n, j \in 1 .. Len(s) : n < j => s[n].end <= s[j].start
  /\ \A n, j \in 1 .. Len(s) : n < j /\ j # pos => s[n].end < s[j].start

-----------------------------------------------------------------------------
\* What inserting into a list does to each of its positions.
LEMMA InsertAtPositions ==
  ASSUME NEW S, NEW s \in Seq(S), NEW pos \in 1 .. (Len(s) + 1), NEW e \in S
  PROVE  /\ InsertAt(s, pos, e) \in Seq(S)
         /\ Len(InsertAt(s, pos, e)) = Len(s) + 1
         /\ \A n \in 1 .. (Len(s) + 1) :
              InsertAt(s, pos, e)[n] = IF n < pos THEN s[n] ELSE IF n = pos THEN e ELSE s[n - 1]
<1> DEFINE a == SubSeq(s, 1, pos - 1)
           b == SubSeq(s, pos, Len(s))
<1>0. Len(s) \in Nat /\ \A n \in 1 .. Len(s) : s[n] \in S
  BY LenProperties, ElementOfSeq
<1>1. /\ a \in Seq(S) /\ Len(a) = pos - 1
      /\ \A n \in 1 .. (pos - 1) : a[n] = s[n]
  BY <1>0, SubSeqProperties
<1>2. /\ b \in Seq(S) /\ Len(b) = Len(s) - pos + 1
      /\ \A n \in 1 .. (Len(s) - pos + 1) : b[n] = s[pos + n - 1]
  BY <1>0, SubSeqProperties
<1>3. <<e>> \in Seq(S) /\ Len(<<e>>) = 1 /\ <<e>>[1] = e
  OBVIOUS
<1> DEFINE c == a \o <<e>>
<1>4. InsertAt(s, pos, e) = c \o b
  BY DEF InsertAt
<1> HIDE DEF a, b
<1>5. /\ c \in Seq(S) /\ Len(c) = pos
      /\ \A n \in 1 .. pos : c[n] = IF n < pos THEN s[n] ELSE e
  <2>1. /\ a \o <<e>> \in Seq(S) /\ Len(a \o <<e>>) = Len(a) + Len(<<e>>)
        /\ \A n \in 1 .. (Len(a) + Len(<<e>>)) :
             (a \o <<e>>)[n] = IF n <= Len(a) THEN a[n] ELSE <<e>>[n - Len(a)]
    BY <1>1, <1>3, ConcatProperties, SMTT(60)
  <2> QED  BY <2>1, <1>0, <1>1, <1>3, SMTT(60)
<1> HIDE DEF c
<1>6. /\ c \o b \in Seq(S) /\ Len(c \o b) = Len(c) + Len(b)
      /\ \A n \in 1 .. (Len(c) + Len(b)) :
           (c \o b)[n] = IF n <= Len(c) THEN c[n] ELSE b[n - Len(c)]
  BY <1>2, <1>5, ConcatProperties
<1> DEFINE r == InsertAt(s, pos, e)
<1>7. ASSUME NEW n \in 1 .. (Len(s) + 1)
      PROVE  r[n] = IF n < pos THEN s[n] ELSE IF n = pos THEN e ELSE s[n - 1]
  <2>1. CASE n <= pos
    BY <2>1, <1>0, <1>2, <1>4, <1>5, <1>6
  <2>2. CASE n > pos
    <3>1. r[n] = b[n - pos] /\ n - pos \in 1 .. (Len(s) - pos + 1)
      BY <2>2, <1>0, <1>2, <1>4, <1>5, <1>6
    <3>2. b[n - pos] = s[pos + (n - pos) - 1] /\ pos + (n - pos) - 1 = n - 1
      BY <3>1, <1>0, <1>2, SMTT(60)
    <3> QED  BY <2>2, <3>1, <3>2, SMTT(60)
  <2> QED  BY <2>1, <2>2, <1>0
<1>8. r \in Seq(S) /\ Len(r) = Len(s) + 1
  BY <1>0, <1>2, <1>4, <1>5, <1>6
<1> QED  BY <1>7, <1>8

\* What removing position pos of a list does to the others.
LEMMA RemoveAtPositions ==
  ASSUME NEW S, NEW s \in Seq(S), NEW pos \in 1 .. Len(s)
  PROVE  /\ RemoveAt(s, pos) \in Seq(S)
         /\ Len(RemoveAt(s, pos)) = Len(s) - 1
         /\ \A n \in 1 .. (Len(s) - 1) :
              RemoveAt(s, pos)[n] = IF n < pos THEN s[n] ELSE s[n + 1]
<1> DEFINE a == SubSeq(s, 1, pos - 1)
           b == SubSeq(s, pos + 1, Len(s))
<1>0. Len(s) \in Nat /\ \A n \in 1 .. Len(s) : s[n] \in S
  BY LenProperties, ElementOfSeq
<1>1. /\ a \in Seq(S) /\ Len(a) = pos - 1
      /\ \A n \in 1 .. (pos - 1) : a[n] = s[n]
  BY <1>0, SubSeqProperties
<1>2. /\ b \in Seq(S) /\ Len(b) = Len(s) - pos
      /\ \A n \in 1 .. (Len(s) - pos) : b[n] = s[pos + n]
  BY <1>0, SubSeqProperties
<1> HIDE DEF a, b
<1>3. /\ a \o b \in Seq(S) /\ Len(a \o b) = Len(a) + Len(b)
      /\ \A n \in 1 .. (Len(a) + Len(b)) :
           (a \o b)[n] = IF n <= Len(a) THEN a[n] ELSE b[n - Len(a)]
  BY <1>1, <1>2, ConcatProperties
<1>4. RemoveAt(s, pos) = a \o b
  BY DEF RemoveAt, a, b
<1> DEFINE r == RemoveAt(s, pos)
<1>5. ASSUME NEW n \in 1 .. (Len(s) - 1)
      PROVE  r[n] = IF n < pos THEN s[n] ELSE s[n + 1]
  <2>1. CASE n < pos
    BY <2>1, <1>0, <1>1, <1>2, <1>3, <1>4
  <2>2. CASE n >= pos
    <3>1. r[n] = b[n - (pos - 1)] /\ n - (pos - 1) \in 1 .. (Len(s) - pos)
      BY <2>2, <1>0, <1>1, <1>2, <1>3, <1>4, SMTT(60)
    <3>2. b[n - (pos - 1)] = s[pos + (n - (pos - 1))] /\ pos + (n - (pos - 1)) = n + 1
      BY <3>1, <1>0, <1>2
    <3> QED  BY <2>2, <3>1, <3>2
  <2> QED  BY <2>1, <2>2, <1>0
<1>6. r \in Seq(S) /\ Len(r) = Len(s) - 1
  BY <1>0, <1>1, <1>2, <1>3, <1>4
<1> QED  BY <1>5, <1>6

\* The bounds of a listed interval are natural numbers.
LEMMA IntervalBounds ==
  ASSUME NEW s \in Seq(Interval)
  PROVE  /\ Len(s) \in Nat
         /\ \A n \in 1 .. Len(s) : /\ s[n] \in Interval
                                  /\ s[n].start \in Nat /\ s[n].end \in Nat
<1>1. Len(s) \in Nat
  BY LenProperties
<1>2. ASSUME NEW n \in 1 .. Len(s)
      PROVE  s[n] \in Interval
  BY ElementOfSeq
<1> QED  BY <1>1, <1>2 DEF Interval

\* A slot is covered when some interval of the list holds it.
LEMMA CoveredSlots ==
  ASSUME NEW s \in Seq(Interval), NEW x
  PROVE  x \in Covered(s) <=> /\ x \in Int
                              /\ \E n \in 1 .. Len(s) : s[n].start <= x /\ x < s[n].end
<1>1. \A n \in 1 .. Len(s) : s[n].start \in Nat /\ s[n].end \in Nat
  BY IntervalBounds
<1>2. x \in Covered(s) <=> \E n \in 1 .. Len(s) : x \in s[n].start .. (s[n].end - 1)
  BY DEF Covered
<1> QED  BY <1>1, <1>2

-----------------------------------------------------------------------------
\* Inserting into the gap the scan stopped at: the new interval may touch its
\* neighbours and nothing else, and it adds exactly its own slots.
LEMMA InsertInGap ==
  ASSUME NEW s \in Seq(Interval), SeparatedList(s),
         NEW pos \in 1 .. (Len(s) + 1), NEW e \in Interval, e.start < e.end,
         \A n \in 1 .. (pos - 1) : s[n].end <= e.start,
         pos <= Len(s) => s[pos].start >= e.end
  PROVE  /\ InsertAt(s, pos, e) \in Seq(Interval)
         /\ Len(InsertAt(s, pos, e)) = Len(s) + 1
         /\ TouchingAt(InsertAt(s, pos, e), pos)
         /\ Covered(InsertAt(s, pos, e)) = Covered(s) \cup (e.start .. (e.end - 1))
<1> DEFINE r == InsertAt(s, pos, e)
<1>1. /\ r \in Seq(Interval)
      /\ Len(r) = Len(s) + 1
      /\ \A n \in 1 .. (Len(s) + 1) :
           r[n] = IF n < pos THEN s[n] ELSE IF n = pos THEN e ELSE s[n - 1]
  BY InsertAtPositions
<1>2. Len(s) \in Nat /\ \A n \in 1 .. Len(s) : s[n].start \in Nat /\ s[n].end \in Nat
  BY IntervalBounds
<1>3. e.start \in Nat /\ e.end \in Nat
  BY DEF Interval
<1> HIDE DEF r
<1>s. /\ \A n \in 1 .. Len(s) : s[n].start < s[n].end
      /\ \A n, j \in 1 .. Len(s) : n < j => s[n].end < s[j].start
  BY DEF SeparatedList
<1>4. \A n \in pos .. Len(s) : s[n].start >= e.end
  BY <1>2, <1>3, <1>s, SMTT(60)
<1>r. ASSUME NEW n \in 1 .. Len(r)
      PROVE  /\ n < pos => n \in 1 .. Len(s) /\ r[n] = s[n]
             /\ n = pos => r[n] = e
             /\ n > pos => (n - 1) \in pos .. Len(s) /\ (n - 1) \in 1 .. Len(s) /\ r[n] = s[n - 1]
  BY <1>1, <1>2
<1>5. TouchingAt(r, pos)
  <2>1. ASSUME NEW n \in 1 .. Len(r)
        PROVE  r[n].start < r[n].end
    <3>1. n < pos \/ n = pos \/ n > pos
      BY <1>1, <1>2
    <3> QED  BY <3>1, <1>r, <1>s
  <2>2. ASSUME NEW n \in 1 .. Len(r), NEW j \in 1 .. Len(r), n < j
        PROVE  r[n].end <= r[j].start /\ (n # pos /\ j # pos => r[n].end < r[j].start)
    <3>0. n \in Int /\ j \in Int /\ pos \in Int
      BY <1>1, <1>2
    <3>1. CASE n < pos /\ j < pos
      BY <2>2, <3>1, <1>r, <1>s, <1>2, SMTT(60)
    <3>2. CASE n < pos /\ j = pos
      BY <2>2, <3>2, <1>r, <1>2, <1>3, SMTT(60)
    <3>3. CASE n < pos /\ j > pos
      <4>1. /\ n \in 1 .. Len(s) /\ r[n] = s[n]
            /\ j - 1 \in 1 .. Len(s) /\ r[j] = s[j - 1]
        BY <3>3, <1>r
      <4>2. n < j - 1
        BY <3>0, <3>3
      <4>3. s[n].end < s[j - 1].start
        BY <4>1, <4>2, <1>s
      <4> QED  BY <4>1, <4>3, <1>2, SMTT(60)
    <3>4. CASE n = pos
      <4>1. j - 1 \in pos .. Len(s) /\ r[j] = s[j - 1] /\ r[n] = e
        BY <2>2, <3>0, <3>4, <1>r
      <4> QED  BY <4>1, <3>4, <1>1, <1>2, <1>3, <1>4
    <3>5. CASE n > pos
      <4>1. /\ n - 1 \in 1 .. Len(s) /\ r[n] = s[n - 1]
            /\ j - 1 \in 1 .. Len(s) /\ r[j] = s[j - 1]
        BY <2>2, <3>0, <3>5, <1>r
      <4>2. s[n - 1].end < s[j - 1].start
        BY <4>1, <2>2, <3>0, <1>s
      <4> QED  BY <4>1, <4>2, <1>2, SMTT(60)
    <3> QED  BY <3>0, <3>1, <3>2, <3>3, <3>4, <3>5, <2>2
  <2> QED  BY <2>1, <2>2 DEF TouchingAt
<1>6. ASSUME NEW x
      PROVE  x \in Covered(r) <=> x \in Covered(s) \cup (e.start .. (e.end - 1))
  <2>1. ASSUME x \in Covered(r)
        PROVE  x \in Covered(s) \cup (e.start .. (e.end - 1))
    <3>1. PICK n \in 1 .. Len(r) : x \in Int /\ r[n].start <= x /\ x < r[n].end
      BY <1>1, <2>1, CoveredSlots
    <3>2. CASE n < pos
      BY <3>1, <3>2, <1>1, <1>2, CoveredSlots
    <3>3. CASE n = pos
      BY <3>1, <3>3, <1>1, <1>3
    <3>4. CASE n > pos
      <4>1. n - 1 \in 1 .. Len(s) /\ r[n] = s[n - 1]
        BY <3>4, <1>1, <1>2
      <4> QED  BY <4>1, <3>1, CoveredSlots
    <3> QED  BY <3>2, <3>3, <3>4, <1>1, <1>2
  <2>2. ASSUME x \in e.start .. (e.end - 1)
        PROVE  x \in Covered(r)
    <3>1. pos \in 1 .. Len(r) /\ r[pos] = e
      BY <1>1, <1>2
    <3> QED  BY <3>1, <2>2, <1>1, <1>3, CoveredSlots, SMTT(60)
  <2>3. ASSUME x \in Covered(s)
        PROVE  x \in Covered(r)
    <3>1. PICK n \in 1 .. Len(s) : x \in Int /\ s[n].start <= x /\ x < s[n].end
      BY <2>3, CoveredSlots
    <3>2. CASE n < pos
      <4>1. n \in 1 .. Len(r) /\ r[n] = s[n]
        BY <3>2, <1>1, <1>2
      <4> QED  BY <4>1, <3>1, <1>1, CoveredSlots
    <3>3. CASE n >= pos
      <4>1. n + 1 \in 1 .. Len(r) /\ r[n + 1] = s[n]
        BY <3>3, <1>1, <1>2
      <4> QED  BY <4>1, <3>1, <1>1, CoveredSlots
    <3> QED  BY <3>2, <3>3, <1>2
  <2> QED  BY <2>1, <2>2, <2>3
<1> QED  BY <1>1, <1>5, <1>6 DEF r

\* Replacing the end of one interval of a list touches that interval alone.
LEMMA ExtendPositions ==
  ASSUME NEW s \in Seq(Interval), NEW pos \in 1 .. Len(s), NEW f \in Nat
  PROVE  /\ [s EXCEPT ![pos].end = f] \in Seq(Interval)
         /\ Len([s EXCEPT ![pos].end = f]) = Len(s)
         /\ \A n \in 1 .. Len(s) :
              [s EXCEPT ![pos].end = f][n] =
                IF n = pos THEN [start |-> s[pos].start, end |-> f] ELSE s[n]
<1> DEFINE e == [s[pos] EXCEPT !.end = f]
<1>1. s[pos] \in Interval
  BY IntervalBounds
<1>2. e = [start |-> s[pos].start, end |-> f] /\ e \in Interval
  BY <1>1, SMTT(60) DEF Interval
<1>3. [s EXCEPT ![pos].end = f] = [s EXCEPT ![pos] = e]
  OBVIOUS
<1> HIDE DEF e
<1>4. /\ [s EXCEPT ![pos] = e] \in Seq(Interval)
      /\ Len([s EXCEPT ![pos] = e]) = Len(s)
      /\ \A j \in 1 .. Len(s) : [s EXCEPT ![pos] = e][j] = IF j = pos THEN e ELSE s[j]
  BY <1>2, ExceptSeq
<1> QED  BY <1>2, <1>3, <1>4

\* Gluing interval pos and its touching successor into one: every other interval
\* keeps its bounds, and the list covers what it covered.
LEMMA GluePositions ==
  ASSUME NEW s \in Seq(Interval), NEW pos \in 1 .. Len(s), pos + 1 <= Len(s),
         s[pos].start < s[pos].end, s[pos + 1].start < s[pos + 1].end,
         s[pos + 1].start = s[pos].end
  PROVE  /\ Glue(s, pos) \in Seq(Interval)
         /\ Len(Glue(s, pos)) = Len(s) - 1
         /\ \A n \in 1 .. Len(Glue(s, pos)) :
              /\ n < pos => n \in 1 .. Len(s) /\ Glue(s, pos)[n] = s[n]
              /\ n = pos => Glue(s, pos)[n].start = s[pos].start
                            /\ Glue(s, pos)[n].end = s[pos + 1].end
              /\ n > pos => (n + 1) \in 1 .. Len(s) /\ Glue(s, pos)[n] = s[n + 1]
         /\ Covered(Glue(s, pos)) = Covered(s)
<1> DEFINE g == [s EXCEPT ![pos].end = s[pos + 1].end]
           r == Glue(s, pos)
<1>1. Len(s) \in Nat /\ \A n \in 1 .. Len(s) : s[n].start \in Nat /\ s[n].end \in Nat
  BY IntervalBounds
<1>2. pos + 1 \in 1 .. Len(s)
  BY <1>1
<1>3. /\ g \in Seq(Interval) /\ Len(g) = Len(s)
      /\ \A n \in 1 .. Len(s) :
           g[n] = IF n = pos THEN [start |-> s[pos].start, end |-> s[pos + 1].end] ELSE s[n]
  BY <1>1, <1>2, ExtendPositions, SMTT(60)
<1>g. r = RemoveAt(g, pos + 1)
  BY DEF Glue
<1> HIDE DEF g, r
<1>4. /\ r \in Seq(Interval) /\ Len(r) = Len(s) - 1
      /\ \A n \in 1 .. (Len(s) - 1) : r[n] = IF n < pos + 1 THEN g[n] ELSE g[n + 1]
  <2>1. pos + 1 \in 1 .. Len(g) /\ g \in Seq(Interval)
    BY <1>2, <1>3
  <2>2. /\ RemoveAt(g, pos + 1) \in Seq(Interval)
        /\ Len(RemoveAt(g, pos + 1)) = Len(g) - 1
        /\ \A n \in 1 .. (Len(g) - 1) :
             RemoveAt(g, pos + 1)[n] = IF n < pos + 1 THEN g[n] ELSE g[n + 1]
    BY <2>1, RemoveAtPositions
  <2> QED  BY <2>2, <1>g, <1>3
<1>5. ASSUME NEW n \in 1 .. Len(r)
      PROVE  /\ n < pos => n \in 1 .. Len(s) /\ r[n] = s[n]
             /\ n = pos => r[n].start = s[pos].start /\ r[n].end = s[pos + 1].end
             /\ n > pos => (n + 1) \in 1 .. Len(s) /\ r[n] = s[n + 1]
  <2>1. n \in 1 .. Len(s) /\ n + 1 \in 1 .. Len(s)
    BY <1>1, <1>4, SMTT(60)
  <2>2. CASE n < pos
    BY <2>1, <2>2, <1>1, <1>3, <1>4
  <2>3. CASE n = pos
    BY <2>1, <2>3, <1>1, <1>3, <1>4
  <2>4. CASE n > pos
    <3>1. r[n] = g[n + 1]
      BY <2>1, <2>4, <1>1, <1>4
    <3>2. g[n + 1] = s[n + 1]
      BY <2>1, <2>4, <1>1, <1>3
    <3> QED  BY <2>1, <2>4, <3>1, <3>2
  <2> QED  BY <2>1, <2>2, <2>3, <2>4
<1>6. ASSUME NEW x
      PROVE  x \in Covered(r) <=> x \in Covered(s)
  <2>1. ASSUME x \in Covered(r)
        PROVE  x \in Covered(s)
    <3>1. PICK n \in 1 .. Len(r) : x \in Int /\ r[n].start <= x /\ x < r[n].end
      BY <1>4, <2>1, CoveredSlots
    <3>2. CASE n < pos
      BY <3>1, <3>2, <1>5, CoveredSlots
    <3>3. CASE n = pos
      <4>1. s[pos].start <= x /\ x < s[pos + 1].end
        BY <3>1, <3>3, <1>5
      <4>2. CASE x < s[pos].end
        BY <4>1, <4>2, <3>1, CoveredSlots
      <4>3. CASE ~(x < s[pos].end)
        <5>1. s[pos + 1].start <= x
          BY <4>3, <3>1, <1>1, <1>2, SMTT(60)
        <5> QED  BY <5>1, <4>1, <3>1, <1>2, CoveredSlots
      <4> QED  BY <4>2, <4>3
    <3>4. CASE n > pos
      BY <3>1, <3>4, <1>5, CoveredSlots
    <3>5. n < pos \/ n = pos \/ n > pos
      BY <1>1, <1>4
    <3> QED  BY <3>2, <3>3, <3>4, <3>5
  <2>2. ASSUME x \in Covered(s)
        PROVE  x \in Covered(r)
    <3>1. PICK n \in 1 .. Len(s) : x \in Int /\ s[n].start <= x /\ x < s[n].end
      BY <2>2, CoveredSlots
    <3>2. CASE n < pos
      <4>1. n \in 1 .. Len(r)
        BY <3>2, <1>1, <1>2, <1>4
      <4> QED  BY <4>1, <3>1, <3>2, <1>4, <1>5, CoveredSlots
    <3>3. CASE n = pos \/ n = pos + 1
      <4>1. pos \in 1 .. Len(r) /\ r[pos].start = s[pos].start /\ r[pos].end = s[pos + 1].end
        BY <1>1, <1>2, <1>4, <1>5
      <4>2. r[pos].start <= x /\ x < r[pos].end
        BY <4>1, <3>1, <3>3, <1>1, <1>2, SMTT(60)
      <4> QED  BY <4>1, <4>2, <3>1, <1>4, CoveredSlots
    <3>4. CASE n > pos + 1
      <4>1. n - 1 \in 1 .. Len(r) /\ n - 1 > pos /\ (n - 1) + 1 = n
        BY <3>4, <1>1, <1>4
      <4>2. r[n - 1] = s[n]
        BY <4>1, <1>5
      <4> QED  BY <4>1, <4>2, <3>1, <1>4, CoveredSlots
    <3> QED  BY <3>2, <3>3, <3>4, <1>1
  <2> QED  BY <2>1, <2>2
<1> QED  BY <1>4, <1>5, <1>6 DEF r

\* Merging the inserted interval with its right neighbour leaves at most its
\* left side touching.
LEMMA MergeRightSeparates ==
  ASSUME NEW s \in Seq(Interval), NEW pos \in 1 .. Len(s), TouchingAt(s, pos)
  PROVE  /\ MergeRight(s, pos) \in Seq(Interval)
         /\ pos \in 1 .. Len(MergeRight(s, pos))
         /\ TouchingBefore(MergeRight(s, pos), pos)
         /\ Covered(MergeRight(s, pos)) = Covered(s)
<1> DEFINE r == MergeRight(s, pos)
<1>1. Len(s) \in Nat /\ \A n \in 1 .. Len(s) : s[n].start \in Nat /\ s[n].end \in Nat
  BY IntervalBounds
<1>2. /\ \A n \in 1 .. Len(s) : s[n].start < s[n].end
      /\ \A n, j \in 1 .. Len(s) : n < j => s[n].end <= s[j].start
      /\ \A n, j \in 1 .. Len(s) : n < j /\ n # pos /\ j # pos => s[n].end < s[j].start
  BY DEF TouchingAt
<1>3. CASE pos + 1 <= Len(s) /\ s[pos + 1].start = s[pos].end
  <2>1. pos + 1 \in 1 .. Len(s)
    BY <1>1, <1>3
  <2>2. r = Glue(s, pos)
    BY <1>3 DEF MergeRight
  <2> HIDE DEF r
  <2>g. /\ s[pos].start < s[pos].end /\ s[pos + 1].start < s[pos + 1].end
        /\ s[pos + 1].start = s[pos].end /\ pos + 1 <= Len(s)
    BY <1>2, <1>3, <2>1
  <2>3. /\ r \in Seq(Interval)
        /\ Len(r) = Len(s) - 1
        /\ \A n \in 1 .. Len(r) :
             /\ n < pos => n \in 1 .. Len(s) /\ r[n] = s[n]
             /\ n = pos => r[n].start = s[pos].start /\ r[n].end = s[pos + 1].end
             /\ n > pos => (n + 1) \in 1 .. Len(s) /\ r[n] = s[n + 1]
        /\ Covered(r) = Covered(s)
    BY <2>2, <2>g, GluePositions, SMTT(60)
  <2>4. pos \in 1 .. Len(r)
    BY <1>1, <1>3, <2>3
  <2>5. ASSUME NEW n \in 1 .. Len(r)
        PROVE  r[n].start < r[n].end
    <3>1. n < pos \/ n = pos \/ n > pos
      BY <1>1, <2>3
    <3>2. s[pos].start < s[pos + 1].end
      BY <1>1, <1>2, <1>3, <2>1, SMTT(60)
    <3> QED  BY <3>1, <3>2, <1>2, <2>3
  <2>6. ASSUME NEW n \in 1 .. Len(r), NEW j \in 1 .. Len(r), n < j
        PROVE  r[n].end <= r[j].start /\ (j # pos => r[n].end < r[j].start)
    <3>0. n \in Int /\ j \in Int /\ pos \in Int
      BY <1>1, <2>3
    <3>1. CASE n < pos /\ j < pos
      BY <3>0, <3>1, <2>6, <2>3, <1>1, <1>2, SMTT(60)
    <3>2. CASE n < pos /\ j = pos
      BY <3>0, <3>2, <2>6, <2>3, <1>1, <1>2
    <3>3. CASE n < pos /\ j > pos
      <4>1. /\ n \in 1 .. Len(s) /\ r[n] = s[n] /\ n # pos
            /\ j + 1 \in 1 .. Len(s) /\ r[j] = s[j + 1] /\ j + 1 # pos /\ n < j + 1
        BY <3>0, <3>3, <2>3
      <4>2. s[n].end < s[j + 1].start
        BY <4>1, <1>2
      <4> QED  BY <4>1, <4>2, <1>1, SMTT(60)
    <3>4. CASE n = pos
      <4>1. j > pos
        BY <3>0, <3>4, <2>6
      <4>2. j + 1 \in 1 .. Len(s) /\ r[j] = s[j + 1] /\ pos + 1 < j + 1
        BY <3>0, <4>1, <2>3
      <4>3. s[pos + 1].end < s[j + 1].start
        BY <4>2, <3>0, <2>1, <1>2
      <4> QED  BY <4>2, <4>3, <3>4, <2>3, <2>1, <1>1, SMTT(60)
    <3>5. CASE n > pos
      <4>1. /\ n + 1 \in 1 .. Len(s) /\ r[n] = s[n + 1]
            /\ j + 1 \in 1 .. Len(s) /\ r[j] = s[j + 1]
            /\ n + 1 < j + 1 /\ n + 1 # pos /\ j + 1 # pos
        BY <3>0, <3>5, <2>6, <2>3
      <4>2. s[n + 1].end < s[j + 1].start
        BY <4>1, <1>2
      <4> QED  BY <4>1, <4>2, <1>1, SMTT(60)
    <3> QED  BY <3>0, <3>1, <3>2, <3>3, <3>4, <3>5
  <2> QED  BY <2>3, <2>4, <2>5, <2>6 DEF TouchingBefore, r
<1>4. CASE ~(pos + 1 <= Len(s) /\ s[pos + 1].start = s[pos].end)
  <2>1. r = s
    BY <1>4 DEF MergeRight
  <2>2. ASSUME NEW n \in 1 .. Len(s), NEW j \in 1 .. Len(s), n < j, j # pos
        PROVE  s[n].end < s[j].start
    <3>1. CASE n # pos
      BY <3>1, <2>2, <1>2
    <3>2. CASE n = pos /\ j = pos + 1
      BY <3>2, <2>2, <1>1, <1>2, <1>4
    <3>3. CASE n = pos /\ j > pos + 1
      <4>1. pos + 1 \in 1 .. Len(s) /\ pos + 1 < j
        BY <3>3, <1>1
      <4>2. s[pos].end <= s[pos + 1].start /\ s[pos + 1].start < s[pos + 1].end
        BY <4>1, <1>1, <1>2
      <4>3. s[pos + 1].end <= s[j].start
        BY <4>1, <1>2
      <4> QED  BY <4>1, <4>2, <4>3, <3>3, <1>1, SMTT(60)
    <3> QED  BY <3>1, <3>2, <3>3, <2>2, <1>1
  <2> QED  BY <2>1, <2>2, <1>2 DEF TouchingBefore
<1> QED  BY <1>3, <1>4

\* Merging with the left neighbour leaves a separated list.
LEMMA MergeLeftSeparates ==
  ASSUME NEW s \in Seq(Interval), NEW pos \in 1 .. Len(s), TouchingBefore(s, pos)
  PROVE  /\ MergeLeft(s, pos) \in Seq(Interval)
         /\ Len(MergeLeft(s, pos)) \in {Len(s), Len(s) - 1}
         /\ SeparatedList(MergeLeft(s, pos))
         /\ Covered(MergeLeft(s, pos)) = Covered(s)
<1> DEFINE r == MergeLeft(s, pos)
<1>1. Len(s) \in Nat /\ \A n \in 1 .. Len(s) : s[n].start \in Nat /\ s[n].end \in Nat
  BY IntervalBounds
<1>2. /\ \A n \in 1 .. Len(s) : s[n].start < s[n].end
      /\ \A n, j \in 1 .. Len(s) : n < j => s[n].end <= s[j].start
      /\ \A n, j \in 1 .. Len(s) : n < j /\ j # pos => s[n].end < s[j].start
  BY DEF TouchingBefore
<1>3. CASE pos > 1 /\ s[pos - 1].end = s[pos].start
  <2> DEFINE q == pos - 1
  <2>1. q \in 1 .. Len(s) /\ q + 1 = pos /\ q + 1 <= Len(s)
    BY <1>1, <1>3
  <2> HIDE DEF q
  <2>2. r = Glue(s, q)
    BY <1>3, <2>1 DEF MergeLeft, q
  <2> HIDE DEF r
  <2>q. s[q + 1].start = s[q].end /\ s[q].start < s[q].end /\ s[q + 1].start < s[q + 1].end
    BY <1>2, <1>3, <2>1 DEF q
  <2>3. /\ r \in Seq(Interval)
        /\ Len(r) = Len(s) - 1
        /\ \A n \in 1 .. Len(r) :
             /\ n < q => n \in 1 .. Len(s) /\ r[n] = s[n]
             /\ n = q => r[n].start = s[q].start /\ r[n].end = s[q + 1].end
             /\ n > q => (n + 1) \in 1 .. Len(s) /\ r[n] = s[n + 1]
        /\ Covered(r) = Covered(s)
    BY <2>1, <2>2, <2>q, GluePositions
  <2>5. ASSUME NEW n \in 1 .. Len(r)
        PROVE  r[n].start < r[n].end
    <3>1. n < q \/ n = q \/ n > q
      BY <1>1, <2>1, <2>3
    <3>2. s[q].start < s[q + 1].end
      BY <1>1, <2>1, <2>q, SMTT(60)
    <3> QED  BY <3>1, <3>2, <1>2, <2>3
  <2>6. ASSUME NEW n \in 1 .. Len(r), NEW j \in 1 .. Len(r), n < j
        PROVE  r[n].end < r[j].start
    <3>0. n \in Int /\ j \in Int /\ q \in Int
      BY <1>1, <2>1, <2>3
    <3>1. CASE n < q /\ j <= q
      <4>1. n \in 1 .. Len(s) /\ r[n] = s[n] /\ r[j].start = s[j].start /\ j # pos
            /\ j \in 1 .. Len(s)
        BY <3>0, <3>1, <2>1, <2>3, SMTT(60)
      <4> QED  BY <4>1, <2>6, <1>2
    <3>2. CASE n < q /\ j > q
      <4>1. /\ n \in 1 .. Len(s) /\ r[n] = s[n]
            /\ j + 1 \in 1 .. Len(s) /\ r[j] = s[j + 1] /\ n < j + 1 /\ j + 1 # pos
        BY <3>0, <3>2, <2>1, <2>3
      <4>2. s[n].end < s[j + 1].start
        BY <4>1, <1>2
      <4> QED  BY <4>1, <4>2
    <3>3. CASE n = q
      <4>1. j + 1 \in 1 .. Len(s) /\ r[j] = s[j + 1] /\ q + 1 < j + 1 /\ j + 1 # pos
        BY <3>0, <3>3, <2>6, <2>1, <2>3
      <4>2. s[q + 1].end < s[j + 1].start
        BY <4>1, <2>1, <1>2
      <4> QED  BY <4>1, <4>2, <3>3, <2>3
    <3>4. CASE n > q
      <4>1. /\ n + 1 \in 1 .. Len(s) /\ r[n] = s[n + 1]
            /\ j + 1 \in 1 .. Len(s) /\ r[j] = s[j + 1]
            /\ n + 1 < j + 1 /\ j + 1 # pos
        BY <3>0, <3>4, <2>6, <2>1, <2>3
      <4>2. s[n + 1].end < s[j + 1].start
        BY <4>1, <1>2
      <4> QED  BY <4>1, <4>2
    <3> QED  BY <3>0, <3>1, <3>2, <3>3, <3>4
  <2> QED  BY <2>3, <2>5, <2>6 DEF SeparatedList, r
<1>4. CASE ~(pos > 1 /\ s[pos - 1].end = s[pos].start)
  <2>1. r = s
    BY <1>4 DEF MergeLeft
  <2>2. ASSUME NEW n \in 1 .. Len(s), NEW j \in 1 .. Len(s), n < j
        PROVE  s[n].end < s[j].start
    <3>1. CASE j # pos
      BY <3>1, <2>2, <1>2
    <3>2. CASE j = pos /\ n = pos - 1
      BY <3>2, <2>2, <1>1, <1>2, <1>4
    <3>3. CASE j = pos /\ n < pos - 1
      <4>1. pos - 1 \in 1 .. Len(s) /\ n < pos - 1 /\ pos - 1 # pos /\ pos - 1 < pos
        BY <3>3, <1>1
      <4>2. s[n].end < s[pos - 1].start /\ s[pos - 1].start < s[pos - 1].end
        BY <4>1, <1>2
      <4>3. s[pos - 1].end <= s[pos].start
        BY <4>1, <1>2
      <4> QED  BY <4>1, <4>2, <4>3, <3>3, <1>1, SMTT(60)
    <3> QED  BY <3>1, <3>2, <3>3, <2>2, <1>1
  <2> QED  BY <2>1, <2>2, <1>2, <1>1 DEF SeparatedList
<1> QED  BY <1>3, <1>4

-----------------------------------------------------------------------------
\* What the insertion that ends a booking does to the list.
LEMMA InsertBooks ==
  ASSUME BookInv, Insert
  PROVE  /\ iv' \in Seq(Interval)
         /\ book_k \in 1 .. (Len(iv') + 1)
         /\ SeparatedList(iv')
         /\ Covered(iv') = Covered(iv) \cup Slots(book_t, req.dur)
<1> DEFINE a == InsertAt(iv, book_k, Booked)
           b == MergeRight(a, book_k)
<1>1. /\ iv \in Seq(Interval) /\ SeparatedList(iv)
      /\ book_k \in 1 .. (Len(iv) + 1) /\ book_t \in Nat /\ req.dur \in Nat /\ req.dur > 0
      /\ \A n \in 1 .. (book_k - 1) : iv[n].end <= book_t
      /\ book_k <= Len(iv) => iv[book_k].start >= book_t + req.dur
  <2>1. BookTypeOK /\ Separated /\ ScanPoint /\ book_pc = "scan" /\ ~GapTooShort
    BY DEF BookInv, Insert
  <2>2. /\ Len(iv) \in Nat
        /\ \A n \in 1 .. Len(iv) : iv[n].start \in Nat
    BY <2>1, IntervalBounds DEF BookTypeOK
  <2>3. book_k <= Len(iv) => book_k \in 1 .. Len(iv)
    BY <2>1, <2>2 DEF BookTypeOK
  <2> QED  BY <2>1, <2>2, <2>3 DEF BookTypeOK, Separated, ScanPoint, GapTooShort
<1>2. /\ Booked \in Interval /\ Booked.start = book_t /\ Booked.end = book_t + req.dur
      /\ Booked.start < Booked.end
  BY <1>1 DEF Booked, Interval
<1>3. /\ a \in Seq(Interval) /\ Len(a) = Len(iv) + 1
      /\ TouchingAt(a, book_k)
      /\ Covered(a) = Covered(iv) \cup (book_t .. (book_t + req.dur - 1))
  BY <1>1, <1>2, InsertInGap, SMTT(60)
<1>4. book_k \in 1 .. Len(a)
  BY <1>1, <1>3, LenProperties
<1> HIDE DEF a
<1>5. /\ b \in Seq(Interval) /\ book_k \in 1 .. Len(b) /\ TouchingBefore(b, book_k)
      /\ Covered(b) = Covered(a)
  BY <1>3, <1>4, MergeRightSeparates
<1> HIDE DEF b
<1>6. /\ MergeLeft(b, book_k) \in Seq(Interval)
      /\ Len(MergeLeft(b, book_k)) \in {Len(b), Len(b) - 1}
      /\ SeparatedList(MergeLeft(b, book_k))
      /\ Covered(MergeLeft(b, book_k)) = Covered(b)
  BY <1>5, MergeLeftSeparates
<1>7. iv' = MergeLeft(b, book_k)
  BY DEF Insert, a, b
<1>8. Len(b) \in Nat
  BY <1>5, LenProperties
<1> QED  BY <1>3, <1>5, <1>6, <1>7, <1>8 DEF Slots

\* The empty list satisfies the invariant.
LEMMA BookInitInv == BookInit => BookInv
<1> SUFFICES ASSUME BookInit PROVE BookInv
  OBVIOUS
<1>1. iv \in Seq(Interval) /\ Len(iv) = 0
  BY EmptySeq DEF BookInit
<1> QED  BY <1>1 DEF BookInit, BookInv, BookTypeOK, Separated, SeparatedList, LocatePoint, ScanPoint

\* Every step of book() and every new call preserves it.
LEMMA BookNextInv == BookInv /\ [BookNext]_bookVars => BookInv'
<1> SUFFICES ASSUME BookInv, [BookNext]_bookVars PROVE BookInv'
  OBVIOUS
<1> USE BusConstants
<1>0. /\ BookTypeOK /\ Separated /\ LocatePoint /\ ScanPoint
      /\ Len(iv) \in Nat
      /\ \A n \in 1 .. Len(iv) : iv[n].start \in Nat /\ iv[n].end \in Nat
  BY IntervalBounds DEF BookInv, BookTypeOK
<1>1. CASE Request
  BY <1>0, <1>1 DEF Request, BookInv, BookTypeOK, Separated, SeparatedList, LocatePoint, ScanPoint
<1>2. CASE BookNothing
  BY <1>0, <1>2 DEF BookNothing, BookInv, BookTypeOK, Separated, SeparatedList, LocatePoint,
      ScanPoint
<1>3. CASE Locate
  <2>1. PICK pos \in 0 .. Len(iv) : BisectsAt(book_t, pos) /\ book_t' = PushedBy(pos)
                                    /\ book_k' = pos + 1
    BY <1>3 DEF Locate
  <2>2. UNCHANGED <<iv, req, book_start>> /\ book_pc' = "scan" /\ req.dur > 0 /\ book_t = req.t
    BY <1>0, <1>3 DEF Locate, LocatePoint
  <2>3. book_t' \in Nat /\ book_t' >= book_t /\ (pos >= 1 => book_t' >= iv[pos].end)
    BY <1>0, <2>1, SMTT(60) DEF PushedBy, BookTypeOK
  <2>4. BookTypeOK'
    BY <1>0, <2>1, <2>2, <2>3 DEF BookTypeOK
  <2>5. ASSUME NEW n \in 1 .. pos
        PROVE  iv[n].end <= book_t'
    <3>1. CASE n = pos
      BY <3>1, <2>3
    <3>2. CASE n < pos
      <4>1. iv[n].end < iv[pos].start /\ iv[pos].start < iv[pos].end
        BY <3>2, <1>0 DEF Separated, SeparatedList
      <4> QED  BY <4>1, <2>3, <1>0, <3>2, SMTT(60)
    <3> QED  BY <3>1, <3>2
  <2>6. ASSUME NEW s \in req.t .. (book_t' - 1)
        PROVE  \E n \in 1 .. Len(iv) : Overlaps(n, s)
    <3>1. pos >= 1 /\ iv[pos].end > book_t /\ book_t' = iv[pos].end
      BY <2>1, <2>2, <1>0 DEF PushedBy, BookTypeOK
    <3>2. pos \in 1 .. Len(iv) /\ iv[pos].start <= book_t
      BY <2>1, <3>1 DEF BisectsAt
    <3> QED  BY <3>1, <3>2, <2>2, <1>0, SMTT(60) DEF Overlaps, BookTypeOK
  <2>7. ScanPoint'
    BY <2>1, <2>2, <2>3, <2>5, <2>6 DEF ScanPoint, Overlaps
  <2> QED  BY <1>0, <2>2, <2>4, <2>7 DEF BookInv, Separated, LocatePoint
<1>4. CASE Scan
  <2>1. /\ book_pc = "scan" /\ book_pc' = "scan" /\ UNCHANGED <<iv, req, book_start>>
        /\ book_k \in 1 .. Len(iv) /\ iv[book_k].start < book_t + req.dur
        /\ book_t' = Later(book_t, iv[book_k].end) /\ book_k' = book_k + 1
        /\ book_t \in Nat /\ req.dur \in Nat /\ req.t \in Nat
    BY <1>0, <1>4 DEF Scan, GapTooShort, BookTypeOK
  <2>2. book_t' \in Nat /\ book_t' >= book_t /\ book_t' >= iv[book_k].end
        /\ book_t' \in {book_t, iv[book_k].end}
    BY <1>0, <2>1 DEF Later
  <2>3. BookTypeOK'
    BY <1>0, <2>1, <2>2, SMTT(60) DEF BookTypeOK
  <2>4. ASSUME NEW n \in 1 .. (book_k' - 1)
        PROVE  iv[n].end <= book_t'
    BY <1>0, <2>1, <2>2, SMTT(60) DEF ScanPoint
  <2>5. ASSUME NEW s \in req.t .. (book_t' - 1)
        PROVE  \E n \in 1 .. Len(iv) : Overlaps(n, s)
    <3>1. CASE s < book_t
      BY <3>1, <1>0, <2>1 DEF ScanPoint
    <3>2. CASE s >= book_t
      <4>1. s < iv[book_k].end /\ iv[book_k].start < s + req.dur
        BY <3>2, <1>0, <2>1, <2>2, SMTT(60)
      <4> QED  BY <4>1, <2>1 DEF Overlaps
    <3> QED  BY <3>1, <3>2, <2>1, SMTT(60)
  <2>6. book_t' >= req.t /\ req.dur > 0
    BY <1>0, <2>1, <2>2 DEF ScanPoint
  <2>7. ScanPoint'
    BY <2>1, <2>4, <2>5, <2>6 DEF ScanPoint, Overlaps
  <2> QED  BY <1>0, <2>1, <2>3, <2>7 DEF BookInv, Separated, LocatePoint
<1>5. CASE Insert
  <2>1. /\ iv' \in Seq(Interval) /\ book_k \in 1 .. (Len(iv') + 1) /\ SeparatedList(iv')
    BY <1>5, InsertBooks
  <2> QED  BY <1>0, <1>5, <2>1 DEF Insert, BookInv, BookTypeOK, Separated, LocatePoint, ScanPoint
<1>6. CASE UNCHANGED bookVars
  BY <1>0, <1>6 DEF bookVars, BookInv, BookTypeOK, Separated, SeparatedList, LocatePoint,
      ScanPoint, Overlaps
<1> QED  BY <1>1, <1>2, <1>3, <1>4, <1>5, <1>6 DEF BookNext

\* The inductive invariant of the booking list holds for every set of times
\* and durations.
THEOREM BookingInvariant == BookSpec => []BookInv
  BY BookInitInv, BookNextInv, PTL DEF BookSpec

\* The list, the locals and the answer of book() stay well typed.
THEOREM BookingTypeCorrect == BookSpec => []BookTypeOK
<1>1. BookInv => BookTypeOK
  BY DEF BookInv
<1> QED  BY <1>1, BookingInvariant, PTL

\* The booked intervals are sorted, disjoint and merged after every call.
THEOREM BookingsSeparated == BookSpec => []Separated
<1>1. BookInv => Separated
  BY DEF BookInv
<1> QED  BY <1>1, BookingInvariant, PTL

\* No start the scan has passed over would have held the transfer.
THEOREM NoStartPassedOver == BookSpec => []ScanPoint
<1>1. BookInv => ScanPoint
  BY DEF BookInv
<1> QED  BY <1>1, BookingInvariant, PTL

-----------------------------------------------------------------------------
\* Two integer stretches that overlap share a slot.
LEMMA OverlapSharesSlot ==
  ASSUME BookInv, NEW s \in Nat, NEW n \in 1 .. Len(iv), Overlaps(n, s), req.dur > 0
  PROVE  ~Fits(Covered(iv), s, req.dur)
<1>1. /\ iv \in Seq(Interval) /\ req.dur \in Nat
      /\ iv[n].start \in Nat /\ iv[n].end \in Nat /\ iv[n].start < iv[n].end
  BY IntervalBounds DEF BookInv, BookTypeOK, Separated, SeparatedList
<1> DEFINE x == Later(s, iv[n].start)
<1>2. x \in Int /\ x >= s /\ x < s + req.dur /\ iv[n].start <= x /\ x < iv[n].end
  BY <1>1 DEF Later, Overlaps
<1>3. x \in Slots(s, req.dur) /\ x \in Covered(iv)
  BY <1>1, <1>2, CoveredSlots, SMTT(60) DEF Slots
<1> QED  BY <1>3 DEF Fits

\* Where the scan stops the transfer fits, and nowhere earlier.
LEMMA ScanEndsAtFirstFit ==
  ASSUME BookInv, Insert
  PROVE  IsFirstFit(Covered(iv), req.t, req.dur, book_t)
<1>1. /\ BookTypeOK /\ Separated /\ ScanPoint /\ book_pc = "scan" /\ ~GapTooShort
      /\ iv \in Seq(Interval) /\ Len(iv) \in Nat
      /\ \A n \in 1 .. Len(iv) : iv[n].start \in Nat /\ iv[n].end \in Nat
  BY IntervalBounds DEF BookInv, Insert, BookTypeOK
<1>2. /\ book_t \in Nat /\ req.t \in Nat /\ req.dur \in Nat /\ req.dur > 0 /\ book_t >= req.t
      /\ book_k \in 1 .. (Len(iv) + 1)
  BY <1>1 DEF BookTypeOK, ScanPoint
<1>3. Fits(Covered(iv), book_t, req.dur)
  <2> SUFFICES ASSUME NEW x \in Slots(book_t, req.dur), x \in Covered(iv) PROVE FALSE
    BY DEF Fits
  <2>1. PICK n \in 1 .. Len(iv) : x \in Int /\ iv[n].start <= x /\ x < iv[n].end
    BY <1>1, CoveredSlots
  <2>2. x >= book_t /\ x < book_t + req.dur
    BY <1>2, SMTT(60) DEF Slots
  <2>3. CASE n < book_k
    BY <2>1, <2>2, <2>3, <1>1, <1>2, SMTT(60) DEF ScanPoint
  <2>4. CASE n >= book_k
    <3>1. book_k \in 1 .. Len(iv) /\ iv[book_k].start >= book_t + req.dur
      BY <2>4, <1>1, <1>2, SMTT(60) DEF GapTooShort
    <3>2. iv[n].start >= iv[book_k].start
      BY <2>4, <3>1, <1>1, <1>2, SMTT(60) DEF Separated, SeparatedList
    <3> QED  BY <2>1, <2>2, <3>1, <3>2, <1>1, <1>2, SMTT(60)
  <2> QED  BY <2>3, <2>4, <1>2
<1>4. ASSUME NEW x \in req.t .. (book_t - 1)
      PROVE  ~Fits(Covered(iv), x, req.dur)
  BY <1>1, <1>2, OverlapSharesSlot DEF ScanPoint
<1> QED  BY <1>2, <1>3, <1>4 DEF IsFirstFit

\* The booking list implements what a bus promises: every call is answered with
\* the first idle stretch that holds its transfer, and exactly that is booked.
THEOREM ListImplementsBus == BookSpec => EarliestIdleStretch
<1>1. BookInit => Abs!Init
  <2> SUFFICES ASSUME BookInit PROVE Abs!Init
    OBVIOUS
  <2>1. Covered(iv) = {}
    BY DEF Covered, BookInit
  <2> QED  BY <2>1 DEF BookInit, Abs!Init
<1>2. BookInv /\ [BookNext]_bookVars => [Abs!Next]_(Abs!busVars)
  <2> SUFFICES ASSUME BookInv, [BookNext]_bookVars PROVE [Abs!Next]_(Abs!busVars)
    OBVIOUS
  <2>0. /\ BookTypeOK /\ LocatePoint /\ iv \in Seq(Interval)
        /\ \A n \in 1 .. Len(iv) : iv[n].start \in Nat /\ iv[n].end \in Nat
    BY IntervalBounds DEF BookInv, BookTypeOK
  <2>1. CASE Request
    <3>1. \A x \in Covered(iv) : x < Horizon
      BY <2>0, <2>1, CoveredSlots, BusConstants DEF Request
    <3>2. Abs!Request
      BY <2>1, <3>1 DEF Request, Abs!Request
    <3> QED  BY <3>2 DEF Abs!Next
  <2>2. CASE BookNothing
    <3>1. req.dur = 0 /\ book_t = req.t /\ book_t \in Nat /\ book_start' = book_t /\ iv' = iv
          /\ book_pc' = "idle"
            /\ book_pc = "locate" /\ req' = req
      BY <2>0, <2>2 DEF BookNothing, BookTypeOK, LocatePoint
    <3>2. Slots(book_t, 0) = {} /\ req.t .. (book_t - 1) = {}
      BY <3>1 DEF Slots
    <3>3. IsFirstFit(Covered(iv), req.t, req.dur, book_start')
      BY <3>1, <3>2 DEF IsFirstFit, Fits
    <3>4. Abs!Answer
      BY <3>1, <3>2, <3>3
      DEF Abs!Answer, Abs!IsFirstFit, IsFirstFit, Abs!Fits, Fits, Abs!Slots, Slots
    <3> QED  BY <3>4 DEF Abs!Next
  <2>3. CASE Locate
    BY <2>3 DEF Locate, Abs!busVars
  <2>4. CASE Scan
    BY <2>4 DEF Scan, Abs!busVars
  <2>5. CASE Insert
    <3>1. IsFirstFit(Covered(iv), req.t, req.dur, book_t)
      BY <2>5, ScanEndsAtFirstFit
    <3>2. Covered(iv') = Covered(iv) \cup Slots(book_t, req.dur)
      BY <2>5, InsertBooks
    <3>3. book_start' = book_t /\ book_pc = "scan" /\ book_pc' = "idle" /\ req' = req
      BY <2>5 DEF Insert
    <3>4. Abs!Answer
      BY <3>1, <3>2, <3>3
      DEF Abs!Answer, Abs!IsFirstFit, IsFirstFit, Abs!Fits, Fits, Abs!Slots, Slots
    <3> QED  BY <3>4 DEF Abs!Next
  <2>6. CASE UNCHANGED bookVars
    BY <2>6 DEF bookVars, Abs!busVars, Covered
  <2> QED  BY <2>1, <2>2, <2>3, <2>4, <2>5, <2>6 DEF BookNext
<1> QED  BY <1>1, <1>2, BookingInvariant, PTL DEF BookSpec, EarliestIdleStretch, Abs!Spec
=============================================================================
