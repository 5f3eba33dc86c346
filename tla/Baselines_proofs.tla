-------------------------- MODULE Baselines_proofs --------------------------
(***************************************************************************)
(* The six policy baselines, for every platform, model and setting: what   *)
(* the runs of MCBaselines check on small ones.  The inductive invariant   *)
(* BaseInv is a conjunction of parts: where the cache's reservation has    *)
(* gone (KvInv), what each script's counters and shares are at each point  *)
(* of its placement (PlaceInv), what the decode steps rest on (StepInv),   *)
(* and CXLAimPod's prefetcher (PhaseInv).                                  *)
(*                                                                         *)
(* The last part is belady_hits, the device cache of the dynamic baseline, *)
(* for every sequence of sub-layers, capacity, lookahead and policy: the   *)
(* hits are the re-uses; they fit in device DRAM together; the sub-layer   *)
(* about to run is never pushed out by looking further ahead; and with     *)
(* sub-layers of one size no prefetch evicts another before its use.       *)
(***************************************************************************)
EXTENDS Baselines, DynamicCache, SumTheorems, SequenceTheorems, FiniteSetTheorems

-----------------------------------------------------------------------------
(* The inductive invariant.                                                *)

\* The bytes of a split over the five tiers.
SumOf(f) == f["gpu"] + f["host"] + f["cxl"] + f["pool"] + f["nand"]
\* Weights in tier t.
WeightsIn(t) == SumFunctionOnSet([l \in Layers |-> share[l].of[t]], Layers)
Kept(l) == share[l] = InTier(l, "nand")

\* kv_cascade has not been called.
NoCache == pc = "start" \/ At("itme", "place")
CascadeOk ==
  /\ cascade \in Seq(FastTiers \X Int)
  /\ \A n \in DOMAIN cascade :
       /\ cascade[n][1] \in KvTiersRead \ {"nand"}
       /\ took[cascade[n][1]] = 0
       /\ run.policy # "itme" => cascade[n][2] <= Cap(cascade[n][1])
       /\ \A m \in DOMAIN cascade : cascade[m][1] = cascade[n][1] => m = n
KvInv ==
  /\ \A t \in Tiers \ KvTiersRead : took[t] = 0
  /\ tail \in KvTiersRead \cup {"none"}
  /\ run.policy # "itme" => \A t \in FastTiers : took[t] <= Cap(t)
  /\ NoCache => took = Nowhere
  /\ pc = "cascade" => /\ kvLeft + SumOf(took) = KvReserved
                       /\ took["nand"] = 0
                       /\ CascadeOk
  /\ ~NoCache /\ pc # "cascade" => SumOf(took) = KvReserved

Untouched == pc = "start" \/ (run.policy # "itme" /\ pc \in {"cascade", "kvPlaced"})
FreshInv ==
  Untouched => /\ reserve = NoRoom /\ next = 1
               /\ \A l \in Layers : Kept(l)

\* The tiers' bytes are given out once, and every layer is stored once.
Balanced ==
  /\ \A t \in DramTiers : took[t] + reserve[t] + free[t] + WeightsIn(t) = Cap(t)
  /\ \A l \in Layers : SumOf(share[l].of) = share[l].total /\ share[l].total = BytesOf(l)
InOne(l) == \E t \in DramTiers \cup {"nand"} : share[l] = InTier(l, t)
LedgerPhase == pc \in {"pin", "fill"} \/ (pc = "place" /\ run.policy # "itme")
LedgerInv ==
  LedgerPhase =>
    /\ Balanced
    /\ run.policy = "dynamic" => free["cxl"] = 0
    /\ pc \in {"pin", "fill"} => staging = StagedOf(reserve)
OrderInv ==
  /\ pc = "pin" => \A l \in Layers : InOne(l) /\ (l <= FromLast => Kept(l))
  /\ pc = "fill" => \A n \in Layers : n >= next => InOne(embedding_last[n])
  /\ pc = "place" => \A n \in Layers : n >= next => Kept(embedding_last[n])
ItmeInv ==
  (run.policy = "itme" /\ pc \in {"place", "cascade", "kvPlaced"}) =>
    /\ reserve = [NoRoom EXCEPT !["cxl"] = Ring, !["host"] = run.hostStaging]
    /\ staging = Ring + run.hostStaging
    /\ free[Engine] + WeightsIn(Engine) = Cap(Engine) - (IF Gpu THEN 0 ELSE run.hostStaging)
    /\ \A l \in Layers : share[l] \in {InTier(l, Engine), InTier(l, "nand")}
PlaceInv == FreshInv /\ LedgerInv /\ OrderInv /\ ItmeInv

StepInv ==
  /\ BytesAccounted /\ StagingIsBacked /\ ReadsCoverLayer
  /\ Placing => /\ tail \in FastTiers => headroom = free[tail]
                /\ \A l \in Layers : SumOf(share[l].of) = share[l].total
                /\ run.policy = "llmflash" =>
                     \A l \in Layers : \A t \in DramTiers : share[l].of[t] = 0
  /\ step \in Nat /\ (step > 0 => Placing /\ spill = kv_growth_spill(KvAt(run.prefill + step)))
  /\ pc = "decode" => step < run.tokens

InPass == run.policy = "aimpod" /\ Placing
PhaseInv ==
  /\ at \in Nat /\ ahead \in Nat \ {0} /\ elapsed \in Nat /\ link_busy_until \in Nat
  /\ pf_resident \in Seq(Layers)
  /\ \A i, j \in DOMAIN pf_resident : pf_resident[i] = pf_resident[j] => i = j
  /\ arrival \in [{pf_resident[j] : j \in DOMAIN pf_resident} -> Nat]
  /\ ~InPass => arrival = << >>
  /\ \A l \in DOMAIN arrival : ~StoredIn(l, "host") /\ ~StoredIn(l, "cxl")
  /\ WaitsForArrival

BaseInv ==
  /\ run \in Runs /\ share \in [Layers -> Share]
  /\ TypeOK /\ KvInv /\ PlaceInv /\ StepInv /\ PhaseInv

\* A sum of Total's form is the sum over the function.
LEMMA DramTiersSum ==
  ASSUME NEW f, \A t \in Tiers : f[t] \in Int
  PROVE  /\ SumFunctionOnSet(f, DramTiers) = f["gpu"] + f["host"] + f["cxl"]
         /\ SumFunctionOnSet(f, {"pool"}) = f["pool"]
         /\ SumFunctionOnSet(f, Tiers) = SumOf(f)
<1> DEFINE A1 == {"gpu"}
           A2 == A1 \cup {"host"}
           A3 == A2 \cup {"cxl"}
           A4 == A3 \cup {"pool"}
           A5 == A4 \cup {"nand"}
<1>1. /\ f["gpu"] \in Int /\ f["host"] \in Int /\ f["cxl"] \in Int
      /\ f["pool"] \in Int /\ f["nand"] \in Int
  BY DEF Tiers, FastTiers, DramTiers
<1>2. /\ IsFiniteSet(A1) /\ IsFiniteSet(A2) /\ IsFiniteSet(A3) /\ IsFiniteSet(A4)
      /\ IsFiniteSet({"pool"})
  BY FS_AddElement, FS_Singleton, ZenonT(60)
<1>3. /\ "host" \notin A1 /\ "cxl" \notin A2 /\ "pool" \notin A3 /\ "nand" \notin A4
      /\ DramTiers = A3 /\ Tiers = A5
  BY DEF DramTiers, FastTiers, Tiers
<1>4. /\ \A y \in A1 : f[y] \in Int
      /\ \A y \in A2 : f[y] \in Int
      /\ \A y \in A3 : f[y] \in Int
      /\ \A y \in A4 : f[y] \in Int
  BY <1>1
<1>5. SumFunctionOnSet(f, A1) = f["gpu"] /\ SumFunctionOnSet(f, {"pool"}) = f["pool"]
  BY <1>1, <1>2, SumSingle
<1>a. SumFunctionOnSet(f, A2) = SumFunctionOnSet(f, A1) + f["host"]
  <2> HIDE DEF A1
  <2> QED
    BY <1>1, <1>2, <1>3, <1>4, SumAdd
<1>b. SumFunctionOnSet(f, A3) = SumFunctionOnSet(f, A2) + f["cxl"]
  <2> HIDE DEF A1, A2
  <2> QED
    BY <1>1, <1>2, <1>3, <1>4, SumAdd
<1>c. SumFunctionOnSet(f, A4) = SumFunctionOnSet(f, A3) + f["pool"]
  <2> HIDE DEF A1, A2, A3
  <2> QED
    BY <1>1, <1>2, <1>3, <1>4, SumAdd
<1>d. SumFunctionOnSet(f, A5) = SumFunctionOnSet(f, A4) + f["nand"]
  <2> HIDE DEF A1, A2, A3, A4
  <2> QED
    BY <1>1, <1>2, <1>3, <1>4, SumAdd
<1> HIDE DEF A1, A2, A3, A4, A5
<1> QED
  BY <1>1, <1>3, <1>5, <1>a, <1>b, <1>c, <1>d DEF SumOf

\* What a run's settings are.
LEMMA RunFacts ==
  ASSUME run \in Runs
  PROVE  /\ run.cap["gpu"] \in Nat /\ run.cap["host"] \in Nat /\ run.cap["cxl"] \in Nat
         /\ run.prefill \in Nat \ {0} /\ run.tokens \in Nat \ {0} /\ run.level \in {1, 2}
         /\ run.slots \in Nat \ {0} /\ run.ssd \in Nat /\ run.active \in Nat
         /\ run.hostStaging \in Nat /\ run.hostStaging <= run.cap["host"]
         /\ run.policy \in Policies
         /\ Len(layers) \in Nat /\ Layers = 1 .. Len(layers) /\ IsFiniteSet(Layers)
         /\ \A l \in Layers : /\ layers[l] \in LayerType
                              /\ BytesOf(l) \in Nat \ {0} /\ KvOf(l) \in Nat
                              /\ layers[l].read \in Nat
         /\ \E l \in Layers : layers[l].kind = "MLP"
<1>1. run \in RunType /\ run.hostStaging <= run.cap["host"]
      /\ \E l \in Layers : layers[l].kind = "MLP"
  BY RunsAreTyped DEF layers, Layers
<1>2. /\ run.cap \in [DramTiers -> Nat]
      /\ run.prefill \in Nat \ {0} /\ run.tokens \in Nat \ {0} /\ run.level \in {1, 2}
      /\ run.slots \in Nat \ {0} /\ run.ssd \in Nat /\ run.active \in Nat
      /\ run.hostStaging \in Nat /\ run.policy \in Policies /\ layers \in Seq(LayerType)
  BY <1>1 DEF RunType, layers
<1>3. run.cap["gpu"] \in Nat /\ run.cap["host"] \in Nat /\ run.cap["cxl"] \in Nat
  BY <1>2 DEF DramTiers
<1>4. Len(layers) \in Nat /\ Layers = 1 .. Len(layers)
  BY <1>2, LenProperties DEF Layers
<1>5. IsFiniteSet(Layers)
  BY <1>4, FS_Interval
<1>6. \A l \in Layers : layers[l] \in LayerType
  BY <1>2, <1>4, ElementOfSeq
<1>7. \A l \in Layers : BytesOf(l) \in Nat \ {0} /\ KvOf(l) \in Nat /\ layers[l].read \in Nat
  BY <1>6 DEF LayerType, BytesOf, KvOf
<1> QED
  BY <1>1, <1>2, <1>3, <1>4, <1>5, <1>6, <1>7

\* The capacities are naturals.
LEMMA CapNat ==
  ASSUME run \in Runs, NEW t \in FastTiers
  PROVE  Cap(t) \in Nat /\ Cap("pool") = PoolCap /\ (t \in DramTiers => Cap(t) = run.cap[t])
<1>1. t \in {"gpu", "host", "cxl", "pool"}
  BY DEF FastTiers, DramTiers
<1>2. /\ run.cap["gpu"] \in Nat /\ run.cap["host"] \in Nat /\ run.cap["cxl"] \in Nat
  BY RunFacts
<1>3. Cap("pool") = PoolCap /\ PoolCap \in Nat
  BY <1>2 DEF Cap, PoolCap
<1>4. "gpu" # "pool" /\ "host" # "pool" /\ "cxl" # "pool"
  OBVIOUS
<1>5. t \in DramTiers => Cap(t) = run.cap[t]
  BY <1>4 DEF Cap, DramTiers
<1>6. t \in DramTiers => Cap(t) \in Nat
  BY <1>2, <1>5 DEF DramTiers
<1> QED
  BY <1>1, <1>3, <1>5, <1>6 DEF DramTiers

\* The bytes of any layers are a natural.
LEMMA BytesNat ==
  ASSUME run \in Runs, NEW S \in SUBSET Layers
  PROVE  Total(BytesOf, S) \in Nat /\ IsFiniteSet(S)
         /\ \A l \in S : BytesOf(l) <= Total(BytesOf, S)
<1> DEFINE w == [y \in S |-> BytesOf(y)]
<1>a. IsFiniteSet(S) /\ \A l \in S : BytesOf(l) \in Nat
  BY RunFacts, FS_Subset
<1>1. IsFiniteSet(S) /\ \A l \in S : w[l] \in Nat /\ w[l] \in Int
  BY <1>a
<1>2. SumFunctionOnSet(w, S) \in Nat
  <2> HIDE DEF w
  <2> QED
    BY <1>1, SumNat
<1>3. ASSUME NEW l \in S PROVE w[l] <= SumFunctionOnSet(w, S)
  <2> DEFINE R == S \ {l}
  <2>1. SumFunctionOnSet(w, S) = w[l] + SumFunctionOnSet(w, R)
    <3> HIDE DEF w
    <3> QED
      BY <1>1, SumTake
  <2>2. IsFiniteSet(R) /\ \A y \in R : w[y] \in Nat
    BY <1>1, FS_Subset
  <2>3. SumFunctionOnSet(w, R) \in Nat
    <3> HIDE DEF w, R
    <3> QED
      BY <2>2, SumNat
  <2>4. w[l] \in Nat
    BY <1>1
  <2> HIDE DEF w, R
  <2> QED
    BY <2>1, <2>3, <2>4
<1>4. Total(BytesOf, S) = SumFunctionOnSet(w, S)
  BY DEF Total
<1>5. \A l \in S : BytesOf(l) <= Total(BytesOf, S)
  <2> TAKE l \in S
  <2>1. w[l] = BytesOf(l)
    OBVIOUS
  <2> HIDE DEF w
  <2> QED
    BY <2>1, <1>3, <1>4
<1> HIDE DEF w
<1> QED
  BY <1>1, <1>2, <1>4, <1>5

\* The cache of a token counts every layer's.
LEMMA KvPerTokenNat ==
  ASSUME run \in Runs
  PROVE  KvPerToken \in Nat /\ \A l \in Layers : KvOf(l) <= KvPerToken
<1> DEFINE w == [y \in Layers |-> KvOf(y)]
<1>1. IsFiniteSet(Layers) /\ \A l \in Layers : w[l] \in Nat /\ w[l] \in Int
  BY RunFacts
<1>2. KvPerToken = SumFunctionOnSet(w, Layers)
  BY DEF KvPerToken, Total
<1>3. SumFunctionOnSet(w, Layers) \in Nat
  <2> HIDE DEF w
  <2> QED
    BY <1>1, SumNat
<1>4. ASSUME NEW l \in Layers PROVE KvOf(l) <= KvPerToken
  <2> DEFINE R == Layers \ {l}
  <2>1. SumFunctionOnSet(w, Layers) = w[l] + SumFunctionOnSet(w, R)
    <3> HIDE DEF w
    <3> QED
      BY <1>1, SumTake
  <2>2. IsFiniteSet(R) /\ \A y \in R : w[y] \in Nat
    BY <1>1, FS_Subset
  <2>3. SumFunctionOnSet(w, R) \in Nat
    <3> HIDE DEF w, R
    <3> QED
      BY <2>2, SumNat
  <2>4. w[l] \in Nat /\ w[l] = KvOf(l)
    BY <1>1
  <2> HIDE DEF w, R
  <2> QED
    BY <1>2, <2>1, <2>3, <2>4
<1> QED
  BY <1>2, <1>3, <1>4

\* Half of a natural product is a natural, and positive when the factors are.
LEMMA HalfProduct ==
  ASSUME NEW j \in Nat, NEW pf \in Nat \ {0}, NEW n \in Nat \ {0}, NEW v \in {1, 2}
  PROVE  /\ (j * (2 * pf + n * v)) \div 2 \in Nat
         /\ j > 0 => (j * (2 * pf + n * v)) \div 2 > 0
<1>1. n * v \in Nat
  OBVIOUS
<1>2. 2 * pf + n * v \in Nat /\ 2 * pf + n * v >= 2
  BY <1>1
<1>3. \A a, b \in Nat : a * b \in Nat /\ (a > 0 => a * b >= b)
  OBVIOUS
<1> DEFINE q == j * (2 * pf + n * v)
<1>4. q \in Nat /\ (j > 0 => q >= 2)
  BY <1>2, <1>3
<1> HIDE DEF q
<1>5. q \div 2 \in Nat /\ (q >= 2 => q \div 2 > 0)
  BY <1>4
<1> QED
  BY <1>4, <1>5 DEF q

\* The reservation is a natural, and there is one wherever a layer has a cache.
LEMMA KvReservedNat ==
  ASSUME run \in Runs
  PROVE  /\ KvReserved \in Nat
         /\ \A l \in Layers : KvOf(l) > 0 => KvReserved > 0
<1>1. KvPerToken \in Nat /\ \A l \in Layers : KvOf(l) \in Nat /\ KvOf(l) <= KvPerToken
  BY KvPerTokenNat, RunFacts
<1>2. KvReserved \in Nat /\ (KvPerToken > 0 => KvReserved > 0)
  BY <1>1, RunFacts, HalfProduct DEF KvReserved
<1> QED
  BY <1>1, <1>2

\* A cache of some positions is a natural.
LEMMA KvAtNat ==
  ASSUME run \in Runs, NEW n \in Nat
  PROVE  KvAt(n) \in Nat /\ KvAt(run.prefill + n) \in Nat
<1>1. \A a, b \in Nat : a * b \in Nat /\ a + b \in Nat
  OBVIOUS
<1>2. KvPerToken \in Nat /\ run.prefill \in Nat
  BY KvPerTokenNat, RunFacts
<1> QED
  BY <1>1, <1>2, Zenon DEF KvAt

\* The placement order holds every layer once.
LEMMA OrderFacts ==
  ASSUME run \in Runs
  PROVE  /\ \A n \in Layers : embedding_last[n] \in Layers
         /\ \A m, n \in Layers : embedding_last[m] = embedding_last[n] => m = n
         /\ \A l \in Layers : \E n \in Layers : embedding_last[n] = l
<1> DEFINE key == [l \in Layers |-> IF IsTable(l) THEN 1 ELSE 0]
<1>1. Layers \in SUBSET Int /\ IsFiniteSet(Layers) /\ \A l \in Layers : key[l] \in Int
  BY RunFacts
<1>2. Cardinality(Layers) = Len(layers)
  <2> DEFINE n == Len(layers)
  <2>1. n \in Nat /\ Layers = 1 .. n
    BY RunFacts
  <2> HIDE DEF n
  <2>2. (IF 1 > n THEN 0 ELSE n - 1 + 1) = n
    BY <2>1
  <2>3. Cardinality(1 .. n) = n
    BY <2>1, <2>2, FS_Interval
  <2> QED
    BY <2>1, <2>3 DEF n
<1>3. /\ Sorted(Layers, key) \in [1 .. Cardinality(Layers) -> Layers]
      /\ \A a, b \in 1 .. Cardinality(Layers) :
           Sorted(Layers, key)[a] = Sorted(Layers, key)[b] => a = b
      /\ \A y \in Layers : \E a \in 1 .. Cardinality(Layers) : Sorted(Layers, key)[a] = y
  <2> HIDE DEF key
  <2> QED
    BY <1>1, SortedIsPermutation
<1>4. embedding_last = Sorted(Layers, key) /\ Layers = 1 .. Cardinality(Layers)
  BY <1>2, RunFacts DEF embedding_last
<1> HIDE DEF key
<1> QED
  BY <1>3, <1>4

\* The largest of some layers has a layer's bytes.
LEMMA GreatestOf ==
  ASSUME run \in Runs, NEW S \in SUBSET Layers, S # {}
  PROVE  \E b \in {BytesOf(l) : l \in S} : \A l \in S : BytesOf(l) <= b
<1> DEFINE w == [l \in S |-> BytesOf(l)]
<1>a. IsFiniteSet(S) /\ \A l \in S : BytesOf(l) \in Nat
  BY RunFacts, FS_Subset
<1>1. IsFiniteSet(S) /\ \A l \in S : w[l] \in Int /\ w[l] = BytesOf(l)
  BY <1>a
<1>2. \E v \in S : \A y \in S : w[v] >= w[y]
  <2> HIDE DEF w
  <2> QED
    BY <1>1, HasGreatest
<1>3. PICK v \in S : \A y \in S : w[v] >= w[y]
  BY <1>2
<1>4. \A y \in S : BytesOf(y) <= BytesOf(v)
  BY <1>1, <1>3
<1> QED
  BY <1>4

\* So Largest and Slot are sizes.
LEMMA LargestNat ==
  ASSUME run \in Runs
  PROVE  Largest \in Nat /\ Slot \in Nat \ {0}
<1>1. Layers # {} /\ \A l \in Layers : BytesOf(l) \in Nat \ {0}
  BY RunFacts
<1>2. \E b \in {BytesOf(l) : l \in Layers} : \A l \in Layers : BytesOf(l) <= b
  BY <1>1, GreatestOf
<1>3. Largest \in {BytesOf(l) : l \in Layers}
  BY <1>2 DEF Largest
<1> DEFINE S == {j \in Layers : layers[j].kind = "MLP"}
<1>4. S # {} /\ S \in SUBSET Layers
  BY RunFacts
<1>5. \E b \in {BytesOf(l) : l \in S} : \A l \in S : BytesOf(l) <= b
  <2> HIDE DEF S
  <2> QED
    BY <1>4, GreatestOf
<1>6. \E b \in {BytesOf(l) : l \in S} : \A l \in Layers : layers[l].kind = "MLP" => BytesOf(l) <= b
  BY <1>5
<1>7. Slot \in {BytesOf(l) : l \in S}
  BY <1>6 DEF Slot
<1> QED
  BY <1>1, <1>3, <1>7

\* What is computed from the settings does not change with the state.
LEMMA RunFixed ==
  ASSUME run' = run
  PROVE  /\ layers' = layers /\ Layers' = Layers
         /\ \A l : BytesOf(l)' = BytesOf(l) /\ KvOf(l)' = KvOf(l) /\ IsTable(l)' = IsTable(l)
         /\ \A t : Cap(t)' = Cap(t)
         /\ \A l, t : InTier(l, t)' = InTier(l, t)
         /\ embedding_last' = embedding_last
         /\ KvReserved' = KvReserved /\ KvPerToken' = KvPerToken
         /\ \A n : KvAt(n)' = KvAt(n)
         /\ KvTiersRead' = KvTiersRead
         /\ Striped' = Striped /\ Denominator' = Denominator
         /\ MyTiers' = MyTiers
<1>1. layers' = layers /\ Layers' = Layers
  BY DEF layers, Layers
<1>2. \A l : BytesOf(l)' = BytesOf(l) /\ KvOf(l)' = KvOf(l) /\ IsTable(l)' = IsTable(l)
  BY <1>1 DEF BytesOf, KvOf, IsTable
<1>3. \A t : Cap(t)' = Cap(t)
  BY DEF Cap, PoolCap
<1>4. \A l, t : InTier(l, t)' = InTier(l, t)
  BY <1>2 DEF InTier
<1>5. embedding_last' = embedding_last
  BY <1>1 DEF embedding_last, IsTable
<1>6. KvPerToken' = KvPerToken
  BY <1>1 DEF KvPerToken, Total, KvOf
<1>7. KvReserved' = KvReserved /\ \A n : KvAt(n)' = KvAt(n)
  BY <1>6 DEF KvReserved, KvAt
<1>8. KvTiersRead' = KvTiersRead /\ MyTiers' = MyTiers
  BY DEF KvTiersRead, MyTiers
<1>9. Striped' = Striped
  BY <1>1 DEF Striped, IsTable
<1>10. Denominator' = Denominator
  BY <1>1, <1>9 DEF Denominator, Total, BytesOf
<1> QED
  BY <1>1, <1>2, <1>3, <1>4, <1>5, <1>6, <1>7, <1>8, <1>9, <1>10

\* What the settings decide does not change while the settings do not.
LEMMA EngineFixed ==
  ASSUME run' = run
  PROVE  /\ Gpu' = Gpu /\ Engine' = Engine /\ Slot' = Slot /\ Ring' = Ring
         /\ PinnedBytes' = PinnedBytes /\ TableBytes' = TableBytes
         /\ \A l : IsFfn(l)' = IsFfn(l) /\ IsPinned(l)' = IsPinned(l)
<1>1. layers' = layers /\ Layers' = Layers
  BY DEF layers, Layers
<1>2. Gpu' = Gpu /\ Engine' = Engine
  BY DEF Gpu, Engine
<1>3. Slot' = Slot
  BY <1>1 DEF Slot, BytesOf
<1>4. Ring' = Ring
  BY <1>3 DEF Ring, BUFFER_LAYERS, Cap, PoolCap
<1>5. \A l : IsFfn(l)' = IsFfn(l) /\ IsPinned(l)' = IsPinned(l)
  BY <1>1 DEF IsFfn, IsPinned, IsTable
<1>6. PinnedBytes' = PinnedBytes /\ TableBytes' = TableBytes
  BY <1>1 DEF PinnedBytes, TableBytes, Total, BytesOf, IsPinned, IsFfn, IsTable
<1> QED
  BY <1>2, <1>3, <1>4, <1>5, <1>6

\* The types the invariant gives, spelled out.
LEMMA StateType ==
  ASSUME run \in Runs, share \in [Layers -> Share], TypeOK
  PROVE  /\ \A t \in Tiers : took[t] \in Nat
         /\ \A t \in FastTiers : reserve[t] \in Nat /\ free[t] \in Int
         /\ pc # "aborted" => \A t \in FastTiers : free[t] \in Nat
         /\ DOMAIN took = Tiers /\ DOMAIN reserve = FastTiers /\ DOMAIN free = FastTiers
         /\ \A l \in Layers : /\ share[l] \in Share /\ share[l].of \in [Tiers -> Nat]
                              /\ share[l].total \in Nat
                              /\ \A t \in Tiers : share[l].of[t] \in Nat
         /\ kvLeft \in Nat /\ next \in 1 .. (Len(layers) + 1) /\ next \in Nat
         /\ staging \in Nat /\ headroom \in Nat /\ spill \in Nat /\ step \in Nat
<1>1. \A t \in Tiers : took[t] \in Nat
  BY DEF TypeOK
<1>2. /\ \A t \in FastTiers : reserve[t] \in Nat /\ free[t] \in Int
      /\ pc # "aborted" => \A t \in FastTiers : free[t] \in Nat
  BY DEF TypeOK
<1>3. DOMAIN took = Tiers /\ DOMAIN reserve = FastTiers /\ DOMAIN free = FastTiers
  BY DEF TypeOK
<1>4. \A l \in Layers : /\ share[l] \in Share /\ share[l].of \in [Tiers -> Nat]
                        /\ share[l].total \in Nat
  BY DEF Share
<1>5. \A l \in Layers : \A t \in Tiers : share[l].of[t] \in Nat
  BY <1>4
<1>6. /\ kvLeft \in Nat /\ next \in 1 .. (Len(layers) + 1)
      /\ staging \in Nat /\ headroom \in Nat /\ spill \in Nat /\ step \in 0 .. run.tokens
  BY DEF TypeOK
<1>7. next \in Nat /\ step \in Nat
  BY <1>6, RunFacts
<1> QED
  BY <1>1, <1>2, <1>3, <1>4, <1>5, <1>6, <1>7

\* The names of the tiers.
LEMMA TierNames ==
  /\ \A t \in Tiers : t \in {"gpu", "host", "cxl", "pool", "nand"}
  /\ \A t \in FastTiers : t \in {"gpu", "host", "cxl", "pool"} /\ t \in Tiers /\ t # "nand"
  /\ \A t \in DramTiers : t \in {"gpu", "host", "cxl"} /\ t \in FastTiers /\ t # "pool"
  /\ {"gpu", "host", "cxl"} \subseteq DramTiers
  /\ {"gpu", "host", "cxl", "pool"} \subseteq FastTiers
  /\ {"gpu", "host", "cxl", "pool", "nand"} \subseteq Tiers
BY DEF Tiers, FastTiers, DramTiers

\* A layer stored in one tier.
LEMMA InTierFacts ==
  ASSUME run \in Runs, NEW l \in Layers, NEW t \in Tiers
  PROVE  /\ InTier(l, t) \in Share /\ InTier(l, t).total = BytesOf(l)
         /\ \A u \in Tiers : InTier(l, t).of[u] = IF u = t THEN BytesOf(l) ELSE 0
         /\ SumOf(InTier(l, t).of) = BytesOf(l)
         /\ \A u \in Tiers : u # t => InTier(l, u) # InTier(l, t)
<1>1. BytesOf(l) \in Nat \ {0}
  BY RunFacts
<1>2. \A u, v \in Tiers : InTier(l, v).of[u] = IF u = v THEN BytesOf(l) ELSE 0
  BY DEF InTier, Nowhere
<1>3. InTier(l, t).of \in [Tiers -> Nat]
  BY <1>1 DEF InTier, Nowhere
<1>4. InTier(l, t) \in Share /\ InTier(l, t).total = BytesOf(l)
  BY <1>1, <1>3 DEF InTier, Share
<1>5. SumOf(InTier(l, t).of) = BytesOf(l)
  <2> DEFINE f == InTier(l, t).of
  <2>1. /\ f["gpu"] = (IF "gpu" = t THEN BytesOf(l) ELSE 0)
        /\ f["host"] = (IF "host" = t THEN BytesOf(l) ELSE 0)
        /\ f["cxl"] = (IF "cxl" = t THEN BytesOf(l) ELSE 0)
        /\ f["pool"] = (IF "pool" = t THEN BytesOf(l) ELSE 0)
        /\ f["nand"] = (IF "nand" = t THEN BytesOf(l) ELSE 0)
    BY <1>2, TierNames
  <2>2. t \in {"gpu", "host", "cxl", "pool", "nand"}
    BY TierNames
  <2> HIDE DEF f
  <2>3. SumOf(f) = BytesOf(l)
    BY <1>1, <2>1, <2>2 DEF SumOf
  <2> QED
    BY <2>3 DEF f
<1>6. ASSUME NEW u \in Tiers, u # t PROVE InTier(l, u) # InTier(l, t)
  BY <1>1, <1>2, <1>6
<1> QED
  BY <1>2, <1>4, <1>5, <1>6

-----------------------------------------------------------------------------
(* The weights a tier holds.                                               *)

\* The weights in a tier are a number of bytes.
LEMMA WeightsNat ==
  ASSUME run \in Runs, share \in [Layers -> Share], TypeOK, NEW t \in Tiers
  PROVE  WeightsIn(t) \in Nat
<1> DEFINE w == [l \in Layers |-> share[l].of[t]]
<1>1. IsFiniteSet(Layers) /\ \A l \in Layers : w[l] \in Nat
  BY StateType, RunFacts
<1>2. SumFunctionOnSet(w, Layers) \in Nat
  <2> HIDE DEF w
  <2> QED
    BY <1>1, SumNat
<1> QED
  BY <1>2 DEF WeightsIn

\* A tier no layer has bytes in holds no weights.
LEMMA WeightsNone ==
  ASSUME run \in Runs, NEW t \in Tiers, \A l \in Layers : share[l].of[t] = 0
  PROVE  WeightsIn(t) = 0
<1> DEFINE w == [l \in Layers |-> share[l].of[t]]
<1>1. IsFiniteSet(Layers) /\ \A l \in Layers : w[l] = 0
  BY RunFacts
<1>2. SumFunctionOnSet(w, Layers) = 0
  <2> HIDE DEF w
  <2> QED
    BY <1>1, SumZero
<1> QED
  BY <1>2 DEF WeightsIn

\* A step that moves no layer leaves each tier's weights.
LEMMA WeightsSame ==
  ASSUME run' = run, share' = share
  PROVE  \A t : WeightsIn(t)' = WeightsIn(t)
BY RunFixed DEF WeightsIn

\* Giving one layer another share changes the weights of a tier by the difference.
LEMMA WeightsChange ==
  ASSUME run \in Runs, share \in [Layers -> Share], TypeOK, run' = run, NEW l \in Layers,
         NEW sh \in Share, share' = [share EXCEPT ![l] = sh], NEW t \in Tiers
  PROVE  WeightsIn(t)' = WeightsIn(t) - share[l].of[t] + sh.of[t]
<1>1. PICK g : g = share'
  OBVIOUS
<1> DEFINE w == [j \in Layers |-> share[j].of[t]]
           v == [j \in Layers |-> g[j].of[t]]
<1>2. WeightsIn(t) = SumFunctionOnSet(w, Layers) /\ WeightsIn(t)' = SumFunctionOnSet(v, Layers)
  BY <1>1, RunFixed DEF WeightsIn
<1>3. /\ \A j \in Layers : w[j] \in Int /\ w[j] = share[j].of[t]
      /\ IsFiniteSet(Layers)
  <2>1. \A j \in Layers : share[j].of[t] \in Nat
    BY StateType
  <2>2. IsFiniteSet(Layers)
    BY RunFacts, Zenon
  <2> QED
    BY <2>1, <2>2
<1>4. sh.of[t] \in Int
  BY DEF Share
<1>5. \A j \in Layers : v[j] = IF j = l THEN sh.of[t] ELSE w[j]
  BY <1>1
<1>6. \A j \in Layers : v[j] \in Int /\ (j # l => v[j] = w[j])
  BY <1>3, <1>4, <1>5
<1>7. SumFunctionOnSet(v, Layers) = SumFunctionOnSet(w, Layers) - w[l] + v[l]
  <2> HIDE DEF w, v
  <2> QED
    BY <1>3, <1>6, SumChange
<1> QED
  BY <1>2, <1>3, <1>5, <1>7

\* FirstFit finds a tier of its list with room for the layer, or NAND.
LEMMA FirstFitFits ==
  ASSUME NEW l, NEW tiers, DOMAIN tiers \subseteq Nat
  PROVE  \/ FirstFit(l, tiers) = "nand"
         \/ \E n \in DOMAIN tiers : /\ FirstFit(l, tiers) = tiers[n]
                                    /\ BytesOf(l) <= free[tiers[n]]
<1> DEFINE fits == {n \in DOMAIN tiers : BytesOf(l) <= free[tiers[n]]}
<1>1. CASE fits = {}
  BY <1>1 DEF FirstFit
<1>2. CASE fits # {}
  <2>1. \E z \in fits : \A y \in fits : z <= y
    BY <1>2, LeastNatural
  <2>2. Min(fits) \in fits
    <3> HIDE DEF fits
    <3> QED
      BY <2>1 DEF Min
  <2>3. FirstFit(l, tiers) = tiers[Min(fits)]
    BY <1>2 DEF FirstFit
  <2> QED
    BY <2>2, <2>3
<1> QED
  BY <1>1, <1>2

\* Placing a layer that is on NAND in a tier it fits keeps the ledger balanced.
LEMMA PlaceWholeKeeps ==
  ASSUME run \in Runs, share \in [Layers -> Share], TypeOK, pc # "aborted", run' = run,
         NEW l \in Layers, Kept(l), NEW t \in DramTiers \cup {"nand"},
         t # "nand" => BytesOf(l) <= free[t], PlaceWhole(l, t)
  PROVE  /\ share' \in [Layers -> Share] /\ free' \in [FastTiers -> Nat]
         /\ share'[l] = InTier(l, t)
         /\ \A j \in Layers : j # l => share'[j] = share[j]
         /\ \A u \in FastTiers : u # t => free'[u] = free[u]
         /\ \A u \in DramTiers : free'[u] + WeightsIn(u)' = free[u] + WeightsIn(u)
         /\ took' = took /\ reserve' = reserve /\ Balanced => Balanced'
<1>0. t \in Tiers /\ "nand" \in Tiers /\ DramTiers \subseteq Tiers /\ DramTiers \subseteq FastTiers
      /\ "nand" \notin FastTiers
  BY TierNames
<1>1. /\ InTier(l, t) \in Share
      /\ \A u \in Tiers : InTier(l, t).of[u] = IF u = t THEN BytesOf(l) ELSE 0
      /\ \A u \in Tiers : InTier(l, "nand").of[u] = IF u = "nand" THEN BytesOf(l) ELSE 0
      /\ BytesOf(l) \in Nat
      /\ SumOf(InTier(l, t).of) = BytesOf(l) /\ InTier(l, t).total = BytesOf(l)
  BY <1>0, InTierFacts, RunFacts, SMTT(60)
<1>2. /\ share' = [share EXCEPT ![l] = InTier(l, t)]
      /\ free' = IF t = "nand" THEN free ELSE [free EXCEPT ![t] = @ - BytesOf(l)]
  BY DEF PlaceWhole
<1>3. /\ share' \in [Layers -> Share] /\ share'[l] = InTier(l, t)
      /\ \A j \in Layers : j # l => share'[j] = share[j]
  BY <1>1, <1>2
<1>4. free \in [FastTiers -> Nat]
  BY DEF TypeOK
<1>5. \A u \in FastTiers : free'[u] = free[u] - (IF u = t THEN BytesOf(l) ELSE 0)
  BY <1>0, <1>1, <1>2, <1>4
<1>6. free' \in [FastTiers -> Nat]
  <2>1. DOMAIN free' = FastTiers /\ free' = [u \in FastTiers |-> free'[u]]
    BY <1>2, <1>4
  <2>2. \A u \in FastTiers : free'[u] \in Nat
    BY <1>0, <1>1, <1>4, <1>5
  <2> QED
    BY <2>1, <2>2
<1>7. ASSUME NEW u \in DramTiers
      PROVE  /\ WeightsIn(u)' = WeightsIn(u) + (IF u = t THEN BytesOf(l) ELSE 0)
             /\ WeightsIn(u) \in Nat
  <2>1. WeightsIn(u)' = WeightsIn(u) - share[l].of[u] + InTier(l, t).of[u]
    BY <1>0, <1>1, <1>2, WeightsChange
  <2>2. share[l].of[u] = 0 /\ InTier(l, t).of[u] = IF u = t THEN BytesOf(l) ELSE 0
    BY <1>0, <1>1 DEF Kept
  <2>3. WeightsIn(u) \in Nat
    BY <1>0, WeightsNat
  <2> QED
    BY <1>1, <2>1, <2>2, <2>3
<1>8. \A u \in DramTiers : free'[u] + WeightsIn(u)' = free[u] + WeightsIn(u)
  BY <1>0, <1>1, <1>4, <1>5, <1>7
<1>9. ASSUME took' = took, reserve' = reserve, Balanced PROVE Balanced'
  <2>1. /\ \A u \in DramTiers : Cap(u)' = Cap(u)
        /\ Layers' = Layers /\ \A j : BytesOf(j)' = BytesOf(j)
    BY RunFixed
  <2>2. ASSUME NEW u \in DramTiers
        PROVE  took'[u] + reserve'[u] + free'[u] + WeightsIn(u)' = Cap(u)
    <3>1. took[u] + reserve[u] + free[u] + WeightsIn(u) = Cap(u)
      BY <1>9 DEF Balanced
    <3>2. /\ took[u] \in Nat /\ reserve[u] \in Nat /\ free[u] \in Nat /\ WeightsIn(u) \in Nat
          /\ free'[u] \in Nat
      BY <1>0, <1>4, <1>6, <1>7, StateType
    <3>3. WeightsIn(u)' \in Nat
      BY <1>1, <1>7
    <3>4. free'[u] + WeightsIn(u)' = free[u] + WeightsIn(u)
      BY <1>8
    <3>5. took'[u] = took[u] /\ reserve'[u] = reserve[u]
      BY <1>9
    <3> QED
      BY <3>1, <3>2, <3>3, <3>4, <3>5
  <2>3. \A j \in Layers : /\ SumOf(share'[j].of) = share'[j].total
                          /\ share'[j].total = BytesOf(j)
    BY <1>1, <1>3, <1>9 DEF Balanced
  <2>4. PICK s2 : s2 = share'
    OBVIOUS
  <2>5. \A j \in Layers : SumOf(s2[j].of) = s2[j].total /\ s2[j].total = BytesOf(j)
    BY <2>3, <2>4
  <2> QED
    BY <2>1, <2>2, <2>4, <2>5 DEF Balanced, SumOf
<1>10. \A u \in FastTiers : u # t => free'[u] = free[u]
  BY <1>4, <1>5
<1> QED
  BY <1>3, <1>6, <1>8, <1>9, <1>10

\* Giving one tier other bytes changes the sum by the difference.
Put(f, j, v) == [f EXCEPT ![j] = v]
LEMMA SumOfPut ==
  ASSUME NEW f \in [Tiers -> Nat], NEW j \in Tiers, NEW v \in Nat
  PROVE  /\ Put(f, j, v) \in [Tiers -> Nat]
         /\ SumOf(Put(f, j, v)) = SumOf(f) - f[j] + v
         /\ SumOf(f) \in Nat
<1>0. PICK g : g = Put(f, j, v)
  OBVIOUS
<1>1. /\ "gpu" \in Tiers /\ "host" \in Tiers /\ "cxl" \in Tiers /\ "pool" \in Tiers
      /\ "nand" \in Tiers /\ j \in {"gpu", "host", "cxl", "pool", "nand"}
  BY TierNames
<1>2. g \in [Tiers -> Nat] /\ \A t \in Tiers : g[t] = IF t = j THEN v ELSE f[t]
  BY <1>0 DEF Put
<1>3. /\ f["gpu"] \in Nat /\ f["host"] \in Nat /\ f["cxl"] \in Nat /\ f["pool"] \in Nat
      /\ f["nand"] \in Nat
  BY <1>1
<1>4. /\ g["gpu"] = (IF "gpu" = j THEN v ELSE f["gpu"])
      /\ g["host"] = (IF "host" = j THEN v ELSE f["host"])
      /\ g["cxl"] = (IF "cxl" = j THEN v ELSE f["cxl"])
      /\ g["pool"] = (IF "pool" = j THEN v ELSE f["pool"])
      /\ g["nand"] = (IF "nand" = j THEN v ELSE f["nand"])
  BY <1>1, <1>2
<1>5. SumOf(g) = SumOf(f) - f[j] + v
  BY <1>1, <1>3, <1>4 DEF SumOf
<1>6. SumOf(f) \in Nat
  BY <1>3 DEF SumOf
<1> QED
  BY <1>0, <1>2, <1>5, <1>6, Zenon

\* The tiers a script reads the cache from.
LEMMA TiersReadAre ==
  ASSUME run \in Runs
  PROVE  /\ "nand" \in KvTiersRead /\ KvTiersRead \subseteq Tiers
         /\ run.policy = "flexgen" => KvTiersRead = {"gpu", "host", "cxl", "nand"}
         /\ run.policy = "itme" => KvTiersRead = {"gpu", "host", "cxl", "nand"}
         /\ run.policy = "lia" => KvTiersRead = {"host", "cxl", "nand"}
         /\ run.policy = "dynamic" => KvTiersRead = {"host", "cxl", "nand"}
         /\ run.policy = "aimpod" => KvTiersRead = {"cxl", "nand"}
         /\ run.policy = "llmflash" => KvTiersRead = {"pool", "nand"}
         /\ run.policy # "llmflash" => KvTiersRead \subseteq DramTiers \cup {"nand"}
<1>1. run.policy \in {"flexgen", "lia", "aimpod", "itme", "dynamic", "llmflash"}
  BY RunFacts DEF Policies
<1>2. /\ run.policy = "flexgen" => KvTiersRead = {"gpu", "host", "cxl", "nand"}
      /\ run.policy = "itme" => KvTiersRead = {"gpu", "host", "cxl", "nand"}
  BY DEF KvTiersRead
<1>3. /\ run.policy = "lia" => KvTiersRead = {"host", "cxl", "nand"}
      /\ run.policy = "dynamic" => KvTiersRead = {"host", "cxl", "nand"}
  BY Zenon DEF KvTiersRead
<1>4. run.policy = "aimpod" => KvTiersRead = {"cxl", "nand"}
  BY Zenon DEF KvTiersRead
<1>5. run.policy = "llmflash" => KvTiersRead = {"pool", "nand"}
  BY Zenon DEF KvTiersRead
<1>6. {"gpu", "host", "cxl", "pool", "nand"} \subseteq Tiers /\ DramTiers = {"gpu", "host", "cxl"}
  BY TierNames DEF DramTiers
<1> QED
  BY <1>1, <1>2, <1>3, <1>4, <1>5, <1>6

-----------------------------------------------------------------------------
(* The cache's part of the invariant.                                      *)

\* It depends on the cache alone, and on whether the cascade has run.
LEMMA KvHeld ==
  ASSUME KvInv, UNCHANGED <<run, kvVars>>, pc # "cascade", pc' # "cascade", NoCache' <=> NoCache
  PROVE  KvInv'
<1>1. took' = took /\ tail' = tail /\ run' = run
  BY DEF kvVars
<1>2. KvTiersRead' = KvTiersRead /\ KvReserved' = KvReserved /\ \A t : Cap(t)' = Cap(t)
  BY <1>1, RunFixed
<1>3. /\ \A t \in Tiers \ KvTiersRead : took'[t] = 0
      /\ tail' \in KvTiersRead \cup {"none"}
      /\ run'.policy # "itme" => \A t \in FastTiers : took'[t] <= Cap(t)'
      /\ NoCache' => took' = Nowhere
      /\ ~NoCache' => SumOf(took)' = KvReserved
  <2>1. SumOf(took)' = SumOf(took)
    BY <1>1 DEF SumOf
  <2> QED
    BY <1>1, <1>2, <2>1 DEF KvInv
<1> QED
  BY <1>2, <1>3 DEF KvInv, SumOf, Nowhere

\* A cascade over tiers the script reads, none of them twice, starts with all to place.
LEMMA KvStarts ==
  ASSUME run \in Runs, KvInv, NoCache, run' = run, NEW tiers \in Seq(FastTiers \X Int),
         StartCascade(tiers),
         \A n \in DOMAIN tiers :
           /\ tiers[n][1] \in KvTiersRead \ {"nand"}
           /\ run.policy # "itme" => tiers[n][2] <= Cap(tiers[n][1])
           /\ \A m \in DOMAIN tiers : tiers[m][1] = tiers[n][1] => m = n
  PROVE  KvInv' /\ kvLeft' \in Nat /\ took' = took /\ tail' = tail
<1>1. /\ pc' = "cascade" /\ cascade' = tiers /\ kvLeft' = KvReserved
      /\ took' = took /\ tail' = tail
  BY DEF StartCascade
<1>2. KvTiersRead' = KvTiersRead /\ KvReserved' = KvReserved /\ \A t : Cap(t)' = Cap(t)
  BY RunFixed
<1>3. KvReserved \in Nat /\ KvTiersRead \subseteq Tiers
  BY KvReservedNat, TiersReadAre
<1>4. took = Nowhere /\ took[ "nand"] = 0 /\ \A t \in Tiers : took[t] = 0
  BY TierNames DEF KvInv, Nowhere
<1>5. SumOf(took) = 0
  BY <1>4, TierNames DEF SumOf
<1>6. kvLeft' + SumOf(took') = KvReserved /\ SumOf(took)' = SumOf(took')
  BY <1>1, <1>3, <1>5 DEF SumOf
<1>7. CascadeOk'
  <2>1. PICK c : c = cascade'
    OBVIOUS
  <2>2. PICK h : h = took'
    OBVIOUS
  <2>3. c = tiers /\ h = took
    BY <1>1, <2>1, <2>2
  <2>4. \A n \in DOMAIN c : h[c[n][1]] = 0
    BY <1>3, <1>4, <2>3
  <2>5. \A n \in DOMAIN c : /\ c[n][1] \in KvTiersRead' \ {"nand"}
                            /\ run'.policy # "itme" => c[n][2] <= Cap(c[n][1])'
                            /\ \A m \in DOMAIN c : c[m][1] = c[n][1] => m = n
    BY <1>2, <2>3
  <2> QED
    BY <2>1, <2>2, <2>3, <2>4, <2>5 DEF CascadeOk, Cap, PoolCap
<1>8. ~NoCache'
  BY <1>1 DEF NoCache, At
<1>9. /\ \A t \in Tiers \ KvTiersRead : took'[t] = 0
      /\ tail' \in KvTiersRead \cup {"none"}
      /\ run'.policy # "itme" => \A t \in FastTiers : took'[t] <= Cap(t)'
  BY <1>1, <1>2 DEF KvInv
<1> QED
  BY <1>1, <1>2, <1>3, <1>4, <1>6, <1>7, <1>8, <1>9 DEF KvInv

\* What a tier takes fits it, and what is left is still to place.
LEMMA TakeFits ==
  ASSUME kvLeft \in Nat, NEW room \in Int
  PROVE  /\ TakeOf(room) \in Nat /\ kvLeft - TakeOf(room) \in Nat
         /\ TakeOf(room) <= Larger(0, room)
BY DEF TakeOf, Smaller, Larger

\* One turn of the cascade's loop moves bytes from what is left to one tier.
LEMMA KvTakes ==
  ASSUME run \in Runs, share \in [Layers -> Share], TypeOK, KvInv, CascadeTier
  PROVE  KvInv' /\ kvLeft' \in Nat /\ took' \in [Tiers -> Nat] /\ tail' \in Tiers \cup {"none"}
<1>1. /\ pc = "cascade" /\ cascade # << >> /\ pc' = pc /\ run' = run /\ cascade' = Tail(cascade)
  BY DEF CascadeTier
<1>2. /\ kvLeft + SumOf(took) = KvReserved /\ took["nand"] = 0 /\ CascadeOk
  BY <1>1 DEF KvInv
<1>3. cascade \in Seq(FastTiers \X Int) /\ cascade \in Seq(FastTiers \X Int) \ {<< >>}
  BY <1>1, <1>2 DEF CascadeOk
<1>4. /\ 1 \in DOMAIN cascade /\ Head(cascade) = cascade[1] /\ Head(cascade) \in FastTiers \X Int
      /\ Tail(cascade) \in Seq(FastTiers \X Int)
      /\ \A n \in DOMAIN Tail(cascade) : /\ n + 1 \in DOMAIN cascade
                                         /\ Tail(cascade)[n] = cascade[n + 1]
                                         /\ n \in Nat /\ n >= 1
  BY <1>1, <1>3, SMTT(60)
<1> DEFINE key == Head(cascade)[1]
           room == Head(cascade)[2]
           take == TakeOf(room)
<1>5. key \in FastTiers /\ room \in Int /\ key \in Tiers /\ key # "nand"
  BY <1>4, TierNames
<1>6. /\ took' = [took EXCEPT ![key] = take]
      /\ tail' = IF take > 0 THEN key ELSE tail
      /\ kvLeft' = kvLeft - take
  BY DEF CascadeTier
<1>7. /\ key \in KvTiersRead \ {"nand"} /\ took[key] = 0
      /\ run.policy # "itme" => room <= Cap(key)
      /\ \A m \in DOMAIN cascade : cascade[m][1] = key => m = 1
  BY <1>2, <1>4 DEF CascadeOk
<1>8. kvLeft \in Nat /\ took \in [Tiers -> Nat] /\ tail \in Tiers \cup {"none"}
  BY DEF TypeOK
<1>9. take \in Nat /\ kvLeft - take \in Nat /\ take <= Larger(0, room)
  <2> HIDE DEF room
  <2> QED
    BY <1>5, <1>8, TakeFits
<1>10. /\ took' \in [Tiers -> Nat] /\ SumOf(took') = SumOf(took) + take
       /\ SumOf(took) \in Nat
  <2> HIDE DEF key, take
  <2>1. PICK g : g = took'
    OBVIOUS
  <2>2. /\ took \in [Tiers -> Nat] /\ key \in Tiers /\ take \in Nat
        /\ g = Put(took, key, take)
    BY <1>5, <1>6, <1>8, <1>9, <2>1 DEF Put
  <2>3. /\ g \in [Tiers -> Nat] /\ SumOf(took) \in Nat
        /\ SumOf(g) = SumOf(took) - took[key] + take
    BY <2>2, SumOfPut, Zenon
  <2> QED
    BY <2>1, <2>3, <1>7, <1>9
<1> HIDE DEF key, room, take
<1>11. SumOf(took') = SumOf(took) + take /\ SumOf(took)' = SumOf(took')
  BY <1>10 DEF SumOf
<1>12. kvLeft' + SumOf(took)' = KvReserved
  BY <1>2, <1>6, <1>8, <1>9, <1>10, <1>11
<1>13. KvTiersRead' = KvTiersRead /\ KvReserved' = KvReserved /\ \A t : Cap(t)' = Cap(t)
  BY <1>1, RunFixed
<1>14. \A t \in Tiers : took'[t] = IF t = key THEN take ELSE took[t]
  BY <1>6, <1>8
<1>15. \A t \in Tiers \ KvTiersRead : took'[t] = 0
  BY <1>7, <1>14 DEF KvInv
<1>16. tail' \in KvTiersRead \cup {"none"} /\ tail' \in Tiers \cup {"none"}
  BY <1>5, <1>6, <1>7, <1>8 DEF KvInv
<1>17. run'.policy # "itme" => \A t \in FastTiers : took'[t] <= Cap(t)'
  <2> SUFFICES ASSUME run.policy # "itme", NEW t \in FastTiers PROVE took'[t] <= Cap(t)
    BY <1>1, <1>13
  <2>1. t \in Tiers /\ took[t] <= Cap(t) /\ Cap(t) \in Nat
    BY TierNames, CapNat DEF KvInv
  <2>2. t = key => take <= Cap(t)
    BY <1>5, <1>7, <1>9, <2>1 DEF Larger
  <2> QED
    BY <1>14, <2>1, <2>2
<1>18. took'["nand"] = 0
  BY <1>2, <1>5, <1>14, TierNames
<1>19. CascadeOk'
  <2>1. PICK c : c = cascade'
    OBVIOUS
  <2>2. PICK h : h = took'
    OBVIOUS
  <2>3. c = Tail(cascade)
    BY <1>1, <2>1
  <2> SUFFICES ASSUME NEW n \in DOMAIN c
               PROVE  /\ c[n][1] \in KvTiersRead \ {"nand"} /\ h[c[n][1]] = 0
                      /\ run.policy # "itme" => c[n][2] <= Cap(c[n][1])
                      /\ \A m \in DOMAIN c : c[m][1] = c[n][1] => m = n
    BY <1>1, <1>4, <1>13, <2>1, <2>2, <2>3 DEF CascadeOk, Cap, PoolCap
  <2>4. n + 1 \in DOMAIN cascade /\ c[n] = cascade[n + 1] /\ n \in Nat /\ n >= 1
    BY <1>4, <2>3
  <2>5. /\ c[n][1] \in KvTiersRead \ {"nand"} /\ took[c[n][1]] = 0
        /\ run.policy # "itme" => c[n][2] <= Cap(c[n][1])
    BY <1>2, <2>4 DEF CascadeOk
  <2>6. c[n][1] # key
    <3>1. n + 1 # 1
      BY <2>4
    <3> QED
      BY <1>7, <2>4, <3>1
  <2>7. c[n][1] \in Tiers
    BY <2>5, TiersReadAre
  <2>8. h[c[n][1]] = 0
    BY <1>14, <2>2, <2>5, <2>6, <2>7
  <2>9. ASSUME NEW m \in DOMAIN c, c[m][1] = c[n][1] PROVE m = n
    <3>1. m + 1 \in DOMAIN cascade /\ c[m] = cascade[m + 1] /\ m \in Nat
      BY <1>4, <2>3
    <3>2. m + 1 = n + 1
      BY <1>2, <2>4, <2>9, <3>1 DEF CascadeOk
    <3> QED
      BY <2>4, <3>1, <3>2
  <2> QED
    BY <2>5, <2>8, <2>9
<1>20. ~NoCache'
  BY <1>1 DEF NoCache, At
<1>21. pc' = "cascade" /\ kvLeft' \in Nat
  BY <1>1, <1>6, <1>9
<1> QED
  BY <1>10, <1>12, <1>13, <1>15, <1>16, <1>17, <1>18, <1>19, <1>20, <1>21 DEF KvInv

\* The end of the cascade puts what is left in NAND, and the reservation is all placed.
LEMMA KvRests ==
  ASSUME run \in Runs, share \in [Layers -> Share], TypeOK, KvInv, CascadeRest
  PROVE  KvInv' /\ kvLeft' \in Nat /\ took' \in [Tiers -> Nat] /\ tail' \in Tiers \cup {"none"}
<1>1. /\ pc = "cascade" /\ pc' = "kvPlaced" /\ run' = run /\ kvLeft' = 0
      /\ took' = [took EXCEPT !["nand"] = kvLeft]
      /\ tail' = IF kvLeft > 0 THEN "nand" ELSE tail
  BY DEF CascadeRest
<1>2. kvLeft + SumOf(took) = KvReserved /\ took["nand"] = 0
  BY <1>1 DEF KvInv
<1>3. kvLeft \in Nat /\ took \in [Tiers -> Nat] /\ tail \in Tiers \cup {"none"}
  BY DEF TypeOK
<1>4. /\ took' \in [Tiers -> Nat] /\ SumOf(took) \in Nat
      /\ SumOf(took') = SumOf(took) - took["nand"] + kvLeft
  <2>1. PICK g : g = took'
    OBVIOUS
  <2>2. "nand" \in Tiers
    BY TierNames
  <2>3. g = Put(took, "nand", kvLeft)
    BY <1>1, <2>1 DEF Put
  <2>4. /\ g \in [Tiers -> Nat] /\ SumOf(took) \in Nat
        /\ SumOf(g) = SumOf(took) - took["nand"] + kvLeft
    BY <1>3, <2>2, <2>3, SumOfPut, Zenon
  <2> QED
    BY <2>1, <2>4
<1>5. SumOf(took)' = KvReserved
  <2>1. SumOf(took)' = SumOf(took')
    BY <1>1 DEF SumOf
  <2> QED
    BY <2>1, <1>2, <1>3, <1>4
<1>6. KvTiersRead' = KvTiersRead /\ KvReserved' = KvReserved /\ \A t : Cap(t)' = Cap(t)
  BY <1>1, RunFixed
<1>7. "nand" \in KvTiersRead /\ \A t \in FastTiers : t # "nand" /\ t \in Tiers
  BY TiersReadAre, TierNames
<1>8. \A t \in Tiers : t # "nand" => took'[t] = took[t]
  BY <1>1, <1>3
<1>9. /\ \A t \in Tiers \ KvTiersRead : took'[t] = 0
      /\ tail' \in KvTiersRead \cup {"none"} /\ tail' \in Tiers \cup {"none"}
      /\ run'.policy # "itme" => \A t \in FastTiers : took'[t] <= Cap(t)'
  BY <1>1, <1>3, <1>6, <1>7, <1>8, TierNames DEF KvInv
<1>10. ~NoCache' /\ kvLeft' \in Nat
  BY <1>1 DEF NoCache, At
<1> QED
  BY <1>1, <1>4, <1>5, <1>6, <1>9, <1>10 DEF KvInv

-----------------------------------------------------------------------------
(* The steps that time nothing, and the decode steps.                      *)

\* A prefetcher that holds nothing, or whose layers stay where they are stored, and
\* that takes no step, keeps its part of the invariant.
LEMMA PhaseHeld ==
  ASSUME PhaseInv, UNCHANGED <<run, phaseVars>>,
         arrival = << >> \/ (share' = share /\ InPass')
  PROVE  PhaseInv'
<1>1. /\ at' = at /\ ahead' = ahead /\ elapsed' = elapsed /\ pf_resident' = pf_resident
      /\ arrival' = arrival /\ link_busy_until' = link_busy_until
  BY DEF phaseVars, prefetcherVars
<1>2. Layers' = Layers /\ \A l, t : InTier(l, t)' = InTier(l, t)
  BY RunFixed
<1>3. PICK sh : sh = share'
  OBVIOUS
<1>4. \A l \in DOMAIN arrival : sh[l] # InTier(l, "host") /\ sh[l] # InTier(l, "cxl")
  BY <1>3 DEF PhaseInv, StoredIn
<1>5. \A l \in DOMAIN arrival' : ~StoredIn(l, "host")' /\ ~StoredIn(l, "cxl")'
  BY <1>1, <1>2, <1>3, <1>4 DEF StoredIn
<1>6. WaitsForArrival'
  BY <1>1 DEF PhaseInv, WaitsForArrival
<1>7. ~InPass' => arrival' = << >>
  BY <1>1
<1> QED
  BY <1>1, <1>2, <1>5, <1>6, <1>7 DEF PhaseInv

\* Before the decode steps nothing has been timed.
LEMMA QuietSteps ==
  ASSUME run \in Runs, StepInv, PhaseInv, UNCHANGED <<run, decodeVars, phaseVars>>,
         ~Placing, ~Placing'
  PROVE  StepInv' /\ PhaseInv'
<1>1. step' = step /\ spill' = spill /\ units' = units
  BY DEF decodeVars
<1>2. step = 0
  <2>1. ~(step > 0) /\ step \in Nat
    BY DEF StepInv
  <2> QED
    BY <2>1
<1>3. pc' # "decode"
  BY DEF Placing
<1>4. ReadsCoverLayer'
  BY <1>1 DEF StepInv, ReadsCoverLayer, Whole, Total
<1>5. BytesAccounted' /\ StagingIsBacked'
  BY DEF BytesAccounted, StagingIsBacked
<1>6. StepInv'
  BY <1>1, <1>2, <1>3, <1>4, <1>5 DEF StepInv
<1>7. arrival = << >>
  BY DEF PhaseInv, InPass
<1> QED
  BY <1>6, <1>7, PhaseHeld

\* Once placement is over its part of the invariant says no more.
LEMMA PlacementOver ==
  ASSUME pc' \in {"decode", "done", "aborted"}
  PROVE  PlaceInv'
BY DEF PlaceInv, FreshInv, Untouched, LedgerInv, LedgerPhase, OrderInv, ItmeInv

\* What a tier holds depends on the placement alone.
LEMMA PlacedSame ==
  ASSUME run' = run, share' = share, took' = took
  PROVE  \A t : Placed(t)' = Placed(t)
<1>1. /\ Layers' = Layers /\ \A l : BytesOf(l)' = BytesOf(l) /\ IsTable(l)' = IsTable(l)
      /\ Denominator' = Denominator /\ \A t : Cap(t)' = Cap(t)
  BY RunFixed
<1>2. \A l, t : PlacedOf(l, t)' = PlacedOf(l, t)
  BY <1>1 DEF PlacedOf
<1>3. PoolLeft' = PoolLeft
  BY <1>1 DEF PoolLeft, LeftByKv
<1>4. /\ PinnedBytes' = PinnedBytes /\ TableBytes' = TableBytes
      /\ \A l : IsFfn(l)' = IsFfn(l) /\ IsPinned(l)' = IsPinned(l)
  BY EngineFixed
<1>5. Remaining' = Remaining
  BY <1>3, <1>4 DEF Remaining
<1>6. PinnedIn' = PinnedIn /\ WindowIn' = WindowIn
  BY <1>3, <1>4, <1>5 DEF PinnedIn, WindowIn
<1>7. TableIn' = TableIn
  BY <1>4, <1>5, <1>6 DEF TableIn
<1>8. PooledWeights' = PooledWeights
  BY <1>1, <1>4, <1>6, <1>7 DEF PooledWeights
<1> QED
  BY <1>1, <1>2, <1>8 DEF Placed, Total

\* A product of naturals.
LEMMA ProductNat ==
  ASSUME NEW a \in Nat, NEW b \in Nat
  PROVE  a * b \in Nat
OBVIOUS

\* The displaced bytes of a step are a natural.
LEMMA SpillNat ==
  ASSUME run \in Runs, share \in [Layers -> Share], TypeOK, NEW now \in Nat
  PROVE  kv_growth_spill(now) \in Nat
<1>1. now - KvReserved - headroom \in Int
  BY StateType, KvReservedNat, SMTT(60)
<1> QED
  BY <1>1 DEF kv_growth_spill, Larger

\* A decode step that reads each layer and the cache whole keeps what is placed, charges
\* the growth of the cache with its token, and ends the run at the last one.
LEMMA DecodeKeeps ==
  ASSUME run \in Runs, share \in [Layers -> Share], TypeOK, StepInv, pc = "decode",
         NEW weightsOf, NEW kv, DecodeStep(weightsOf, kv),
         \A l \in Layers : Whole(weightsOf[l]), Whole(kv)
  PROVE  /\ StepInv' /\ TypeOK' /\ share' \in [Layers -> Share]
         /\ pc' \in {"decode", "done"} /\ PlaceInv'
         /\ UNCHANGED <<run, kvVars, placeVars>>
<1>1. /\ units' = [l \in Layers |-> [weights |-> weightsOf[l], kv |-> kv]]
      /\ spill' = kv_growth_spill(KvAt(run.prefill + step + 1))
      /\ step' = step + 1 /\ pc' = (IF step + 1 = run.tokens THEN "done" ELSE pc)
      /\ run' = run /\ staging' = staging /\ headroom' = headroom
      /\ UNCHANGED <<kvVars, placeVars>>
  BY DEF DecodeStep
<1>2. /\ cascade' = cascade /\ kvLeft' = kvLeft /\ took' = took /\ tail' = tail
      /\ free' = free /\ reserve' = reserve /\ share' = share /\ next' = next
  BY <1>1 DEF kvVars, placeVars
<1>3. /\ Layers' = Layers /\ layers' = layers /\ KvReserved' = KvReserved
      /\ \A n : KvAt(n)' = KvAt(n) /\ \A t : Cap(t)' = Cap(t)
      /\ Denominator' = Denominator /\ MyTiers' = MyTiers
  BY <1>1, RunFixed
<1>4. \A t : Placed(t)' = Placed(t)
  BY <1>1, <1>2, PlacedSame
<1>5. Placing /\ Placing' /\ pc' \in {"decode", "done"}
  BY <1>1 DEF Placing
<1>6. BytesAccounted'
  BY <1>2, <1>3, <1>4, <1>5 DEF StepInv, BytesAccounted
<1>7. StagingIsBacked'
  BY <1>1, <1>2, <1>3, <1>5 DEF StepInv, StagingIsBacked, Total
<1>8. ReadsCoverLayer'
  <2>1. PICK u : u = units'
    OBVIOUS
  <2>2. DOMAIN u = Layers /\ \A l \in Layers : u[l].weights = weightsOf[l] /\ u[l].kv = kv
    BY <1>1, <2>1
  <2>3. \A l \in DOMAIN u : Whole(u[l].weights) /\ Whole(u[l].kv)
    BY <2>2
  <2> QED
    BY <2>1, <2>3 DEF ReadsCoverLayer, Whole, Total
<1>9. /\ step \in Nat /\ run.tokens \in Nat /\ step < run.tokens /\ run.prefill \in Nat
  BY StateType, RunFacts DEF StepInv
<1>10. step' \in 0 .. run.tokens /\ (pc' = "decode" => step' < run'.tokens) /\ step' > 0
  BY <1>1, <1>9
<1>11. spill' = kv_growth_spill(KvAt(run.prefill + step))'
  <2>1. run.prefill + step + 1 = run'.prefill + step'
    BY <1>1, <1>9, SMTT(60)
  <2>2. KvAt(run.prefill + step)' = KvAt(run.prefill + step + 1)
    BY <1>1, <1>3, <2>1 DEF KvAt, KvPerToken
  <2> QED
    BY <1>1, <1>2, <1>3, <2>2 DEF kv_growth_spill
<1>12. /\ tail' \in FastTiers => headroom' = free'[tail']
       /\ \A l \in Layers' : SumOf(share'[l].of) = share'[l].total
       /\ run'.policy = "llmflash" =>
            \A l \in Layers' : \A t \in DramTiers : share'[l].of[t] = 0
  BY <1>1, <1>2, <1>3, <1>5 DEF StepInv
<1>13. StepInv'
  BY <1>5, <1>6, <1>7, <1>8, <1>10, <1>11, <1>12 DEF StepInv, SumOf
<1>14. spill' \in Nat
  <2>1. KvAt(run.prefill + (step + 1)) \in Nat /\ step + 1 \in Nat
    BY <1>9, KvAtNat
  <2>2. run.prefill + (step + 1) = run.prefill + step + 1
    BY <1>9
  <2> QED
    BY <1>1, <2>1, <2>2, SpillNat
<1>15. TypeOK'
  BY <1>1, <1>2, <1>3, <1>5, <1>10, <1>14 DEF TypeOK
<1>16. PlaceInv'
  BY <1>5, PlacementOver
<1> QED
  BY <1>1, <1>2, <1>5, <1>13, <1>15, <1>16

-----------------------------------------------------------------------------
(* What a step reads.                                                      *)

\* The sum of a split.
LEMMA WholeIs ==
  ASSUME NEW sh, \A t \in Tiers : sh.of[t] \in Int
  PROVE  Whole(sh) <=> SumOf(sh.of) = sh.total
<1> DEFINE f == [t \in Tiers |-> sh.of[t]]
<1>1. \A t \in Tiers : f[t] = sh.of[t] /\ f[t] \in Int
  OBVIOUS
<1>2. SumFunctionOnSet(f, Tiers) = SumOf(f)
  <2> HIDE DEF f
  <2> QED
    BY <1>1, DramTiersSum
<1>3. SumOf(f) = SumOf(sh.of)
  <2> HIDE DEF f
  <2> QED
    BY <1>1, TierNames DEF SumOf
<1> QED
  BY <1>2, <1>3 DEF Whole, Total

\* A layer's share, and a cache unit, read the whole.
LEMMA ShareWhole ==
  ASSUME run \in Runs, share \in [Layers -> Share], TypeOK, StepInv, Placing
  PROVE  \A l \in Layers : Whole(share[l])
<1> SUFFICES ASSUME NEW l \in Layers PROVE Whole(share[l])
  OBVIOUS
<1>1. \A t \in Tiers : share[l].of[t] \in Int
  BY StateType
<1>2. SumOf(share[l].of) = share[l].total
  BY DEF StepInv
<1> QED
  BY <1>1, <1>2, WholeIs

\* A layer's share of the cache, at any context, is whole and has naturals for parts.
LEMMA KvUnitWhole ==
  ASSUME run \in Runs, share \in [Layers -> Share], TypeOK, KvInv, ~NoCache, pc # "cascade",
         NEW now \in Nat
  PROVE  /\ Whole(KvUnit(now))
         /\ \A t \in Tiers : KvUnit(now).of[t] \in Nat
         /\ KvUnit(now).total \in Nat
<1>1. /\ took \in [Tiers -> Nat] /\ tail \in Tiers \cup {"none"} /\ KvReserved \in Nat
      /\ "none" \notin Tiers
  BY KvReservedNat, TierNames DEF TypeOK
<1>2. /\ \A t \in Tiers \ KvTiersRead : took[t] = 0
      /\ tail \in KvTiersRead \cup {"none"} /\ SumOf(took) = KvReserved
  BY DEF KvInv
<1> DEFINE grows == now > KvReserved /\ tail # "none"
           sh == kv_step_split(now)
           j == KvUnit(now)
<1>3. PICK v : v = took[tail] + now - KvReserved
  OBVIOUS
<1>h. PICK h : h = [took EXCEPT ![tail] = v]
  OBVIOUS
<1>4. CASE grows
  <2>1. sh = [of |-> h, total |-> now]
    BY <1>3, <1>h, <1>4 DEF kv_step_split
  <2>2. tail \in Tiers /\ v \in Nat
    BY <1>1, <1>3, <1>4
  <2>3. h \in [Tiers -> Nat] /\ SumOf(h) = SumOf(took) - took[tail] + v
    <3>1. PICK k0 : k0 = tail
      OBVIOUS
    <3>2. /\ took \in [Tiers -> Nat] /\ k0 \in Tiers /\ v \in Nat
          /\ h = Put(took, k0, v)
      BY <1>1, <1>h, <2>2, <3>1 DEF Put
    <3>3. h \in [Tiers -> Nat] /\ SumOf(h) = SumOf(took) - took[k0] + v
      BY <3>2, SumOfPut, Zenon
    <3> QED
      BY <3>1, <3>3, Zenon
  <2>4. SumOf(h) = now
    <3>1. took[tail] \in Nat /\ SumOf(took) \in Nat
      BY <1>1, <1>2, <2>2
    <3> QED
      BY <1>1, <1>2, <1>3, <2>3, <3>1
  <2>5. \A t \in Tiers \ KvTiersRead : h[t] = 0
    BY <1>1, <1>2, <1>h, <2>2
  <2>6. j = [sh EXCEPT !.of = [t \in Tiers |-> IF t \in KvTiersRead THEN h[t] ELSE 0]]
    BY <2>1 DEF KvUnit
  <2>7. j.total = now /\ \A t \in Tiers : j.of[t] = h[t]
    <3>1. j.of = [t \in Tiers |-> IF t \in KvTiersRead THEN h[t] ELSE 0] /\ j.total = now
      BY <2>1, <2>6
    <3> HIDE DEF j
    <3> QED
      BY <2>5, <3>1
  <2> HIDE DEF j, sh
  <2>8. SumOf(j.of) = SumOf(h)
    BY <2>7, TierNames DEF SumOf
  <2>9. Whole(j) /\ \A t \in Tiers : j.of[t] \in Nat
    BY <2>3, <2>4, <2>7, <2>8, WholeIs
  <2> QED
    BY <2>7, <2>9 DEF j
<1>5. CASE ~grows
  <2>1. sh = [of |-> took, total |-> KvReserved]
    BY <1>5 DEF kv_step_split
  <2>2. j = [sh EXCEPT !.of = [t \in Tiers |-> IF t \in KvTiersRead THEN took[t] ELSE 0]]
    BY <2>1 DEF KvUnit
  <2>3. j.total = KvReserved /\ \A t \in Tiers : j.of[t] = took[t]
    <3>1. j.of = [t \in Tiers |-> IF t \in KvTiersRead THEN took[t] ELSE 0] /\ j.total = KvReserved
      BY <2>1, <2>2
    <3> HIDE DEF j
    <3> QED
      BY <1>2, <3>1
  <2> HIDE DEF j, sh
  <2>4. SumOf(j.of) = SumOf(took)
    BY <2>3, TierNames DEF SumOf
  <2>5. Whole(j) /\ \A t \in Tiers : j.of[t] \in Nat
    BY <1>1, <1>2, <2>3, <2>4, WholeIs
  <2> QED
    BY <1>1, <2>3, <2>5 DEF j
<1> QED
  BY <1>4, <1>5

-----------------------------------------------------------------------------
(* The weights of a tier, and the overflow of the cache.                   *)

\* The denominator of the striped layers' fractions is positive.
LEMMA DenominatorNat ==
  ASSUME run \in Runs
  PROVE  /\ Denominator \in Nat \ {0} /\ Striped \subseteq Layers
         /\ Total(BytesOf, Striped) \in Nat
         /\ Striped # {} => Denominator = Total(BytesOf, Striped)
<1>1. Striped \in SUBSET Layers
  BY DEF Striped
<1>2. Total(BytesOf, Striped) \in Nat /\ \A l \in Striped : BytesOf(l) <= Total(BytesOf, Striped)
  BY <1>1, BytesNat
<1>3. \A l \in Striped : BytesOf(l) \in Nat \ {0}
  BY <1>1, RunFacts
<1> DEFINE T == Total(BytesOf, Striped)
<1>4. T \in Nat /\ (Striped # {} => T > 0)
  <2>1. T \in Nat /\ \A l \in Striped : BytesOf(l) <= T
    BY <1>2
  <2> HIDE DEF T
  <2>2. ASSUME Striped # {} PROVE T > 0
    <3>1. PICK l \in Striped : TRUE
      BY <2>2
    <3>2. PICK b : b = BytesOf(l)
      OBVIOUS
    <3>3. b \in Nat \ {0} /\ b <= T
      BY <1>3, <2>1, <3>1, <3>2
    <3> QED
      BY <2>1, <3>3
  <2> QED
    BY <2>1, <2>2
<1>5. Denominator = Larger(1, T)
  BY DEF Denominator
<1> HIDE DEF T
<1>6. Denominator \in Nat \ {0} /\ (Striped # {} => Denominator = T)
  BY <1>4, <1>5 DEF Larger
<1> QED
  BY <1>1, <1>2, <1>6 DEF T

\* What LLM-in-a-Flash puts in its pool of each group fits what the cache leaves of it.
LEMMA PoolFacts ==
  ASSUME run \in Runs, share \in [Layers -> Share], TypeOK, took["pool"] <= Cap("pool")
  PROVE  /\ PoolLeft = PoolCap - took["pool"] /\ PoolLeft \in Nat
         /\ PinnedIn \in Nat /\ WindowIn \in Nat /\ TableIn \in Nat
         /\ PinnedBytes \in Nat /\ TableBytes \in Nat /\ Remaining = PoolLeft - PinnedIn
         /\ PinnedIn <= PinnedBytes /\ WindowIn <= run.active /\ TableIn <= TableBytes
         /\ PinnedIn + WindowIn + TableIn <= PoolLeft
<1>1. Cap("pool") = PoolCap /\ PoolCap \in Nat /\ took["pool"] \in Nat
  BY CapNat, StateType, TierNames
<1>2. PoolLeft = PoolCap - took["pool"] /\ PoolLeft \in Nat
  BY <1>1 DEF PoolLeft, LeftByKv, Larger
<1>3. PinnedBytes \in Nat /\ TableBytes \in Nat
  BY BytesNat DEF PinnedBytes, TableBytes
<1>4. run.active \in Nat
  BY RunFacts
<1>5. /\ PinnedIn \in Nat /\ PinnedIn <= PinnedBytes /\ Remaining = PoolLeft - PinnedIn
      /\ Remaining \in Nat
  BY <1>2, <1>3 DEF PinnedIn, Remaining, Smaller, Larger
<1>6. WindowIn \in Nat /\ WindowIn <= run.active /\ WindowIn <= Remaining
  BY <1>4, <1>5 DEF WindowIn, Smaller
<1>7. TableIn \in Nat /\ TableIn <= TableBytes /\ TableIn <= Remaining - WindowIn
  BY <1>3, <1>5, <1>6 DEF TableIn, Smaller, Larger
<1> QED
  BY <1>2, <1>3, <1>5, <1>6, <1>7

\* What a tier holds of the weights, scaled, is an integer.
LEMMA PlacedInt ==
  ASSUME run \in Runs, share \in [Layers -> Share], TypeOK, KvInv, NEW t \in MyTiers
  PROVE  Placed(t) \in Int
<1>1. CASE t = "pool"
  <2>1. run.policy = "llmflash"
    BY <1>1, TierNames DEF MyTiers
  <2>2. took["pool"] <= Cap("pool")
    BY <2>1, TierNames DEF KvInv
  <2>3. PinnedIn \in Nat /\ WindowIn \in Nat /\ TableIn \in Nat
    BY <2>2, PoolFacts
  <2>4. PooledWeights \in Nat
    BY <2>3 DEF PooledWeights
  <2>5. PooledWeights * Denominator \in Nat
    BY <2>4, DenominatorNat, ProductNat
  <2> QED
    BY <1>1, <2>5 DEF Placed
<1>2. CASE t # "pool"
  <2>1. t \in Tiers
    BY <1>2, TierNames DEF MyTiers
  <2>2. \A l \in Layers : PlacedOf(l, t) \in Int
    <3> TAKE l \in Layers
    <3>1. share[l].of[t] \in Nat /\ BytesOf(l) \in Nat /\ Denominator \in Nat
      BY <2>1, StateType, RunFacts, DenominatorNat
    <3>2. share[l].of[t] * Denominator \in Nat /\ BytesOf(l) * share[l].of[t] \in Nat
      BY <3>1, ProductNat
    <3> QED
      BY <3>2 DEF PlacedOf
  <2> DEFINE w == [l \in Layers |-> PlacedOf(l, t)]
  <2>3. IsFiniteSet(Layers) /\ \A l \in Layers : w[l] \in Int
    BY <2>2, RunFacts
  <2>4. SumFunctionOnSet(w, Layers) \in Int
    <3> HIDE DEF w
    <3> QED
      BY <2>3, SumInt
  <2>5. Placed(t) = SumFunctionOnSet(w, Layers)
    BY <1>2 DEF Placed, Total
  <2> QED
    BY <2>4, <2>5
<1> QED
  BY <1>1, <1>2

\* The products of the overflow's equation, taken apart.
LEMMA Distributes ==
  ASSUME NEW den \in Int, NEW a \in Int, NEW b \in Int
  PROVE  /\ den * (a + b) = den * a + den * b /\ den * (a - b) = den * a - den * b
         /\ den * a \in Int /\ den * b \in Int
OBVIOUS

\* The overflow of a tier, multiplied out: its free bytes y + f, the growth g.
LEMMA ScaledOverflow ==
  ASSUME NEW den \in Nat \ {0}, NEW y \in Int, NEW f \in Nat, NEW c \in Int, NEW pl \in Int,
         NEW g \in Int, den * (y + f) + pl = den * c
  PROVE  den * Larger(0, g - f) = Larger(0, den * (y + g - c) + pl)
<1>1. den * (y + f) = den * y + den * f /\ den * y \in Int /\ den * f \in Int
  BY Distributes
<1>2. den * (y + g - c) = den * y + den * g - den * c /\ den * g \in Int /\ den * c \in Int
  <2>1. den * ((y + g) - c) = den * (y + g) - den * c
    BY Distributes
  <2>2. den * (y + g) = den * y + den * g /\ den * g \in Int /\ den * c \in Int
    BY Distributes
  <2> QED
    BY <2>1, <2>2
<1>3. den * (g - f) = den * g - den * f
  BY Distributes
<1>4. den * (y + g - c) + pl = den * (g - f)
  BY <1>1, <1>2, <1>3
<1>5. \A e \in Int : (e >= 0 => den * e >= 0) /\ (e < 0 => den * e < 0) /\ den * e \in Int
  OBVIOUS
<1>6. den * 0 = 0 /\ g - f \in Int
  OBVIOUS
<1>7. CASE g - f >= 0
  <2>1. Larger(0, g - f) = g - f /\ den * (g - f) >= 0
    BY <1>5, <1>6, <1>7 DEF Larger
  <2>2. Larger(0, den * (g - f)) = den * (g - f)
    BY <2>1, <1>5, <1>6 DEF Larger
  <2> QED
    BY <2>1, <2>2, <1>4
<1>8. CASE g - f < 0
  <2>1. Larger(0, g - f) = 0 /\ den * (g - f) < 0
    BY <1>5, <1>6, <1>8 DEF Larger
  <2>2. Larger(0, den * (g - f)) = 0
    BY <2>1, <1>5, <1>6 DEF Larger
  <2> QED
    BY <2>1, <2>2, <1>4, <1>6
<1> QED
  BY <1>6, <1>7, <1>8

\* A fast tier the cache ends on is one of the script's.
LEMMA TailIsMine ==
  ASSUME run \in Runs, KvInv, tail \in FastTiers
  PROVE  tail \in MyTiers
<1>1. tail \in KvTiersRead
  BY TierNames DEF KvInv
<1>2. tail # "nand"
  BY TierNames
<1>3. CASE run.policy = "llmflash"
  BY <1>1, <1>2, <1>3, TiersReadAre DEF MyTiers
<1>4. CASE run.policy # "llmflash"
  BY <1>1, <1>2, <1>4, TiersReadAre DEF MyTiers
<1> QED
  BY <1>3, <1>4

\* The overflow a step charges follows from the balance of the tiers.
LEMMA SpillFollows ==
  ASSUME BaseInv
  PROVE  SpillIsOverflow
<1> SUFFICES ASSUME step > 0, tail \in FastTiers
             PROVE  Denominator * spill =
                      Larger(0, Denominator * (took[tail] + reserve[tail] + Growth - Cap(tail))
                                + Placed(tail))
  BY DEF SpillIsOverflow
<1>1. run \in Runs /\ share \in [Layers -> Share] /\ TypeOK /\ KvInv /\ StepInv
  BY DEF BaseInv
<1>2. /\ Placing /\ spill = kv_growth_spill(KvAt(run.prefill + step))
      /\ headroom = free[tail]
  BY <1>1 DEF StepInv
<1>3. tail \in MyTiers /\ tail \in Tiers /\ tail # "nand"
  BY <1>1, TailIsMine, TierNames
<1>4. Denominator * (took[tail] + reserve[tail] + free[tail]) + Placed(tail)
        = Denominator * Cap(tail)
  BY <1>1, <1>2, <1>3 DEF StepInv, BytesAccounted
<1>5. /\ took[tail] \in Nat /\ reserve[tail] \in Nat /\ free[tail] \in Nat
      /\ Cap(tail) \in Nat /\ Denominator \in Nat \ {0} /\ Placed(tail) \in Int
  <2>1. pc # "aborted"
    BY <1>2 DEF Placing
  <2> QED
    BY <1>1, <1>3, <2>1, StateType, CapNat, DenominatorNat, PlacedInt
<1> DEFINE now == KvAt(run.prefill + step)
<1>6. now \in Nat /\ KvReserved \in Nat
  BY <1>1, StateType, KvAtNat, KvReservedNat
<1>7. spill = Larger(0, now - KvReserved - free[tail]) /\ Growth = Larger(0, now - KvReserved)
  BY <1>2, <1>3 DEF kv_growth_spill, Growth
<1> HIDE DEF now
<1>8. Growth \in Int /\ Larger(0, now - KvReserved - free[tail]) = Larger(0, Growth - free[tail])
  BY <1>5, <1>6, <1>7 DEF Larger
<1> DEFINE y == took[tail] + reserve[tail]
<1>9. y \in Int
  BY <1>5
<1> HIDE DEF y
<1>10. Denominator * (y + free[tail]) + Placed(tail) = Denominator * Cap(tail)
  BY <1>4 DEF y
<1>11. Denominator * Larger(0, Growth - free[tail])
         = Larger(0, Denominator * (y + Growth - Cap(tail)) + Placed(tail))
  BY <1>5, <1>8, <1>9, <1>10, ScaledOverflow, SMTT(60)
<1> QED
  BY <1>7, <1>8, <1>11 DEF y

-----------------------------------------------------------------------------
(* The cascade.                                                            *)

ItmePlacing == run.policy = "itme" /\ pc \in {"place", "cascade", "kvPlaced"}

\* While the cascade runs, weights stay where they are.
LEMMA PlaceHeld ==
  ASSUME PlaceInv, UNCHANGED <<run, placeVars, staging>>, Untouched' => Untouched,
         pc' \notin {"pin", "fill", "place"}, ItmePlacing' => ItmePlacing
  PROVE  PlaceInv'
<1>1. /\ run' = run /\ free' = free /\ reserve' = reserve /\ share' = share /\ next' = next
      /\ staging' = staging
  BY DEF placeVars
<1>2. /\ Layers' = Layers /\ \A l, t : InTier(l, t)' = InTier(l, t)
      /\ \A t : Cap(t)' = Cap(t) /\ Engine' = Engine /\ Gpu' = Gpu /\ Ring' = Ring
      /\ \A t : WeightsIn(t)' = WeightsIn(t)
  BY <1>1, RunFixed, EngineFixed, WeightsSame
<1>3. \A l : Kept(l)' <=> Kept(l)
  BY <1>1, <1>2 DEF Kept
<1>4. FreshInv'
  BY <1>1, <1>2, <1>3 DEF PlaceInv, FreshInv, NoRoom
<1>5. LedgerInv' /\ OrderInv'
  BY DEF LedgerInv, LedgerPhase, OrderInv
<1>6. ItmeInv'
  <2> SUFFICES ASSUME ItmePlacing'
               PROVE  /\ reserve' = [NoRoom EXCEPT !["cxl"] = Ring, !["host"] = run.hostStaging]
                      /\ staging' = Ring + run.hostStaging
                      /\ free'[Engine] + WeightsIn(Engine)
                           = Cap(Engine) - (IF Gpu THEN 0 ELSE run.hostStaging)
                      /\ \A l \in Layers : share'[l] \in {InTier(l, Engine), InTier(l, "nand")}
    BY <1>1, <1>2 DEF ItmeInv, ItmePlacing, NoRoom, WeightsIn
  <2> QED
    BY <1>1 DEF PlaceInv, ItmeInv, ItmePlacing
<1> QED
  BY <1>4, <1>5, <1>6 DEF PlaceInv

\* kv_cascade keeps the invariant: it touches nothing but the cache's own bytes.
LEMMA CascadeKeeps ==
  ASSUME BaseInv, CascadeTier \/ CascadeRest
  PROVE  BaseInv'
<1>1. /\ run \in Runs /\ share \in [Layers -> Share] /\ TypeOK /\ KvInv /\ PlaceInv
      /\ StepInv /\ PhaseInv
  BY DEF BaseInv
<1>2. /\ pc = "cascade" /\ pc' \in {"cascade", "kvPlaced"} /\ run' = run
      /\ UNCHANGED <<phaseVars, placeVars, staging, headroom, decodeVars>>
  BY DEF CascadeTier, CascadeRest
<1>3. KvInv' /\ kvLeft' \in Nat /\ took' \in [Tiers -> Nat] /\ tail' \in Tiers \cup {"none"}
  BY <1>1, KvTakes, KvRests
<1>4. StepInv' /\ PhaseInv'
  BY <1>1, <1>2, QuietSteps DEF Placing
<1>5. PlaceInv'
  BY <1>1, <1>2, PlaceHeld DEF Untouched, ItmePlacing
<1>6. Layers' = Layers /\ layers' = layers
  BY <1>2, RunFixed
<1>7. TypeOK' /\ share' \in [Layers' -> Share]
  BY <1>1, <1>2, <1>3, <1>6 DEF TypeOK, placeVars, decodeVars
<1> QED
  BY <1>1, <1>2, <1>3, <1>4, <1>5, <1>7 DEF BaseInv

\* A script that calls kv_cascade.
LEMMA StartKeeps ==
  ASSUME BaseInv, NEW tiers \in Seq(FastTiers \X Int), StartCascade(tiers),
         \/ pc = "start" /\ run.policy # "itme"
         \/ At("itme", "place"),
         \A n \in DOMAIN tiers :
           /\ tiers[n][1] \in KvTiersRead \ {"nand"}
           /\ run.policy # "itme" => tiers[n][2] <= Cap(tiers[n][1])
           /\ \A m \in DOMAIN tiers : tiers[m][1] = tiers[n][1] => m = n,
         UNCHANGED <<run, phaseVars, placeVars, staging, headroom, decodeVars>>
  PROVE  BaseInv'
<1>1. /\ run \in Runs /\ share \in [Layers -> Share] /\ TypeOK /\ KvInv /\ PlaceInv
      /\ StepInv /\ PhaseInv
  BY DEF BaseInv
<1>2. NoCache /\ pc' = "cascade" /\ ~Placing /\ ~Placing' /\ run' = run
  BY DEF NoCache, StartCascade, Placing, At
<1>3. KvInv' /\ kvLeft' \in Nat /\ took' = took /\ tail' = tail
  BY <1>1, <1>2, KvStarts
<1>4. StepInv' /\ PhaseInv'
  BY <1>1, <1>2, QuietSteps
<1>5. PlaceInv'
  BY <1>1, <1>2, PlaceHeld DEF Untouched, ItmePlacing, At
<1>6. Layers' = Layers /\ layers' = layers
  BY <1>2, RunFixed
<1>7. /\ free' = free /\ reserve' = reserve /\ share' = share /\ next' = next
      /\ staging' = staging /\ headroom' = headroom /\ step' = step /\ spill' = spill
  BY DEF placeVars, decodeVars
<1>8. TypeOK'
  <2>1. /\ free \in [FastTiers -> Nat] /\ pc' = "cascade"
    BY <1>1, <1>2 DEF TypeOK, NoCache, At
  <2> QED
    BY <1>1, <1>2, <1>3, <1>6, <1>7, <2>1 DEF TypeOK
<1>9. share' \in [Layers' -> Share]
  BY <1>1, <1>6, <1>7
<1> QED
  BY <1>1, <1>2, <1>3, <1>4, <1>5, <1>8, <1>9 DEF BaseInv

\* FlexGen, its call of kv_cascade, keeps the invariant.
LEMMA FlexGenStarts ==
  ASSUME BaseInv, FlexGenStart
  PROVE  BaseInv'
<1>1. run \in Runs /\ run.policy = "flexgen" /\ pc = "start"
  BY DEF BaseInv, FlexGenStart, At
<1>2. /\ Cap("gpu") \in Nat /\ Cap("host") \in Nat /\ Cap("cxl") \in Nat
      /\ KvTiersRead = {"gpu", "host", "cxl", "nand"}
  BY <1>1, CapNat, TierNames, TiersReadAre
<1>3. Weights \in Nat
  BY <1>1, BytesNat DEF Weights
<1> DEFINE room == Larger(0, Cap("gpu") - Weights)
           tiers == << <<"gpu", room>>, <<"host", Cap("host")>>, <<"cxl", Cap("cxl")>> >>
<1>4. room \in Int /\ room <= Cap("gpu")
  BY <1>2, <1>3 DEF Larger
<1>5. StartCascade(tiers) /\ UNCHANGED <<run, phaseVars, placeVars, staging, headroom, decodeVars>>
  BY DEF FlexGenStart
<1> HIDE DEF room
<1>6. tiers \in Seq(FastTiers \X Int) /\ DOMAIN tiers = 1 .. 3
  BY <1>2, <1>4, TierNames
<1>7. \A n \in DOMAIN tiers :
        /\ tiers[n][1] \in KvTiersRead \ {"nand"}
        /\ tiers[n][2] <= Cap(tiers[n][1])
        /\ \A m \in DOMAIN tiers : tiers[m][1] = tiers[n][1] => m = n
  BY <1>2, <1>4
<1> HIDE DEF tiers
<1> QED
  BY <1>1, <1>5, <1>6, <1>7, StartKeeps

\* LIA, its call of kv_cascade, keeps the invariant.
LEMMA LiaStarts ==
  ASSUME BaseInv, LiaStart
  PROVE  BaseInv'
<1>1. run \in Runs /\ run.policy = "lia" /\ pc = "start"
  BY DEF BaseInv, LiaStart, At
<1>2. /\ Cap("host") \in Nat /\ Cap("cxl") \in Nat /\ KvTiersRead = {"host", "cxl", "nand"}
  BY <1>1, CapNat, TierNames, TiersReadAre
<1> DEFINE tiers == << <<"host", Cap("host")>>, <<"cxl", Cap("cxl")>> >>
<1>3. StartCascade(tiers) /\ UNCHANGED <<run, phaseVars, placeVars, staging, headroom, decodeVars>>
  BY DEF LiaStart
<1>4. tiers \in Seq(FastTiers \X Int) /\ DOMAIN tiers = 1 .. 2
  BY <1>2, TierNames
<1>5. \A n \in DOMAIN tiers :
        /\ tiers[n][1] \in KvTiersRead \ {"nand"}
        /\ tiers[n][2] <= Cap(tiers[n][1])
        /\ \A m \in DOMAIN tiers : tiers[m][1] = tiers[n][1] => m = n
  BY <1>2
<1> HIDE DEF tiers
<1> QED
  BY <1>1, <1>3, <1>4, <1>5, StartKeeps

\* CXLAimPod, its call of kv_cascade, keeps the invariant.
LEMMA AimPodStarts ==
  ASSUME BaseInv, AimPodStart
  PROVE  BaseInv'
<1>1. run \in Runs /\ run.policy = "aimpod" /\ pc = "start"
  BY DEF BaseInv, AimPodStart, At
<1>2. Cap("cxl") \in Nat /\ KvTiersRead = {"cxl", "nand"}
  BY <1>1, CapNat, TierNames, TiersReadAre
<1> DEFINE tiers == << <<"cxl", Cap("cxl")>> >>
<1>3. StartCascade(tiers) /\ UNCHANGED <<run, phaseVars, placeVars, staging, headroom, decodeVars>>
  BY DEF AimPodStart
<1>4. tiers \in Seq(FastTiers \X Int) /\ DOMAIN tiers = 1 .. 1
  BY <1>2, TierNames
<1>5. \A n \in DOMAIN tiers :
        /\ tiers[n][1] \in KvTiersRead \ {"nand"}
        /\ tiers[n][2] <= Cap(tiers[n][1])
        /\ \A m \in DOMAIN tiers : tiers[m][1] = tiers[n][1] => m = n
  BY <1>2, <1>4
<1> HIDE DEF tiers
<1> QED
  BY <1>1, <1>3, <1>4, <1>5, StartKeeps

\* The dynamic plan, its call of kv_cascade, keeps the invariant.
LEMMA DynamicStarts ==
  ASSUME BaseInv, DynamicStart
  PROVE  BaseInv'
<1>1. run \in Runs /\ run.policy = "dynamic" /\ pc = "start"
  BY DEF BaseInv, DynamicStart, At
<1>2. /\ Cap("host") \in Nat /\ Cap("cxl") \in Nat /\ KvTiersRead = {"host", "cxl", "nand"}
  BY <1>1, CapNat, TierNames, TiersReadAre
<1> DEFINE host == <<"host", Cap("host")>>
           cxl == <<"cxl", Cap("cxl")>>
<1>3. PICK tiers \in {<<host, cxl>>, <<cxl, host>>} :
        /\ StartCascade(tiers)
        /\ UNCHANGED <<run, phaseVars, placeVars, staging, headroom, decodeVars>>
  BY DEF DynamicStart
<1>4. tiers \in Seq(FastTiers \X Int) /\ DOMAIN tiers = 1 .. 2
  <2>1. host \in FastTiers \X Int /\ cxl \in FastTiers \X Int
    BY <1>2, TierNames
  <2> HIDE DEF host, cxl
  <2>2. ASSUME NEW a \in FastTiers \X Int, NEW b \in FastTiers \X Int
        PROVE  <<a, b>> \in Seq(FastTiers \X Int) /\ DOMAIN <<a, b>> = 1 .. 2
    OBVIOUS
  <2>3. tiers = <<host, cxl>> \/ tiers = <<cxl, host>>
    BY <1>3
  <2> QED
    BY <2>1, <2>2, <2>3
<1>5. \A n \in DOMAIN tiers :
        /\ tiers[n][1] \in KvTiersRead \ {"nand"}
        /\ tiers[n][2] <= Cap(tiers[n][1])
        /\ \A m \in DOMAIN tiers : tiers[m][1] = tiers[n][1] => m = n
  BY <1>2, <1>3
<1> QED
  BY <1>1, <1>3, <1>4, <1>5, StartKeeps

\* LLM in a flash, its call of kv_cascade, keeps the invariant.
LEMMA LlmFlashStarts ==
  ASSUME BaseInv, LlmFlashStart
  PROVE  BaseInv'
<1>1. run \in Runs /\ run.policy = "llmflash" /\ pc = "start"
  BY DEF BaseInv, LlmFlashStart, At
<1>2. Cap("pool") \in Nat /\ Cap("pool") = PoolCap /\ KvTiersRead = {"pool", "nand"}
  BY <1>1, CapNat, TierNames, TiersReadAre
<1> DEFINE tiers == << <<"pool", PoolCap>> >>
<1>3. StartCascade(tiers) /\ UNCHANGED <<run, phaseVars, placeVars, staging, headroom, decodeVars>>
  BY DEF LlmFlashStart
<1>4. tiers \in Seq(FastTiers \X Int) /\ DOMAIN tiers = 1 .. 1
  BY <1>2, TierNames
<1>5. \A n \in DOMAIN tiers :
        /\ tiers[n][1] \in KvTiersRead \ {"nand"}
        /\ tiers[n][2] <= Cap(tiers[n][1])
        /\ \A m \in DOMAIN tiers : tiers[m][1] = tiers[n][1] => m = n
  BY <1>2, <1>4
<1> HIDE DEF tiers
<1> QED
  BY <1>1, <1>3, <1>4, <1>5, StartKeeps

\* ITME's ring is a natural, its engine a tier.
LEMMA EngineFacts ==
  ASSUME run \in Runs
  PROVE  /\ Ring \in Nat /\ Engine \in {"gpu", "host"} /\ Engine = (IF Gpu THEN "gpu" ELSE "host")
         /\ ~Gpu => Cap("gpu") = 0
<1>1. Slot \in Nat \ {0} /\ Cap("cxl") \in Nat /\ run.slots \in Nat /\ run.cap["gpu"] \in Nat
      /\ Cap("gpu") = run.cap["gpu"]
  BY LargestNat, CapNat, TierNames, RunFacts
<1>2. Cap("cxl") \div Slot \in Nat
  BY <1>1
<1>3. BUFFER_LAYERS \in Nat
  <2> DEFINE q == Cap("cxl") \div Slot
  <2>1. BUFFER_LAYERS = Smaller(run.slots, Larger(1, q)) /\ q \in Nat
    BY <1>2 DEF BUFFER_LAYERS
  <2> HIDE DEF q
  <2> QED
    BY <1>1, <2>1 DEF Smaller, Larger
<1>4. Ring \in Nat
  BY <1>1, <1>3, ProductNat DEF Ring
<1>5. ~Gpu => Cap("gpu") = 0
  BY <1>1 DEF Gpu
<1> QED
  BY <1>4, <1>5 DEF Engine

\* ITME, its call of kv_cascade after the weights, keeps the invariant.
LEMMA ItmeCaches ==
  ASSUME BaseInv, ItmeCache
  PROVE  BaseInv'
<1>1. /\ run \in Runs /\ share \in [Layers -> Share] /\ TypeOK
      /\ run.policy = "itme" /\ pc = "place"
  BY DEF BaseInv, ItmeCache, At
<1>2. /\ Cap("host") \in Nat /\ Cap("cxl") \in Nat /\ free["gpu"] \in Int /\ free["host"] \in Int
      /\ KvTiersRead = {"gpu", "host", "cxl", "nand"}
      /\ Ring \in Nat /\ run.hostStaging \in Nat
  BY <1>1, CapNat, TierNames, TiersReadAre, StateType, EngineFacts, RunFacts
<1> DEFINE g == IF Gpu THEN free["gpu"] ELSE 0
           h == IF Gpu THEN Cap("host") - run.hostStaging ELSE free["host"]
           c == DeviceBesideRing
           tiers == << <<"gpu", g>>, <<"host", h>>, <<"cxl", c>> >>
<1>3. StartCascade(tiers) /\ UNCHANGED <<run, phaseVars, placeVars, staging, headroom, decodeVars>>
  BY DEF ItmeCache
<1>4. g \in Int /\ h \in Int /\ c \in Int
  BY <1>2 DEF DeviceBesideRing
<1> HIDE DEF g, h, c
<1>5. tiers \in Seq(FastTiers \X Int) /\ DOMAIN tiers = 1 .. 3
  BY <1>4, TierNames
<1>6. \A n \in DOMAIN tiers :
        /\ tiers[n][1] \in KvTiersRead \ {"nand"}
        /\ \A m \in DOMAIN tiers : tiers[m][1] = tiers[n][1] => m = n
  BY <1>2
<1> HIDE DEF tiers
<1> QED
  BY <1>1, <1>3, <1>5, <1>6, StartKeeps DEF At

-----------------------------------------------------------------------------
(* The counters the placement starts from.                                 *)

\* Before the counters are set no tier holds anything but the cache.
LEMMA BeforeCounters ==
  ASSUME BaseInv, pc = "kvPlaced", run.policy # "itme"
  PROVE  /\ \A t \in DramTiers : /\ LeftByKv(t) = Cap(t) - took[t] /\ LeftByKv(t) \in Nat
                                 /\ took[t] \in Nat /\ Cap(t) \in Nat
         /\ reserve = NoRoom /\ next = 1 /\ \A l \in Layers : Kept(l)
<1>1. run \in Runs /\ share \in [Layers -> Share] /\ TypeOK /\ KvInv /\ PlaceInv
  BY DEF BaseInv
<1>2. reserve = NoRoom /\ next = 1 /\ \A l \in Layers : Kept(l)
  BY <1>1 DEF PlaceInv, FreshInv, Untouched
<1>3. ASSUME NEW t \in DramTiers
      PROVE  /\ LeftByKv(t) = Cap(t) - took[t] /\ LeftByKv(t) \in Nat
             /\ took[t] \in Nat /\ Cap(t) \in Nat
  <2>1. took[t] \in Nat /\ Cap(t) \in Nat /\ took[t] <= Cap(t)
    BY <1>1, StateType, CapNat, TierNames DEF KvInv
  <2> QED
    BY <2>1 DEF LeftByKv, Larger
<1> QED
  BY <1>2, <1>3

\* While every layer is in NAND, DRAM holds no weights.
LEMMA NoneInDram ==
  ASSUME run \in Runs, \A l \in Layers : Kept(l)
  PROVE  \A t \in DramTiers : WeightsIn(t) = 0
<1> SUFFICES ASSUME NEW t \in DramTiers PROVE WeightsIn(t) = 0
  OBVIOUS
<1>1. t \in Tiers /\ t # "nand" /\ "nand" \in Tiers
  BY TierNames
<1>2. \A l \in Layers : share[l].of[t] = 0
  BY <1>1, InTierFacts DEF Kept
<1> QED
  BY <1>1, <1>2, WeightsNone

\* A script's setting of its counters keeps the invariant when each tier's bytes add up.
LEMMA CountersKeep ==
  ASSUME BaseInv, pc = "kvPlaced", run.policy # "itme", pc' \in {"pin", "place"},
         UNCHANGED <<run, phaseVars, kvVars, share, next, headroom, decodeVars>>,
         free' \in [FastTiers -> Nat], reserve' \in [FastTiers -> Nat], staging' \in Nat,
         \A t \in DramTiers : took[t] + reserve'[t] + free'[t] = Cap(t),
         run.policy = "dynamic" => free'["cxl"] = 0,
         pc' = "pin" => staging' = StagedOf(reserve')
  PROVE  BaseInv'
<1>1. /\ run \in Runs /\ share \in [Layers -> Share] /\ TypeOK /\ KvInv /\ PlaceInv
      /\ StepInv /\ PhaseInv
  BY DEF BaseInv
<1>2. KvInv'
  BY <1>1, KvHeld DEF NoCache, At
<1>3. StepInv' /\ PhaseInv'
  BY <1>1, QuietSteps DEF Placing
<1>4. /\ Layers' = Layers /\ layers' = layers /\ \A t : Cap(t)' = Cap(t)
      /\ \A l : BytesOf(l)' = BytesOf(l)
      /\ \A l, t : InTier(l, t)' = InTier(l, t) /\ embedding_last' = embedding_last
  BY RunFixed
<1>5. /\ took' = took /\ kvLeft' = kvLeft /\ tail' = tail /\ step' = step /\ spill' = spill
      /\ share' = share /\ next' = next /\ headroom' = headroom /\ run' = run
  BY DEF kvVars, decodeVars
<1>6. TypeOK' /\ share' \in [Layers' -> Share]
  BY <1>1, <1>4, <1>5 DEF TypeOK
<1>7. reserve = NoRoom /\ next = 1 /\ \A l \in Layers : Kept(l)
  BY BeforeCounters
<1>8. \A l \in Layers : Kept(l)' /\ InOne(l)'
  <2>1. \A l \in Layers : Kept(l)'
    BY <1>4, <1>5, <1>7 DEF Kept
  <2> QED
    BY <2>1 DEF Kept, InOne
<1>9. OrderInv'
  <2>1. \A n \in Layers : embedding_last[n] \in Layers
    BY <1>1, OrderFacts
  <2> QED
    BY <1>4, <1>8, <2>1 DEF OrderInv, Kept
<1>10. Balanced'
  <2>1. \A t \in DramTiers : WeightsIn(t)' = 0
    BY <1>1, <1>5, <1>7, NoneInDram, WeightsSame
  <2>2. ASSUME NEW t \in DramTiers
        PROVE  took'[t] + reserve'[t] + free'[t] + WeightsIn(t)' = Cap(t)'
    <3>1. took[t] \in Nat /\ reserve'[t] \in Nat /\ free'[t] \in Nat /\ t \in FastTiers
      BY <1>1, StateType, TierNames
    <3>2. took[t] + reserve'[t] + free'[t] = Cap(t)
      OBVIOUS
    <3> QED
      BY <1>4, <1>5, <2>1, <3>1, <3>2
  <2>3. \A l \in Layers : SumOf(share[l].of) = share[l].total /\ share[l].total = BytesOf(l)
    BY <1>1, <1>7, InTierFacts, TierNames DEF Kept
  <2>4. \A l \in Layers' : SumOf(share'[l].of) = share'[l].total /\ share'[l].total = BytesOf(l)'
    BY <1>4, <1>5, <2>3
  <2> QED
    BY <2>2, <2>4 DEF Balanced, SumOf
<1>11. LedgerInv'
  BY <1>5, <1>10 DEF LedgerInv, StagedOf
<1>12. FreshInv' /\ ItmeInv'
  BY <1>5 DEF FreshInv, Untouched, ItmeInv
<1> QED
  BY <1>1, <1>2, <1>3, <1>5, <1>6, <1>9, <1>11, <1>12 DEF BaseInv, PlaceInv

\* FlexGen, the staging buffers and counters, keeps the invariant.
LEMMA FlexGenReserves ==
  ASSUME BaseInv, FlexGenReserve
  PROVE  BaseInv'
<1>1. /\ run.policy = "flexgen" /\ pc = "kvPlaced" /\ pc' = "pin" /\ next' = 1
      /\ reserve' = WorkingSet /\ staging' = StagedOf(WorkingSet)
      /\ free' = [t \in FastTiers |-> IF t = "pool" THEN 0 ELSE LeftByKv(t) - WorkingSet[t]]
      /\ UNCHANGED <<run, phaseVars, kvVars, share, headroom, decodeVars>>
  BY DEF FlexGenReserve, At
<1>2. /\ \A t \in DramTiers : /\ LeftByKv(t) = Cap(t) - took[t] /\ LeftByKv(t) \in Nat
                              /\ took[t] \in Nat /\ Cap(t) \in Nat
      /\ next = 1
  BY <1>1, BeforeCounters
<1>3. run \in Runs /\ DoubleBuffer \in Nat
  BY LargestNat DEF BaseInv, DoubleBuffer
<1> DEFINE g == Smaller(DoubleBuffer, LeftByKv("gpu"))
           h == Smaller(DoubleBuffer - g, LeftByKv("host"))
           c == Smaller(DoubleBuffer - g - h, LeftByKv("cxl"))
<1>4. LeftByKv("gpu") \in Nat /\ LeftByKv("host") \in Nat /\ LeftByKv("cxl") \in Nat
  BY <1>2, TierNames
<1>5. g \in Nat /\ g <= LeftByKv("gpu") /\ g <= DoubleBuffer
  BY <1>3, <1>4 DEF Smaller
<1>6. h \in Nat /\ h <= LeftByKv("host") /\ h <= DoubleBuffer - g
  <2> HIDE DEF g
  <2> QED
    BY <1>3, <1>4, <1>5 DEF Smaller
<1>7. c \in Nat /\ c <= LeftByKv("cxl")
  <2> HIDE DEF g, h
  <2> QED
    BY <1>3, <1>4, <1>5, <1>6 DEF Smaller
<1>8. WorkingSet = [NoRoom EXCEPT !["gpu"] = g, !["host"] = h, !["cxl"] = c]
  BY DEF WorkingSet
<1> HIDE DEF g, h, c
<1>9. /\ WorkingSet \in [FastTiers -> Nat]
      /\ WorkingSet["gpu"] = g /\ WorkingSet["host"] = h /\ WorkingSet["cxl"] = c
  BY <1>5, <1>6, <1>7, <1>8, TierNames DEF NoRoom
<1>10. \A t \in DramTiers : WorkingSet[t] \in Nat /\ WorkingSet[t] <= LeftByKv(t)
  BY <1>5, <1>6, <1>7, <1>9, TierNames
<1>11. \A t \in FastTiers : t # "pool" => t \in DramTiers
  BY DEF FastTiers, DramTiers
<1>12. free' \in [FastTiers -> Nat]
  BY <1>1, <1>4, <1>10, <1>11, <1>2
<1>13. \A t \in DramTiers : took[t] + reserve'[t] + free'[t] = Cap(t)
  BY <1>1, <1>2, <1>10, TierNames
<1>14. staging' \in Nat
  BY <1>1, <1>5, <1>6, <1>7, <1>9 DEF StagedOf
<1> QED
  BY <1>1, <1>2, <1>9, <1>12, <1>13, <1>14, CountersKeep

\* LIA, its counters, keeps the invariant.
LEMMA LiaCounts ==
  ASSUME BaseInv, LiaCounters
  PROVE  BaseInv'
<1>1. /\ run.policy = "lia" /\ pc = "kvPlaced" /\ pc' = "place"
      /\ free' = [t \in FastTiers |-> IF t = "gpu" THEN Cap("gpu")
                                      ELSE IF t = "pool" THEN 0 ELSE LeftByKv(t)]
      /\ UNCHANGED <<run, phaseVars, kvVars, reserve, share, next, staging, headroom, decodeVars>>
  BY DEF LiaCounters, At
<1>2. /\ \A t \in DramTiers : /\ LeftByKv(t) = Cap(t) - took[t] /\ LeftByKv(t) \in Nat
                              /\ took[t] \in Nat /\ Cap(t) \in Nat
      /\ reserve = NoRoom
  BY <1>1, BeforeCounters
<1>3. /\ TypeOK /\ KvInv /\ run \in Runs
  BY DEF BaseInv
<1>4. took["gpu"] = 0
  BY <1>1, <1>3, TiersReadAre, TierNames DEF KvInv
<1>5. \A t \in FastTiers : t # "pool" => t \in DramTiers
  BY DEF FastTiers, DramTiers
<1>6. free' \in [FastTiers -> Nat]
  BY <1>1, <1>2, <1>5, TierNames
<1>7. \A t \in DramTiers : took[t] + reserve'[t] + free'[t] = Cap(t)
  BY <1>1, <1>2, <1>4, TierNames DEF NoRoom
<1> QED
  BY <1>1, <1>3, <1>6, <1>7, CountersKeep DEF TypeOK

\* CXLAimPod, its counters, keeps the invariant.
LEMMA AimPodCounts ==
  ASSUME BaseInv, AimPodCounters
  PROVE  BaseInv'
<1>1. /\ run.policy = "aimpod" /\ pc = "kvPlaced" /\ pc' = "place"
      /\ free' = [t \in FastTiers |-> IF t = "pool" THEN 0 ELSE LeftByKv(t)]
      /\ UNCHANGED <<run, phaseVars, kvVars, reserve, share, next, staging, headroom, decodeVars>>
  BY DEF AimPodCounters, At
<1>2. /\ \A t \in DramTiers : /\ LeftByKv(t) = Cap(t) - took[t] /\ LeftByKv(t) \in Nat
                              /\ took[t] \in Nat /\ Cap(t) \in Nat
      /\ reserve = NoRoom
  BY <1>1, BeforeCounters
<1>3. TypeOK
  BY DEF BaseInv
<1>4. \A t \in FastTiers : t # "pool" => t \in DramTiers
  BY DEF FastTiers, DramTiers
<1>5. free' \in [FastTiers -> Nat]
  BY <1>1, <1>2, <1>4, TierNames
<1>6. \A t \in DramTiers : took[t] + reserve'[t] + free'[t] = Cap(t)
  BY <1>1, <1>2, TierNames DEF NoRoom
<1> QED
  BY <1>1, <1>3, <1>5, <1>6, CountersKeep DEF TypeOK

\* The dynamic plan, its counters, keeps the invariant.
LEMMA DynamicCounts ==
  ASSUME BaseInv, DynamicCounters
  PROVE  BaseInv'
<1>1. /\ run.policy = "dynamic" /\ pc = "kvPlaced" /\ pc' = "place"
      /\ free' = [NoRoom EXCEPT !["gpu"] = Cap("gpu"), !["host"] = LeftByKv("host")]
      /\ reserve' = [reserve EXCEPT !["cxl"] = LeftByKv("cxl")]
      /\ UNCHANGED <<run, phaseVars, kvVars, share, next, staging, headroom, decodeVars>>
  BY DEF DynamicCounters, At
<1>2. /\ \A t \in DramTiers : /\ LeftByKv(t) = Cap(t) - took[t] /\ LeftByKv(t) \in Nat
                              /\ took[t] \in Nat /\ Cap(t) \in Nat
      /\ reserve = NoRoom
  BY <1>1, BeforeCounters
<1>3. /\ TypeOK /\ KvInv /\ run \in Runs
  BY DEF BaseInv
<1>4. took["gpu"] = 0
  BY <1>1, <1>3, TiersReadAre, TierNames DEF KvInv
<1>5. /\ "gpu" \in FastTiers /\ "host" \in FastTiers /\ "cxl" \in FastTiers
      /\ "gpu" \in DramTiers /\ "host" \in DramTiers /\ "cxl" \in DramTiers
  BY TierNames
<1>6. /\ Cap("gpu") \in Nat /\ LeftByKv("host") \in Nat /\ LeftByKv("cxl") \in Nat
  BY <1>2, <1>5
<1>7. /\ \A t \in FastTiers : free'[t] = IF t = "gpu" THEN Cap("gpu") ELSE
                                          IF t = "host" THEN LeftByKv("host") ELSE 0
      /\ \A t \in FastTiers : reserve'[t] = IF t = "cxl" THEN LeftByKv("cxl") ELSE 0
  BY <1>1, <1>2, <1>5 DEF NoRoom
<1>8. free' \in [FastTiers -> Nat] /\ reserve' \in [FastTiers -> Nat]
  BY <1>1, <1>2, <1>5, <1>6 DEF NoRoom
<1>9. \A t \in DramTiers : took[t] + reserve'[t] + free'[t] = Cap(t)
  <2> TAKE t \in DramTiers
  <2>1. t \in {"gpu", "host", "cxl"} /\ t \in FastTiers
    BY TierNames
  <2> QED
    BY <1>2, <1>4, <1>5, <1>7, <2>1
<1> QED
  BY <1>1, <1>3, <1>5, <1>7, <1>8, <1>9, CountersKeep DEF TypeOK

\* ITME, the prefetch ring and the host's staging, keeps the invariant.
LEMMA ItmeReserves ==
  ASSUME BaseInv, ItmeReserve
  PROVE  BaseInv'
<1>1. /\ run.policy = "itme" /\ pc = "start" /\ pc' = "place"
      /\ reserve' = [NoRoom EXCEPT !["cxl"] = Ring, !["host"] = run.hostStaging]
      /\ staging' = Ring + run.hostStaging
      /\ free' = [NoRoom EXCEPT ![Engine] = IF Gpu THEN Cap("gpu")
                                            ELSE Cap("host") - run.hostStaging]
      /\ UNCHANGED <<run, phaseVars, kvVars, share, next, headroom, decodeVars>>
  BY DEF ItmeReserve, At
<1>2. /\ run \in Runs /\ share \in [Layers -> Share] /\ TypeOK /\ KvInv /\ PlaceInv
      /\ StepInv /\ PhaseInv
  BY DEF BaseInv
<1>3. KvInv'
  BY <1>1, <1>2, KvHeld DEF NoCache, At
<1>4. StepInv' /\ PhaseInv'
  BY <1>1, <1>2, QuietSteps DEF Placing
<1>5. /\ Layers' = Layers /\ layers' = layers /\ \A t : Cap(t)' = Cap(t)
      /\ \A l, t : InTier(l, t)' = InTier(l, t) /\ embedding_last' = embedding_last
      /\ Engine' = Engine /\ Gpu' = Gpu /\ Ring' = Ring
  BY <1>1, RunFixed, EngineFixed
<1>6. /\ took' = took /\ kvLeft' = kvLeft /\ tail' = tail /\ step' = step /\ spill' = spill
      /\ share' = share /\ next' = next /\ headroom' = headroom /\ run' = run
  BY <1>1 DEF kvVars, decodeVars
<1>7. next = 1 /\ \A l \in Layers : Kept(l)
  BY <1>1, <1>2 DEF PlaceInv, FreshInv, Untouched
<1>8. /\ Ring \in Nat /\ run.hostStaging \in Nat /\ run.hostStaging <= Cap("host")
      /\ Cap("gpu") \in Nat /\ Cap("host") \in Nat
      /\ Engine \in FastTiers /\ Engine \in DramTiers /\ Engine = (IF Gpu THEN "gpu" ELSE "host")
      /\ "cxl" \in FastTiers /\ "host" \in FastTiers
  <2>1. "gpu" \in FastTiers /\ "host" \in FastTiers /\ "cxl" \in FastTiers
        /\ "host" \in DramTiers /\ "gpu" \in DramTiers
    BY TierNames
  <2> QED
    BY <1>2, <2>1, EngineFacts, RunFacts, CapNat
<1>9. /\ free' \in [FastTiers -> Nat] /\ reserve' \in [FastTiers -> Nat] /\ staging' \in Nat
      /\ free'[Engine] = Cap(Engine) - (IF Gpu THEN 0 ELSE run.hostStaging)
  BY <1>1, <1>8 DEF NoRoom
<1>10. TypeOK' /\ share' \in [Layers' -> Share]
  BY <1>1, <1>2, <1>5, <1>6, <1>9 DEF TypeOK
<1>11. \A l \in Layers : Kept(l)'
  BY <1>5, <1>6, <1>7 DEF Kept
<1>12. OrderInv'
  <2>1. \A n \in Layers : embedding_last[n] \in Layers
    BY <1>2, OrderFacts
  <2> QED
    BY <1>1, <1>5, <1>11, <2>1 DEF OrderInv, Kept
<1>13. WeightsIn(Engine)' = 0
  <2>1. PICK e : e = Engine
    OBVIOUS
  <2>2. WeightsIn(e)' = 0
    BY <1>2, <1>6, <1>7, <1>8, <2>1, NoneInDram, WeightsSame, SMTT(60)
  <2> QED
    BY <1>5, <2>1, <2>2 DEF WeightsIn
<1>14. ItmeInv'
  <2>1. free'[Engine] + WeightsIn(Engine)' = Cap(Engine) - (IF Gpu THEN 0 ELSE run.hostStaging)
    BY <1>8, <1>9, <1>13, CapNat
  <2>2. \A l \in Layers : share'[l] \in {InTier(l, Engine), InTier(l, "nand")}
    BY <1>6, <1>7 DEF Kept
  <2> QED
    BY <1>1, <1>5, <1>6, <2>1, <2>2 DEF ItmeInv, NoRoom, Cap, PoolCap, InTier, Nowhere, BytesOf
<1>15. FreshInv' /\ LedgerInv'
  BY <1>1, <1>6 DEF FreshInv, Untouched, LedgerInv, LedgerPhase
<1> QED
  BY <1>2, <1>3, <1>4, <1>6, <1>10, <1>12, <1>14, <1>15 DEF BaseInv, PlaceInv

-----------------------------------------------------------------------------
(* The placement loops.                                                    *)

\* The layer the loop is at is on NAND, and no later turn comes back to it.
LEMMA LoopLayer ==
  ASSUME run \in Runs, next \in Layers
  PROVE  /\ Loop \in Layers
         /\ \A n \in Layers : n > next => embedding_last[n] # Loop /\ embedding_last[n] \in Layers
<1>1. next \in Int /\ \A n \in Layers : n \in Int
  BY RunFacts
<1> QED
  BY <1>1, OrderFacts DEF Loop

\* The loop over the layers ends one past the last.
LEMMA NextTurn ==
  ASSUME run \in Runs, next \in Layers, next' = next + 1
  PROVE  next' \in 1 .. (Len(layers) + 1)
<1>1. PICK n : n = Len(layers)
  OBVIOUS
<1>2. n \in Nat /\ next \in 1 .. n
  BY <1>1, RunFacts, Zenon
<1>3. next' \in 1 .. (n + 1)
  BY <1>2
<1> QED
  BY <1>1, <1>3, Zenon

\* FirstFit over fast tiers finds one of them, with room, or NAND.
LEMMA FirstFitTier ==
  ASSUME NEW l,
         NEW tiers \in {<<"gpu", "cxl">>, <<"gpu", "host", "cxl">>, <<"gpu", "host">>,
                        <<"gpu">>, <<"host">>}
  PROVE  /\ FirstFit(l, tiers) \in DramTiers \cup {"nand"}
         /\ FirstFit(l, tiers) # "nand" => BytesOf(l) <= free[FirstFit(l, tiers)]
         /\ tiers = <<"gpu", "host">> => FirstFit(l, tiers) # "cxl"
         /\ tiers = <<"gpu">> => FirstFit(l, tiers) \in {"gpu", "nand"}
         /\ tiers = <<"host">> => FirstFit(l, tiers) \in {"host", "nand"}
<1>1. DOMAIN tiers \subseteq Nat /\ \A n \in DOMAIN tiers : tiers[n] \in DramTiers
  <2>1. "gpu" \in DramTiers /\ "host" \in DramTiers /\ "cxl" \in DramTiers
    BY TierNames
  <2> QED
    BY <2>1
<1>2. /\ tiers = <<"gpu", "host">> => \A n \in DOMAIN tiers : tiers[n] \in {"gpu", "host"}
      /\ tiers = <<"gpu">> => \A n \in DOMAIN tiers : tiers[n] = "gpu"
      /\ tiers = <<"host">> => \A n \in DOMAIN tiers : tiers[n] = "host"
  OBVIOUS
<1>3. PICK t : t = FirstFit(l, tiers)
  OBVIOUS
<1>4. \/ t = "nand"
      \/ \E n \in DOMAIN tiers : t = tiers[n] /\ BytesOf(l) <= free[tiers[n]]
  BY <1>1, <1>3, FirstFitFits
<1>5. CASE t = "nand"
  BY <1>3, <1>5
<1>6. CASE t # "nand"
  <2>1. PICK n \in DOMAIN tiers : t = tiers[n] /\ BytesOf(l) <= free[tiers[n]]
    BY <1>4, <1>6
  <2> QED
    BY <1>1, <1>2, <1>3, <2>1
<1> QED
  BY <1>5, <1>6

\* One turn of a loop that gives a whole layer to the first tier it fits.
LEMMA PlaceKeeps ==
  ASSUME BaseInv, pc = "place", run.policy # "itme", next \in Layers,
         NEW tiers \in {<<"gpu", "cxl">>, <<"gpu", "host", "cxl">>, <<"gpu", "host">>},
         run.policy = "dynamic" => tiers = <<"gpu", "host">>,
         PlaceWhole(Loop, FirstFit(Loop, tiers)), next' = next + 1,
         UNCHANGED <<run, phaseVars, pc, kvVars, reserve, staging, headroom, decodeVars>>
  PROVE  BaseInv'
<1>1. /\ run \in Runs /\ share \in [Layers -> Share] /\ TypeOK /\ KvInv /\ PlaceInv
      /\ StepInv /\ PhaseInv
  BY DEF BaseInv
<1>2. KvInv'
  BY <1>1, KvHeld DEF NoCache, At
<1>3. StepInv' /\ PhaseInv'
  BY <1>1, QuietSteps DEF Placing
<1>4. /\ Layers' = Layers /\ layers' = layers /\ \A t : Cap(t)' = Cap(t)
      /\ \A l, t : InTier(l, t)' = InTier(l, t) /\ embedding_last' = embedding_last
  BY RunFixed
<1>5. /\ took' = took /\ kvLeft' = kvLeft /\ tail' = tail /\ step' = step /\ spill' = spill
      /\ reserve' = reserve /\ headroom' = headroom /\ run' = run /\ pc' = pc
      /\ staging' = staging
  BY DEF kvVars, decodeVars
<1>6. PICK l \in Layers : l = Loop
  BY <1>1, LoopLayer
<1>7. PICK t \in DramTiers \cup {"nand"} : t = FirstFit(l, tiers)
  BY <1>6, FirstFitTier
<1>8. /\ t # "nand" => BytesOf(l) <= free[t]
      /\ run.policy = "dynamic" => t # "cxl"
  BY <1>6, <1>7, FirstFitTier
<1>9. PlaceWhole(l, t)
  BY <1>6, <1>7
<1>10. Balanced /\ (run.policy = "dynamic" => free["cxl"] = 0)
       /\ \A n \in Layers : n >= next => Kept(embedding_last[n])
  BY <1>1 DEF PlaceInv, LedgerInv, LedgerPhase, OrderInv
<1>11. Kept(l)
  <2>1. next \in Int
    BY <1>1, RunFacts
  <2> QED
    BY <1>6, <1>10, <2>1 DEF Loop
<1>12. /\ share' \in [Layers -> Share] /\ free' \in [FastTiers -> Nat]
       /\ \A j \in Layers : j # l => share'[j] = share[j]
       /\ \A u \in FastTiers : u # t => free'[u] = free[u]
       /\ Balanced'
  BY <1>1, <1>5, <1>8, <1>9, <1>10, <1>11, PlaceWholeKeeps
<1>13. next' \in 1 .. (Len(layers) + 1)
  BY <1>1, NextTurn
<1>14. TypeOK'
  BY <1>1, <1>4, <1>5, <1>12, <1>13 DEF TypeOK
<1>15. LedgerInv'
  <2>1. run.policy = "dynamic" => free'["cxl"] = 0
    BY <1>8, <1>10, <1>12, TierNames
  <2> QED
    BY <1>5, <1>12, <2>1 DEF LedgerInv
<1>16. OrderInv'
  <2>1. ASSUME NEW n \in Layers, n >= next' PROVE Kept(embedding_last[n])'
    <3>0. n \in Int /\ next \in Int
      BY <1>1, RunFacts
    <3>1. n \in Int /\ next \in Int /\ n > next /\ n >= next
      BY <3>0, <1>1, <2>1
    <3>2. PICK j : j = embedding_last[n]
      OBVIOUS
    <3>3. j # l /\ j \in Layers /\ Kept(j)
      BY <1>1, <1>6, <1>10, <3>1, <3>2, LoopLayer
    <3>4. share'[j] = InTier(j, "nand")
      BY <1>12, <3>3 DEF Kept
    <3> QED
      BY <1>4, <3>2, <3>4 DEF Kept
  <2> QED
    BY <1>4, <1>5, <2>1 DEF OrderInv
<1>17. FreshInv' /\ ItmeInv'
  BY <1>5 DEF FreshInv, Untouched, ItmeInv
<1> QED
  BY <1>1, <1>2, <1>3, <1>4, <1>5, <1>12, <1>14, <1>15, <1>16, <1>17 DEF BaseInv, PlaceInv

\* LIA, one layer placed, keeps the invariant.
LEMMA LiaPlaces ==
  ASSUME BaseInv, LiaPlace
  PROVE  BaseInv'
<1>1. /\ run.policy = "lia" /\ pc = "place" /\ next \in Layers /\ next' = next + 1
      /\ PlaceWhole(Loop, FirstFit(Loop, <<"gpu", "cxl">>))
      /\ UNCHANGED <<run, phaseVars, pc, kvVars, reserve, staging, headroom, decodeVars>>
  BY DEF LiaPlace, At
<1> QED
  BY <1>1, PlaceKeeps

\* CXLAimPod, one layer placed, keeps the invariant.
LEMMA AimPodPlaces ==
  ASSUME BaseInv, AimPodPlace
  PROVE  BaseInv'
<1>1. /\ run.policy = "aimpod" /\ pc = "place" /\ next \in Layers /\ next' = next + 1
      /\ PlaceWhole(Loop, FirstFit(Loop, <<"gpu", "host", "cxl">>))
      /\ UNCHANGED <<run, phaseVars, pc, kvVars, reserve, staging, headroom, decodeVars>>
  BY DEF AimPodPlace, At
<1> QED
  BY <1>1, PlaceKeeps

\* The dynamic plan, one layer placed, keeps the invariant.
LEMMA DynamicPlaces ==
  ASSUME BaseInv, DynamicPlace
  PROVE  BaseInv'
<1>1. /\ run.policy = "dynamic" /\ pc = "place" /\ next \in Layers /\ next' = next + 1
      /\ PlaceWhole(Loop, FirstFit(Loop, <<"gpu", "host">>))
      /\ UNCHANGED <<run, phaseVars, pc, kvVars, reserve, staging, headroom, decodeVars>>
  BY DEF DynamicPlace, At
<1> QED
  BY <1>1, PlaceKeeps

\* ITME, one layer placed, keeps the invariant.
LEMMA ItmePlaces ==
  ASSUME BaseInv, ItmePlace
  PROVE  BaseInv'
<1> DEFINE where == IF layers[Loop].kind = "MLP" THEN "nand" ELSE FirstFit(Loop, <<Engine>>)
<1>1. /\ run.policy = "itme" /\ pc = "place" /\ next \in Layers /\ next' = next + 1
      /\ PlaceWhole(Loop, where)
      /\ UNCHANGED <<run, phaseVars, pc, kvVars, reserve, staging, headroom, decodeVars>>
  BY DEF ItmePlace, At
<1>2. /\ run \in Runs /\ share \in [Layers -> Share] /\ TypeOK /\ KvInv /\ PlaceInv
      /\ StepInv /\ PhaseInv
  BY DEF BaseInv
<1>3. KvInv'
  BY <1>1, <1>2, KvHeld DEF NoCache, At
<1>4. StepInv' /\ PhaseInv'
  BY <1>1, <1>2, QuietSteps DEF Placing
<1>5. /\ Layers' = Layers /\ layers' = layers /\ \A t : Cap(t)' = Cap(t)
      /\ \A l, t : InTier(l, t)' = InTier(l, t) /\ embedding_last' = embedding_last
      /\ Engine' = Engine /\ Gpu' = Gpu /\ Ring' = Ring
  BY <1>1, RunFixed, EngineFixed
<1>6. /\ took' = took /\ kvLeft' = kvLeft /\ tail' = tail /\ step' = step /\ spill' = spill
      /\ reserve' = reserve /\ headroom' = headroom /\ run' = run /\ pc' = pc
      /\ staging' = staging
  BY <1>1 DEF kvVars, decodeVars
<1>7. PICK l \in Layers : l = Loop
  BY <1>1, <1>2, LoopLayer
<1>8. PICK e : e = Engine
  OBVIOUS
<1>9. e \in {"gpu", "host"} /\ e \in DramTiers /\ e \in FastTiers
  BY <1>2, <1>8, EngineFacts, TierNames
<1>10. PICK t : t = where
  OBVIOUS
<1>11. t \in {e, "nand"} /\ (t # "nand" => BytesOf(l) <= free[t])
  <2>1. PICK tiers : tiers = <<e>>
    OBVIOUS
  <2>2. tiers \in {<<"gpu">>, <<"host">>} /\ (e = "gpu" => tiers = <<"gpu">>)
        /\ (e = "host" => tiers = <<"host">>)
    BY <1>9, <2>1
  <2>3. /\ FirstFit(l, tiers) \in {e, "nand"}
        /\ FirstFit(l, tiers) # "nand" => BytesOf(l) <= free[FirstFit(l, tiers)]
    BY <1>9, <2>2, FirstFitTier
  <2> QED
    BY <1>7, <1>8, <1>10, <2>1, <2>3
<1>12. t \in DramTiers \cup {"nand"} /\ PlaceWhole(l, t)
  BY <1>1, <1>7, <1>9, <1>10, <1>11
<1> HIDE DEF where
<1>13. /\ \A n \in Layers : n >= next => Kept(embedding_last[n])
       /\ reserve = [NoRoom EXCEPT !["cxl"] = Ring, !["host"] = run.hostStaging]
       /\ staging = Ring + run.hostStaging
       /\ free[e] + WeightsIn(e) = Cap(e) - (IF Gpu THEN 0 ELSE run.hostStaging)
       /\ \A j \in Layers : share[j] \in {InTier(j, e), InTier(j, "nand")}
  BY <1>1, <1>2, <1>8 DEF PlaceInv, ItmeInv, OrderInv
<1>14. Kept(l)
  <2>1. next \in Int
    BY <1>1, <1>2, RunFacts
  <2> QED
    BY <1>1, <1>7, <1>13, <2>1 DEF Loop
<1>15. /\ share' \in [Layers -> Share] /\ free' \in [FastTiers -> Nat]
       /\ share'[l] = InTier(l, t)
       /\ \A j \in Layers : j # l => share'[j] = share[j]
       /\ \A u \in DramTiers : free'[u] + WeightsIn(u)' = free[u] + WeightsIn(u)
  BY <1>1, <1>2, <1>11, <1>12, <1>14, PlaceWholeKeeps
<1>16. next' \in 1 .. (Len(layers) + 1)
  BY <1>1, <1>2, NextTurn
<1>17. TypeOK'
  BY <1>2, <1>5, <1>6, <1>15, <1>16 DEF TypeOK
<1>18. OrderInv'
  <2>1. ASSUME NEW n \in Layers, n >= next' PROVE Kept(embedding_last[n])'
    <3>0. n \in Int /\ next \in Int
      BY <1>1, <1>2, RunFacts
    <3>1. n \in Int /\ next \in Int /\ n > next /\ n >= next
      BY <3>0, <1>1, <2>1
    <3>2. PICK j : j = embedding_last[n]
      OBVIOUS
    <3>3. j # l /\ j \in Layers /\ Kept(j)
      BY <1>1, <1>2, <1>7, <1>13, <3>1, <3>2, LoopLayer
    <3>4. share'[j] = InTier(j, "nand")
      BY <1>15, <3>3 DEF Kept
    <3> QED
      BY <1>5, <3>2, <3>4 DEF Kept
  <2> QED
    BY <1>1, <1>5, <1>6, <2>1 DEF OrderInv
<1>19. ItmeInv'
  <2>1. free'[e] + WeightsIn(e)' = Cap(e) - (IF Gpu THEN 0 ELSE run.hostStaging)
    BY <1>9, <1>13, <1>15
  <2>2. \A j \in Layers : share'[j] \in {InTier(j, e), InTier(j, "nand")}
    BY <1>11, <1>13, <1>15
  <2>3. free[Engine]' = free'[e] /\ WeightsIn(Engine)' = WeightsIn(e)'
        /\ Cap(Engine)' = Cap(e) /\ \A j : InTier(j, Engine)' = InTier(j, e)
    BY <1>5, <1>8 DEF WeightsIn, Cap, PoolCap, InTier, BytesOf
  <2>4. NoRoom' = NoRoom
    BY DEF NoRoom
  <2> QED
    BY <1>5, <1>6, <1>8, <1>13, <2>1, <2>2, <2>3, <2>4 DEF ItmeInv, NoRoom
<1>20. FreshInv' /\ LedgerInv'
  BY <1>1, <1>6 DEF FreshInv, Untouched, LedgerInv, LedgerPhase
<1> QED
  BY <1>2, <1>3, <1>4, <1>5, <1>6, <1>15, <1>17, <1>18, <1>19, <1>20 DEF BaseInv, PlaceInv

\* What Balanced says depends on these variables only.
LEMMA BalancedSame ==
  ASSUME Balanced, UNCHANGED <<run, took, reserve, free, share>>
  PROVE  Balanced'
<1>1. /\ Layers' = Layers /\ \A t : Cap(t)' = Cap(t) /\ \A l : BytesOf(l)' = BytesOf(l)
      /\ \A t : WeightsIn(t)' = WeightsIn(t)
  BY RunFixed, WeightsSame
<1> QED
  BY <1>1 DEF Balanced, SumOf

\* The hot layers of FlexGen.
LEMMA FlexGenPins ==
  ASSUME BaseInv, FlexGenPin
  PROVE  BaseInv'
<1> DEFINE h == FromLast
<1>1. /\ run.policy = "flexgen" /\ pc = "pin"
      /\ UNCHANGED <<run, phaseVars, kvVars, reserve, staging, headroom, decodeVars>>
  BY DEF FlexGenPin, At
<1>2. /\ run \in Runs /\ share \in [Layers -> Share] /\ TypeOK /\ KvInv /\ PlaceInv
      /\ StepInv /\ PhaseInv
  BY DEF BaseInv
<1>3. pc' \in {"pin", "fill"}
  BY <1>1 DEF FlexGenPin
<1>4. KvInv'
  BY <1>1, <1>2, <1>3, KvHeld DEF NoCache, At
<1>5. StepInv' /\ PhaseInv'
  BY <1>1, <1>2, <1>3, QuietSteps DEF Placing
<1>6. /\ Layers' = Layers /\ layers' = layers /\ \A t : Cap(t)' = Cap(t)
      /\ \A l, t : InTier(l, t)' = InTier(l, t) /\ embedding_last' = embedding_last
  BY <1>1, RunFixed
<1>7. /\ took' = took /\ kvLeft' = kvLeft /\ tail' = tail /\ step' = step /\ spill' = spill
      /\ reserve' = reserve /\ headroom' = headroom /\ run' = run /\ staging' = staging
  BY <1>1 DEF kvVars, decodeVars
<1>8. Balanced /\ staging = StagedOf(reserve)
      /\ \A l \in Layers : InOne(l) /\ (l <= h => Kept(l))
  BY <1>1, <1>2 DEF PlaceInv, LedgerInv, LedgerPhase, OrderInv
<1>9. /\ h \in Int /\ \A l \in Layers : l \in Int
      /\ next \in Layers => h \in Layers
      /\ next' = next + 1 => FromLast' = h - 1
  <2>1. PICK n : n = Len(layers)
    OBVIOUS
  <2>2. n \in Nat /\ Layers = 1 .. n /\ next \in 1 .. (n + 1)
    BY <1>2, <2>1, RunFacts, Zenon DEF TypeOK
  <2>3. h = n + 1 - next /\ FromLast' = n + 1 - next'
    BY <1>6, <2>1 DEF FromLast
  <2> HIDE DEF h
  <2> QED
    BY <2>2, <2>3
<1> HIDE DEF h
<1>10. CASE next \in Layers /\ layers[h].hot
  <2>1. /\ next' = next + 1 /\ pc' = "pin"
        /\ PlaceWhole(h, FirstFit(h, FlexGenTiers)) /\ h \in Layers
    BY <1>1, <1>9, <1>10 DEF FlexGenPin, h
  <2>2. PICK t \in DramTiers \cup {"nand"} :
          t = FirstFit(h, FlexGenTiers) /\ (t # "nand" => BytesOf(h) <= free[t])
    BY FirstFitTier DEF FlexGenTiers
  <2>3. Kept(h) /\ PlaceWhole(h, t)
    BY <1>8, <1>9, <1>10, <2>1, <2>2
  <2>4. /\ share' \in [Layers -> Share] /\ free' \in [FastTiers -> Nat]
        /\ share'[h] = InTier(h, t)
        /\ \A j \in Layers : j # h => share'[j] = share[j]
        /\ Balanced'
    BY <1>1, <1>2, <1>7, <1>8, <2>1, <2>2, <2>3, PlaceWholeKeeps
  <2>5. next' \in 1 .. (Len(layers) + 1)
    BY <1>2, <1>10, <2>1, NextTurn
  <2>6. TypeOK'
    BY <1>2, <1>6, <1>7, <2>1, <2>4, <2>5 DEF TypeOK
  <2>7. OrderInv'
    <3> SUFFICES ASSUME NEW j \in Layers
                 PROVE  /\ \E u \in DramTiers \cup {"nand"} : share'[j] = InTier(j, u)
                        /\ j < h => share'[j] = InTier(j, "nand")
      BY <1>6, <1>9, <2>1 DEF OrderInv, InOne, Kept
    <3>1. CASE j = h
      BY <1>9, <2>1, <2>2, <2>4, <3>1
    <3>2. CASE j # h
      <4>1. share'[j] = share[j] /\ (j < h => j <= h)
        BY <1>9, <2>4, <3>2
      <4> QED
        BY <1>8, <4>1 DEF InOne, Kept
    <3> QED
      BY <3>1, <3>2
  <2>8. LedgerInv' /\ FreshInv' /\ ItmeInv'
    BY <1>1, <1>7, <1>8, <2>1, <2>4
    DEF LedgerInv, LedgerPhase, StagedOf, FreshInv, Untouched, ItmeInv
  <2> QED
    BY <1>2, <1>4, <1>5, <1>6, <1>7, <2>4, <2>6, <2>7, <2>8 DEF BaseInv, PlaceInv
<1>11. CASE ~(next \in Layers /\ layers[h].hot)
  <2>1. /\ share' = share /\ free' = free
        /\ \/ next \in Layers /\ next' = next + 1 /\ pc' = "pin"
           \/ next' = 1 /\ pc' = "fill"
    BY <1>1, <1>11 DEF FlexGenPin, h
  <2>2. next' \in 1 .. (Len(layers) + 1)
    <3>1. Len(layers) \in Nat
      BY <1>2, RunFacts
    <3> QED
      BY <1>2, <2>1, <3>1, NextTurn
  <2>3. free \in [FastTiers -> Nat]
    BY <1>1, <1>2 DEF TypeOK
  <2>4. TypeOK' /\ share' \in [Layers' -> Share]
    BY <1>2, <1>3, <1>6, <1>7, <2>1, <2>2, <2>3 DEF TypeOK
  <2>5. \A l \in Layers : /\ InOne(l)' /\ (pc' = "pin" /\ l <= FromLast' => Kept(l)')
    <3>1. \A l \in Layers : pc' = "pin" /\ l <= FromLast' => l <= h
      BY <1>9, <2>1
    <3> QED
      BY <1>6, <1>8, <2>1, <3>1 DEF InOne, Kept
  <2>6. OrderInv'
    <3>1. \A n \in Layers : embedding_last[n] \in Layers
      BY <1>2, OrderFacts
    <3> QED
      BY <1>6, <2>1, <2>5, <3>1 DEF OrderInv, InOne, Kept
  <2>7. Balanced'
    BY <1>7, <1>8, <2>1, BalancedSame
  <2>8. LedgerInv' /\ FreshInv' /\ ItmeInv'
    BY <1>1, <1>3, <1>7, <1>8, <2>7
    DEF LedgerInv, LedgerPhase, StagedOf, FreshInv, Untouched, ItmeInv
  <2> QED
    BY <1>2, <1>4, <1>5, <1>7, <2>4, <2>6, <2>8, SMTT(60) DEF BaseInv, PlaceInv
<1> QED
  BY <1>10, <1>11

\* The split of a filled layer takes no more of a tier than is free, and is whole.
LEMMA FilledFacts ==
  ASSUME run \in Runs, free \in [FastTiers -> Nat], NEW l \in Layers
  PROVE  /\ Filled(l) \in [Tiers -> Nat] /\ SumOf(Filled(l)) = BytesOf(l)
         /\ \A t \in DramTiers : Filled(l)[t] <= free[t]
         /\ Filled(l)["pool"] = 0
<1> DEFINE b == BytesOf(l)
           g == Smaller(b, free["gpu"])
           h == Smaller(b - g, free["host"])
           c == Smaller(b - g - h, free["cxl"])
<1>1. b \in Nat /\ free["gpu"] \in Nat /\ free["host"] \in Nat /\ free["cxl"] \in Nat
  BY RunFacts, TierNames
<1>2. Filled(l) = [Nowhere EXCEPT !["gpu"] = g, !["host"] = h, !["cxl"] = c,
                                  !["nand"] = b - g - h - c]
  BY DEF Filled
<1> HIDE DEF b
<1>3. g \in Nat /\ g <= free["gpu"] /\ g <= b
  BY <1>1 DEF Smaller
<1> HIDE DEF g
<1>4. h \in Nat /\ h <= free["host"] /\ h <= b - g
  BY <1>1, <1>3 DEF Smaller
<1> HIDE DEF h
<1>5. c \in Nat /\ c <= free["cxl"] /\ c <= b - g - h
  BY <1>1, <1>3, <1>4 DEF Smaller
<1> HIDE DEF c
<1>6. b - g - h - c \in Nat
  BY <1>1, <1>3, <1>4, <1>5
<1>7. PICK f : f = Filled(l)
  OBVIOUS
<1>8. f \in [Tiers -> Nat]
  BY <1>2, <1>3, <1>4, <1>5, <1>6, <1>7, TierNames DEF Nowhere
<1>9. f["gpu"] = g /\ f["host"] = h /\ f["cxl"] = c /\ f["pool"] = 0 /\ f["nand"] = b - g - h - c
  BY <1>2, <1>7, TierNames DEF Nowhere
<1>10. SumOf(f) = b
  BY <1>1, <1>3, <1>4, <1>5, <1>6, <1>9 DEF SumOf
<1>11. \A t \in DramTiers : f[t] <= free[t]
  BY <1>3, <1>4, <1>5, <1>9, TierNames
<1> QED
  BY <1>7, <1>8, <1>9, <1>10, <1>11 DEF b

\* A layer on NAND that is given what fits of it keeps the ledger balanced.
LEMMA FillBalances ==
  ASSUME run \in Runs, share \in [Layers -> Share], TypeOK, pc = "fill", Balanced,
         NEW l \in Layers, Kept(l), NEW of, of = Filled(l),
         share' = [share EXCEPT ![l].of = of], free' = [t \in FastTiers |-> free[t] - of[t]],
         UNCHANGED <<run, took, reserve>>
  PROVE  /\ share' \in [Layers -> Share] /\ free' \in [FastTiers -> Nat]
         /\ \A j \in Layers : j # l => share'[j] = share[j]
         /\ Balanced'
<1>1. free \in [FastTiers -> Nat]
  BY DEF TypeOK
<1>2. /\ of \in [Tiers -> Nat] /\ SumOf(of) = BytesOf(l) /\ of["pool"] = 0
      /\ \A t \in DramTiers : of[t] <= free[t]
  BY <1>1, FilledFacts
<1>3. /\ Layers' = Layers /\ \A t : Cap(t)' = Cap(t) /\ \A j : BytesOf(j)' = BytesOf(j)
  BY RunFixed
<1>4. share[l].total = BytesOf(l) /\ BytesOf(l) \in Nat
  BY RunFacts DEF Balanced
<1>5. PICK sh : sh = [of |-> of, total |-> BytesOf(l)]
  OBVIOUS
<1>6. sh \in Share /\ sh.of = of /\ sh.total = BytesOf(l)
  BY <1>2, <1>4, <1>5 DEF Share
<1>7. share' = [share EXCEPT ![l] = sh]
  <2>1. share[l] \in Share
    OBVIOUS
  <2>2. [share[l] EXCEPT !.of = of] = sh
    BY <1>4, <1>5, <2>1 DEF Share
  <2> QED
    BY <2>2
<1>8. /\ share' \in [Layers -> Share] /\ share'[l] = sh
      /\ \A j \in Layers : j # l => share'[j] = share[j]
  BY <1>6, <1>7
<1>9. \A t \in FastTiers : t = "pool" \/ t \in DramTiers
  BY DEF FastTiers
<1>10. \A t \in FastTiers : free'[t] = free[t] - of[t] /\ free[t] \in Nat /\ of[t] \in Nat
  BY <1>1, <1>2, TierNames
<1>11. \A t \in FastTiers : free'[t] \in Nat
  BY <1>2, <1>9, <1>10
<1>12. free' \in [FastTiers -> Nat]
  BY <1>11
<1>13. ASSUME NEW t \in DramTiers
       PROVE  took'[t] + reserve'[t] + free'[t] + WeightsIn(t)' = Cap(t)'
  <2>1. t \in Tiers /\ t \in FastTiers /\ t # "nand"
    BY TierNames
  <2>2. share[l].of[t] = 0
    BY <2>1, InTierFacts, TierNames DEF Kept
  <2>3. WeightsIn(t)' = WeightsIn(t) - share[l].of[t] + sh.of[t]
    BY <1>6, <1>7, <2>1, WeightsChange, ZenonT(60)
  <2>4. WeightsIn(t) \in Nat /\ took[t] \in Nat /\ reserve[t] \in Nat
    BY <2>1, WeightsNat, StateType
  <2>5. took[t] + reserve[t] + free[t] + WeightsIn(t) = Cap(t)
    BY DEF Balanced
  <2>6. free'[t] = free[t] - of[t] /\ free[t] \in Nat /\ of[t] \in Nat
    BY <1>10, <2>1
  <2>7. WeightsIn(t)' = WeightsIn(t) + of[t]
    BY <1>6, <2>2, <2>3, <2>4, <2>6
  <2>8. took'[t] = took[t] /\ reserve'[t] = reserve[t] /\ Cap(t)' = Cap(t)
    BY <1>3
  <2> QED
    BY <2>4, <2>5, <2>6, <2>7, <2>8
<1>14. \A j \in Layers : SumOf(share'[j].of) = share'[j].total /\ share'[j].total = BytesOf(j)
  BY <1>2, <1>6, <1>8 DEF Balanced
<1>15. PICK s2 : s2 = share'
  OBVIOUS
<1>16. \A j \in Layers : SumOf(s2[j].of) = s2[j].total /\ s2[j].total = BytesOf(j)
  BY <1>14, <1>15
<1>17. Balanced'
  BY <1>3, <1>13, <1>15, <1>16, ZenonT(60) DEF Balanced, SumOf
<1> QED
  BY <1>8, <1>12, <1>17

\* FlexGen, one layer of the filling pass, keeps the invariant.
LEMMA FlexGenFills ==
  ASSUME BaseInv, FlexGenFill
  PROVE  BaseInv'
<1>1. /\ run.policy = "flexgen" /\ pc = "fill" /\ next \in Layers /\ next' = next + 1
      /\ UNCHANGED <<run, phaseVars, pc, kvVars, reserve, staging, headroom, decodeVars>>
  BY DEF FlexGenFill, At
<1>2. /\ run \in Runs /\ share \in [Layers -> Share] /\ TypeOK /\ KvInv /\ PlaceInv
      /\ StepInv /\ PhaseInv
  BY DEF BaseInv
<1>3. KvInv'
  BY <1>1, <1>2, KvHeld DEF NoCache, At
<1>4. StepInv' /\ PhaseInv'
  BY <1>1, <1>2, QuietSteps DEF Placing
<1>5. /\ Layers' = Layers /\ layers' = layers /\ \A t : Cap(t)' = Cap(t)
      /\ \A l, t : InTier(l, t)' = InTier(l, t) /\ embedding_last' = embedding_last
  BY <1>1, RunFixed
<1>6. /\ took' = took /\ kvLeft' = kvLeft /\ tail' = tail /\ step' = step /\ spill' = spill
      /\ reserve' = reserve /\ headroom' = headroom /\ run' = run /\ staging' = staging
      /\ pc' = pc
  BY <1>1 DEF kvVars, decodeVars
<1>7. Balanced /\ staging = StagedOf(reserve)
      /\ \A n \in Layers : n >= next => InOne(embedding_last[n])
  BY <1>1, <1>2 DEF PlaceInv, LedgerInv, LedgerPhase, OrderInv
<1>8. PICK l \in Layers : l = Loop
  BY <1>1, <1>2, LoopLayer
<1>9. InOne(l)
  <2>1. next \in Int
    BY <1>1, <1>2, RunFacts
  <2> QED
    BY <1>1, <1>7, <1>8, <2>1 DEF Loop
<1>10. /\ share' \in [Layers -> Share] /\ free' \in [FastTiers -> Nat]
       /\ \A j \in Layers : j # l => share'[j] = share[j]
       /\ Balanced'
  <2>1. CASE Pinned(l)
    <3>1. share' = share /\ free' = free
      BY <1>8, <2>1 DEF FlexGenFill
    <3>2. free \in [FastTiers -> Nat]
      BY <1>1, <1>2 DEF TypeOK
    <3>3. Balanced'
      BY <1>6, <1>7, <3>1, BalancedSame
    <3> QED
      BY <1>2, <3>1, <3>2, <3>3
  <2>2. CASE ~Pinned(l)
    <3>1. PICK of : of = Filled(l)
      OBVIOUS
    <3>2. share' = [share EXCEPT ![l].of = of] /\ free' = [t \in FastTiers |-> free[t] - of[t]]
      BY <1>8, <2>2, <3>1 DEF FlexGenFill
    <3>3. Kept(l)
      BY <1>9, <2>2 DEF InOne, Pinned, Kept
    <3> QED
      BY <1>1, <1>2, <1>6, <1>7, <3>1, <3>2, <3>3, FillBalances
  <2> QED
    BY <2>1, <2>2
<1>11. next' \in 1 .. (Len(layers) + 1)
  BY <1>1, <1>2, NextTurn
<1>12. TypeOK'
  BY <1>2, <1>5, <1>6, <1>10, <1>11 DEF TypeOK
<1>13. OrderInv'
  <2>1. ASSUME NEW n \in Layers, n >= next' PROVE InOne(embedding_last[n])'
    <3>0. n \in Int /\ next \in Int
      BY <1>1, <1>2, RunFacts
    <3>1. n > next /\ n >= next
      BY <1>1, <2>1, <3>0
    <3>2. PICK j : j = embedding_last[n]
      OBVIOUS
    <3>3. j # l /\ j \in Layers /\ InOne(j)
      BY <1>1, <1>2, <1>7, <1>8, <3>1, <3>2, LoopLayer
    <3>4. share'[j] = share[j]
      BY <1>10, <3>3
    <3> QED
      BY <1>5, <3>2, <3>3, <3>4 DEF InOne
  <2> QED
    BY <1>1, <1>5, <1>6, <2>1 DEF OrderInv
<1>14. LedgerInv' /\ FreshInv' /\ ItmeInv'
  BY <1>1, <1>6, <1>7, <1>10 DEF LedgerInv, LedgerPhase, StagedOf, FreshInv, Untouched, ItmeInv
<1> QED
  BY <1>2, <1>3, <1>4, <1>5, <1>6, <1>10, <1>12, <1>13, <1>14 DEF BaseInv, PlaceInv

-----------------------------------------------------------------------------
(* From placement to the decode steps.                                     *)

\* Where every layer has the total of its bytes, a tier holds its weights, scaled.
LEMMA PlacedIsScaled ==
  ASSUME run \in Runs, share \in [Layers -> Share], TypeOK,
         \A l \in Layers : share[l].total = BytesOf(l), NEW t \in DramTiers
  PROVE  Placed(t) = Denominator * WeightsIn(t)
<1>1. t \in Tiers /\ t # "pool"
  BY TierNames
<1> DEFINE w == [l \in Layers |-> share[l].of[t]]
           v == [l \in Layers |-> PlacedOf(l, t)]
<1>2. IsFiniteSet(Layers) /\ Denominator \in Int /\ Denominator \in Nat
  BY RunFacts, DenominatorNat
<1>3. \A l \in Layers : w[l] \in Int /\ v[l] = Denominator * w[l]
  <2> TAKE l \in Layers
  <2>1. share[l].of[t] \in Nat
    BY <1>1, StateType
  <2>2. PlacedOf(l, t) = share[l].of[t] * Denominator
    BY DEF PlacedOf
  <2>3. share[l].of[t] * Denominator = Denominator * share[l].of[t]
    BY <1>2, <2>1
  <2> QED
    BY <2>1, <2>2, <2>3
<1>4. SumFunctionOnSet(v, Layers) = Denominator * SumFunctionOnSet(w, Layers)
  <2> HIDE DEF w, v
  <2> QED
    BY <1>2, <1>3, SumScale
<1>5. Placed(t) = SumFunctionOnSet(v, Layers)
  BY <1>1 DEF Placed, Total
<1>6. WeightsIn(t) = SumFunctionOnSet(w, Layers)
  BY DEF WeightsIn
<1> QED
  BY <1>4, <1>5, <1>6

\* A balanced tier, scaled.
LEMMA ScaledBalance ==
  ASSUME NEW den \in Nat, NEW y \in Int, NEW w \in Int, NEW c \in Int, y + w = c
  PROVE  den * y + den * w = den * c
<1>1. den * (y + w) = den * y + den * w
  BY Distributes
<1> QED
  BY <1>1

\* The room of the reserve and the free counters.
LEMMA RoomSumOf ==
  ASSUME run.policy # "llmflash", NEW r, NEW f, \A t \in DramTiers : r[t] \in Int /\ f[t] \in Int
  PROVE  Total(LAMBDA t : r[t] + f[t], MyTiers)
           = (r["gpu"] + f["gpu"]) + (r["host"] + f["host"]) + (r["cxl"] + f["cxl"])
<1> DEFINE h == [t \in Tiers |-> IF t \in DramTiers THEN r[t] + f[t] ELSE 0]
           g == [t \in DramTiers |-> r[t] + f[t]]
<1>1. \A t \in Tiers : h[t] \in Int
  OBVIOUS
<1>2. /\ h["gpu"] = r["gpu"] + f["gpu"] /\ h["host"] = r["host"] + f["host"]
      /\ h["cxl"] = r["cxl"] + f["cxl"]
  BY TierNames
<1>3. SumFunctionOnSet(h, DramTiers) = h["gpu"] + h["host"] + h["cxl"]
  <2> HIDE DEF h
  <2> QED
    BY <1>1, DramTiersSum
<1>4. \A t \in DramTiers : h[t] \in Int /\ g[t] = h[t]
  BY <1>1, TierNames
<1>5. IsFiniteSet(DramTiers)
  <2>1. DramTiers = (({} \cup {"gpu"}) \cup {"host"}) \cup {"cxl"}
    BY DEF DramTiers
  <2> QED
    BY <2>1, FS_EmptySet, FS_AddElement
<1>6. SumFunctionOnSet(h, DramTiers) = SumFunctionOnSet(g, DramTiers)
  <2> HIDE DEF h, g
  <2> QED
    BY <1>4, <1>5, SumSame
<1>7. Total(LAMBDA t : r[t] + f[t], MyTiers) = SumFunctionOnSet(g, DramTiers)
  BY DEF Total, MyTiers
<1> QED
  BY <1>2, <1>3, <1>6, <1>7

Room(t) == reserve[t] + free[t]

\* Reserved and free bytes, over the three tiers.
LEMMA RoomSum ==
  ASSUME run \in Runs, share \in [Layers -> Share], TypeOK, run.policy # "llmflash"
  PROVE  Total(LAMBDA t : reserve[t] + free[t], MyTiers) = Room("gpu") + Room("host") + Room("cxl")
<1>1. \A t \in DramTiers : reserve[t] \in Int /\ free[t] \in Int
  BY StateType, TierNames
<1> QED
  BY <1>1, RoomSumOf DEF Room

\* The step that ends a placement whose ledger is balanced, with staging in what is free.
LEMMA StageKeeps ==
  ASSUME BaseInv, pc = "place", run.policy \notin {"itme", "llmflash"}, pc' = "decode",
         UNCHANGED <<run, phaseVars, kvVars, placeVars, decodeVars>>,
         staging' \in Nat, staging' <= Room("gpu") + Room("host") + Room("cxl"),
         headroom' \in Nat, tail \in FastTiers => headroom' = free[tail]
  PROVE  BaseInv'
<1>1. /\ run \in Runs /\ share \in [Layers -> Share] /\ TypeOK /\ KvInv /\ PlaceInv
      /\ StepInv /\ PhaseInv
  BY DEF BaseInv
<1>2. KvInv'
  BY <1>1, KvHeld DEF NoCache, At
<1>3. PhaseInv'
  <2>1. arrival = << >>
    BY <1>1 DEF PhaseInv, InPass, Placing
  <2> QED
    BY <1>1, <2>1, PhaseHeld
<1>4. PlaceInv'
  BY PlacementOver
<1>5. /\ Layers' = Layers /\ layers' = layers /\ \A t : Cap(t)' = Cap(t)
      /\ Denominator' = Denominator /\ MyTiers' = MyTiers
  BY RunFixed
<1>6. /\ took' = took /\ kvLeft' = kvLeft /\ tail' = tail /\ step' = step /\ spill' = spill
      /\ units' = units /\ free' = free /\ next' = next
      /\ reserve' = reserve /\ share' = share /\ run' = run
  BY DEF kvVars, decodeVars, placeVars
<1>7. Balanced
  BY <1>1 DEF PlaceInv, LedgerInv, LedgerPhase
<1>8. free \in [FastTiers -> Nat]
  BY <1>1 DEF TypeOK
<1>9. TypeOK'
  BY <1>1, <1>5, <1>6, <1>8 DEF TypeOK
<1>10. MyTiers = DramTiers
  BY DEF MyTiers
<1>11. BytesAccounted'
  <2> SUFFICES ASSUME NEW t \in DramTiers
               PROVE  Denominator * (took[t] + reserve[t] + free[t]) + Placed(t)
                        = Denominator * Cap(t)
    <3>1. \A t : Placed(t)' = Placed(t)
      BY <1>6, PlacedSame
    <3> QED
      BY <1>5, <1>6, <1>10, <3>1 DEF BytesAccounted
  <2>1. /\ took[t] \in Nat /\ reserve[t] \in Nat /\ free[t] \in Nat /\ WeightsIn(t) \in Nat
        /\ Cap(t) \in Nat /\ Denominator \in Nat
    BY <1>1, <1>8, StateType, TierNames, WeightsNat, CapNat, DenominatorNat
  <2>2. took[t] + reserve[t] + free[t] + WeightsIn(t) = Cap(t)
    BY <1>7 DEF Balanced
  <2>3. Placed(t) = Denominator * WeightsIn(t)
    BY <1>1, <1>7, PlacedIsScaled DEF Balanced
  <2> DEFINE y == took[t] + reserve[t] + free[t]
  <2>4. y \in Int /\ y + WeightsIn(t) = Cap(t)
    BY <2>1, <2>2
  <2> HIDE DEF y
  <2>5. Denominator * y + Denominator * WeightsIn(t) = Denominator * Cap(t)
    BY <2>1, <2>4, ScaledBalance
  <2> QED
    BY <2>3, <2>5 DEF y
<1>12. StagingIsBacked'
  <2>1. Total(LAMBDA t : reserve[t] + free[t], MyTiers)'
          = Total(LAMBDA t : reserve[t] + free[t], MyTiers)
    BY <1>5, <1>6 DEF Total
  <2>2. \A t \in MyTiers : free[t] >= 0
    BY <1>8, <1>10, TierNames
  <2> QED
    BY <1>1, <1>5, <1>6, <2>1, <2>2, RoomSum DEF StagingIsBacked
<1>13. ReadsCoverLayer'
  BY <1>1, <1>6 DEF StepInv, ReadsCoverLayer, Whole, Total
<1>14. step = 0 /\ run.tokens \in Nat \ {0}
  <2>1. ~(step > 0) /\ step \in Nat
    BY <1>1 DEF StepInv, Placing
  <2> QED
    BY <1>1, <2>1, RunFacts
<1>15. StepInv'
  <2>1. \A l \in Layers : SumOf(share[l].of) = share[l].total
    BY <1>7 DEF Balanced
  <2> QED
    BY <1>5, <1>6, <1>11, <1>12, <1>13, <1>14, <2>1 DEF StepInv, SumOf
<1> QED
  BY <1>1, <1>2, <1>3, <1>4, <1>5, <1>6, <1>9, <1>15 DEF BaseInv

\* LIA, the staging budget after the placement, keeps the invariant.
LEMMA LiaStages ==
  ASSUME BaseInv, LiaStage
  PROVE  BaseInv'
<1>1. /\ run.policy = "lia" /\ pc = "place" /\ pc' = "decode"
      /\ staging' = BuffersFrom(2 * Largest)
      /\ headroom' = IF tail \in {"host", "cxl"} THEN free[tail] ELSE 0
      /\ UNCHANGED <<run, phaseVars, kvVars, placeVars, decodeVars>>
  BY DEF LiaStage, At
<1>2. run \in Runs /\ share \in [Layers -> Share] /\ TypeOK /\ KvInv
  BY DEF BaseInv
<1>3. /\ \A t \in {"gpu", "host", "cxl"} : free[t] \in Nat /\ reserve[t] \in Nat
      /\ Largest \in Nat
  BY <1>1, <1>2, StateType, TierNames, LargestNat
<1>4. staging' \in Nat /\ staging' <= Room("gpu") + Room("host") + Room("cxl")
  <2> DEFINE b == 2 * Largest
  <2>1. b \in Nat /\ staging' = BuffersFrom(b)
    BY <1>1, <1>3
  <2> HIDE DEF b
  <2> QED
    BY <1>3, <2>1 DEF BuffersFrom, Smaller, Room
<1>5. headroom' \in Nat /\ (tail \in FastTiers => headroom' = free[tail])
  <2>1. tail \in {"host", "cxl", "nand", "none"}
    BY <1>1, <1>2, TiersReadAre DEF KvInv
  <2> QED
    BY <1>1, <1>3, <2>1, TierNames DEF FastTiers, DramTiers
<1> QED
  BY <1>1, <1>4, <1>5, StageKeeps

\* CXLAimPod, the staging budget after the placement, keeps the invariant.
LEMMA AimPodStages ==
  ASSUME BaseInv, AimPodStage
  PROVE  BaseInv'
<1>1. /\ run.policy = "aimpod" /\ pc = "place" /\ pc' = "decode"
      /\ staging' = free["gpu"] + free["cxl"] + free["host"]
      /\ headroom' = IF tail \in DramTiers THEN free[tail] ELSE 0
      /\ UNCHANGED <<run, phaseVars, kvVars, placeVars, decodeVars>>
  BY DEF AimPodStage, At
<1>2. run \in Runs /\ share \in [Layers -> Share] /\ TypeOK /\ KvInv
  BY DEF BaseInv
<1>3. \A t \in {"gpu", "host", "cxl"} : free[t] \in Nat /\ reserve[t] \in Nat
  BY <1>1, <1>2, StateType, TierNames
<1>4. staging' \in Nat /\ staging' <= Room("gpu") + Room("host") + Room("cxl")
  BY <1>1, <1>3 DEF Room
<1>5. headroom' \in Nat /\ (tail \in FastTiers => headroom' = free[tail])
  <2>1. tail \in {"cxl", "nand", "none"}
    BY <1>1, <1>2, TiersReadAre DEF KvInv
  <2> QED
    BY <1>1, <1>3, <2>1, TierNames DEF FastTiers, DramTiers
<1> QED
  BY <1>1, <1>4, <1>5, StageKeeps

\* The dynamic plan, the staging budget after the placement, keeps the invariant.
LEMMA DynamicStages ==
  ASSUME BaseInv, DynamicStage
  PROVE  BaseInv'
<1>1. /\ run.policy = "dynamic" /\ pc = "place" /\ pc' = "decode"
      /\ staging' = reserve["cxl"] + free["host"]
      /\ headroom' = GrowthRoom
      /\ UNCHANGED <<run, phaseVars, kvVars, placeVars, decodeVars>>
  BY DEF DynamicStage, At
<1>2. run \in Runs /\ share \in [Layers -> Share] /\ TypeOK /\ KvInv /\ PlaceInv
  BY DEF BaseInv
<1>3. \A t \in {"gpu", "host", "cxl"} : free[t] \in Nat /\ reserve[t] \in Nat
  BY <1>1, <1>2, StateType, TierNames
<1>4. staging' \in Nat /\ staging' <= Room("gpu") + Room("host") + Room("cxl")
  BY <1>1, <1>3 DEF Room
<1>5. headroom' \in Nat /\ (tail \in FastTiers => headroom' = free[tail])
  <2>1. tail \in {"host", "cxl", "nand", "none"}
    BY <1>1, <1>2, TiersReadAre DEF KvInv
  <2>2. free["cxl"] = 0
    BY <1>1, <1>2 DEF PlaceInv, LedgerInv, LedgerPhase
  <2> QED
    BY <1>1, <1>3, <2>1, <2>2, TierNames DEF GrowthRoom, FastTiers, DramTiers
<1> QED
  BY <1>1, <1>4, <1>5, StageKeeps

\* The step that ends a placement, when the bytes are accounted for after it.
LEMMA PlacedKeeps ==
  ASSUME BaseInv, pc \in {"fill", "kvPlaced"}, pc' = "decode",
         UNCHANGED <<run, phaseVars, kvVars, reserve, next, decodeVars>>,
         share' \in [Layers -> Share], free' \in [FastTiers -> Nat],
         staging' \in Nat, headroom' \in Nat, tail \in FastTiers => headroom' = free'[tail],
         \A l \in Layers : SumOf(share'[l].of) = share'[l].total,
         run.policy = "llmflash" => \A l \in Layers : \A t \in DramTiers : share'[l].of[t] = 0,
         BytesAccounted', StagingIsBacked'
  PROVE  BaseInv'
<1>1. /\ run \in Runs /\ share \in [Layers -> Share] /\ TypeOK /\ KvInv /\ PlaceInv
      /\ StepInv /\ PhaseInv
  BY DEF BaseInv
<1>2. KvInv'
  BY <1>1, KvHeld DEF NoCache, At
<1>3. PhaseInv'
  <2>1. arrival = << >>
    BY <1>1 DEF PhaseInv, InPass, Placing
  <2> QED
    BY <1>1, <2>1, PhaseHeld
<1>4. PlaceInv'
  BY PlacementOver
<1>5. Layers' = Layers /\ layers' = layers
  BY RunFixed
<1>6. /\ took' = took /\ kvLeft' = kvLeft /\ tail' = tail /\ step' = step /\ spill' = spill
      /\ units' = units /\ next' = next /\ reserve' = reserve /\ run' = run
  BY DEF kvVars, decodeVars
<1>7. TypeOK'
  BY <1>1, <1>5, <1>6 DEF TypeOK
<1>8. ReadsCoverLayer'
  BY <1>1, <1>6 DEF StepInv, ReadsCoverLayer, Whole, Total
<1>9. step = 0 /\ run.tokens \in Nat \ {0}
  <2>1. ~(step > 0) /\ step \in Nat
    BY <1>1 DEF StepInv, Placing
  <2> QED
    BY <1>1, <2>1, RunFacts
<1>10. PICK sh : sh = share'
  OBVIOUS
<1>11. /\ \A l \in Layers : SumOf(sh[l].of) = sh[l].total
       /\ run.policy = "llmflash" => \A l \in Layers : \A t \in DramTiers : sh[l].of[t] = 0
  BY <1>10
<1>12. StepInv'
  BY <1>5, <1>6, <1>8, <1>9, <1>10, <1>11 DEF StepInv, SumOf
<1> QED
  BY <1>1, <1>2, <1>3, <1>4, <1>5, <1>6, <1>7, <1>12 DEF BaseInv

\* The five sums of a family of splits add up to the sum of the wholes.
LEMMA SumOfFive ==
  ASSUME NEW S, IsFiniteSet(S), NEW a, NEW b, NEW c, NEW q, NEW e, NEW w,
         \A i \in S : /\ a[i] \in Int /\ b[i] \in Int /\ c[i] \in Int /\ q[i] \in Int
                      /\ e[i] \in Int /\ w[i] = a[i] + b[i] + c[i] + q[i] + e[i]
  PROVE  SumFunctionOnSet(w, S) =
           SumFunctionOnSet(a, S) + SumFunctionOnSet(b, S) + SumFunctionOnSet(c, S)
             + SumFunctionOnSet(q, S) + SumFunctionOnSet(e, S)
<1> DEFINE f == [i \in S |-> a[i] + b[i]]
           g == [i \in S |-> f[i] + c[i]]
           h == [i \in S |-> g[i] + q[i]]
<1>1. \A i \in S : a[i] \in Int /\ b[i] \in Int /\ f[i] = a[i] + b[i]
  OBVIOUS
<1>2. \A i \in S : f[i] \in Int /\ c[i] \in Int /\ g[i] = f[i] + c[i]
  OBVIOUS
<1>3. \A i \in S : g[i] \in Int /\ q[i] \in Int /\ h[i] = g[i] + q[i]
  <2> HIDE DEF f
  <2> QED
    BY <1>2
<1>4. \A i \in S : h[i] \in Int /\ e[i] \in Int /\ w[i] = h[i] + e[i]
  <2>1. \A i \in S : h[i] = g[i] + q[i] /\ g[i] = f[i] + c[i] /\ f[i] = a[i] + b[i]
    OBVIOUS
  <2> HIDE DEF f, g, h
  <2> QED
    BY <2>1
<1> HIDE DEF f, g, h
<1>5. SumFunctionOnSet(f, S) = SumFunctionOnSet(a, S) + SumFunctionOnSet(b, S)
  BY <1>1, SumPlus
<1>6. SumFunctionOnSet(g, S) = SumFunctionOnSet(f, S) + SumFunctionOnSet(c, S)
  BY <1>2, SumPlus
<1>7. SumFunctionOnSet(h, S) = SumFunctionOnSet(g, S) + SumFunctionOnSet(q, S)
  BY <1>3, SumPlus
<1>8. SumFunctionOnSet(w, S) = SumFunctionOnSet(h, S) + SumFunctionOnSet(e, S)
  BY <1>4, SumPlus
<1> QED
  BY <1>5, <1>6, <1>7, <1>8

\* What the striped layers hold of a tier.
StripeIn(t) == SumFunctionOnSet([l \in Striped |-> share[l].of[t]], Striped)

\* The share FlexGen gives each striped layer has the striped layers' bytes, and is whole.
LEMMA StripeFacts ==
  ASSUME run \in Runs, share \in [Layers -> Share], TypeOK, Balanced
  PROVE  /\ \A t \in Tiers : StripeOf.of[t] = StripeIn(t) /\ StripeIn(t) \in Nat
         /\ StripeOf.total = Total(BytesOf, Striped) /\ StripeOf \in Share
         /\ SumOf(StripeOf.of) = StripeOf.total
<1> DEFINE w(t) == [l \in Striped |-> share[l].of[t]]
<1>1. /\ Striped \subseteq Layers /\ IsFiniteSet(Striped)
      /\ Total(BytesOf, Striped) \in Nat
  BY DenominatorNat, RunFacts, FS_Subset
<1>2. \A l \in Striped : \A t \in Tiers : share[l].of[t] \in Nat
  BY <1>1, StateType
<1>3. ASSUME NEW t \in Tiers PROVE StripeIn(t) \in Nat
  <2> DEFINE v == w(t)
  <2>1. \A l \in Striped : v[l] \in Nat
    BY <1>2
  <2>2. SumFunctionOnSet(v, Striped) \in Nat
    <3> HIDE DEF v
    <3> QED
      BY <1>1, <2>1, SumNat
  <2> QED
    BY <2>2 DEF StripeIn
<1>4. StripeOf = [of |-> [t \in Tiers |-> StripeIn(t)], total |-> Total(BytesOf, Striped)]
  BY DEF StripeOf, StripeIn, Total
<1>5. /\ \A t \in Tiers : StripeOf.of[t] = StripeIn(t)
      /\ StripeOf.total = Total(BytesOf, Striped) /\ StripeOf \in Share
  BY <1>1, <1>3, <1>4 DEF Share
<1> DEFINE a == w("gpu")
           b == w("host")
           c == w("cxl")
           q == w("pool")
           e == w("nand")
           y == [l \in Striped |-> BytesOf(l)]
<1>6. \A l \in Striped : /\ a[l] \in Int /\ b[l] \in Int /\ c[l] \in Int /\ q[l] \in Int
                         /\ e[l] \in Int /\ y[l] = a[l] + b[l] + c[l] + q[l] + e[l]
  <2> TAKE l \in Striped
  <2>1. /\ a[l] = share[l].of["gpu"] /\ b[l] = share[l].of["host"] /\ c[l] = share[l].of["cxl"]
        /\ q[l] = share[l].of["pool"] /\ e[l] = share[l].of["nand"] /\ y[l] = BytesOf(l)
    OBVIOUS
  <2>2. SumOf(share[l].of) = BytesOf(l)
    BY <1>1 DEF Balanced
  <2>3. /\ share[l].of["gpu"] \in Int /\ share[l].of["host"] \in Int /\ share[l].of["cxl"] \in Int
        /\ share[l].of["pool"] \in Int /\ share[l].of["nand"] \in Int
    BY <1>2, TierNames
  <2> HIDE DEF a, b, c, q, e, y
  <2> QED
    BY <2>1, <2>2, <2>3 DEF SumOf
<1>7. /\ StripeIn("gpu") = SumFunctionOnSet(a, Striped)
      /\ StripeIn("host") = SumFunctionOnSet(b, Striped)
      /\ StripeIn("cxl") = SumFunctionOnSet(c, Striped)
      /\ StripeIn("pool") = SumFunctionOnSet(q, Striped)
      /\ StripeIn("nand") = SumFunctionOnSet(e, Striped)
      /\ Total(BytesOf, Striped) = SumFunctionOnSet(y, Striped)
  BY DEF StripeIn, Total
<1>8. SumFunctionOnSet(y, Striped) =
        SumFunctionOnSet(a, Striped) + SumFunctionOnSet(b, Striped)
          + SumFunctionOnSet(c, Striped) + SumFunctionOnSet(q, Striped)
          + SumFunctionOnSet(e, Striped)
  <2> HIDE DEF a, b, c, q, e, y, w
  <2> QED
    BY <1>1, <1>6, SumOfFive
<1> HIDE DEF a, b, c, q, e, y, w
<1>9. SumOf(StripeOf.of) = Total(BytesOf, Striped)
  BY <1>5, <1>7, <1>8, TierNames DEF SumOf
<1> QED
  BY <1>3, <1>5, <1>9

\* Striping gives every striped layer the same split and leaves each tier what it holds.
LEMMA StripeKeepsTiers ==
  ASSUME run \in Runs, share \in [Layers -> Share], TypeOK, Balanced, run' = run, took' = took,
         share' = [l \in Layers |-> IF l \in Striped THEN StripeOf ELSE share[l]],
         NEW t \in DramTiers
  PROVE  Placed(t)' = Denominator * WeightsIn(t)
<1>1. /\ t \in Tiers /\ t # "pool"
      /\ Striped \subseteq Layers /\ IsFiniteSet(Layers) /\ IsFiniteSet(Striped)
      /\ Denominator \in Nat \ {0} /\ Total(BytesOf, Striped) \in Nat
      /\ Striped # {} => Denominator = Total(BytesOf, Striped)
  BY TierNames, DenominatorNat, RunFacts, FS_Subset
<1>2. /\ StripeOf.of[t] = StripeIn(t) /\ StripeIn(t) \in Nat
      /\ StripeOf.total = Total(BytesOf, Striped)
  BY <1>1, StripeFacts
<1>3. PICK sh : sh = share'
  OBVIOUS
<1> DEFINE po(l) == IF sh[l].total = BytesOf(l) THEN sh[l].of[t] * Denominator
                    ELSE BytesOf(l) * sh[l].of[t]
           v == [l \in Layers |-> po(l)]
           w == [l \in Layers |-> share[l].of[t]]
           y == [l \in Striped |-> BytesOf(l)]
           z == [l \in Striped |-> share[l].of[t]]
           Rest == Layers \ Striped
<1>4. Placed(t)' = SumFunctionOnSet(v, Layers)
  BY <1>1, <1>3, RunFixed DEF Placed, Total, PlacedOf
<1>5. \A l \in Layers : sh[l] = IF l \in Striped THEN StripeOf ELSE share[l]
  BY <1>3
<1>6. \A l \in Layers : share[l].of[t] \in Nat /\ share[l].total = BytesOf(l) /\ BytesOf(l) \in Nat
  BY <1>1, StateType, RunFacts DEF Balanced
<1>7. \A l \in Striped : y[l] \in Int /\ v[l] = StripeIn(t) * y[l]
  <2> TAKE l \in Striped
  <2>1. v[l] = po(l) /\ y[l] = BytesOf(l) /\ BytesOf(l) \in Nat
    BY <1>1, <1>6
  <2>2. sh[l].of[t] = StripeIn(t) /\ sh[l].total = Denominator
    BY <1>1, <1>2, <1>5
  <2>3. po(l) = StripeIn(t) * BytesOf(l)
    <3>1. CASE Denominator = BytesOf(l)
      BY <2>2, <3>1
    <3>2. CASE Denominator # BytesOf(l)
      <4>1. po(l) = BytesOf(l) * StripeIn(t)
        BY <2>2, <3>2
      <4>2. BytesOf(l) * StripeIn(t) = StripeIn(t) * BytesOf(l)
        BY <1>2, <2>1
      <4> QED
        BY <4>1, <4>2
    <3> QED
      BY <3>1, <3>2
  <2> QED
    BY <2>1, <2>3
<1>8. \A l \in Rest : w[l] \in Int /\ v[l] = Denominator * w[l]
  <2> TAKE l \in Rest
  <2>1. v[l] = po(l) /\ w[l] = share[l].of[t] /\ share[l].of[t] \in Nat
    BY <1>6
  <2>2. po(l) = share[l].of[t] * Denominator
    BY <1>5, <1>6
  <2>3. share[l].of[t] * Denominator = Denominator * share[l].of[t]
    BY <1>1, <2>1
  <2> QED
    BY <2>1, <2>2, <2>3
<1>9. SumFunctionOnSet(v, Striped) = StripeIn(t) * SumFunctionOnSet(y, Striped)
  <2> HIDE DEF v, y
  <2> QED
    BY <1>1, <1>2, <1>7, SumScale
<1>10. IsFiniteSet(Rest)
  BY <1>1, FS_Subset
<1>11. SumFunctionOnSet(v, Rest) = Denominator * SumFunctionOnSet(w, Rest)
       /\ SumFunctionOnSet(w, Rest) \in Int
  <2> HIDE DEF v, w, Rest
  <2> QED
    BY <1>1, <1>8, <1>10, SumScale, SumInt
<1>12. Striped \cap Rest = {} /\ Striped \cup Rest = Layers
  BY <1>1
<1>13. /\ \A l \in Striped \cup Rest : v[l] \in Int
       /\ \A l \in Striped \cup Rest : w[l] \in Int
  <2>1. \A l \in Striped : StripeIn(t) * y[l] \in Int
    <3>1. \A l \in Striped : y[l] \in Nat
      BY <1>1, <1>6
    <3> HIDE DEF y
    <3> QED
      BY <3>1, <1>2, ProductNat
  <2>2. \A l \in Rest : Denominator * w[l] \in Int
    <3>1. \A l \in Rest : w[l] \in Nat
      BY <1>6
    <3> HIDE DEF w, Rest
    <3> QED
      BY <3>1, <1>1, ProductNat
  <2>3. \A l \in Layers : w[l] \in Int
    BY <1>6
  <2> HIDE DEF v, w, y
  <2> QED
    BY <1>7, <1>8, <1>12, <2>1, <2>2, <2>3
<1>14. /\ SumFunctionOnSet(v, Striped \cup Rest)
            = SumFunctionOnSet(v, Striped) + SumFunctionOnSet(v, Rest)
       /\ SumFunctionOnSet(w, Striped \cup Rest)
            = SumFunctionOnSet(w, Striped) + SumFunctionOnSet(w, Rest)
  <2> HIDE DEF v, w, Rest
  <2> QED
    BY <1>1, <1>10, <1>12, <1>13, SumUnion
<1>15. SumFunctionOnSet(w, Striped) = StripeIn(t)
  <2>1. \A l \in Striped : z[l] \in Int /\ w[l] = z[l]
    BY <1>1, <1>6
  <2>2. SumFunctionOnSet(z, Striped) = SumFunctionOnSet(w, Striped)
    <3> HIDE DEF z, w
    <3> QED
      BY <1>1, <2>1, SumSame
  <2> QED
    BY <2>2 DEF StripeIn
<1>16. SumFunctionOnSet(y, Striped) = Total(BytesOf, Striped)
  BY DEF Total
<1>17. StripeIn(t) * Total(BytesOf, Striped) = Denominator * StripeIn(t)
  <2>1. CASE Striped # {}
    BY <1>1, <1>2, <2>1
  <2>2. CASE Striped = {}
    <3>1. SumFunctionOnSet(w, Striped) = 0 /\ SumFunctionOnSet(y, Striped) = 0
      BY <2>2, SumEmpty
    <3>2. StripeIn(t) = 0 /\ Total(BytesOf, Striped) = 0
      BY <3>1, <1>15, <1>16
    <3> QED
      BY <1>1, <3>2
  <2> QED
    BY <2>1, <2>2
<1>18. WeightsIn(t) = SumFunctionOnSet(w, Layers)
  BY DEF WeightsIn
<1>19. Denominator * (StripeIn(t) + SumFunctionOnSet(w, Rest))
         = Denominator * StripeIn(t) + Denominator * SumFunctionOnSet(w, Rest)
  <2> HIDE DEF w, Rest
  <2> QED
    BY <1>1, <1>2, <1>11, Distributes
<1> HIDE DEF v, w, y, z, po, Rest
<1>20. SumFunctionOnSet(v, Layers) = SumFunctionOnSet(v, Striped) + SumFunctionOnSet(v, Rest)
       /\ SumFunctionOnSet(w, Layers) = SumFunctionOnSet(w, Striped) + SumFunctionOnSet(w, Rest)
  BY <1>12, <1>14
<1> QED
  BY <1>4, <1>9, <1>11, <1>15, <1>16, <1>17, <1>18, <1>19, <1>20, SMTT(60)

\* FlexGen, the fractions handed to every striped layer, keeps the invariant.
LEMMA FlexGenStripes ==
  ASSUME BaseInv, FlexGenStripe
  PROVE  BaseInv'
<1>1. /\ run.policy = "flexgen" /\ pc = "fill" /\ pc' = "decode"
      /\ share' = [l \in Layers |-> IF l \in Striped THEN StripeOf ELSE share[l]]
      /\ headroom' = RoomAt(tail)
      /\ UNCHANGED <<run, phaseVars, kvVars, free, reserve, next, staging, decodeVars>>
  BY DEF FlexGenStripe, At
<1>2. /\ run \in Runs /\ share \in [Layers -> Share] /\ TypeOK /\ KvInv /\ PlaceInv
  BY DEF BaseInv
<1>3. Balanced /\ staging = StagedOf(reserve)
  BY <1>1, <1>2 DEF PlaceInv, LedgerInv, LedgerPhase
<1>4. free \in [FastTiers -> Nat] /\ reserve \in [FastTiers -> Nat]
  BY <1>1, <1>2 DEF TypeOK
<1>5. StripeOf \in Share /\ SumOf(StripeOf.of) = StripeOf.total
  BY <1>2, <1>3, StripeFacts
<1>6. /\ share' \in [Layers -> Share]
      /\ \A l \in Layers : SumOf(share'[l].of) = share'[l].total
  <2>1. \A l \in Layers : share'[l] = StripeOf \/ share'[l] = share[l]
    BY <1>1
  <2>2. \A l \in Layers : share'[l] \in Share /\ SumOf(share'[l].of) = share'[l].total
    BY <1>2, <1>3, <1>5, <2>1 DEF Balanced
  <2> QED
    BY <1>1, <2>2
<1>7. took' = took /\ run' = run /\ free' = free /\ reserve' = reserve /\ staging' = staging
  BY <1>1 DEF kvVars
<1>8. /\ \A t : Cap(t)' = Cap(t) /\ Denominator' = Denominator /\ MyTiers' = MyTiers
      /\ MyTiers = DramTiers
  BY <1>1, RunFixed DEF MyTiers
<1>9. BytesAccounted'
  <2> SUFFICES ASSUME NEW t \in DramTiers
               PROVE  Denominator * (took[t] + reserve[t] + free[t]) + Placed(t)'
                        = Denominator * Cap(t)
    BY <1>7, <1>8 DEF BytesAccounted
  <2>1. /\ took[t] \in Nat /\ reserve[t] \in Nat /\ free[t] \in Nat /\ WeightsIn(t) \in Nat
        /\ Cap(t) \in Nat /\ Denominator \in Nat
    BY <1>2, <1>4, StateType, TierNames, WeightsNat, CapNat, DenominatorNat
  <2>2. took[t] + reserve[t] + free[t] + WeightsIn(t) = Cap(t)
    BY <1>3 DEF Balanced
  <2>3. Placed(t)' = Denominator * WeightsIn(t)
    BY <1>1, <1>2, <1>3, <1>7, StripeKeepsTiers
  <2> DEFINE y == took[t] + reserve[t] + free[t]
  <2>4. y \in Int /\ y + WeightsIn(t) = Cap(t)
    BY <2>1, <2>2
  <2> HIDE DEF y
  <2>5. Denominator * y + Denominator * WeightsIn(t) = Denominator * Cap(t)
    BY <2>1, <2>4, ScaledBalance
  <2> QED
    BY <2>3, <2>5 DEF y
<1>10. \A t \in {"gpu", "host", "cxl"} : free[t] \in Nat /\ reserve[t] \in Nat
  BY <1>4, TierNames
<1>11. staging \in Nat /\ staging <= Room("gpu") + Room("host") + Room("cxl")
  BY <1>3, <1>10 DEF Room, StagedOf
<1>12. StagingIsBacked'
  <2>1. Total(LAMBDA t : reserve[t] + free[t], MyTiers)'
          = Total(LAMBDA t : reserve[t] + free[t], MyTiers)
    BY <1>7, <1>8 DEF Total
  <2>2. \A t \in MyTiers : free[t] >= 0
    BY <1>4, <1>8, TierNames
  <2> QED
    BY <1>1, <1>2, <1>7, <1>8, <1>11, <2>1, <2>2, RoomSum DEF StagingIsBacked
<1>13. headroom' \in Nat /\ (tail \in FastTiers => headroom' = free'[tail])
  <2>1. tail \in {"gpu", "host", "cxl", "nand", "none"}
    BY <1>1, <1>2, TiersReadAre DEF KvInv
  <2> QED
    BY <1>1, <1>7, <1>10, <2>1, TierNames DEF RoomAt, FastTiers, DramTiers
<1> QED
  BY <1>1, <1>4, <1>6, <1>7, <1>9, <1>11, <1>12, <1>13, PlacedKeeps

-----------------------------------------------------------------------------
(* LLM-in-a-Flash.                                                         *)

\* A layer with m of its n bytes in the pool is whole and has none in the DRAM tiers.
LEMMA InPoolFacts ==
  ASSUME NEW m \in Nat, NEW n \in Nat, m <= n
  PROVE  /\ InPool(m, n) \in Share /\ SumOf(InPool(m, n).of) = InPool(m, n).total
         /\ \A t \in DramTiers : InPool(m, n).of[t] = 0
<1>1. InPool(m, n) = [of |-> [Nowhere EXCEPT !["pool"] = m, !["nand"] = n - m], total |-> n]
  BY DEF InPool
<1>2. PICK f : f = [Nowhere EXCEPT !["pool"] = m, !["nand"] = n - m]
  OBVIOUS
<1>3. n - m \in Nat
  OBVIOUS
<1>4. /\ f \in [Tiers -> Nat] /\ f["gpu"] = 0 /\ f["host"] = 0 /\ f["cxl"] = 0
      /\ f["pool"] = m /\ f["nand"] = n - m
  BY <1>2, <1>3, TierNames DEF Nowhere
<1>5. SumOf(f) = n
  BY <1>3, <1>4 DEF SumOf
<1>6. \A t \in DramTiers : f[t] = 0
  BY <1>4, TierNames
<1>7. InPool(m, n).of = f /\ InPool(m, n).total = n /\ InPool(m, n) \in Share
  BY <1>1, <1>2, <1>4 DEF Share
<1> QED
  BY <1>5, <1>6, <1>7

\* The pool's weights are those of the groups that have layers.
LEMMA PooledIs ==
  ASSUME run \in Runs, share \in [Layers -> Share], TypeOK, took["pool"] <= Cap("pool")
  PROVE  PooledWeights = PinnedIn + WindowIn + TableIn
<1>1. /\ PinnedIn \in Nat /\ WindowIn \in Nat /\ TableIn \in Nat
      /\ PinnedIn <= PinnedBytes /\ TableIn <= TableBytes
  BY PoolFacts
<1>2. \E l \in Layers : IsFfn(l)
  BY RunFacts DEF IsFfn
<1>3. ASSUME NEW S, S = {} PROVE Total(BytesOf, S) = 0
  BY <1>3, SumEmpty DEF Total
<1>4. ~(\E l \in Layers : IsPinned(l)) => PinnedIn = 0
  <2> SUFFICES ASSUME ~(\E l \in Layers : IsPinned(l)) PROVE PinnedIn = 0
    OBVIOUS
  <2>1. {l \in Layers : IsPinned(l)} = {}
    OBVIOUS
  <2>2. PinnedBytes = 0
    BY <1>3, <2>1 DEF PinnedBytes
  <2> QED
    BY <1>1, <2>2
<1>5. ~(\E l \in Layers : IsTable(l)) => TableIn = 0
  <2> SUFFICES ASSUME ~(\E l \in Layers : IsTable(l)) PROVE TableIn = 0
    OBVIOUS
  <2>1. {l \in Layers : IsTable(l)} = {}
    OBVIOUS
  <2>2. TableBytes = 0
    BY <1>3, <2>1 DEF TableBytes
  <2> QED
    BY <1>1, <2>2
<1> QED
  BY <1>1, <1>2, <1>4, <1>5 DEF PooledWeights

\* The pool's weights depend on the settings and the cache only.
LEMMA PooledSame ==
  ASSUME run' = run, took' = took
  PROVE  PooledWeights' = PooledWeights
<1>1. /\ Layers' = Layers /\ \A l : IsTable(l)' = IsTable(l) /\ \A t : Cap(t)' = Cap(t)
  BY RunFixed
<1>2. PoolLeft' = PoolLeft
  BY <1>1 DEF PoolLeft, LeftByKv
<1>3. /\ PinnedBytes' = PinnedBytes /\ TableBytes' = TableBytes
      /\ \A l : IsFfn(l)' = IsFfn(l) /\ IsPinned(l)' = IsPinned(l)
  BY EngineFixed
<1>4. Remaining' = Remaining
  BY <1>2, <1>3 DEF Remaining
<1>5. PinnedIn' = PinnedIn /\ WindowIn' = WindowIn
  BY <1>2, <1>3, <1>4 DEF PinnedIn, WindowIn
<1>6. TableIn' = TableIn
  BY <1>3, <1>4, <1>5 DEF TableIn
<1> QED
  BY <1>1, <1>3, <1>5, <1>6 DEF PooledWeights

\* LLM in a flash, the window placed in the pool, keeps the invariant.
LEMMA LlmFlashPlaces ==
  ASSUME BaseInv, LlmFlashPlace
  PROVE  BaseInv'
<1> DEFINE left == Larger(0, PoolLeft - PinnedIn - WindowIn - TableIn)
<1>1. /\ run.policy = "llmflash" /\ pc = "kvPlaced" /\ pc' = "decode"
      /\ share' = [l \in Layers |->
                     IF IsFfn(l) THEN InPool(WindowIn, run.active)
                     ELSE IF IsTable(l) THEN InPool(TableIn, TableBytes)
                     ELSE InPool(PinnedIn, PinnedBytes)]
      /\ free' = [free EXCEPT !["pool"] = left] /\ staging' = left
      /\ headroom' = Larger(0, Remaining - WindowIn - TableIn)
      /\ UNCHANGED <<run, phaseVars, kvVars, reserve, next, decodeVars>>
  BY DEF LlmFlashPlace, At
<1>2. /\ run \in Runs /\ share \in [Layers -> Share] /\ TypeOK /\ KvInv /\ PlaceInv
  BY DEF BaseInv
<1>3. took["pool"] <= Cap("pool")
  BY <1>1, <1>2, TierNames DEF KvInv
<1>4. /\ PoolLeft = PoolCap - took["pool"] /\ PoolLeft \in Nat
      /\ PinnedIn \in Nat /\ WindowIn \in Nat /\ TableIn \in Nat
      /\ PinnedBytes \in Nat /\ TableBytes \in Nat /\ Remaining = PoolLeft - PinnedIn
      /\ PinnedIn <= PinnedBytes /\ WindowIn <= run.active /\ TableIn <= TableBytes
      /\ PinnedIn + WindowIn + TableIn <= PoolLeft
  BY <1>2, <1>3, PoolFacts
<1>5. run.active \in Nat /\ took["pool"] \in Nat /\ PoolCap \in Nat /\ Cap("pool") = PoolCap
  BY <1>2, RunFacts, StateType, TierNames, CapNat
<1>6. /\ left = PoolLeft - PinnedIn - WindowIn - TableIn /\ left \in Nat
      /\ headroom' = left
  BY <1>1, <1>4 DEF Larger
<1> HIDE DEF left
<1>7. ASSUME NEW l \in Layers
      PROVE  /\ share'[l] \in Share /\ SumOf(share'[l].of) = share'[l].total
             /\ \A t \in DramTiers : share'[l].of[t] = 0
  <2>1. \E m, n \in Nat : m <= n /\ share'[l] = InPool(m, n)
    BY <1>1, <1>4, <1>5
  <2>2. PICK m, n \in Nat : m <= n /\ share'[l] = InPool(m, n)
    BY <2>1
  <2> QED
    BY <2>2, InPoolFacts
<1>8. share' \in [Layers -> Share]
  BY <1>1, <1>7
<1>9. free \in [FastTiers -> Nat] /\ reserve["pool"] = 0 /\ "pool" \in FastTiers
  BY <1>1, <1>2, TierNames DEF TypeOK, PlaceInv, FreshInv, Untouched, NoRoom
<1>10. free' \in [FastTiers -> Nat] /\ free'["pool"] = left
  BY <1>1, <1>6, <1>9
<1>11. took' = took /\ run' = run /\ reserve' = reserve /\ tail' = tail
  BY <1>1 DEF kvVars
<1>12. /\ \A t : Cap(t)' = Cap(t) /\ Denominator' = Denominator /\ MyTiers' = MyTiers
       /\ MyTiers = {"pool"}
  BY <1>1, RunFixed DEF MyTiers
<1>13. BytesAccounted'
  <2>1. Placed("pool")' = PooledWeights * Denominator
    BY <1>11, <1>12, PooledSame DEF Placed
  <2>2. PooledWeights = PinnedIn + WindowIn + TableIn /\ PooledWeights \in Nat
    BY <1>2, <1>3, <1>4, PooledIs
  <2>3. took["pool"] + 0 + left + PooledWeights = PoolCap
    BY <1>4, <1>5, <1>6, <2>2
  <2>4. Denominator \in Nat
    BY <1>2, DenominatorNat
  <2> DEFINE y == took["pool"] + reserve["pool"] + left
  <2>5. y \in Int /\ y + PooledWeights = Cap("pool")
    BY <1>5, <1>6, <1>9, <2>3
  <2>6. PooledWeights * Denominator = Denominator * PooledWeights
    BY <2>2, <2>4
  <2>7. Denominator * y + Denominator * PooledWeights = Denominator * Cap("pool")
    <3> HIDE DEF y
    <3> QED
      BY <1>5, <2>2, <2>4, <2>5, ScaledBalance
  <2> QED
    BY <1>10, <1>11, <1>12, <2>1, <2>6, <2>7 DEF BytesAccounted
<1>14. StagingIsBacked'
  <2>1. PICK r : r = reserve'
    OBVIOUS
  <2>2. PICK f : f = free'
    OBVIOUS
  <2> DEFINE g == [t \in {"pool"} |-> r[t] + f[t]]
  <2>3. g["pool"] = left
    BY <1>6, <1>9, <1>10, <1>11, <2>1, <2>2
  <2>4. SumFunctionOnSet(g, {"pool"}) = left
    <3>1. g["pool"] \in Int
      BY <1>6, <2>3
    <3> HIDE DEF g
    <3>2. SumFunctionOnSet(g, {"pool"}) = g["pool"]
      BY <3>1, SumSingle
    <3> QED
      BY <2>3, <3>2
  <2>5. Total(LAMBDA t : reserve[t] + free[t], MyTiers)' = left
    BY <1>12, <2>1, <2>2, <2>4 DEF Total
  <2>6. staging' <= Total(LAMBDA t : reserve[t] + free[t], MyTiers)'
    <3>1. left <= left /\ staging' = left
      BY <1>1, <1>6
    <3> QED
      BY <2>5, <3>1, Zenon
  <2>7. \A t \in MyTiers' : free'[t] >= 0
    BY <1>6, <1>10, <1>12
  <2> QED
    BY <2>6, <2>7 DEF StagingIsBacked
<1>15. tail \in FastTiers => headroom' = free'[tail]
  <2>1. tail \in {"pool", "nand", "none"}
    BY <1>1, <1>2, TiersReadAre DEF KvInv
  <2> QED
    BY <1>6, <1>10, <2>1, TierNames
<1> QED
  BY <1>1, <1>6, <1>7, <1>8, <1>10, <1>13, <1>14, <1>15, PlacedKeeps

\* In the state a step leads to, too, a tier holds its weights, scaled.
LEMMA PlacedIsScaledNext ==
  ASSUME run \in Runs, run' = run, took' = took, share' \in [Layers -> Share],
         \A l \in Layers : share'[l].total = BytesOf(l), NEW t \in DramTiers
  PROVE  Placed(t)' = Denominator * WeightsIn(t)' /\ WeightsIn(t)' \in Nat
<1>1. t \in Tiers /\ t # "pool"
  BY TierNames
<1>2. PICK sh : sh = share'
  OBVIOUS
<1> DEFINE w == [l \in Layers |-> sh[l].of[t]]
           po(l) == IF sh[l].total = BytesOf(l) THEN sh[l].of[t] * Denominator
                    ELSE BytesOf(l) * sh[l].of[t]
           v == [l \in Layers |-> po(l)]
<1>3. IsFiniteSet(Layers) /\ Denominator \in Int /\ Denominator \in Nat
  BY RunFacts, DenominatorNat
<1>4. \A l \in Layers : w[l] \in Nat /\ v[l] = Denominator * w[l]
  <2> TAKE l \in Layers
  <2>1. sh[l].of[t] \in Nat
    <3>1. sh[l] \in Share
      BY <1>2
    <3> QED
      BY <1>1, <3>1 DEF Share
  <2>2. po(l) = sh[l].of[t] * Denominator
    BY <1>2
  <2>3. sh[l].of[t] * Denominator = Denominator * sh[l].of[t]
    BY <1>3, <2>1
  <2> QED
    BY <2>1, <2>2, <2>3
<1>5. /\ SumFunctionOnSet(v, Layers) = Denominator * SumFunctionOnSet(w, Layers)
      /\ SumFunctionOnSet(w, Layers) \in Nat
  <2> HIDE DEF w, v
  <2>1. \A l \in Layers : w[l] \in Int
    BY <1>4
  <2> QED
    BY <1>3, <1>4, <2>1, SumScale, SumNat
<1>6. Placed(t)' = SumFunctionOnSet(v, Layers)
  BY <1>1, <1>2, RunFixed DEF Placed, Total, PlacedOf
<1>7. WeightsIn(t)' = SumFunctionOnSet(w, Layers)
  BY <1>2, RunFixed DEF WeightsIn
<1> QED
  BY <1>5, <1>6, <1>7

\* Every layer is with ITME's engine or on NAND.
ItmeStored ==
  /\ run \in Runs /\ share \in [Layers -> Share] /\ TypeOK
  /\ \A l \in Layers : share[l] \in {InTier(l, Engine), InTier(l, "nand")}

\* The layers stored in a tier are what it holds of weights; no tier but the engine's has any.
LEMMA ResidentIs ==
  ASSUME ItmeStored, NEW t \in DramTiers
  PROVE  /\ Resident(t) = WeightsIn(t) /\ Resident(t) \in Nat
         /\ t # Engine => WeightsIn(t) = 0
         /\ StreamedBytes \in Nat
<1>1. /\ t \in Tiers /\ t # "nand" /\ Engine \in Tiers /\ Engine # "nand" /\ "nand" \in Tiers
      /\ IsFiniteSet(Layers) /\ run \in Runs
  BY EngineFacts, TierNames, RunFacts, SMTT(60) DEF ItmeStored
<1> DEFINE R == {l \in Layers : share[l] = InTier(l, t)}
           w == [l \in R |-> BytesOf(l)]
           v == [l \in Layers |-> share[l].of[t]]
<1>2. ASSUME NEW l \in Layers PROVE share[l].of[t] = IF l \in R THEN BytesOf(l) ELSE 0
  <2>1. PICK u \in {Engine, "nand"} : share[l] = InTier(l, u)
    BY DEF ItmeStored
  <2>2. u \in Tiers
    BY <1>1, <2>1
  <2>3. InTier(l, u).of[t] = (IF t = u THEN BytesOf(l) ELSE 0)
        /\ (u # t => InTier(l, u) # InTier(l, t))
    BY <1>1, <2>2, InTierFacts
  <2> QED
    BY <2>1, <2>3
<1>3. (\A l \in R : w[l] \in Int /\ v[l] = w[l]) /\ \A l \in Layers \ R : v[l] = 0
  <2>1. \A l \in Layers : BytesOf(l) \in Int
    BY <1>1, RunFacts
  <2> QED
    BY <1>2, <2>1
<1>4. R \in SUBSET Layers
  OBVIOUS
<1>5. SumFunctionOnSet(v, Layers) = SumFunctionOnSet(w, R)
  <2> HIDE DEF v, w, R
  <2> QED
    BY <1>1, <1>3, <1>4, SumWithin
<1>6. Resident(t) = SumFunctionOnSet(w, R) /\ WeightsIn(t) = SumFunctionOnSet(v, Layers)
  BY DEF Resident, Total, WeightsIn
<1>7. Resident(t) \in Nat
  BY <1>1, BytesNat DEF Resident
<1>8. t # Engine => WeightsIn(t) = 0
  <2> SUFFICES ASSUME t # Engine PROVE WeightsIn(t) = 0
    OBVIOUS
  <2>1. \A l \in Layers : share[l].of[t] = 0
    <3> TAKE l \in Layers
    <3>1. PICK u \in {Engine, "nand"} : share[l] = InTier(l, u)
      BY DEF ItmeStored
    <3>2. InTier(l, u).of[t] = 0
      BY <1>1, <3>1, InTierFacts
    <3> QED
      BY <3>1, <3>2
  <2> QED
    BY <1>1, <2>1, WeightsNone
<1>9. StreamedBytes \in Nat
  <2>1. Streamed \in SUBSET Layers
    BY DEF Streamed
  <2> QED
    BY <1>1, <2>1, BytesNat DEF StreamedBytes
<1> QED
  BY <1>5, <1>6, <1>7, <1>8, <1>9

\* Moving the streamed weights to the device adds them to it and changes nothing else.
LEMMA StreamFacts ==
  ASSUME ItmeStored, run' = run,
         share' = [l \in Layers |-> IF l \in Streamed /\ Cached THEN InTier(l, "cxl")
                                    ELSE share[l]]
  PROVE  /\ share' \in [Layers -> Share]
         /\ \A l \in Layers : share'[l].total = BytesOf(l)
                              /\ SumOf(share'[l].of) = BytesOf(l)
         /\ \A t \in {"gpu", "host"} : WeightsIn(t)' = WeightsIn(t)
         /\ WeightsIn("cxl")' = IF Cached THEN StreamedBytes ELSE 0
<1>1. /\ Engine \in {"gpu", "host"} /\ {"gpu", "host", "cxl", "nand", Engine} \subseteq Tiers
      /\ IsFiniteSet(Layers) /\ run \in Runs /\ "cxl" \in DramTiers
  BY EngineFacts, TierNames, RunFacts, SMTT(60) DEF ItmeStored
<1>2. PICK sh : sh = share'
  OBVIOUS
<1>3. \A l \in Layers : sh[l] = IF l \in Streamed /\ Cached THEN InTier(l, "cxl") ELSE share[l]
  BY <1>2
<1>4. ASSUME NEW l \in Layers
      PROVE  /\ sh[l] \in Share /\ sh[l].total = BytesOf(l) /\ SumOf(sh[l].of) = BytesOf(l)
             /\ sh[l].of["gpu"] = share[l].of["gpu"] /\ sh[l].of["host"] = share[l].of["host"]
             /\ sh[l].of["cxl"] = IF l \in Streamed /\ Cached THEN BytesOf(l) ELSE 0
  <2>1. PICK u \in {Engine, "nand"} : share[l] = InTier(l, u)
    BY DEF ItmeStored
  <2>2. PICK y \in {u, "cxl"} : /\ sh[l] = InTier(l, y)
                                /\ y = IF l \in Streamed /\ Cached THEN "cxl" ELSE u
    BY <1>3, <2>1
  <2>3. u \in Tiers /\ y \in Tiers /\ u # "cxl"
    BY <1>1, <2>1, <2>2
  <2>4. /\ \A t \in Tiers : InTier(l, y).of[t] = IF t = y THEN BytesOf(l) ELSE 0
        /\ \A t \in Tiers : InTier(l, u).of[t] = IF t = u THEN BytesOf(l) ELSE 0
        /\ InTier(l, y) \in Share /\ InTier(l, y).total = BytesOf(l)
        /\ SumOf(InTier(l, y).of) = BytesOf(l)
        /\ u # "nand" => InTier(l, u) # InTier(l, "nand")
    BY <1>1, <2>3, InTierFacts
  <2>5. l \in Streamed => u = "nand"
    BY <2>1, <2>4 DEF Streamed
  <2> QED
    BY <1>1, <2>1, <2>2, <2>3, <2>4, <2>5
<1>5. share' \in [Layers -> Share]
  BY <1>2, <1>4
<1>6. \A t : WeightsIn(t)' = SumFunctionOnSet([l \in Layers |-> sh[l].of[t]], Layers)
  BY <1>2, RunFixed DEF WeightsIn
<1>7. ASSUME NEW t \in {"gpu", "host"} PROVE WeightsIn(t)' = WeightsIn(t)
  <2>1. [l \in Layers |-> sh[l].of[t]] = [l \in Layers |-> share[l].of[t]]
    BY <1>4
  <2> QED
    BY <1>6, <2>1 DEF WeightsIn
<1> DEFINE v == [l \in Layers |-> sh[l].of["cxl"]]
           w == [l \in Streamed |-> BytesOf(l)]
<1>8. SumFunctionOnSet(v, Layers) = IF Cached THEN StreamedBytes ELSE 0
  <2>1. CASE Cached
    <3>1. Streamed \in SUBSET Layers
      BY DEF Streamed
    <3>2. \A l \in Layers : BytesOf(l) \in Int
      BY <1>1, RunFacts
    <3>3. \A l \in Streamed : w[l] \in Int /\ v[l] = w[l]
      BY <1>4, <2>1, <3>1, <3>2
    <3>4. \A l \in Layers \ Streamed : v[l] = 0
      BY <1>4
    <3>5. SumFunctionOnSet(v, Layers) = SumFunctionOnSet(w, Streamed)
      <4> HIDE DEF v, w
      <4> QED
        BY <1>1, <3>1, <3>3, <3>4, SumWithin
    <3>6. StreamedBytes = SumFunctionOnSet(w, Streamed)
      BY DEF StreamedBytes, Total
    <3> QED
      BY <2>1, <3>5, <3>6
  <2>2. CASE ~Cached
    <3>1. \A l \in Layers : v[l] = 0
      BY <1>4, <2>2
    <3>2. SumFunctionOnSet(v, Layers) = 0
      <4> HIDE DEF v
      <4> QED
        BY <1>1, <3>1, SumZero
    <3> QED
      BY <2>2, <3>2
  <2> QED
    BY <2>1, <2>2
<1> QED
  BY <1>2, <1>4, <1>5, <1>6, <1>7, <1>8

\* What ITME's free counters come to: with the cache, the reserve and the weights they make up
\* the capacity of each tier.
LEMMA ItmeFreeFacts ==
  ASSUME ItmeStored, ItmeInv, run.policy = "itme", pc = "kvPlaced", ItmeStream
  PROVE  /\ ItmeFree \in [FastTiers -> Int] /\ ItmeFree["pool"] = 0
         /\ \A t \in DramTiers : took[t] + reserve[t] + ItmeFree[t] + WeightsIn(t)' = Cap(t)
         /\ \A t \in DramTiers : Held(t) = took[t] + reserve[t] + WeightsIn(t)'
<1>1. /\ run \in Runs /\ share \in [Layers -> Share] /\ TypeOK
      /\ {"gpu", "host", "cxl"} \subseteq DramTiers /\ "pool" \in FastTiers
      /\ {"gpu", "host", "cxl"} \subseteq FastTiers /\ DramTiers \subseteq {"gpu", "host", "cxl"}
      /\ FastTiers \subseteq {"gpu", "host", "cxl", "pool"}
  BY TierNames DEF ItmeStored
<1>2. /\ reserve = [NoRoom EXCEPT !["cxl"] = Ring, !["host"] = run.hostStaging]
      /\ free[Engine] + WeightsIn(Engine) = Cap(Engine) - (IF Gpu THEN 0 ELSE run.hostStaging)
  BY DEF ItmeInv
<1>3. reserve["gpu"] = 0 /\ reserve["host"] = run.hostStaging /\ reserve["cxl"] = Ring
  BY <1>1, <1>2 DEF NoRoom
<1>4. /\ Ring \in Nat /\ run.hostStaging \in Nat
      /\ Engine = (IF Gpu THEN "gpu" ELSE "host") /\ (~Gpu => Cap("gpu") = 0)
  BY <1>1, EngineFacts, RunFacts
<1>5. \A t \in {"gpu", "host", "cxl"} : /\ took[t] \in Nat /\ free[t] \in Int /\ Cap(t) \in Nat
                                        /\ Resident(t) = WeightsIn(t) /\ Resident(t) \in Nat
                                        /\ (t # Engine => WeightsIn(t) = 0)
                                        /\ StreamedBytes \in Nat
  BY <1>1, StateType, TierNames, CapNat, ResidentIs
<1>6. /\ WeightsIn("gpu")' = WeightsIn("gpu") /\ WeightsIn("host")' = WeightsIn("host")
      /\ WeightsIn("cxl")' = IF Cached THEN StreamedBytes ELSE 0
  BY StreamFacts DEF ItmeStream
<1>7. PICK f : f = ItmeFree
  OBVIOUS
<1> DEFINE g == (IF Gpu THEN free["gpu"] ELSE 0) - took["gpu"]
           h == (IF Gpu THEN Cap("host") - run.hostStaging - Resident("host")
                 ELSE free["host"]) - took["host"]
           c == CacheRoom - (IF Cached THEN StreamedBytes ELSE 0)
<1>8. f = [NoRoom EXCEPT !["gpu"] = g, !["host"] = h, !["cxl"] = c]
  BY <1>7 DEF ItmeFree
<1>9. g \in Int /\ h \in Int /\ c \in Int
  BY <1>4, <1>5 DEF CacheRoom
<1>10. f["gpu"] = g /\ f["host"] = h /\ f["cxl"] = c /\ f["pool"] = 0
  <2> HIDE DEF g, h, c
  <2> QED
    BY <1>1, <1>8 DEF NoRoom
<1>11. f \in [FastTiers -> Int]
  <2> HIDE DEF g, h, c
  <2> QED
    BY <1>1, <1>8, <1>9 DEF NoRoom
<1>12. took["gpu"] + reserve["gpu"] + f["gpu"] + WeightsIn("gpu")' = Cap("gpu")
  <2>1. CASE Gpu
    <3>1. free["gpu"] + WeightsIn("gpu") = Cap("gpu") /\ g = free["gpu"] - took["gpu"]
      BY <1>2, <1>4, <1>5, <2>1
    <3> HIDE DEF g
    <3> QED
      BY <1>3, <1>5, <1>6, <1>10, <3>1
  <2>2. CASE ~Gpu
    <3>1. WeightsIn("gpu") = 0 /\ g = 0 - took["gpu"] /\ Cap("gpu") = 0
      BY <1>4, <1>5, <2>2
    <3> HIDE DEF g
    <3> QED
      BY <1>3, <1>5, <1>6, <1>10, <3>1
  <2> QED
    BY <2>1, <2>2
<1>13. took["host"] + reserve["host"] + f["host"] + WeightsIn("host")' = Cap("host")
  <2>1. CASE Gpu
    <3>1. /\ WeightsIn("host") = 0 /\ Resident("host") = 0
          /\ h = Cap("host") - run.hostStaging - Resident("host") - took["host"]
      BY <1>4, <1>5, <2>1
    <3> HIDE DEF h
    <3> QED
      BY <1>3, <1>4, <1>5, <1>6, <1>10, <3>1
  <2>2. CASE ~Gpu
    <3>1. /\ free["host"] + WeightsIn("host") = Cap("host") - run.hostStaging
          /\ h = free["host"] - took["host"]
      BY <1>2, <1>4, <2>2
    <3> HIDE DEF h
    <3> QED
      BY <1>3, <1>4, <1>5, <1>6, <1>10, <3>1
  <2> QED
    BY <2>1, <2>2
<1>14. took["cxl"] + reserve["cxl"] + f["cxl"] + WeightsIn("cxl")' = Cap("cxl")
  BY <1>3, <1>4, <1>5, <1>6, <1>10 DEF CacheRoom
<1>15. \A t \in DramTiers : Held(t) = took[t] + reserve[t] + WeightsIn(t)'
  <2>1. Held("gpu") = took["gpu"] + reserve["gpu"] + WeightsIn("gpu")'
    BY <1>3, <1>5, <1>6 DEF Held
  <2>2. Held("host") = took["host"] + reserve["host"] + WeightsIn("host")'
    BY <1>3, <1>4, <1>5, <1>6 DEF Held
  <2>3. Held("cxl") = took["cxl"] + reserve["cxl"] + WeightsIn("cxl")'
    <3>1. Resident("cxl") = 0
      BY <1>4, <1>5
    <3> QED
      BY <1>3, <1>4, <1>5, <1>6, <3>1 DEF Held
  <2> QED
    BY <1>1, <2>1, <2>2, <2>3
<1> QED
  BY <1>1, <1>7, <1>10, <1>11, <1>12, <1>13, <1>14, <1>15

\* The streamed weights are placed: the script goes on if no tier is overfull, or stops.
LEMMA ItmeStreams ==
  ASSUME BaseInv, ItmeStream
  PROVE  BaseInv'
<1>1. /\ run.policy = "itme" /\ pc = "kvPlaced"
      /\ share' = [l \in Layers |-> IF l \in Streamed /\ Cached THEN InTier(l, "cxl")
                                    ELSE share[l]]
      /\ free' = ItmeFree
      /\ headroom' = IF tail \in DramTiers THEN Larger(0, ItmeFree[tail]) ELSE 0
      /\ pc' = IF NoTierOverfull THEN "decode" ELSE "aborted"
      /\ UNCHANGED <<run, phaseVars, kvVars, reserve, next, staging, decodeVars>>
  BY DEF ItmeStream, At
<1>2. /\ run \in Runs /\ share \in [Layers -> Share] /\ TypeOK /\ KvInv /\ PlaceInv
      /\ StepInv /\ PhaseInv
  BY DEF BaseInv
<1>3. ItmeInv /\ ItmeStored
  BY <1>1, <1>2 DEF PlaceInv, ItmeInv, ItmeStored
<1>4. /\ ItmeFree \in [FastTiers -> Int] /\ ItmeFree["pool"] = 0
      /\ \A t \in DramTiers : took[t] + reserve[t] + ItmeFree[t] + WeightsIn(t)' = Cap(t)
      /\ \A t \in DramTiers : Held(t) = took[t] + reserve[t] + WeightsIn(t)'
  BY <1>1, <1>3, ItmeFreeFacts
<1>5. took' = took /\ run' = run /\ reserve' = reserve /\ staging' = staging /\ tail' = tail
      /\ kvLeft' = kvLeft
  BY <1>1 DEF kvVars
<1>6. /\ share' \in [Layers -> Share]
      /\ \A l \in Layers : share'[l].total = BytesOf(l) /\ SumOf(share'[l].of) = BytesOf(l)
  BY <1>1, <1>3, StreamFacts
<1>7. \A t \in DramTiers : /\ took[t] \in Nat /\ reserve[t] \in Nat /\ ItmeFree[t] \in Int
                           /\ WeightsIn(t)' \in Nat /\ Cap(t) \in Nat
                           /\ Placed(t)' = Denominator * WeightsIn(t)'
  BY <1>2, <1>4, <1>5, <1>6, StateType, TierNames, CapNat, PlacedIsScaledNext
<1>8. tail \in FastTiers => tail \in DramTiers
  BY <1>1, <1>2, TiersReadAre, TierNames DEF KvInv
<1>9. headroom' \in Nat
  <2>1. CASE tail \in DramTiers
    BY <1>1, <1>7, <2>1 DEF Larger
  <2> QED
    BY <1>1, <2>1
<1>10. staging \in Nat
  BY <1>2 DEF TypeOK
<1>11. CASE NoTierOverfull
  <2>1. \A t \in DramTiers : ItmeFree[t] \in Nat
    <3> TAKE t \in DramTiers
    <3>1. took[t] + reserve[t] + WeightsIn(t)' <= Cap(t)
      BY <1>4, <1>11 DEF NoTierOverfull
    <3> QED
      BY <1>4, <1>7, <3>1
  <2>2. ItmeFree \in [FastTiers -> Nat]
    <3>1. \A t \in FastTiers : ItmeFree[t] \in Nat
      BY <1>4, <2>1 DEF FastTiers
    <3> QED
      BY <1>4, <3>1
  <2>3. tail \in FastTiers => headroom' = free'[tail]
    BY <1>1, <1>8, <2>1 DEF Larger
  <2>4. /\ \A t : Cap(t)' = Cap(t) /\ Denominator' = Denominator /\ MyTiers' = MyTiers
        /\ MyTiers = DramTiers
    BY <1>1, <1>5, RunFixed DEF MyTiers
  <2>5. BytesAccounted'
    <3> SUFFICES ASSUME NEW t \in DramTiers
                 PROVE  Denominator * (took[t] + reserve[t] + ItmeFree[t]) + Placed(t)'
                          = Denominator * Cap(t)
      BY <1>1, <1>5, <2>4 DEF BytesAccounted
    <3> DEFINE y == took[t] + reserve[t] + ItmeFree[t]
    <3>1. y \in Int /\ y + WeightsIn(t)' = Cap(t)
      BY <1>4, <1>7
    <3>2. Denominator \in Nat /\ WeightsIn(t)' \in Int /\ Cap(t) \in Int
      BY <1>2, <1>7, DenominatorNat
    <3> HIDE DEF y
    <3>3. Denominator * y + Denominator * WeightsIn(t)' = Denominator * Cap(t)
      BY <3>1, <3>2, ScaledBalance
    <3> QED
      BY <1>7, <3>3 DEF y
  <2>6. StagingIsBacked'
    <3>1. PICK r : r = reserve'
      OBVIOUS
    <3>2. PICK f : f = free'
      OBVIOUS
    <3>3. \A t \in DramTiers : r[t] \in Nat /\ f[t] \in Nat
      BY <1>1, <1>5, <1>7, <2>1, <3>1, <3>2
    <3>4. Total(LAMBDA t : r[t] + f[t], MyTiers)
            = (r["gpu"] + f["gpu"]) + (r["host"] + f["host"]) + (r["cxl"] + f["cxl"])
      <4>1. \A t \in DramTiers : r[t] \in Int /\ f[t] \in Int
        BY <3>3
      <4> QED
        BY <1>1, <4>1, RoomSumOf
    <3>5. Total(LAMBDA t : reserve[t] + free[t], MyTiers)'
            = Total(LAMBDA t : r[t] + f[t], MyTiers)
      BY <2>4, <3>1, <3>2 DEF Total
    <3>6. staging = r["cxl"] + r["host"]
      <4>1. /\ reserve = [NoRoom EXCEPT !["cxl"] = Ring, !["host"] = run.hostStaging]
            /\ staging = Ring + run.hostStaging
        BY <1>1, <1>3 DEF ItmeInv
      <4>2. r["cxl"] = Ring /\ r["host"] = run.hostStaging
        BY <1>5, <3>1, <4>1, TierNames DEF NoRoom
      <4> QED
        BY <4>1, <4>2
    <3>7. staging <= (r["gpu"] + f["gpu"]) + (r["host"] + f["host"]) + (r["cxl"] + f["cxl"])
      <4>1. /\ r["gpu"] \in Nat /\ r["host"] \in Nat /\ r["cxl"] \in Nat
            /\ f["gpu"] \in Nat /\ f["host"] \in Nat /\ f["cxl"] \in Nat
        BY <3>3, TierNames
      <4> QED
        BY <3>6, <4>1
    <3>8. staging' <= Total(LAMBDA t : reserve[t] + free[t], MyTiers)'
      BY <1>5, <3>4, <3>5, <3>7, Zenon
    <3>9. \A t \in MyTiers' : free'[t] >= 0
      BY <2>4, <3>2, <3>3
    <3> QED
      BY <3>8, <3>9 DEF StagingIsBacked
  <2>7. pc' = "decode" /\ free' \in [FastTiers -> Nat] /\ staging' \in Nat
    BY <1>1, <1>5, <1>10, <1>11, <2>2
  <2>8. \A l \in Layers : SumOf(share'[l].of) = share'[l].total
    BY <1>6
  <2> QED
    BY <1>1, <1>6, <1>9, <2>3, <2>5, <2>6, <2>7, <2>8, PlacedKeeps
<1>12. CASE ~NoTierOverfull
  <2>1. pc' = "aborted"
    BY <1>1, <1>12
  <2>2. KvInv'
    BY <1>1, <1>2, <2>1, KvHeld DEF NoCache, At
  <2>3. StepInv' /\ PhaseInv'
    BY <1>1, <1>2, <2>1, QuietSteps DEF Placing
  <2>4. PlaceInv'
    BY <2>1, PlacementOver
  <2>5. Layers' = Layers /\ layers' = layers
    BY <1>5, RunFixed
  <2>6. TypeOK'
    BY <1>1, <1>2, <1>4, <1>5, <1>9, <2>1, <2>5 DEF TypeOK, decodeVars
  <2> QED
    BY <1>2, <1>5, <1>6, <2>2, <2>3, <2>4, <2>5, <2>6 DEF BaseInv
<1> QED
  BY <1>11, <1>12

-----------------------------------------------------------------------------
(* The decode steps of the policies.                                       *)

\* A decode step with whole reads keeps the invariant, if the prefetcher's part is kept.
LEMMA DecodeSteps ==
  ASSUME BaseInv, pc = "decode", NEW weightsOf, NEW kv, DecodeStep(weightsOf, kv),
         \A l \in Layers : Whole(weightsOf[l]), Whole(kv), PhaseInv'
  PROVE  BaseInv'
<1>1. /\ run \in Runs /\ share \in [Layers -> Share] /\ TypeOK /\ KvInv /\ StepInv
  BY DEF BaseInv
<1>2. /\ StepInv' /\ TypeOK' /\ share' \in [Layers -> Share]
      /\ pc' \in {"decode", "done"} /\ PlaceInv' /\ UNCHANGED <<run, kvVars, placeVars>>
  BY <1>1, DecodeKeeps
<1>3. KvInv'
  BY <1>1, <1>2, KvHeld DEF NoCache, At
<1>4. Layers' = Layers
  BY <1>2, RunFixed
<1> QED
  BY <1>1, <1>2, <1>3, <1>4 DEF BaseInv

\* What every decode step starts from: each layer's share is whole, and so is the cache unit.
LEMMA DecodeReads ==
  ASSUME BaseInv, pc = "decode"
  PROVE  /\ run \in Runs /\ share \in [Layers -> Share] /\ TypeOK
         /\ \A l \in Layers : Whole(share[l]) /\ SumOf(share[l].of) = share[l].total
         /\ KvNow \in Nat /\ Whole(KvUnit(KvNow))
         /\ \A t \in Tiers : KvUnit(KvNow).of[t] \in Nat
         /\ KvUnit(KvNow).total \in Nat
<1>1. /\ run \in Runs /\ share \in [Layers -> Share] /\ TypeOK /\ KvInv /\ StepInv /\ Placing
  BY DEF BaseInv, Placing
<1>2. \A l \in Layers : Whole(share[l]) /\ SumOf(share[l].of) = share[l].total
  BY <1>1, ShareWhole DEF StepInv
<1>3. step \in Nat
  BY <1>1 DEF StepInv
<1>4. KvNow \in Nat
  BY <1>1, <1>3, KvAtNat DEF KvNow
<1>5. ~NoCache /\ pc # "cascade"
  BY DEF NoCache, At
<1> QED
  BY <1>1, <1>2, <1>4, <1>5, KvUnitWhole

\* A script without a prefetcher keeps its part of the invariant.
LEMMA NoPhase ==
  ASSUME BaseInv, run.policy # "aimpod", UNCHANGED <<run, phaseVars>>
  PROVE  PhaseInv'
<1>1. PhaseInv /\ arrival = << >>
  BY DEF BaseInv, PhaseInv, InPass
<1> QED
  BY <1>1, PhaseHeld

\* FlexGen, LIA and ITME read each layer where it is stored.
LEMMA StoredDecodes ==
  ASSUME BaseInv, FlexGenDecode \/ LiaDecode \/ ItmeDecode
  PROVE  BaseInv'
<1>1. /\ run.policy # "aimpod" /\ pc = "decode"
      /\ DecodeStep(share, KvUnit(KvNow)) /\ UNCHANGED phaseVars
  BY DEF FlexGenDecode, LiaDecode, ItmeDecode, At
<1>2. run' = run
  BY <1>1 DEF DecodeStep
<1>3. PhaseInv'
  BY <1>1, <1>2, NoPhase
<1> QED
  BY <1>1, <1>3, DecodeReads, DecodeSteps

\* The dynamic baseline reads its hits from the device, the other layers where they are stored.
LEMMA DynamicDecodes ==
  ASSUME BaseInv, DynamicDecode
  PROVE  BaseInv'
<1>1. run.policy = "dynamic" /\ pc = "decode" /\ UNCHANGED phaseVars
  BY DEF DynamicDecode, At
<1>2. PICK served \in SUBSET DeviceClass :
        DecodeStep([l \in Layers |-> IF l \in served THEN InTier(l, "cxl") ELSE share[l]],
                   KvUnit(KvNow))
  BY DEF DynamicDecode
<1>3. PICK weightsOf :
        weightsOf = [l \in Layers |-> IF l \in served THEN InTier(l, "cxl") ELSE share[l]]
  OBVIOUS
<1>4. \A l \in Layers : Whole(weightsOf[l])
  <2> TAKE l \in Layers
  <2>1. run \in Runs /\ "cxl" \in Tiers
    BY TierNames DEF BaseInv
  <2>2. Whole(InTier(l, "cxl"))
    <3>1. /\ SumOf(InTier(l, "cxl").of) = BytesOf(l) /\ InTier(l, "cxl").total = BytesOf(l)
          /\ InTier(l, "cxl") \in Share
      BY <2>1, InTierFacts
    <3>2. \A t \in Tiers : InTier(l, "cxl").of[t] \in Int
      BY <3>1 DEF Share
    <3> QED
      BY <3>1, <3>2, WholeIs
  <2>3. Whole(share[l])
    BY <1>1, DecodeReads
  <2>4. weightsOf[l] = InTier(l, "cxl") \/ weightsOf[l] = share[l]
    BY <1>3
  <2> QED
    BY <2>2, <2>3, <2>4
<1>5. DecodeStep(weightsOf, KvUnit(KvNow)) /\ run' = run
  BY <1>2, <1>3 DEF DecodeStep
<1>6. PhaseInv'
  BY <1>1, <1>5, NoPhase
<1> QED
  BY <1>1, <1>4, <1>5, <1>6, DecodeReads, DecodeSteps

\* The working set fills the tiers of the pool: what each takes adds up to it.
LEMMA WsTakeFacts ==
  ASSUME run \in Runs
  PROVE  /\ WorkingBytes \in Nat /\ WsTake \in [Tiers -> Nat]
         /\ WsTake["gpu"] + WsTake["host"] + WsTake["cxl"] = WorkingBytes
         /\ WsTake["pool"] = 0
<1>1. /\ Cap("gpu") \in Nat /\ Cap("host") \in Nat /\ Cap("cxl") \in Nat
      /\ PoolCap = Cap("gpu") + Cap("host") + Cap("cxl") /\ PoolCap \in Nat
  BY CapNat, TierNames DEF PoolCap
<1>2. Weights + KvReserved \in Nat
  <2>1. Weights \in Nat
    BY BytesNat DEF Weights
  <2>2. KvReserved \in Nat
    BY KvReservedNat
  <2> QED
    BY <2>1, <2>2
<1>3. WorkingBytes \in Nat /\ WorkingBytes <= PoolCap
  BY <1>1, <1>2 DEF WorkingBytes, Smaller
<1> DEFINE b == WorkingBytes
           g == Smaller(b, Cap("gpu"))
           h == Smaller(b - g, Cap("host"))
           c == Smaller(b - g - h, Cap("cxl"))
<1>4. WsTake = [Nowhere EXCEPT !["gpu"] = g, !["host"] = h, !["cxl"] = c]
  BY DEF WsTake
<1>5. b \in Nat /\ b <= Cap("gpu") + Cap("host") + Cap("cxl")
  BY <1>1, <1>3
<1> HIDE DEF b
<1>6. g \in Nat /\ g <= b /\ (g = b \/ g = Cap("gpu"))
  BY <1>1, <1>5 DEF Smaller
<1> HIDE DEF g
<1>7. h \in Nat /\ h <= b - g /\ (h = b - g \/ h = Cap("host"))
  BY <1>1, <1>5, <1>6 DEF Smaller
<1> HIDE DEF h
<1>8. c \in Nat /\ c = b - g - h
  BY <1>1, <1>5, <1>6, <1>7 DEF Smaller
<1> HIDE DEF c
<1>9. PICK w : w = WsTake
  OBVIOUS
<1>10. w \in [Tiers -> Nat] /\ w["gpu"] = g /\ w["host"] = h /\ w["cxl"] = c /\ w["pool"] = 0
  BY <1>4, <1>6, <1>7, <1>8, <1>9, TierNames DEF Nowhere
<1> QED
  BY <1>3, <1>5, <1>6, <1>7, <1>8, <1>9, <1>10 DEF b

\* Five products with a common factor, the last of them another.
LEMMA SpreadSum ==
  ASSUME NEW m \in Int, NEW n \in Int, NEW g \in Int, NEW h \in Int, NEW c \in Int, NEW b \in Int,
         g + h + c = b
  PROVE  m * g + m * h + m * c + m * 0 + n * b = (n + m) * b
<1>1. m * (g + h) = m * g + m * h /\ m * g \in Int /\ m * h \in Int /\ m * c \in Int
  BY Distributes
<1>2. m * ((g + h) + c) = m * (g + h) + m * c
  BY Distributes
<1>3. (g + h) + c = b /\ m * 0 = 0
  OBVIOUS
<1>4. b * (n + m) = b * n + b * m /\ b * n = n * b /\ b * m = m * b /\ (n + m) * b = b * (n + m)
      /\ m * b \in Int /\ n * b \in Int
  BY Distributes
<1>5. m * b = m * g + m * h + m * c
  BY <1>1, <1>2, <1>3
<1> QED
  BY <1>1, <1>3, <1>4, <1>5

\* A read that is pooled or on NAND is whole when its pooled part is spread.
LEMMA SpreadWhole ==
  ASSUME run \in Runs, NEW sh, sh.of["nand"] \in Int, NEW pooled \in Int,
         sh.total = sh.of["nand"] + pooled
  PROVE  Whole(Spread(sh, pooled))
<1>1. /\ WorkingBytes \in Nat /\ WsTake \in [Tiers -> Nat] /\ WsTake["pool"] = 0
      /\ WsTake["gpu"] + WsTake["host"] + WsTake["cxl"] = WorkingBytes
  BY WsTakeFacts
<1>2. PICK n : n = sh.of["nand"]
  OBVIOUS
<1>3. n \in Int /\ sh.total = n + pooled
  BY <1>2
<1>4. PICK z : z = Spread(sh, pooled)
  OBVIOUS
<1>5. /\ z.of = [t \in Tiers |-> IF t = "nand" THEN n * WorkingBytes ELSE pooled * WsTake[t]]
      /\ z.total = (n + pooled) * WorkingBytes
  BY <1>2, <1>3, <1>4 DEF Spread
<1>6. /\ z.of["gpu"] = pooled * WsTake["gpu"] /\ z.of["host"] = pooled * WsTake["host"]
      /\ z.of["cxl"] = pooled * WsTake["cxl"] /\ z.of["pool"] = pooled * 0
      /\ z.of["nand"] = n * WorkingBytes
  BY <1>1, <1>5, TierNames
<1>7. /\ WsTake["gpu"] \in Int /\ WsTake["host"] \in Int /\ WsTake["cxl"] \in Int
      /\ WorkingBytes \in Int
  BY <1>1, TierNames
<1>8. SumOf(z.of) = z.total
  <2> DEFINE g == WsTake["gpu"]
             h == WsTake["host"]
             c == WsTake["cxl"]
             b == WorkingBytes
  <2>0. g \in Int /\ h \in Int /\ c \in Int /\ b \in Int /\ g + h + c = b
    BY <1>1, <1>7
  <2>1. pooled * WsTake["gpu"] + pooled * WsTake["host"] + pooled * WsTake["cxl"] + pooled * 0
          + n * WorkingBytes = (n + pooled) * WorkingBytes
    <3>1. pooled * g + pooled * h + pooled * c + pooled * 0 + n * b = (n + pooled) * b
      <4> HIDE DEF g, h, c, b
      <4> QED
        BY <1>3, <2>0, SpreadSum
    <3> QED
      BY <3>1
  <2> QED
    BY <1>5, <1>6, <2>1 DEF SumOf
<1>9. \A t \in Tiers : z.of[t] \in Int
  <2>1. /\ pooled * WsTake["gpu"] \in Int /\ pooled * WsTake["host"] \in Int
        /\ pooled * WsTake["cxl"] \in Int /\ pooled * 0 \in Int /\ n * WorkingBytes \in Int
    BY <1>3, <1>7, Distributes
  <2> QED
    BY <1>6, <2>1, TierNames
<1> QED
  BY <1>4, <1>8, <1>9, WholeIs

\* LLM-in-a-Flash reads from the pool and from NAND.
LEMMA LlmFlashDecodes ==
  ASSUME BaseInv, LlmFlashDecode
  PROVE  BaseInv'
<1> DEFINE kv == KvUnit(KvNow)
<1>1. /\ run.policy = "llmflash" /\ pc = "decode" /\ UNCHANGED phaseVars
      /\ DecodeStep([l \in Layers |-> Spread(share[l], share[l].of["pool"])],
                    Spread(kv, kv.total - kv.of["nand"]))
  BY DEF LlmFlashDecode, At
<1>2. /\ run \in Runs /\ share \in [Layers -> Share] /\ TypeOK
      /\ kv.of["nand"] \in Nat /\ kv.total \in Nat
      /\ \A l \in Layers : SumOf(share[l].of) = share[l].total
  BY <1>1, DecodeReads, TierNames
<1>3. \A l \in Layers : \A t \in DramTiers : share[l].of[t] = 0
  BY <1>1 DEF BaseInv, StepInv, Placing
<1> HIDE DEF kv
<1>4. Whole(Spread(kv, kv.total - kv.of["nand"]))
  <2>1. PICK pooled : pooled = kv.total - kv.of["nand"]
    OBVIOUS
  <2>2. pooled \in Int /\ kv.total = kv.of["nand"] + pooled /\ kv.of["nand"] \in Int
    BY <1>2, <2>1
  <2> QED
    BY <1>2, <2>1, <2>2, SpreadWhole
<1>5. PICK weightsOf : weightsOf = [l \in Layers |-> Spread(share[l], share[l].of["pool"])]
  OBVIOUS
<1>6. \A l \in Layers : Whole(weightsOf[l])
  <2> TAKE l \in Layers
  <2>1. \A t \in Tiers : share[l].of[t] \in Nat
    BY <1>2, StateType
  <2>2. /\ share[l].of["pool"] \in Int /\ share[l].of["nand"] \in Int
        /\ share[l].of["gpu"] = 0 /\ share[l].of["host"] = 0 /\ share[l].of["cxl"] = 0
    BY <1>3, <2>1, TierNames
  <2>3. share[l].total = share[l].of["nand"] + share[l].of["pool"]
    BY <1>2, <2>2 DEF SumOf
  <2>4. Whole(Spread(share[l], share[l].of["pool"]))
    BY <1>2, <2>2, <2>3, SpreadWhole
  <2> QED
    BY <1>5, <2>4
<1>7. run' = run /\ DecodeStep(weightsOf, Spread(kv, kv.total - kv.of["nand"]))
  BY <1>1, <1>5 DEF DecodeStep
<1>8. PhaseInv'
  BY <1>1, <1>7, NoPhase
<1> QED
  BY <1>1, <1>4, <1>6, <1>7, <1>8, DecodeSteps

-----------------------------------------------------------------------------
(* A pass of CXLAimPod's prefetcher.                                       *)

\* What a list holds, and its first n.
Listed(sq) == {sq[i] : i \in DOMAIN sq}
FirstOf(sq, n) == {sq[i] : i \in 1 .. n}
NoTwice(sq) == \A j, i \in DOMAIN sq : sq[j] = sq[i] => j = i
Shifted(sq, n, e) == Append(SubSeq(sq, n + 1, Len(sq)), e)

\* The first n of a list without repetition are dropped and another element is appended.
LEMMA DropAppend ==
  ASSUME NEW S, NEW sq \in Seq(S), NoTwice(sq), NEW n \in 0 .. Len(sq), NEW e \in S,
         e \notin Listed(sq), NEW r, r = Shifted(sq, n, e)
  PROVE  /\ r \in Seq(S) /\ NoTwice(r)
         /\ Listed(r) = (Listed(sq) \ FirstOf(sq, n)) \cup {e}
<1>0. /\ \A j, i \in DOMAIN sq : sq[j] = sq[i] => j = i
      /\ \A i \in DOMAIN sq : sq[i] # e
      /\ r = Append(SubSeq(sq, n + 1, Len(sq)), e)
  BY DEF NoTwice, Listed, Shifted
<1> DEFINE q == SubSeq(sq, n + 1, Len(sq))
           m == Len(sq) - n
<1>1. /\ Len(sq) \in Nat /\ DOMAIN sq = 1 .. Len(sq) /\ n \in Nat /\ n <= Len(sq) /\ m \in Nat
      /\ n + 1 \in Int /\ \A i \in (n + 1) .. Len(sq) : sq[i] \in S
      /\ Len(sq) - (n + 1) + 1 = m
  OBVIOUS
<1>2. /\ q \in Seq(S) /\ Len(q) = (IF n + 1 <= Len(sq) THEN Len(sq) - (n + 1) + 1 ELSE 0)
      /\ \A i \in 1 .. Len(sq) - (n + 1) + 1 : q[i] = sq[n + 1 + i - 1]
  BY <1>1, SubSeqProperties
<1>3. q \in Seq(S) /\ Len(q) = m
  <2> HIDE DEF q
  <2>1. Len(q) = IF n + 1 <= Len(sq) THEN Len(sq) - (n + 1) + 1 ELSE 0
    BY <1>2
  <2>2. Len(sq) \in Int /\ n \in Int /\ n <= Len(sq) /\ m = Len(sq) - n
    BY <1>1
  <2>3. Len(q) = m
    <3>1. CASE n + 1 <= Len(sq)
      BY <2>1, <2>2, <3>1
    <3>2. CASE ~(n + 1 <= Len(sq))
      BY <2>1, <2>2, <3>2
    <3> QED
      BY <3>1, <3>2
  <2> QED
    BY <1>2, <2>3
<1>4. \A i \in 1 .. m : q[i] = sq[n + i]
  <2> TAKE i \in 1 .. m
  <2>1. q[i] = sq[n + 1 + i - 1]
    BY <1>1, <1>2
  <2>2. n + 1 + i - 1 = n + i
    BY <1>1
  <2> QED
    BY <2>1, <2>2
<1>5. r = Append(q, e)
  BY <1>0
<1> HIDE DEF q
<1>6. /\ r \in Seq(S) /\ Len(r) = m + 1 /\ r[m + 1] = e
      /\ \A i \in 1 .. m : r[i] = q[i]
  <2> HIDE DEF m
  <2>1. /\ Append(q, e) \in Seq(S) /\ Len(Append(q, e)) = Len(q) + 1
        /\ \A i \in 1 .. Len(q) : Append(q, e)[i] = q[i]
        /\ Append(q, e)[Len(q) + 1] = e
    BY <1>3, AppendProperties
  <2> QED
    BY <1>3, <1>5, <2>1
<1>7. DOMAIN r = 1 .. (m + 1)
  BY <1>6
<1>8. \A i \in 1 .. m : r[i] = sq[n + i] /\ n + i \in DOMAIN sq /\ n + i > n
  BY <1>1, <1>4, <1>6
<1>9. \A i \in DOMAIN r : i = m + 1 \/ i \in 1 .. m
  BY <1>1, <1>7
<1>10. ASSUME NEW j \in DOMAIN r, NEW i \in DOMAIN r, r[j] = r[i] PROVE j = i
  <2>1. CASE j \in 1 .. m /\ i \in 1 .. m
    <3>1. n + j = n + i
      BY <1>0, <1>8, <1>10, <2>1
    <3> QED
      BY <1>1, <2>1, <3>1
  <2>2. CASE j = m + 1 \/ i = m + 1
    BY <1>0, <1>6, <1>8, <1>9, <1>10, <2>2, SMTT(60)
  <2> QED
    BY <1>9, <2>1, <2>2
<1>11. ASSUME NEW z \in {r[i] : i \in DOMAIN r}
       PROVE  z \in ({sq[i] : i \in DOMAIN sq} \ {sq[i] : i \in 1 .. n}) \cup {e}
  <2>1. PICK i \in DOMAIN r : z = r[i]
    OBVIOUS
  <2>2. CASE i = m + 1
    BY <1>6, <2>1, <2>2
  <2>3. CASE i \in 1 .. m
    <3>1. z = sq[n + i] /\ n + i \in DOMAIN sq /\ n + i > n
      BY <1>8, <2>1, <2>3
    <3>2. \A j \in 1 .. n : sq[j] # z
      <4> TAKE j \in 1 .. n
      <4>1. j \in DOMAIN sq /\ j # n + i
        BY <1>1, <2>3
      <4> QED
        BY <1>0, <3>1, <4>1
    <3> QED
      BY <3>1, <3>2
  <2> QED
    BY <1>9, <2>2, <2>3
<1>12. ASSUME NEW z \in ({sq[i] : i \in DOMAIN sq} \ {sq[i] : i \in 1 .. n}) \cup {e}
       PROVE  z \in {r[i] : i \in DOMAIN r}
  <2>1. CASE z = e
    <3>1. m + 1 \in DOMAIN r
      BY <1>1, <1>7
    <3> QED
      BY <1>6, <2>1, <3>1
  <2>2. CASE z # e
    <3>1. PICK i \in DOMAIN sq : z = sq[i] /\ i \notin 1 .. n
      BY <2>2
    <3>2. i - n \in 1 .. m /\ n + (i - n) = i /\ i - n \in DOMAIN r
      BY <1>1, <1>7, <3>1
    <3>3. r[i - n] = z
      BY <1>8, <3>1, <3>2
    <3> QED
      BY <3>2, <3>3
  <2> QED
    BY <2>1, <2>2
<1>13. Listed(r) = (Listed(sq) \ FirstOf(sq, n)) \cup {e}
  BY <1>11, <1>12 DEF Listed, FirstOf
<1> QED
  BY <1>6, <1>10, <1>13 DEF NoTwice

\* The prefetcher evicts no more layers than it holds.
LEMMA EvictFacts ==
  ASSUME pf_resident \in Seq(Layers), NEW size
  PROVE  Evictions(size) \in 0 .. Len(pf_resident)
<1> DEFINE S == {n \in 0 .. Len(pf_resident) :
                   \/ mem_used - Total(BytesOf, Gone(n)) + size <= Cap("cxl")
                   \/ n = Len(pf_resident)}
<1>1. Len(pf_resident) \in Nat
  OBVIOUS
<1>2. S \in SUBSET Nat /\ Len(pf_resident) \in S
  BY <1>1
<1>3. Evictions(size) = Min(S)
  BY DEF Evictions
<1>4. S \subseteq 0 .. Len(pf_resident)
  OBVIOUS
<1> HIDE DEF S
<1>5. \E z \in S : \A y \in S : z <= y
  BY <1>2, LeastNatural
<1>6. Min(S) \in S
  BY <1>5 DEF Min
<1> QED
  BY <1>3, <1>4, <1>6

\* What an arrival of the prefetcher is, and what scheduling a layer leaves.
Landing(l, size) == IF IsResident(l) THEN arrival[l]
                    ELSE Larger(elapsed, link_busy_until) + NandTime(size)
HoldsInv ==
  /\ link_busy_until \in Nat
  /\ pf_resident \in Seq(Layers)
  /\ \A j, i \in DOMAIN pf_resident : pf_resident[j] = pf_resident[i] => j = i
  /\ arrival \in [{pf_resident[i] : i \in DOMAIN pf_resident} -> Nat]
  /\ \A l \in DOMAIN arrival : ~StoredIn(l, "host") /\ ~StoredIn(l, "cxl")

\* Scheduling a layer keeps the prefetcher's list without repetition and its arrivals those of
\* the list; the layer lands when it did, or after the reads before it on the link.
LEMMA Schedules ==
  ASSUME PhaseInv, NEW l \in Layers, NEW size \in Nat, Schedule(l, size),
         ~StoredIn(l, "host"), ~StoredIn(l, "cxl"), UNCHANGED <<run, share>>
  PROVE  /\ HoldsInv'
         /\ l \in DOMAIN arrival' /\ arrival'[l] = Landing(l, size)
         /\ \A i \in DOMAIN arrival' :
              i # l => i \in DOMAIN arrival /\ arrival'[i] = arrival[i]
<1>1. /\ elapsed \in Nat /\ link_busy_until \in Nat /\ pf_resident \in Seq(Layers)
      /\ \A j, i \in DOMAIN pf_resident : pf_resident[j] = pf_resident[i] => j = i
      /\ arrival \in [{pf_resident[i] : i \in DOMAIN pf_resident} -> Nat]
      /\ \A i \in DOMAIN arrival : ~StoredIn(i, "host") /\ ~StoredIn(i, "cxl")
  BY DEF PhaseInv
<1>2. Layers' = Layers /\ \A i, t : StoredIn(i, t)' = StoredIn(i, t)
  BY RunFixed DEF StoredIn
<1>3. CASE IsResident(l)
  <2>1. /\ link_busy_until' = link_busy_until /\ pf_resident' = pf_resident
        /\ arrival' = arrival
    BY <1>3 DEF Schedule, prefetcherVars
  <2>2. l \in DOMAIN arrival
    BY <1>1, <1>3 DEF IsResident
  <2>3. \A i \in DOMAIN arrival' : ~StoredIn(i, "host")' /\ ~StoredIn(i, "cxl")'
    BY <1>1, <1>2, <2>1
  <2> QED
    BY <1>1, <1>2, <1>3, <2>1, <2>2, <2>3 DEF HoldsInv, Landing
<1>4. CASE ~IsResident(l)
  <2> DEFINE finish == Larger(elapsed, link_busy_until) + NandTime(size)
             n == Evictions(size)
             kept == DOMAIN arrival \ Gone(n)
  <2>1. /\ link_busy_until' = finish
        /\ pf_resident' = Append(SubSeq(pf_resident, n + 1, Len(pf_resident)), l)
        /\ arrival' = [i \in kept \cup {l} |-> IF i = l THEN finish ELSE arrival[i]]
    BY <1>4 DEF Schedule
  <2>2. finish \in Nat
    BY <1>1, SMTT(60) DEF Larger, NandTime
  <2>3. n \in 0 .. Len(pf_resident)
    BY <1>1, EvictFacts
  <2>4. \A i \in DOMAIN pf_resident : pf_resident[i] # l
    BY <1>4 DEF IsResident
  <2>5. kept = Listed(pf_resident) \ FirstOf(pf_resident, n)
    BY <1>1 DEF Gone, Listed, FirstOf
  <2>6. finish = Landing(l, size)
    BY <1>4 DEF Landing
  <2> HIDE DEF finish, n, kept
  <2>7. PICK r : r = pf_resident'
    OBVIOUS
  <2>8. /\ r \in Seq(Layers)
        /\ \A j, i \in DOMAIN r : r[j] = r[i] => j = i
        /\ {r[i] : i \in DOMAIN r} = kept \cup {l}
    <3>1. r = Append(SubSeq(pf_resident, n + 1, Len(pf_resident)), l)
      BY <2>1, <2>7
    <3>2. PICK sq, m : sq = pf_resident /\ m = n
      OBVIOUS
    <3>3. /\ sq \in Seq(Layers) /\ NoTwice(sq) /\ m \in 0 .. Len(sq) /\ l \notin Listed(sq)
          /\ r = Shifted(sq, m, l)
      BY <1>1, <2>3, <2>4, <3>1, <3>2 DEF NoTwice, Listed, Shifted
    <3>4. r \in Seq(Layers) /\ NoTwice(r) /\ Listed(r) = (Listed(sq) \ FirstOf(sq, m)) \cup {l}
      BY <3>3, DropAppend
    <3>5. Listed(r) = kept \cup {l}
      BY <2>5, <3>2, <3>4
    <3> QED
      BY <3>4, <3>5 DEF Listed, NoTwice
  <2>9. kept \subseteq DOMAIN arrival
    BY DEF kept
  <2>10. /\ DOMAIN arrival' = kept \cup {l} /\ arrival'[l] = finish
         /\ \A i \in DOMAIN arrival' :
              i # l => i \in DOMAIN arrival /\ arrival'[i] = arrival[i]
    BY <2>1, <2>9
  <2>11. \A i \in DOMAIN arrival : arrival[i] \in Nat
    BY <1>1
  <2>12. arrival' \in [kept \cup {l} -> Nat]
    BY <2>1, <2>2, <2>9, <2>11
  <2>13. \A i \in DOMAIN arrival' : ~StoredIn(i, "host")' /\ ~StoredIn(i, "cxl")'
    BY <1>1, <1>2, <2>10
  <2>14. /\ pf_resident' \in Seq(Layers)
         /\ \A j, i \in DOMAIN pf_resident' : pf_resident'[j] = pf_resident'[i] => j = i
    BY <2>7, <2>8
  <2>15. arrival' \in [{pf_resident'[i] : i \in DOMAIN pf_resident'} -> Nat]
    <3>1. {pf_resident'[i] : i \in DOMAIN pf_resident'} = kept \cup {l}
      BY <2>7, <2>8, ZenonT(60)
    <3> QED
      BY <2>12, <3>1
  <2>16. HoldsInv'
    BY <1>2, <2>1, <2>2, <2>13, <2>14, <2>15 DEF HoldsInv
  <2> QED
    BY <2>6, <2>10, <2>16
<1> QED
  BY <1>3, <1>4

\* What the ledger's part of the invariant says depends on the ledger alone.
LEMMA BookHeld ==
  ASSUME BaseInv, UNCHANGED bookVars, PhaseInv'
  PROVE  BaseInv'
<1>1. /\ run' = run /\ pc' = pc /\ cascade' = cascade /\ kvLeft' = kvLeft /\ took' = took
      /\ tail' = tail /\ free' = free /\ reserve' = reserve /\ share' = share /\ next' = next
      /\ staging' = staging /\ headroom' = headroom /\ step' = step /\ units' = units
      /\ spill' = spill
  BY DEF bookVars, kvVars, placeVars, decodeVars
<1>2. /\ run \in Runs /\ share \in [Layers -> Share] /\ TypeOK /\ KvInv /\ PlaceInv /\ StepInv
  BY DEF BaseInv
<1>3. /\ layers' = layers /\ Layers' = Layers /\ \A l, t : InTier(l, t)' = InTier(l, t)
      /\ \A t : Cap(t)' = Cap(t) /\ KvReserved' = KvReserved /\ KvTiersRead' = KvTiersRead
      /\ embedding_last' = embedding_last /\ (\A n : KvAt(n)' = KvAt(n))
      /\ Denominator' = Denominator /\ MyTiers' = MyTiers
      /\ Gpu' = Gpu /\ Engine' = Engine /\ Ring' = Ring
  BY <1>1, RunFixed, EngineFixed
<1>4. (\A t : WeightsIn(t)' = WeightsIn(t)) /\ \A t : Placed(t)' = Placed(t)
  BY <1>1, WeightsSame, PlacedSame
<1>5. TypeOK'
  BY <1>1, <1>2, <1>3 DEF TypeOK
<1>6. KvInv'
  <2>1. NoCache' <=> NoCache
    BY <1>1 DEF NoCache, At
  <2>2. CascadeOk => CascadeOk'
    BY <1>1, <1>3 DEF CascadeOk
  <2> QED
    BY <1>1, <1>2, <1>3, <2>1, <2>2 DEF KvInv, SumOf
<1>7. PlaceInv'
  <2>1. FreshInv'
    BY <1>1, <1>2, <1>3 DEF PlaceInv, FreshInv, Untouched, Kept
  <2>2. Balanced => Balanced'
    BY <1>1, BalancedSame
  <2>3. LedgerInv'
    BY <1>1, <1>2, <2>2 DEF PlaceInv, LedgerInv, LedgerPhase, StagedOf
  <2>4. OrderInv'
    BY <1>1, <1>2, <1>3 DEF PlaceInv, OrderInv, InOne, Kept, FromLast
  <2>5. ItmeInv'
    BY <1>1, <1>2, <1>3, <1>4 DEF PlaceInv, ItmeInv
  <2> QED
    BY <2>1, <2>3, <2>4, <2>5 DEF PlaceInv
<1>8. StepInv'
  <2>1. BytesAccounted'
    BY <1>1, <1>2, <1>3, <1>4 DEF StepInv, BytesAccounted, Placing
  <2>2. StagingIsBacked'
    BY <1>1, <1>2, <1>3 DEF StepInv, StagingIsBacked, Placing, Total
  <2>3. ReadsCoverLayer'
    BY <1>1, <1>2 DEF StepInv, ReadsCoverLayer, Whole, Total
  <2>4. kv_growth_spill(KvAt(run.prefill + step))' = kv_growth_spill(KvAt(run.prefill + step))
    BY <1>1, <1>3 DEF kv_growth_spill
  <2> QED
    BY <1>1, <1>2, <1>3, <2>1, <2>2, <2>3, <2>4 DEF StepInv, Placing, SumOf
<1> QED
  BY <1>1, <1>2, <1>3, <1>5, <1>6, <1>7, <1>8 DEF BaseInv

\* A layer on NAND is not in host or device memory.
LEMMA OnNand ==
  ASSUME run \in Runs, NEW l \in Layers, StoredIn(l, "nand")
  PROVE  ~StoredIn(l, "host") /\ ~StoredIn(l, "cxl")
<1>1. "nand" \in Tiers /\ "host" \in Tiers /\ "cxl" \in Tiers
  BY TierNames
<1>2. InTier(l, "host") # InTier(l, "nand") /\ InTier(l, "cxl") # InTier(l, "nand")
  BY <1>1, InTierFacts
<1> QED
  BY <1>2 DEF StoredIn

\* The bytes of a read are a natural.
LEMMA ReadNat ==
  ASSUME run \in Runs, NEW l \in Layers
  PROVE  ReadOf(l) \in Nat
<1>1. BytesOf(l) \in Nat /\ layers[l].read \in Nat /\ run.prefill \in Nat
  BY RunFacts
<1>2. layers[l].read * run.prefill \in Nat
  BY <1>1, ProductNat
<1> QED
  BY <1>1, <1>2 DEF ReadOf, Smaller

\* A layer's share of the time to read the cache is a natural: where a layer has any cache, the
\* reservation is not nothing.
LEMMA KvReadNat ==
  ASSUME run \in Runs, share \in [Layers -> Share], TypeOK, step \in Nat, NEW l \in Layers
  PROVE  KvReadTime(l) \in Nat /\ KvWriteTime(l) \in Nat
<1>1. /\ KvOf(l) \in Nat /\ KvOf(l) = layers[l].kv /\ run.prefill \in Nat
      /\ took["cxl"] \in Nat /\ took["nand"] \in Nat
  BY RunFacts, StateType, TierNames DEF KvOf
<1>2. run.prefill + step \in Nat /\ CxlTime(took["cxl"]) + NandTime(took["nand"]) \in Nat
  BY <1>1 DEF CxlTime, NandTime
<1>3. KvOf(l) * (run.prefill + step) \in Nat
  BY <1>1, <1>2, ProductNat
<1> DEFINE m == KvOf(l) * (run.prefill + step)
           c == CxlTime(took["cxl"]) + NandTime(took["nand"])
<1>4. m * c \in Nat
  <2> HIDE DEF m, c
  <2> QED
    BY <1>2, <1>3, ProductNat DEF m, c
<1>5. CASE prefilling \/ layers[l].kv = 0
  BY <1>1, <1>5 DEF KvReadTime, KvWriteTime, CxlTime
<1>6. CASE ~(prefilling \/ layers[l].kv = 0)
  <2>1. KvReserved \in Nat /\ KvReserved > 0
    BY <1>1, <1>6, KvReservedNat
  <2>2. KvReadTime(l) = (m * c) \div KvReserved
    BY <1>1, <1>6 DEF KvReadTime
  <2>3. KvReadTime(l) \in Nat
    <3> DEFINE y == m * c
    <3>1. y \in Nat /\ KvReadTime(l) = y \div KvReserved
      BY <1>4, <2>2
    <3> HIDE DEF y
    <3> QED
      BY <2>1, <3>1
  <2> QED
    BY <1>1, <2>3 DEF KvWriteTime, CxlTime
<1> QED
  BY <1>5, <1>6

\* The prefetcher looks one layer further.
LEMMA AimPodPrefetches ==
  ASSUME BaseInv, AimPodPrefetch
  PROVE  BaseInv'
<1>1. /\ run.policy = "aimpod" /\ pc = "decode" /\ at \in Layers
      /\ IF at + ahead \in Layers /\ StoredIn(at + ahead, "nand")
         THEN Schedule(at + ahead, ReadOf(at + ahead))
         ELSE UNCHANGED prefetcherVars
      /\ ahead' = ahead + 1
      /\ UNCHANGED <<bookVars, prefilling, at, elapsed>>
  BY DEF AimPodPrefetch, At
<1>2. /\ run \in Runs /\ PhaseInv
  BY DEF BaseInv
<1>3. at \in Nat /\ ahead \in Nat \ {0} /\ elapsed \in Nat
      /\ \A l \in DOMAIN arrival : l < at => arrival[l] <= elapsed
  BY <1>2 DEF PhaseInv, WaitsForArrival
<1>4. /\ at' = at /\ elapsed' = elapsed /\ run' = run /\ pc' = pc /\ share' = share
  BY <1>1 DEF bookVars, placeVars
<1>5. ahead' \in Nat \ {0} /\ InPass'
  BY <1>1, <1>3, <1>4 DEF InPass, Placing
<1>6. CASE at + ahead \in Layers /\ StoredIn(at + ahead, "nand")
  <2>1. PICK l : l = at + ahead
    OBVIOUS
  <2>2. l \in Layers /\ ReadOf(l) \in Nat /\ ~StoredIn(l, "host") /\ ~StoredIn(l, "cxl")
        /\ Schedule(l, ReadOf(l))
    BY <1>1, <1>2, <1>6, <2>1, OnNand, ReadNat
  <2>3. /\ HoldsInv'
        /\ \A j \in DOMAIN arrival' :
             j # l => j \in DOMAIN arrival /\ arrival'[j] = arrival[j]
    BY <1>2, <1>4, <2>2, Schedules
  <2>4. \A j \in DOMAIN arrival' : j < at => arrival'[j] <= elapsed
    <3>1. \A j \in DOMAIN arrival' : j < at => j # l
      BY <1>3, <2>1
    <3> QED
      BY <1>3, <2>3, <3>1
  <2>5. WaitsForArrival'
    BY <1>4, <2>4 DEF WaitsForArrival
  <2>6. PhaseInv'
    BY <1>3, <1>4, <1>5, <2>3, <2>5 DEF PhaseInv, HoldsInv
  <2> QED
    BY <1>1, <2>6, BookHeld
<1>7. CASE ~(at + ahead \in Layers /\ StoredIn(at + ahead, "nand"))
  <2>1. /\ pf_resident' = pf_resident /\ arrival' = arrival
        /\ link_busy_until' = link_busy_until
    BY <1>1, <1>7 DEF prefetcherVars
  <2>2. Layers' = Layers /\ \A l, t : StoredIn(l, t)' = StoredIn(l, t)
    BY <1>4, RunFixed DEF StoredIn
  <2>3. WaitsForArrival'
    BY <1>3, <1>4, <2>1 DEF WaitsForArrival
  <2>4. PhaseInv'
    BY <1>2, <1>3, <1>4, <1>5, <2>1, <2>2, <2>3 DEF PhaseInv
  <2> QED
    BY <1>1, <2>4, BookHeld
<1> QED
  BY <1>6, <1>7

\* The layer is used, once its read has landed.
LEMMA AimPodUses ==
  ASSUME BaseInv, AimPodUse
  PROVE  BaseInv'
<1>1. /\ run.policy = "aimpod" /\ pc = "decode" /\ at \in Layers
      /\ IF StoredIn(at, "host") \/ StoredIn(at, "cxl")
         THEN /\ elapsed' = elapsed + KvWriteTime(at) + CxlTime(ReadOf(at)) + KvReadTime(at)
              /\ UNCHANGED prefetcherVars
         ELSE /\ elapsed' = elapsed + KvWriteTime(at) + WaitFor(at) + CxlTime(ReadOf(at))
                            + KvReadTime(at)
              /\ Schedule(at, ReadOf(at))
      /\ at' = at + 1 /\ ahead' = 1
      /\ UNCHANGED <<bookVars, prefilling>>
  BY DEF AimPodUse, At
<1>2. /\ run \in Runs /\ share \in [Layers -> Share] /\ TypeOK /\ StepInv /\ PhaseInv
  BY DEF BaseInv
<1>3. at \in Nat /\ elapsed \in Nat /\ link_busy_until \in Nat
      /\ \A l \in DOMAIN arrival : l < at => arrival[l] <= elapsed
  BY <1>2 DEF PhaseInv, WaitsForArrival
<1>4. run' = run /\ pc' = pc /\ share' = share
  BY <1>1 DEF bookVars, placeVars
<1>5. ahead' \in Nat \ {0} /\ at' \in Nat /\ InPass'
  BY <1>1, <1>3, <1>4 DEF InPass, Placing
<1>6. /\ ReadOf(at) \in Nat /\ KvReadTime(at) \in Nat /\ KvWriteTime(at) \in Nat
  <2>1. step \in Nat
    BY <1>2 DEF StepInv
  <2> QED
    BY <1>1, <1>2, <2>1, ReadNat, KvReadNat
<1>7. CxlTime(ReadOf(at)) \in Nat
  BY <1>6 DEF CxlTime
<1>8. \A j \in DOMAIN arrival : j \in Nat /\ arrival[j] \in Nat
  <2>1. \A j \in DOMAIN arrival : j \in Layers /\ arrival[j] \in Nat
    BY <1>2 DEF PhaseInv
  <2>2. Layers \subseteq Nat
    BY <1>2, RunFacts
  <2> QED
    BY <2>1, <2>2
<1>9. CASE StoredIn(at, "host") \/ StoredIn(at, "cxl")
  <2>1. /\ pf_resident' = pf_resident /\ arrival' = arrival
        /\ link_busy_until' = link_busy_until
        /\ elapsed' = elapsed + KvWriteTime(at) + CxlTime(ReadOf(at)) + KvReadTime(at)
    BY <1>1, <1>9 DEF prefetcherVars
  <2>2. elapsed' \in Nat /\ elapsed' >= elapsed
    BY <1>3, <1>6, <1>7, <2>1
  <2>3. at \notin DOMAIN arrival
    BY <1>2, <1>9 DEF PhaseInv
  <2>4. \A j \in DOMAIN arrival : j < at + 1 => arrival[j] <= elapsed'
    <3> TAKE j \in DOMAIN arrival
    <3>1. j < at + 1 => j < at
      BY <1>3, <1>8, <2>3
    <3>2. j < at => arrival[j] <= elapsed
      BY <1>3
    <3>3. arrival[j] \in Nat
      BY <1>8
    <3> QED
      BY <1>3, <2>2, <3>1, <3>2, <3>3
  <2>5. WaitsForArrival'
    BY <1>1, <2>1, <2>4 DEF WaitsForArrival
  <2>6. Layers' = Layers /\ \A l, t : StoredIn(l, t)' = StoredIn(l, t)
    BY <1>4, RunFixed DEF StoredIn
  <2>7. PhaseInv'
    BY <1>2, <1>5, <2>1, <2>2, <2>5, <2>6 DEF PhaseInv
  <2> QED
    BY <1>1, <2>7, BookHeld
<1>10. CASE ~(StoredIn(at, "host") \/ StoredIn(at, "cxl"))
  <2>1. /\ elapsed' = elapsed + KvWriteTime(at) + WaitFor(at) + CxlTime(ReadOf(at))
                      + KvReadTime(at)
        /\ Schedule(at, ReadOf(at))
    BY <1>1, <1>10
  <2>2. /\ HoldsInv'
        /\ at \in DOMAIN arrival' /\ arrival'[at] = Landing(at, ReadOf(at))
        /\ \A j \in DOMAIN arrival' :
             j # at => j \in DOMAIN arrival /\ arrival'[j] = arrival[j]
    BY <1>1, <1>2, <1>4, <1>6, <1>10, <2>1, Schedules
  <2>3. arrival'[at] \in Nat
    BY <2>2 DEF HoldsInv
  <2>4. WaitFor(at) = Larger(0, Landing(at, ReadOf(at)) - elapsed)
    <3>1. CASE IsResident(at)
      BY <3>1, Zenon DEF WaitFor, Landing
    <3>2. CASE ~IsResident(at)
      <4>1. PICK z, y : z = Larger(elapsed, link_busy_until) /\ y = NandTime(ReadOf(at))
        OBVIOUS
      <4>2. z \in Nat /\ y \in Nat
        BY <1>3, <1>6, <4>1 DEF Larger, NandTime
      <4>3. z + (y - elapsed) = (z + y) - elapsed
        BY <1>3, <4>2
      <4>4. Landing(at, ReadOf(at)) = z + y /\ WaitFor(at) = Larger(0, z + (y - elapsed))
        BY <3>2, <4>1, Zenon DEF WaitFor, Landing
      <4> QED
        BY <4>3, <4>4, Zenon
    <3> QED
      BY <3>1, <3>2
  <2>5. WaitFor(at) \in Nat /\ Landing(at, ReadOf(at)) <= elapsed + WaitFor(at)
    BY <1>3, <2>2, <2>3, <2>4 DEF Larger
  <2>6. elapsed' \in Nat /\ elapsed' >= elapsed /\ arrival'[at] <= elapsed'
    BY <1>3, <1>6, <1>7, <2>1, <2>2, <2>3, <2>5
  <2>7. \A j \in DOMAIN arrival' : j < at + 1 => arrival'[j] <= elapsed'
    <3> TAKE j \in DOMAIN arrival'
    <3>1. CASE j = at
      BY <2>6, <3>1
    <3>2. CASE j # at
      <4>1. j \in DOMAIN arrival /\ arrival'[j] = arrival[j] /\ j \in Nat /\ arrival[j] \in Nat
        BY <1>8, <2>2, <3>2
      <4>2. j < at + 1 => j < at
        BY <1>3, <3>2, <4>1
      <4>3. j < at => arrival[j] <= elapsed
        BY <1>3, <4>1
      <4> QED
        BY <1>3, <2>6, <4>1, <4>2, <4>3
    <3> QED
      BY <3>1, <3>2
  <2>8. WaitsForArrival'
    BY <1>1, <2>7 DEF WaitsForArrival
  <2>9. PhaseInv'
    BY <1>5, <2>2, <2>6, <2>8 DEF PhaseInv, HoldsInv
  <2> QED
    BY <1>1, <2>9, BookHeld
<1> QED
  BY <1>9, <1>10

\* The pass ends, and the next starts with a prefetcher that holds nothing.
LEMMA AimPodDecodes ==
  ASSUME BaseInv, AimPodDecode
  PROVE  BaseInv'
<1>1. /\ pc = "decode" /\ run.policy = "aimpod"
      /\ IF prefilling THEN UNCHANGED bookVars ELSE DecodeStep(share, KvUnit(KvNow))
      /\ at' = 1 /\ ahead' = 1 /\ elapsed' = 0
      /\ pf_resident' = << >> /\ arrival' = << >> /\ link_busy_until' = 0
  BY DEF AimPodDecode, At
<1>2. WaitsForArrival'
  BY <1>1 DEF WaitsForArrival
<1>3. arrival' \in [{pf_resident'[j] : j \in DOMAIN pf_resident'} -> Nat]
  BY <1>1
<1>4. PhaseInv'
  BY <1>1, <1>2, <1>3 DEF PhaseInv
<1>5. CASE prefilling
  BY <1>1, <1>4, <1>5, BookHeld
<1>6. CASE ~prefilling
  BY <1>1, <1>4, <1>6, DecodeReads, DecodeSteps
<1> QED
  BY <1>5, <1>6

-----------------------------------------------------------------------------
(* The invariant of the specification.                                     *)

\* A script starts with nothing placed.
LEMMA BaseStarts == Init => BaseInv
<1> SUFFICES ASSUME Init PROVE BaseInv
  OBVIOUS
<1>1. /\ run \in Runs /\ pc = "start" /\ cascade = << >> /\ kvLeft = 0 /\ took = Nowhere
      /\ tail = "none" /\ free = NoRoom /\ reserve = NoRoom
      /\ share = [l \in Layers |-> InTier(l, "nand")] /\ next = 1
      /\ staging = 0 /\ headroom = 0 /\ step = 0 /\ units = << >> /\ spill = 0
      /\ at = 1 /\ ahead = 1 /\ elapsed = 0
      /\ pf_resident = << >> /\ link_busy_until = 0 /\ arrival = << >>
  BY DEF Init
<1>2. /\ Len(layers) \in Nat /\ run.tokens \in Nat \ {0} /\ "nand" \in Tiers
      /\ FastTiers \subseteq Tiers
  BY <1>1, RunFacts, TierNames
<1>3. \A l \in Layers : InTier(l, "nand") \in Share
  BY <1>1, <1>2, InTierFacts
<1>4. share \in [Layers -> Share] /\ \A l \in Layers : Kept(l)
  BY <1>1, <1>3 DEF Kept
<1>5. TypeOK
  <2>1. took \in [Tiers -> Nat] /\ reserve \in [FastTiers -> Nat] /\ free \in [FastTiers -> Nat]
    BY <1>1 DEF Nowhere, NoRoom
  <2>2. 1 \in 1 .. (Len(layers) + 1) /\ 0 \in 0 .. run.tokens
    BY <1>2
  <2> QED
    BY <1>1, <2>1, <2>2 DEF TypeOK
<1>6. KvInv
  <2>1. \A t \in Tiers : took[t] = 0
    BY <1>1 DEF Nowhere
  <2>2. \A t \in FastTiers : took[t] <= Cap(t)
    BY <1>1, <1>2, <2>1, CapNat
  <2> QED
    BY <1>1, <2>1, <2>2 DEF KvInv, NoCache
<1>7. PlaceInv
  BY <1>1, <1>4 DEF PlaceInv, FreshInv, LedgerInv, LedgerPhase, OrderInv, ItmeInv
<1>8. StepInv
  <2>1. ~Placing
    BY <1>1 DEF Placing
  <2>2. ReadsCoverLayer
    BY <1>1 DEF ReadsCoverLayer
  <2>3. BytesAccounted /\ StagingIsBacked
    BY <2>1 DEF BytesAccounted, StagingIsBacked
  <2>4. step \in Nat /\ ~(step > 0) /\ pc # "decode"
    BY <1>1
  <2> QED
    BY <2>1, <2>2, <2>3, <2>4 DEF StepInv
<1>9. PhaseInv
  <2>1. arrival \in [{pf_resident[j] : j \in DOMAIN pf_resident} -> Nat]
    BY <1>1
  <2>2. WaitsForArrival
    BY <1>1 DEF WaitsForArrival
  <2> QED
    BY <1>1, <2>1, <2>2 DEF PhaseInv
<1> QED
  BY <1>1, <1>4, <1>5, <1>6, <1>7, <1>8, <1>9 DEF BaseInv

\* Every step of every script keeps the invariant.
LEMMA BaseSteps == BaseInv /\ [Next]_vars => BaseInv'
<1> SUFFICES ASSUME BaseInv, [Next]_vars PROVE BaseInv'
  OBVIOUS
<1>1. CASE CascadeTier \/ CascadeRest
  BY <1>1, CascadeKeeps
<1>2. CASE FlexGenNext
  <2>1. CASE FlexGenStart
    BY <2>1, FlexGenStarts
  <2>2. CASE FlexGenReserve
    BY <2>2, FlexGenReserves
  <2>3. CASE FlexGenPin
    BY <2>3, FlexGenPins
  <2>4. CASE FlexGenFill
    BY <2>4, FlexGenFills
  <2>5. CASE FlexGenStripe
    BY <2>5, FlexGenStripes
  <2>6. CASE FlexGenDecode
    BY <2>6, StoredDecodes
  <2> QED
    BY <1>2, <2>1, <2>2, <2>3, <2>4, <2>5, <2>6 DEF FlexGenNext
<1>3. CASE LiaNext
  <2>1. CASE LiaStart
    BY <2>1, LiaStarts
  <2>2. CASE LiaCounters
    BY <2>2, LiaCounts
  <2>3. CASE LiaPlace
    BY <2>3, LiaPlaces
  <2>4. CASE LiaStage
    BY <2>4, LiaStages
  <2>5. CASE LiaDecode
    BY <2>5, StoredDecodes
  <2> QED
    BY <1>3, <2>1, <2>2, <2>3, <2>4, <2>5 DEF LiaNext
<1>4. CASE ItmeNext
  <2>1. CASE ItmeReserve
    BY <2>1, ItmeReserves
  <2>2. CASE ItmePlace
    BY <2>2, ItmePlaces
  <2>3. CASE ItmeCache
    BY <2>3, ItmeCaches
  <2>4. CASE ItmeStream
    BY <2>4, ItmeStreams
  <2>5. CASE ItmeDecode
    BY <2>5, StoredDecodes
  <2> QED
    BY <1>4, <2>1, <2>2, <2>3, <2>4, <2>5 DEF ItmeNext
<1>5. CASE DynamicNext
  <2>1. CASE DynamicStart
    BY <2>1, DynamicStarts
  <2>2. CASE DynamicCounters
    BY <2>2, DynamicCounts
  <2>3. CASE DynamicPlace
    BY <2>3, DynamicPlaces
  <2>4. CASE DynamicStage
    BY <2>4, DynamicStages
  <2>5. CASE DynamicDecode
    BY <2>5, DynamicDecodes
  <2> QED
    BY <1>5, <2>1, <2>2, <2>3, <2>4, <2>5 DEF DynamicNext
<1>6. CASE LlmFlashNext
  BY <1>6, LlmFlashStarts, LlmFlashPlaces, LlmFlashDecodes DEF LlmFlashNext
<1>7. CASE AimPodNext
  <2>1. CASE AimPodStart
    BY <2>1, AimPodStarts
  <2>2. CASE AimPodCounters
    BY <2>2, AimPodCounts
  <2>3. CASE AimPodPlace
    BY <2>3, AimPodPlaces
  <2>4. CASE AimPodStage
    BY <2>4, AimPodStages
  <2>5. CASE AimPodPrefetch
    BY <2>5, AimPodPrefetches
  <2>6. CASE AimPodUse
    BY <2>6, AimPodUses
  <2>7. CASE AimPodDecode
    BY <2>7, AimPodDecodes
  <2> QED
    BY <1>7, <2>1, <2>2, <2>3, <2>4, <2>5, <2>6, <2>7 DEF AimPodNext
<1>8. CASE UNCHANGED vars
  <2>1. UNCHANGED bookVars /\ UNCHANGED <<run, phaseVars, share>>
    BY <1>8 DEF vars, bookVars, placeVars
  <2>2. PhaseInv
    BY DEF BaseInv
  <2>3. InPass' <=> InPass
    BY <2>1 DEF InPass, Placing, bookVars
  <2>4. PhaseInv'
    BY <2>1, <2>2, <2>3, PhaseHeld DEF PhaseInv
  <2> QED
    BY <2>1, <2>4, BookHeld
<1> QED
  BY <1>1, <1>2, <1>3, <1>4, <1>5, <1>6, <1>7, <1>8 DEF Next

\* BaseInv holds in every state of every script: each action keeps it.
THEOREM BaselinesInductive == Spec => []BaseInv
<1>1. Init => BaseInv
  BY BaseStarts
<1>2. BaseInv /\ [Next]_vars => BaseInv'
  BY BaseSteps
<1> QED
  BY <1>1, <1>2, PTL DEF Spec

\* Counters, shares and step numbers have their types at every point of every
\* script: no counter goes below zero but in a run ITME's assertion stops.
THEOREM BaselinesTyped == Spec => []TypeOK
<1>1. BaseInv => TypeOK
  BY DEF BaseInv
<1> QED
  BY <1>1, BaselinesInductive, PTL

\* No baseline gives a tier's bytes out twice (the placement blocks of
\* flexgen, lia, cxlaimpod, itme, dynamic and llmflash_baseline.py): the cache, the
\* reserve, what is left free and the weights are the tier's capacity.
THEOREM BytesAreAccounted == Spec => []BytesAccounted
<1>1. BaseInv => BytesAccounted
  BY DEF BaseInv, StepInv
<1> QED
  BY <1>1, BaselinesInductive, PTL

\* The staging budget pipeline.py moves reads ahead on is backed by bytes reserved
\* or left free, and no counter is overdrawn.
THEOREM StagingAlwaysBacked == Spec => []StagingIsBacked
<1>1. BaseInv => StagingIsBacked
  BY DEF BaseInv, StepInv
<1> QED
  BY <1>1, BaselinesInductive, PTL

\* Each unit of a decode step reads all of its layer's weights and all of the
\* cache, once, before and after the cache outgrows its reservation.
THEOREM ReadsAreWhole == Spec => []ReadsCoverLayer
<1>1. BaseInv => ReadsCoverLayer
  BY DEF BaseInv, StepInv
<1> QED
  BY <1>1, BaselinesInductive, PTL

\* The bytes a step charges as displaced weights are those its last tier would
\* hold beyond its capacity (kv_growth_spill, tiers.py).
THEOREM SpillIsTheOverflow == Spec => []SpillIsOverflow
<1>1. BaseInv => SpillIsOverflow
  BY SpillFollows
<1> QED
  BY <1>1, BaselinesInductive, PTL

\* CXLAimPod uses no layer before the prefetcher's read of it has landed.
THEOREM LayersAreWaitedFor == Spec => []WaitsForArrival
<1>1. BaseInv => WaitsForArrival
  BY DEF BaseInv, PhaseInv
<1> QED
  BY <1>1, BaselinesInductive, PTL

-----------------------------------------------------------------------------
(* The device cache of the dynamic baseline.                               *)

\* What the step has hit, and may still hit before it ends, was resident all at
\* once when the step began; and once the look-ahead has passed offset 0, the
\* sub-layer about to run is resident if it ever can be.
CacheInv ==
  /\ BeladyTypeOK /\ StayInv
  /\ used = SizeOf(resident) /\ used <= inst.cache_cap
  /\ SizeOf(hits \cup {i \in since : i >= k}) <= inst.cache_cap
  /\ k < n_dev /\ d > 0 /\ inst.bytes[k] <= inst.cache_cap => k \in resident
  /\ k = n_dev => d = 0

\* Under Belady's rule and one size, what is needed before something fetched and
\* not yet used is resident; and the look-ahead so far has found everything it
\* passed, or has no room and holds only what is needed sooner than it looks.
NearestFirst ==
  /\ \A f \in fresh : \A i \in Sublayers : next_use(i) < next_use(f) => i \in resident
  /\ \/ \A e \in 0 .. (d - 1) : (k + e) % n_dev \in resident
     \/ /\ \A i \in Sublayers : used + inst.bytes[i] > inst.cache_cap
        /\ \A v \in resident : next_use(v) < p + d

\* CMM-H's LRU mode has no lookahead: only the sub-layer about to run is ever fresh.
PrefetchInv ==
  /\ inst.policy = "lru" => fresh \subseteq {k} /\ (d = 0 => fresh = {})
  /\ inst.policy = "belady" /\ OneSize /\ n_dev > 0 => NearestFirst
-----------------------------------------------------------------------------
(* Positions in a step repeat: the remainders behind x and next_use.       *)

\* How far ahead of j the position i is.
LEMMA ModAhead ==
  ASSUME NEW n \in Nat \ {0}, NEW i \in 0 .. (n - 1), NEW j \in 0 .. (n - 1)
  PROVE  (i - j) % n = IF i >= j THEN i - j ELSE i - j + n
OBVIOUS

\* The position j ahead of i.
LEMMA ModAt ==
  ASSUME NEW n \in Nat \ {0}, NEW i \in 0 .. (n - 1), NEW j \in 0 .. (n - 1)
  PROVE  (i + j) % n = IF i + j < n THEN i + j ELSE i + j - n
OBVIOUS

\* A remainder is a position.
LEMMA ModIn ==
  ASSUME NEW n \in Nat \ {0}, NEW i \in Int
  PROVE  i % n \in 0 .. (n - 1)
OBVIOUS

\* From one position later, everything is one nearer, and the position itself furthest.
LEMMA ModNext ==
  ASSUME NEW n \in Nat \ {0}, NEW i \in 0 .. (n - 1), NEW j \in 0 .. (n - 1)
  PROVE  (i - (j + 1)) % n = IF i = j THEN n - 1 ELSE ((i - j) % n) - 1
OBVIOUS

\* The end of a round is the start of the next.
LEMMA ModStart ==
  ASSUME NEW n \in Nat \ {0}, NEW i \in 0 .. (n - 1)
  PROVE  (i - n) % n = i /\ (i - 0) % n = i
OBVIOUS
-----------------------------------------------------------------------------
(* Hits are re-uses.                                                       *)

\* The cache starts empty.
LEMMA InitStayInv == BeladyInit => StayInv
BY DEF BeladyInit, StayInv

\* No step of the cache breaks the tie between hits and stays.
LEMMA NextKeepsStayInv == StayInv /\ [BeladyNext]_beladyVars => StayInv'
<1> SUFFICES ASSUME StayInv, [BeladyNext]_beladyVars PROVE StayInv'
  OBVIOUS
<1> USE DEF StayInv
<1>1. CASE Skip
  BY <1>1 DEF Skip, cacheVars
<1>2. CASE Evict
  BY <1>2 DEF Evict, FreshWithout
<1>3. CASE GiveUp
  BY <1>3 DEF GiveUp, cacheVars
<1>4. CASE Fetch
  \* x was not resident, so it was not in `since`: fetched again, it is fresh.
  BY <1>4 DEF Fetch, Fetchable, FreshWith
<1>5. CASE Use
  \* k is no longer fresh, and joins `since` if it is resident.
  <2>1. k' \in Nat /\ hits' \subseteq 0 .. (k' - 1)
    BY <1>5 DEF Use
  <2>2. since' = resident' \ fresh'
    BY <1>5 DEF Use
  <2> QED BY <2>1, <2>2
<1>6. CASE EndStep
  BY <1>6 DEF EndStep, cacheVars
<1>7. CASE UNCHANGED beladyVars
  BY <1>7 DEF beladyVars, cacheVars
<1> QED BY <1>1, <1>2, <1>3, <1>4, <1>5, <1>6, <1>7 DEF BeladyNext

\* StayInv holds of every state of the cache.
THEOREM StayInvariant == BeladySpec => []StayInv
BY InitStayInv, NextKeepsStayInv, PTL DEF BeladySpec

\* A sub-layer is counted a hit if, and only if, it stayed resident since its
\* previous use, as the docstring of belady_hits says.
THEOREM HitsAreReuses == BeladySpec => HitsStayedResident
<1>1. StayInv /\ [BeladyNext]_beladyVars => [k' = k + 1 => (k \in hits' <=> k \in since)]_beladyVars
  <2> SUFFICES ASSUME StayInv, BeladyNext, k' = k + 1
               PROVE  k \in hits' <=> k \in since
    OBVIOUS
  <2>1. k \notin hits
    BY DEF StayInv
  <2>2. Use
    <3>1. k \in Nat
      BY DEF StayInv
    <3>2. k' # k /\ k' # 0
      BY <3>1
    <3> QED BY <3>2 DEF BeladyNext, Skip, Evict, GiveUp, Fetch, EndStep
  <2> QED BY <2>1, <2>2 DEF Use, StayInv
<1> QED BY <1>1, StayInvariant, PTL DEF BeladySpec, HitsStayedResident

-----------------------------------------------------------------------------
(* The operators of the cache.                                             *)

\* What CacheConstants says of the instance being run.
LEMMA InstanceTyped ==
  ASSUME BeladyTypeOK
  PROVE  /\ n_dev \in Nat /\ inst.bytes \in [Sublayers -> Nat \ {0}]
         /\ inst.cache_cap \in Nat /\ window \in Nat
         /\ inst.policy \in {"belady", "lru"}
         /\ s \in Nat /\ k \in Nat /\ d \in Nat /\ k <= n_dev /\ s <= Steps /\ Steps \in Nat
         /\ IsFiniteSet(Sublayers)
<1>1. inst.depth \in Nat /\ n_dev \in Nat /\ Steps \in Nat
      /\ inst.bytes \in [Sublayers -> Nat \ {0}]
      /\ inst.cache_cap \in Nat /\ inst.policy \in {"belady", "lru"}
  BY CacheConstants DEF BeladyTypeOK, Sublayers, n_dev
<1>2. window \in Nat
  BY <1>1 DEF window
<1>3. s \in Nat /\ k \in Nat /\ d \in Nat /\ k <= n_dev /\ s <= Steps
  BY <1>1, <1>2 DEF BeladyTypeOK
<1>4. IsFiniteSet(Sublayers)
  BY <1>1, FS_Interval DEF Sublayers
<1> QED
  BY <1>1, <1>2, <1>3, <1>4

\* Bytes add up over the sub-layers.
LEMMA SumsOf ==
  ASSUME BeladyTypeOK, NEW A \in SUBSET Sublayers
  PROVE  /\ SizeOf(A) \in Nat
         /\ \A B \in SUBSET A : SizeOf(B) <= SizeOf(A)
         /\ \A i \in Sublayers \ A : SizeOf(A \cup {i}) = SizeOf(A) + inst.bytes[i]
         /\ \A i \in A : SizeOf(A \ {i}) = SizeOf(A) - inst.bytes[i]
         /\ SizeOf({}) = 0
<1>1. IsFiniteSet(A) /\ \A i \in Sublayers : inst.bytes[i] \in Nat /\ inst.bytes[i] \in Int
  BY InstanceTyped, FS_Subset
<1>2. SizeOf(A) \in Nat /\ \A B \in SUBSET A : SizeOf(B) <= SizeOf(A)
  BY <1>1, SumSubset DEF SizeOf
<1>3. ASSUME NEW i \in Sublayers \ A PROVE SizeOf(A \cup {i}) = SizeOf(A) + inst.bytes[i]
  BY <1>1, SumAdd DEF SizeOf
<1>4. ASSUME NEW i \in A PROVE SizeOf(A \ {i}) = SizeOf(A) - inst.bytes[i]
  <2>1. SizeOf(A) = inst.bytes[i] + SizeOf(A \ {i})
    BY <1>1, SumTake DEF SizeOf
  <2>2. SizeOf(A \ {i}) \in Int
    <3>1. IsFiniteSet(A \ {i})
      BY <1>1, FS_Subset
    <3> QED
      BY <1>1, <3>1, SumInt DEF SizeOf
  <2> QED
    BY <1>1, <1>2, <2>1, <2>2
<1>5. SizeOf({}) = 0
  BY SumEmpty DEF SizeOf
<1> QED
  BY <1>2, <1>3, <1>4, <1>5

\* While the step has a sub-layer to run, k, p and x are what they stand for.
LEMMA Positions ==
  ASSUME BeladyTypeOK, k < n_dev
  PROVE  /\ n_dev \in Nat \ {0} /\ k \in Sublayers /\ p \in Nat /\ x \in Sublayers
         /\ need \in Nat \ {0}
         /\ (d = 0 => x = k)
<1>1. n_dev \in Nat \ {0} /\ k \in Nat /\ d \in Nat /\ s \in Nat
      /\ inst.bytes \in [Sublayers -> Nat \ {0}]
  BY InstanceTyped
<1>2. k \in Sublayers
  BY <1>1 DEF Sublayers
<1>3. p \in Nat
  <2> DEFINE n == n_dev
  <2> HIDE DEF n
  <2>1. s * n \in Nat
    BY <1>1 DEF n
  <2> QED
    BY <1>1, <2>1 DEF p, n
<1>4. x \in Sublayers
  BY <1>1, ModIn DEF x, Sublayers
<1>5. ASSUME d = 0 PROVE x = k
  <2>1. 0 \in 0 .. (n_dev - 1) /\ k + 0 < n_dev
    BY <1>1
  <2>2. (k + 0) % n_dev = k + 0
    BY <1>1, <1>2, <2>1, ModAt DEF Sublayers
  <2> QED
    BY <1>1, <1>5, <2>2 DEF x
<1> QED
  BY <1>1, <1>2, <1>3, <1>4, <1>5 DEF need

\* The next uses of the sub-layers are the next n_dev positions, one each, and the
\* one at offset e of the look-ahead is needed e positions from now.
LEMMA NextUses ==
  ASSUME BeladyTypeOK, k < n_dev
  PROVE  /\ \A i \in Sublayers : /\ next_use(i) \in p .. (p + n_dev - 1)
                                 /\ (next_use(i) = p <=> i = k)
         /\ d < n_dev => next_use(x) = p + d
         /\ \A i \in Sublayers : \E e \in 0 .. (n_dev - 1) :
              i = (k + e) % n_dev /\ next_use(i) = p + e
         /\ \A e \in 0 .. (n_dev - 1) :
              (k + e) % n_dev \in Sublayers /\ next_use((k + e) % n_dev) = p + e
<1>1. n_dev \in Nat \ {0} /\ k \in 0 .. (n_dev - 1) /\ p \in Nat /\ d \in Nat
  BY Positions, InstanceTyped DEF Sublayers
<1>2. ASSUME NEW i \in Sublayers
      PROVE  next_use(i) = p + (IF i >= k THEN i - k ELSE i - k + n_dev)
  BY <1>1, ModAhead DEF Sublayers, next_use
<1>3. ASSUME NEW e \in 0 .. (n_dev - 1)
      PROVE  (k + e) % n_dev \in Sublayers /\ next_use((k + e) % n_dev) = p + e
  <2>1. (k + e) % n_dev = IF k + e < n_dev THEN k + e ELSE k + e - n_dev
    BY <1>1, ModAt
  <2>2. (k + e) % n_dev \in Sublayers
    BY <1>1, <2>1 DEF Sublayers
  <2> DEFINE j == (k + e) % n_dev
  <2>3. next_use(j) = p + (IF j >= k THEN j - k ELSE j - k + n_dev)
    BY <1>2, <2>2
  <2> QED
    BY <1>1, <2>1, <2>2, <2>3
<1>4. ASSUME NEW i \in Sublayers
      PROVE  \E e \in 0 .. (n_dev - 1) : i = (k + e) % n_dev /\ next_use(i) = p + e
  <2> DEFINE e == IF i >= k THEN i - k ELSE i - k + n_dev
  <2>1. e \in 0 .. (n_dev - 1)
    BY <1>1 DEF Sublayers
  <2>2. (k + e) % n_dev = IF k + e < n_dev THEN k + e ELSE k + e - n_dev
    BY <1>1, <2>1, ModAt
  <2>3. (k + e) % n_dev = i
    BY <1>1, <2>2 DEF Sublayers
  <2> QED
    BY <2>1, <2>3, <1>2
<1>5. \A i \in Sublayers : /\ next_use(i) \in p .. (p + n_dev - 1)
                           /\ (next_use(i) = p <=> i = k)
  BY <1>1, <1>2 DEF Sublayers
<1>6. d < n_dev => next_use(x) = p + d
  BY <1>1, <1>3 DEF x
<1> QED
  BY <1>3, <1>4, <1>5, <1>6

\* The victim is one of the residents, under Belady's rule the one needed last.
LEMMA VictimIsLast ==
  ASSUME BeladyTypeOK, k < n_dev, resident # {}
  PROVE  /\ Victim \in resident
         /\ inst.policy = "belady" => \A w \in resident : next_use(Victim) >= next_use(w)
<1>1. IsFiniteSet(resident) /\ resident \subseteq Sublayers /\ last \in [Sublayers -> Int]
  BY InstanceTyped, FS_Subset DEF BeladyTypeOK
<1>2. CASE inst.policy = "lru"
  <2> DEFINE f == [v \in resident |-> 0 - last[v]]
  <2>1. \A v \in resident : f[v] \in Int
    BY <1>1
  <2>2. \E v \in resident : \A w \in resident : f[v] >= f[w]
    <3> HIDE DEF f
    <3> QED BY <1>1, <2>1, HasGreatest
  <2>3. \E v \in resident : \A w \in resident : last[v] <= last[w]
    BY <1>1, <2>2
  <2> QED
    BY <1>2, <2>3 DEF Victim
<1>3. CASE inst.policy # "lru"
  <2> DEFINE f == [v \in resident |-> next_use(v)]
  <2>1. \A v \in resident : f[v] \in Int
    BY <1>1, NextUses, Positions
  <2>2. \E v \in resident : \A w \in resident : f[v] >= f[w]
    <3> HIDE DEF f
    <3> QED BY <1>1, <2>1, HasGreatest
  <2>3. \E v \in resident : \A w \in resident : next_use(v) >= next_use(w)
    BY <2>2
  <2> QED
    BY <1>3, <2>3 DEF Victim
<1> QED
  BY <1>2, <1>3

\* Every step keeps the instance.
LEMMA SameInstance ==
  ASSUME BeladyTypeOK, BeladyNext
  PROVE  /\ inst' = inst /\ n_dev' = n_dev /\ window' = window /\ Sublayers' = Sublayers
         /\ OneSize' = OneSize
         /\ \A A : SizeOf(A)' = SizeOf(A)
<1>1. inst' = inst
  BY DEF BeladyNext, Skip, Evict, GiveUp, Fetch, Use, EndStep
<1> QED
  BY <1>1 DEF n_dev, window, Sublayers, OneSize, SizeOf

\* A full cache holds something.
LEMMA FullIsNotEmpty ==
  ASSUME BeladyTypeOK, used = SizeOf(resident), Fetchable, Full
  PROVE  resident # {}
<1>1. SUFFICES ASSUME resident = {} PROVE FALSE
  OBVIOUS
<1>2. used = 0
  BY <1>1, SumEmpty DEF SizeOf
<1>3. need \in Nat /\ inst.cache_cap \in Nat /\ need <= inst.cache_cap
  BY Positions, InstanceTyped DEF Fetchable, Looking
<1> QED
  BY <1>2, <1>3 DEF Full

-----------------------------------------------------------------------------
(* The invariants hold.                                                    *)

\* An empty cache is within its capacity.
LEMMA InitCacheInv == BeladyInit => CacheInv /\ PrefetchInv
<1> SUFFICES ASSUME BeladyInit PROVE CacheInv /\ PrefetchInv
  OBVIOUS
<1> USE DEF BeladyInit
<1>1. /\ n_dev \in Nat /\ inst.cache_cap \in Nat /\ Steps \in Nat
      /\ inst.depth \in Nat
  BY CacheConstants DEF n_dev
<1>2. window \in Nat
  BY <1>1 DEF window
<1>3. s \in 0 .. Steps /\ k \in 0 .. n_dev /\ d \in 0 .. (window + 1)
  BY <1>1, <1>2
<1>4. per_step \in Seq(SUBSET Sublayers)
  BY EmptySeq
<1>5. BeladyTypeOK
  BY <1>1, <1>3, <1>4 DEF BeladyTypeOK
<1>6. SizeOf({}) = 0
  BY SumEmpty DEF SizeOf
<1>7. hits \cup {i \in since : i >= k} = {}
  OBVIOUS
<1>8. CacheInv
  <2>1. SizeOf(hits \cup {i \in since : i >= k}) = 0
    BY <1>6, <1>7
  <2>2. used = SizeOf(resident) /\ used <= inst.cache_cap
    BY <1>1, <1>6
  <2> QED
    BY <1>1, <1>5, <2>1, <2>2 DEF CacheInv, StayInv
<1>9. PrefetchInv
  BY DEF PrefetchInv, NearestFirst
<1> QED
  BY <1>8, <1>9

\* Every step of the cache keeps its types.
LEMMA NextTyped ==
  ASSUME CacheInv, BeladyNext
  PROVE  BeladyTypeOK'
<1> USE SameInstance
<1>1. BeladyTypeOK /\ used = SizeOf(resident) /\ resident \subseteq Sublayers
  BY DEF CacheInv, BeladyTypeOK
<1>2. /\ n_dev \in Nat /\ window \in Nat /\ Steps \in Nat
      /\ s \in Nat /\ k \in Nat /\ d \in Nat /\ k <= n_dev /\ s <= Steps
  BY <1>1, InstanceTyped
<1>3. CASE Skip
  <2>1. d' \in 0 .. (window + 1)
    BY <1>2, <1>3 DEF Skip, Looking
  <2> QED
    BY <1>1, <1>3, <2>1 DEF Skip, BeladyTypeOK, cacheVars
<1>4. CASE Evict
  <2>1. Victim \in resident
    BY <1>1, <1>4, VictimIsLast, FullIsNotEmpty DEF Evict, Fetchable, Looking
  <2>2. used' = SizeOf(resident \ {Victim})
    BY <1>1, <1>4, <2>1, SumsOf DEF Evict
  <2>3. used' \in Nat
    <3>1. resident \ {Victim} \in SUBSET Sublayers
      BY <1>1
    <3> QED
      BY <1>1, <2>2, <3>1, SumsOf
  <2> QED
    BY <1>1, <1>4, <2>3 DEF Evict, BeladyTypeOK, FreshWithout
<1>5. CASE GiveUp
  <2>1. d' \in 0 .. (window + 1)
    BY <1>2, <1>5 DEF GiveUp, Fetchable, Looking
  <2> QED
    BY <1>1, <1>5, <2>1 DEF GiveUp, BeladyTypeOK, cacheVars
<1>6. CASE Fetch
  <2>1. d' \in 0 .. (window + 1)
    BY <1>2, <1>6 DEF Fetch, Fetchable, Looking
  <2>2. x \in Sublayers /\ need \in Nat /\ p \in Nat
    BY <1>1, <1>6, Positions DEF Fetch, Fetchable, Looking
  <2>3. used' \in Nat
    BY <1>1, <1>6, <2>2, SMTT(60) DEF Fetch, BeladyTypeOK
  <2>4. last' \in [Sublayers -> Int]
    BY <1>1, <1>6, <2>2 DEF Fetch, BeladyTypeOK
  <2> QED
    BY <1>1, <1>6, <2>1, <2>2, <2>3, <2>4 DEF Fetch, BeladyTypeOK, FreshWith
<1>7. CASE Use
  <2>1. k < n_dev /\ k \in Sublayers /\ p \in Nat
    BY <1>1, <1>7, Positions DEF Use
  <2>2. k' \in 0 .. n_dev /\ d' \in 0 .. (window + 1)
    BY <1>2, <1>7 DEF Use
  <2>3. last' \in [Sublayers -> Int]
    BY <1>1, <1>7, <2>1 DEF Use, BeladyTypeOK
  <2>4. hits' \subseteq Sublayers /\ fresh' \subseteq resident /\ since' \subseteq resident
    BY <1>1, <1>7, <2>1 DEF Use, BeladyTypeOK
  <2> QED
    BY <1>1, <1>7, <2>2, <2>3, <2>4 DEF Use, BeladyTypeOK
<1>8. CASE EndStep
  <2>1. s' \in 0 .. Steps /\ k' \in 0 .. n_dev
    BY <1>2, <1>8 DEF EndStep
  <2>2. per_step' \in Seq(SUBSET Sublayers)
    BY <1>1, <1>8, AppendProperties DEF EndStep, BeladyTypeOK
  <2> QED
    BY <1>1, <1>8, <2>1, <2>2 DEF EndStep, BeladyTypeOK, cacheVars
<1> QED
  BY <1>3, <1>4, <1>5, <1>6, <1>7, <1>8 DEF BeladyNext

\* Every step of the cache keeps its bytes, and what it has hit, within the capacity.
LEMMA NextKeepsCacheInv ==
  ASSUME CacheInv, StayInv', BeladyNext
  PROVE  CacheInv'
<1> DEFINE now == hits \cup {i \in since : i >= k}
           here == k < n_dev /\ d > 0 /\ inst.bytes[k] <= inst.cache_cap => k \in resident
<1>1. /\ BeladyTypeOK /\ StayInv /\ used = SizeOf(resident) /\ used <= inst.cache_cap
      /\ SizeOf(now) <= inst.cache_cap /\ here /\ (k = n_dev => d = 0)
  BY DEF CacheInv
<1>2. BeladyTypeOK'
  BY NextTyped
<1>3. /\ inst' = inst /\ n_dev' = n_dev /\ \A A : SizeOf(A)' = SizeOf(A)
  BY <1>1, SameInstance
<1>4. /\ n_dev \in Nat /\ window \in Nat /\ inst.cache_cap \in Nat
      /\ inst.bytes \in [Sublayers -> Nat \ {0}]
      /\ s \in Nat /\ k \in Nat /\ d \in Nat /\ k <= n_dev
  BY <1>1, InstanceTyped
<1>5. resident \subseteq Sublayers /\ since \subseteq resident /\ hits \subseteq Sublayers
      /\ now \subseteq Sublayers /\ SizeOf(now) \in Nat /\ used \in Nat
  <2>1. resident \subseteq Sublayers /\ since \subseteq resident /\ hits \subseteq Sublayers
    BY <1>1 DEF BeladyTypeOK
  <2>2. now \in SUBSET Sublayers
    BY <2>1
  <2>3. SizeOf(now) \in Nat
    <3> HIDE DEF now
    <3> QED BY <1>1, <2>2, SumsOf
  <2> QED
    BY <1>1, <2>1, <2>2, <2>3 DEF BeladyTypeOK
\* What the step has hit and may still hit only shrinks, until the next step.
<1>6. ASSUME now' \subseteq now PROVE SizeOf(now)' <= inst.cache_cap
  <2>1. SizeOf(now)' = SizeOf(now')
    BY <1>3 DEF SizeOf
  <2>2. SizeOf(now') <= SizeOf(now) /\ SizeOf(now') \in Nat
    <3> HIDE DEF now
    <3>1. now' \in SUBSET now /\ now' \in SUBSET Sublayers
      BY <1>5, <1>6
    <3> QED BY <1>1, <1>5, <3>1, SumsOf
  <2> QED
    BY <1>1, <1>4, <1>5, <2>1, <2>2
<1>7. ASSUME used' = SizeOf(resident'), used' <= inst.cache_cap,
             SizeOf(now)' <= inst.cache_cap, here', (k = n_dev => d = 0)'
      PROVE  CacheInv'
  <2>1. SizeOf(resident') = SizeOf(resident)'
    BY <1>3 DEF SizeOf
  <2> QED
    BY <1>2, <1>3, <1>7, <2>1 DEF CacheInv
<1>8. CASE Skip
  <2>1. here'
    <3>1. k < n_dev /\ (x \in resident \/ need > inst.cache_cap)
      BY <1>8 DEF Skip, Looking
    <3>2. CASE d = 0
      <4>1. x = k
        BY <1>1, <3>1, <3>2, Positions
      <4> QED
        <5>1. k \in resident \/ ~(inst.bytes[k] <= inst.cache_cap)
          BY <1>1, <1>4, <3>1, <4>1, Positions DEF need
        <5> QED
          BY <1>3, <1>8, <5>1 DEF Skip, cacheVars
    <3>3. CASE d # 0
      BY <1>1, <1>3, <1>4, <1>8, <3>3 DEF Skip, cacheVars
    <3> QED
      BY <3>2, <3>3
  <2>2. now' \subseteq now /\ used' = SizeOf(resident') /\ used' <= inst.cache_cap
    BY <1>1, <1>8 DEF Skip, cacheVars
  <2>3. k' # n_dev'
    BY <1>3, <1>4, <1>8 DEF Skip, Looking
  <2> QED
    BY <1>6, <1>7, <2>1, <2>2, <2>3
<1>9. CASE Evict
  <2>1. /\ Victim \in resident
        /\ inst.policy = "belady" => \A w \in resident : next_use(Victim) >= next_use(w)
    BY <1>1, <1>9, VictimIsLast, FullIsNotEmpty DEF Evict, Fetchable, Looking
  <2>2. used' = SizeOf(resident \ {Victim}) /\ used' <= used
    <3>1. used' = SizeOf(resident \ {Victim})
      BY <1>1, <1>5, <1>9, <2>1, SumsOf DEF Evict
    <3> QED
      BY <1>1, <1>5, <2>1, <3>1, SumsOf
  <2>3. used' = SizeOf(resident')
    BY <1>9, <2>2 DEF Evict
  <2>4. used' <= inst.cache_cap
    BY <1>1, <1>2, <1>3, <1>4, <1>5, <2>2, SMTT(60) DEF BeladyTypeOK
  <2>5. now' \subseteq now
    BY <1>9 DEF Evict
  <2>6. here'
    <3>1. ASSUME d > 0, k < n_dev PROVE Victim # k
      <4>1. inst.policy = "belady"
        <5>1. d <= window
          BY <1>9 DEF Evict, Fetchable, Looking
        <5> QED
          BY <1>4, <5>1, <3>1 DEF window
      <4>2. ~(next_use(Victim) <= p + d)
        BY <1>9, <4>1 DEF Evict, NeededSooner
      <4>3. next_use(k) = p /\ p \in Nat /\ next_use(Victim) \in Int
        BY <1>1, <1>5, <2>1, <3>1, NextUses, Positions
      <4> QED
        BY <1>4, <4>2, <4>3
    <3> QED
      BY <1>1, <1>3, <1>4, <1>9, <3>1 DEF Evict
  <2>7. k' # n_dev'
    BY <1>3, <1>4, <1>9 DEF Evict, Fetchable, Looking
  <2> QED
    BY <1>6, <1>7, <2>3, <2>4, <2>5, <2>6, <2>7
<1>10. CASE GiveUp
  <2>1. k < n_dev /\ x \notin resident /\ next_use(Victim) <= p + d /\ Victim \in resident
    BY <1>1, <1>10, VictimIsLast, FullIsNotEmpty
       DEF GiveUp, Fetchable, Looking, NeededSooner
  <2>2. d # 0
    <3>1. SUFFICES ASSUME d = 0 PROVE FALSE
      OBVIOUS
    <3>2. x = k
      BY <1>1, <2>1, <3>1, Positions
    <3>3. p \in Nat /\ next_use(Victim) \in p .. (p + n_dev - 1)
          /\ (next_use(Victim) = p <=> Victim = k)
      BY <1>1, <1>5, <2>1, NextUses, Positions
    <3>4. next_use(Victim) = p
      BY <1>4, <2>1, <3>1, <3>3
    <3> QED
      BY <2>1, <3>2, <3>3, <3>4
  <2>3. here'
    BY <1>1, <1>3, <1>4, <1>10, <2>2 DEF GiveUp, cacheVars
  <2>4. now' \subseteq now /\ used' = SizeOf(resident') /\ used' <= inst.cache_cap
    BY <1>1, <1>10 DEF GiveUp, cacheVars
  <2>5. k' # n_dev'
    BY <1>3, <1>4, <1>10, <2>1 DEF GiveUp
  <2> QED
    BY <1>6, <1>7, <2>3, <2>4, <2>5
<1>11. CASE Fetch
  <2>1. k < n_dev /\ x \notin resident /\ x \in Sublayers /\ need \in Nat
    BY <1>1, <1>11, Positions DEF Fetch, Fetchable, Looking
  <2>2. used' = SizeOf(resident')
    <3>1. SizeOf(resident \cup {x}) = SizeOf(resident) + inst.bytes[x]
      BY <1>1, <1>5, <2>1, SumsOf
    <3> QED
      BY <1>1, <1>11, <3>1 DEF Fetch, need
  <2>3. used' <= inst.cache_cap
    BY <1>4, <1>5, <1>11, <2>1 DEF Fetch, Full
  <2>4. here'
    <3>1. CASE d = 0
      <4>1. x = k
        BY <1>1, <2>1, <3>1, Positions
      <4> QED
        BY <1>11, <4>1 DEF Fetch
    <3>2. CASE d # 0
      BY <1>1, <1>3, <1>4, <1>11, <3>2 DEF Fetch
    <3> QED
      BY <3>1, <3>2
  <2>5. now' \subseteq now
    BY <1>11 DEF Fetch
  <2>6. k' # n_dev'
    BY <1>3, <1>4, <1>11, <2>1 DEF Fetch
  <2> QED
    BY <1>6, <1>7, <2>2, <2>3, <2>4, <2>5, <2>6
<1>12. CASE Use
  \* A hit of k was in `since`: what is resident and not fresh.
  <2>1. since = resident \ fresh
    BY <1>1 DEF StayInv
  <2>2. now' \subseteq now
    <3>1. hits' \subseteq now
      BY <1>4, <1>12, <2>1 DEF Use
    <3>2. ASSUME NEW i \in since', i >= k' PROVE i \in since /\ i >= k
      <4>1. i \in Int /\ k' = k + 1
        BY <1>4, <1>5, <1>12 DEF Use, Sublayers
      <4>2. i # k /\ i >= k
        BY <1>4, <3>2, <4>1
      <4> QED
        BY <1>12, <4>2 DEF Use
    <3> QED
      BY <3>1, <3>2
  <2>3. used' = SizeOf(resident') /\ used' <= inst.cache_cap
    BY <1>1, <1>12 DEF Use
  <2>4. here' /\ d' = 0
    BY <1>12 DEF Use
  <2> QED
    BY <1>6, <1>7, <2>2, <2>3, <2>4
<1>13. CASE EndStep
  <2>1. k = n_dev /\ d = 0 /\ d' = 0
    BY <1>1, <1>13 DEF EndStep
  <2>2. used' = SizeOf(resident') /\ used' <= inst.cache_cap
    BY <1>1, <1>13 DEF EndStep, cacheVars
  <2>3. now' \in SUBSET resident
    BY <1>5, <1>13 DEF EndStep, cacheVars
  <2>4. SizeOf(now') <= SizeOf(resident) /\ SizeOf(now') \in Nat
    <3> HIDE DEF now
    <3>1. now' \in SUBSET Sublayers
      BY <1>5, <2>3
    <3> QED BY <1>1, <1>5, <2>3, <3>1, SumsOf
  <2>5. SizeOf(now)' = SizeOf(now')
    BY <1>3 DEF SizeOf
  <2>6. SizeOf(now)' <= inst.cache_cap
    BY <1>1, <1>4, <1>5, <2>4, <2>5
  <2>7. here'
    BY <2>1
  <2> QED
    BY <1>7, <2>1, <2>2, <2>6, <2>7
<1> QED
  BY <1>8, <1>9, <1>10, <1>11, <1>12, <1>13 DEF BeladyNext

\* While the sub-layer about to run stays, so do the positions of the next uses.
LEMMA NextUseStays ==
  ASSUME inst' = inst, s' = s, k' = k
  PROVE  p' = p /\ n_dev' = n_dev /\ \A i : next_use(i)' = next_use(i)
BY DEF p, n_dev, next_use

\* Once k has run, it is needed last.
LEMMA NextUseMoves ==
  ASSUME BeladyTypeOK, Use
  PROVE  \A i \in Sublayers :
           next_use(i)' = IF i = k THEN p + n_dev ELSE next_use(i)
<1>1. k < n_dev /\ n_dev \in Nat \ {0} /\ k \in 0 .. (n_dev - 1) /\ p \in Nat
  BY Positions DEF Use, Sublayers
<1>2. inst' = inst /\ n_dev' = n_dev /\ s' = s /\ k' = k + 1
  BY DEF Use, n_dev
<1>3. p' = p + 1
  <2> DEFINE n == n_dev
  <2> HIDE DEF n
  <2>1. s \in Nat /\ n \in Nat
    BY <1>1, InstanceTyped DEF n
  <2>2. s * n \in Nat
    BY <2>1
  <2> QED
    BY <1>1, <1>2, <2>2 DEF p, n
<1> SUFFICES ASSUME NEW i \in Sublayers
             PROVE  next_use(i)' = IF i = k THEN p + n_dev ELSE next_use(i)
  OBVIOUS
<1>4. next_use(i)' = p + 1 + ((i - (k + 1)) % n_dev)
  BY <1>2, <1>3 DEF next_use
<1>5. (i - (k + 1)) % n_dev = IF i = k THEN n_dev - 1 ELSE ((i - k) % n_dev) - 1
  BY <1>1, ModNext DEF Sublayers
<1>6. (i - k) % n_dev \in Int
  BY <1>1, ModIn DEF Sublayers
<1> QED
  BY <1>1, <1>4, <1>5, <1>6 DEF next_use

\* The end of a step moves no sub-layer's next use.
LEMMA NextUseWraps ==
  ASSUME BeladyTypeOK, EndStep
  PROVE  \A i \in Sublayers : next_use(i)' = next_use(i)
<1>1. k = n_dev /\ k' = 0 /\ s' = s + 1 /\ inst' = inst /\ n_dev' = n_dev
  BY DEF EndStep, n_dev
<1>2. p' = p
  <2> DEFINE n == n_dev
  <2> HIDE DEF n
  <2>1. s \in Nat /\ n \in Nat
    BY InstanceTyped DEF n
  <2>2. (s + 1) * n + 0 = s * n + n
    BY <2>1
  <2> QED
    BY <1>1, <2>2 DEF p, n
<1> SUFFICES ASSUME NEW i \in Sublayers PROVE next_use(i)' = next_use(i)
  OBVIOUS
<1>3. n_dev \in Nat \ {0} /\ i \in 0 .. (n_dev - 1)
  BY InstanceTyped DEF Sublayers
<1>4. (i - n_dev) % n_dev = i /\ (i - 0) % n_dev = i
  BY <1>3, ModStart
<1> QED
  BY <1>1, <1>2, <1>4 DEF next_use

\* Evict takes what is needed after everything looked at; Fetch adds the nearest
\* sub-layer missing; Use sends k to the back.
LEMMA NextKeepsNearestFirst ==
  ASSUME CacheInv, inst.policy = "belady", OneSize, n_dev > 0, NearestFirst, BeladyNext
  PROVE  NearestFirst'
<1> DEFINE First == \A f \in fresh : \A i \in Sublayers :
                      next_use(i) < next_use(f) => i \in resident
           Found(m) == \A e \in 0 .. (m - 1) : (k + e) % n_dev \in resident
           Crowded(m) == /\ \A i \in Sublayers : used + inst.bytes[i] > inst.cache_cap
                        /\ \A v \in resident : next_use(v) < p + m
<1>1. /\ BeladyTypeOK /\ StayInv /\ used = SizeOf(resident) /\ used <= inst.cache_cap
      /\ (k = n_dev => d = 0) /\ fresh \subseteq resident /\ resident \subseteq Sublayers
  BY DEF CacheInv, BeladyTypeOK
<1>2. First /\ (Found(d) \/ Crowded(d))
  BY DEF NearestFirst
<1>3. /\ n_dev \in Nat \ {0} /\ window \in Nat /\ inst.cache_cap \in Nat /\ used \in Nat
      /\ \A i \in Sublayers : inst.bytes[i] \in Nat \ {0}
      /\ s \in Nat /\ k \in Nat /\ d \in Nat /\ k <= n_dev
  BY <1>1, InstanceTyped DEF BeladyTypeOK
<1>4. /\ inst' = inst /\ n_dev' = n_dev /\ Sublayers' = Sublayers
  BY <1>1, SameInstance
\* A turn of the look-ahead shows this of the state it leaves.
<1>5. ASSUME k < n_dev, s' = s, k' = k, First',
             \/ \A e \in 0 .. (d' - 1) : (k + e) % n_dev \in resident'
             \/ /\ \A i \in Sublayers : used' + inst.bytes[i] > inst.cache_cap
                /\ \A v \in resident' : next_use(v) < p + d'
      PROVE  NearestFirst'
  <2>1. p' = p /\ \A i : next_use(i)' = next_use(i)
    BY <1>4, <1>5, NextUseStays
  <2> QED
    BY <1>4, <1>5, <2>1 DEF NearestFirst
<1>6. ASSUME k < n_dev, s' = s, k' = k, NEW F \in SUBSET fresh', resident \subseteq resident',
             F \subseteq fresh
      PROVE  \A f \in F : \A i \in Sublayers :
               next_use(i)' < next_use(f)' => i \in resident'
  BY <1>2, <1>4, <1>6, NextUseStays
<1>7. CASE Skip
  <2>1. k < n_dev /\ (x \in resident \/ need > inst.cache_cap) /\ s' = s /\ k' = k /\ d' = d + 1
        /\ resident' = resident /\ fresh' = fresh /\ used' = used
    BY <1>7 DEF Skip, Looking, cacheVars
  <2>2. First'
    BY <1>4, <1>6, <2>1
  <2>3. CASE Found(d) /\ x \in resident
    <3>1. \A e \in 0 .. (d' - 1) : (k + e) % n_dev \in resident'
      <4> SUFFICES ASSUME NEW e \in 0 .. (d' - 1) PROVE (k + e) % n_dev \in resident
        BY <2>1
      <4>1. e \in 0 .. (d - 1) \/ e = d
        BY <1>3, <2>1
      <4> QED
        BY <2>3, <4>1 DEF x
    <3> QED
      BY <1>5, <2>1, <2>2, <3>1
  <2>4. CASE Crowded(d)
    <3>1. \A v \in resident' : next_use(v) < p + d'
      BY <1>1, <1>3, <2>1, <2>4, NextUses, Positions
    <3> QED
      BY <1>5, <2>1, <2>2, <2>4, <3>1
  <2>5. CASE need > inst.cache_cap
    <3>1. \A i \in Sublayers : inst.bytes[i] = need
      BY <1>1, <2>1, Positions DEF OneSize, need
    <3>2. resident = {}
      <4> SUFFICES ASSUME NEW v \in resident PROVE FALSE
        OBVIOUS
      <4>1. SizeOf(resident \ {v}) = used - inst.bytes[v]
        BY <1>1, SumsOf
      <4>2. SizeOf(resident \ {v}) \in Nat
        <5>1. resident \ {v} \in SUBSET Sublayers
          BY <1>1
        <5> QED BY <1>1, <5>1, SumsOf
      <4> QED
        BY <1>1, <1>3, <2>5, <3>1, <4>1, <4>2
    <3>3. \A i \in Sublayers : used' + inst.bytes[i] > inst.cache_cap
      BY <1>3, <2>1, <2>5, <3>1
    <3> QED
      BY <1>5, <2>1, <2>2, <3>2, <3>3
  <2> QED
    BY <1>2, <2>1, <2>3, <2>4, <2>5
<1>8. CASE Evict
  <2>1. /\ k < n_dev /\ x \notin resident /\ s' = s /\ k' = k /\ d' = d
        /\ resident' = resident \ {Victim} /\ fresh' = fresh \ {Victim}
        /\ ~(next_use(Victim) <= p + d)
    BY <1>8 DEF Evict, Fetchable, Looking, FreshWithout, NeededSooner
  <2>2. /\ Victim \in resident /\ Victim \in Sublayers
        /\ \A w \in resident : next_use(Victim) >= next_use(w)
    BY <1>1, <1>8, <2>1, VictimIsLast, FullIsNotEmpty DEF Evict
  <2>3. p \in Nat /\ \A i \in Sublayers : next_use(i) \in p .. (p + n_dev - 1)
    BY <1>1, <2>1, Positions, NextUses
  <2>4. d < n_dev /\ next_use(Victim) > p + d
    BY <1>3, <2>1, <2>2, <2>3
  <2>5. First'
    <3> SUFFICES ASSUME NEW f \in fresh \ {Victim}, NEW i \in Sublayers,
                        next_use(i) < next_use(f)
                 PROVE  i \in resident \ {Victim}
      BY <1>4, <2>1, NextUseStays
    <3>1. i \in resident /\ next_use(f) <= next_use(Victim)
      BY <1>1, <1>2, <2>2
    <3>2. i # Victim
      BY <1>1, <2>2, <2>3, <3>1
    <3> QED
      BY <3>1, <3>2
  <2>6. Found(d)
    BY <1>2, <1>3, <2>2, <2>3, <2>4
  <2>7. \A e \in 0 .. (d' - 1) : (k + e) % n_dev \in resident'
    <3> SUFFICES ASSUME NEW e \in 0 .. (d - 1) PROVE (k + e) % n_dev \in resident \ {Victim}
      BY <2>1
    <3>1. e \in 0 .. (n_dev - 1) /\ (k + e) % n_dev \in resident
      BY <1>3, <2>4, <2>6
    <3>2. next_use((k + e) % n_dev) = p + e
      BY <1>1, <2>1, <3>1, NextUses
    <3>3. (k + e) % n_dev # Victim
      BY <1>3, <2>3, <2>4, <3>2
    <3> QED
      BY <3>1, <3>3
  <2> QED
    BY <1>5, <2>1, <2>5, <2>7
<1>9. CASE GiveUp
  <2>1. /\ k < n_dev /\ s' = s /\ k' = k /\ d' = d + 1
        /\ resident' = resident /\ fresh' = fresh /\ used' = used
        /\ used + need > inst.cache_cap /\ next_use(Victim) <= p + d
    BY <1>9 DEF GiveUp, Fetchable, Looking, cacheVars, NeededSooner, Full
  <2>2. First'
    BY <1>4, <1>6, <2>1
  <2>3. Victim \in resident /\ \A w \in resident : next_use(Victim) >= next_use(w)
    BY <1>1, <1>9, <2>1, VictimIsLast, FullIsNotEmpty DEF GiveUp
  <2>4. p \in Nat /\ \A i \in Sublayers : next_use(i) \in p .. (p + n_dev - 1)
    BY <1>1, <2>1, Positions, NextUses
  <2>5. \A v \in resident' : next_use(v) < p + d'
    <3> SUFFICES ASSUME NEW v \in resident PROVE next_use(v) < p + d + 1
      BY <1>3, <2>1, <2>4
    <3>1. next_use(v) \in Int /\ next_use(Victim) \in Int /\ next_use(Victim) >= next_use(v)
      BY <1>1, <2>3, <2>4, <1>3
    <3> QED
      BY <1>3, <2>1, <2>4, <3>1
  <2>6. \A i \in Sublayers : used' + inst.bytes[i] > inst.cache_cap
    BY <1>1, <2>1, Positions DEF OneSize, need
  <2> QED
    BY <1>5, <2>1, <2>2, <2>5, <2>6
<1>10. CASE Fetch
  <2>1. /\ k < n_dev /\ x \notin resident /\ s' = s /\ k' = k /\ d' = d + 1
        /\ resident' = resident \cup {x} /\ fresh' = fresh \cup {x}
        /\ ~(used + need > inst.cache_cap)
    BY <1>10 DEF Fetch, Fetchable, Looking, FreshWith, Full
  <2>2. x \in Sublayers /\ p \in Nat /\ \A i \in Sublayers : next_use(i) \in p .. (p + n_dev - 1)
    BY <1>1, <2>1, Positions, NextUses
  <2>3. Found(d)
    BY <1>2, <2>1, <2>2 DEF need
  <2>4. d < n_dev
    <3> SUFFICES ASSUME ~(d < n_dev) PROVE FALSE
      OBVIOUS
    <3>1. PICK e \in 0 .. (n_dev - 1) : x = (k + e) % n_dev
      BY <1>1, <2>1, <2>2, NextUses
    <3>2. e \in 0 .. (d - 1)
      BY <1>3
    <3> QED
      BY <2>1, <2>3, <3>1, <3>2
  <2>5. next_use(x) = p + d
    BY <1>1, <2>1, <2>4, NextUses
  <2>6. \A i \in Sublayers : next_use(i) < next_use(x) => i \in resident
    <3> SUFFICES ASSUME NEW i \in Sublayers, next_use(i) < next_use(x) PROVE i \in resident
      OBVIOUS
    <3>1. PICK e \in 0 .. (n_dev - 1) : i = (k + e) % n_dev /\ next_use(i) = p + e
      BY <1>1, <2>1, NextUses
    <3>2. e \in 0 .. (d - 1)
      BY <1>3, <2>2, <2>5, <3>1
    <3> QED
      BY <2>3, <3>1, <3>2
  <2>7. First'
    <3>1. \A i : next_use(i)' = next_use(i)
      BY <1>4, <2>1, NextUseStays
    <3> QED
      BY <1>2, <1>4, <2>1, <2>6, <3>1
  <2>8. \A e \in 0 .. (d' - 1) : (k + e) % n_dev \in resident'
    <3> SUFFICES ASSUME NEW e \in 0 .. (d' - 1) PROVE (k + e) % n_dev \in resident \cup {x}
      BY <2>1
    <3>1. e \in 0 .. (d - 1) \/ e = d
      BY <1>3, <2>1
    <3> QED
      BY <2>3, <3>1 DEF x
  <2> QED
    BY <1>5, <2>1, <2>7, <2>8
<1>11. CASE Use
  <2>1. k < n_dev /\ d' = 0 /\ resident' = resident /\ fresh' = fresh \ {k}
    BY <1>11 DEF Use
  <2>2. p \in Nat /\ \A i \in Sublayers : next_use(i) \in p .. (p + n_dev - 1)
    BY <1>1, <2>1, Positions, NextUses
  <2>3. \A i \in Sublayers : next_use(i)' = IF i = k THEN p + n_dev ELSE next_use(i)
    BY <1>1, <1>11, NextUseMoves
  <2>4. First'
    <3> SUFFICES ASSUME NEW f \in fresh \ {k}, NEW i \in Sublayers,
                        next_use(i)' < next_use(f)'
                 PROVE  i \in resident
      BY <1>4, <2>1
    <3>1. f \in Sublayers /\ next_use(f)' = next_use(f)
      BY <1>1, <2>3
    <3>2. next_use(f) \in p .. (p + n_dev - 1)
      BY <2>2, <3>1
    <3>3. i # k
      BY <1>3, <2>2, <2>3, <3>1, <3>2
    <3> QED
      BY <1>2, <2>3, <3>1, <3>3
  <2>5. ~(\E e : e \in (0 .. (d - 1))')
    BY <2>1
  <2> QED
    BY <2>4, <2>5 DEF NearestFirst
<1>12. CASE EndStep
  <2>1. d' = 0 /\ resident' = resident /\ fresh' = fresh
    BY <1>1, <1>12 DEF EndStep, cacheVars
  <2>2. \A i \in Sublayers : next_use(i)' = next_use(i)
    BY <1>1, <1>12, NextUseWraps
  <2>3. First'
    BY <1>1, <1>2, <1>4, <2>1, <2>2
  <2>4. ~(\E e : e \in (0 .. (d - 1))')
    BY <2>1
  <2> QED
    BY <2>3, <2>4 DEF NearestFirst
<1> QED
  BY <1>7, <1>8, <1>9, <1>10, <1>11, <1>12 DEF BeladyNext

\* Every step of the cache keeps what is prefetched nearest first.
LEMMA NextKeepsPrefetchInv ==
  ASSUME CacheInv, PrefetchInv, BeladyNext
  PROVE  PrefetchInv'
<1>1. /\ BeladyTypeOK /\ (k = n_dev => d = 0) /\ d \in Nat
      /\ k \in Nat /\ k <= n_dev /\ n_dev \in Nat
  BY InstanceTyped DEF CacheInv
<1>2. inst' = inst /\ n_dev' = n_dev /\ (OneSize' <=> OneSize)
  BY <1>1, SameInstance
<1>3. ASSUME inst.policy = "lru" PROVE (fresh \subseteq {k} /\ (d = 0 => fresh = {}))'
  <2>1. window = 0 /\ fresh \subseteq {k} /\ (d = 0 => fresh = {})
    BY <1>3 DEF window, PrefetchInv
  <2>2. Looking => d = 0 /\ x = k
    BY <1>1, <2>1, Positions DEF Looking
  <2>3. CASE Skip
    BY <1>1, <2>1, <2>2, <2>3 DEF Skip, cacheVars
  <2>4. CASE Evict
    BY <2>1, <2>2, <2>4 DEF Evict, Fetchable, FreshWithout
  <2>5. CASE GiveUp
    BY <1>1, <2>1, <2>2, <2>5 DEF GiveUp, Fetchable, cacheVars
  <2>6. CASE Fetch
    <3>1. d = 0 /\ x = k /\ k' = k /\ d' = d + 1 /\ fresh' = fresh \cup {x}
      BY <2>2, <2>6 DEF Fetch, Fetchable, FreshWith
    <3>2. fresh' = {k} /\ d' # 0
      BY <2>1, <3>1
    <3> QED
      BY <3>1, <3>2
  <2>7. CASE Use
    BY <2>1, <2>7 DEF Use
  <2>8. CASE EndStep
    BY <1>1, <2>1, <2>8 DEF EndStep, cacheVars
  <2> QED
    BY <2>3, <2>4, <2>5, <2>6, <2>7, <2>8 DEF BeladyNext
<1>4. ASSUME inst.policy = "belady", OneSize, n_dev > 0 PROVE NearestFirst'
  BY <1>4, NextKeepsNearestFirst DEF PrefetchInv
<1> QED
  BY <1>2, <1>3, <1>4 DEF PrefetchInv

\* What an eviction pushes out of a cache of equal sub-layers has been used: one
\* fetched and not used is needed before the sub-layer there is no room for.
LEMMA EvictsTheUsed ==
  ASSUME CacheInv, PrefetchInv, OneSize, BeladyNext
  PROVE  fresh \ resident' = {}
<1>1. BeladyTypeOK /\ fresh \subseteq resident /\ resident \subseteq Sublayers
      /\ used = SizeOf(resident) /\ inst.policy \in {"belady", "lru"}
      /\ d \in Nat /\ n_dev \in Nat
  BY InstanceTyped DEF CacheInv, BeladyTypeOK
<1>2. CASE Evict
  <2>1. /\ k < n_dev /\ d <= window /\ x \notin resident /\ resident' = resident \ {Victim}
    BY <1>2 DEF Evict, Fetchable, Looking
  <2>2. Victim \in resident /\ Victim \in Sublayers
    BY <1>1, <1>2, <2>1, VictimIsLast, FullIsNotEmpty DEF Evict
  <2>3. CASE inst.policy = "lru"
    <3>1. d = 0
      BY <1>1, <2>1, <2>3 DEF window
    <3> QED
      BY <2>3, <3>1 DEF PrefetchInv
  <2>4. CASE inst.policy = "belady"
    <3>1. n_dev > 0 /\ x \in Sublayers /\ p \in Nat
          /\ next_use(Victim) \in p .. (p + n_dev - 1)
      BY <1>1, <2>1, <2>2, Positions, NextUses
    <3>2. ~(next_use(Victim) <= p + d)
      BY <1>2, <2>4 DEF Evict, NeededSooner
    <3>3. d < n_dev
      BY <1>1, <3>1, <3>2
    <3>4. next_use(x) = p + d
      BY <1>1, <2>1, <3>3, NextUses
    <3>5. next_use(x) < next_use(Victim)
      BY <1>1, <3>1, <3>2, <3>4
    <3>6. \A f \in fresh : \A i \in Sublayers : next_use(i) < next_use(f) => i \in resident
      BY <2>4, <3>1 DEF PrefetchInv, NearestFirst
    <3>7. Victim \notin fresh
      BY <2>1, <3>1, <3>5, <3>6
    <3> QED
      BY <1>1, <2>1, <3>7
  <2> QED
    BY <1>1, <2>3, <2>4
<1>3. CASE ~Evict
  <2>1. resident \subseteq resident'
    BY <1>3 DEF BeladyNext, Skip, GiveUp, Fetch, Use, EndStep, cacheVars
  <2> QED
    BY <1>1, <2>1
<1> QED
  BY <1>2, <1>3

\* A stuttering step keeps both.
LEMMA StutterKeepsCache ==
  ASSUME CacheInv, PrefetchInv, UNCHANGED beladyVars
  PROVE  CacheInv' /\ PrefetchInv'
<1> USE DEF beladyVars, cacheVars
<1>1. /\ inst' = inst /\ s' = s /\ k' = k /\ d' = d /\ resident' = resident /\ fresh' = fresh
      /\ last' = last /\ used' = used /\ since' = since /\ hits' = hits
      /\ per_step' = per_step
  OBVIOUS
<1>2. BeladyTypeOK'
  BY <1>1 DEF CacheInv, BeladyTypeOK, Sublayers, window, n_dev
<1>3. CacheInv'
  BY <1>1, <1>2 DEF CacheInv, StayInv, SizeOf, n_dev
<1>4. PrefetchInv'
  BY <1>1 DEF PrefetchInv, NearestFirst, OneSize, Sublayers, next_use, p, n_dev
<1> QED
  BY <1>3, <1>4

-----------------------------------------------------------------------------
(* The theorems.                                                           *)

\* What a step of the cache keeps, it keeps in every reachable state.
THEOREM CacheInvariant == BeladySpec => [](CacheInv /\ PrefetchInv)
<1>1. CacheInv /\ PrefetchInv /\ [BeladyNext]_beladyVars => (CacheInv /\ PrefetchInv)'
  <2> SUFFICES ASSUME CacheInv, PrefetchInv, [BeladyNext]_beladyVars
             PROVE  (CacheInv /\ PrefetchInv)'
    OBVIOUS
  <2>1. StayInv'
    BY NextKeepsStayInv DEF CacheInv
  <2>2. CASE BeladyNext
    BY <2>1, <2>2, NextKeepsCacheInv, NextKeepsPrefetchInv
  <2>3. CASE UNCHANGED beladyVars
    BY <2>3, StutterKeepsCache
  <2> QED
    BY <2>2, <2>3
<1> QED
  BY <1>1, InitCacheInv, PTL DEF BeladySpec

\* The resident sub-layers fit in device DRAM, and all the hits of a step do at once
\* (dynamic_baseline.py, belady_hits): the reported decode time never counts as
\* DRAM reads more than DRAM holds.
THEOREM HitsFitInvariant == BeladySpec => []HitsFitCache
<1>1. CacheInv => HitsFitCache
  <2> SUFFICES ASSUME CacheInv PROVE HitsFitCache
    OBVIOUS
  <2> DEFINE now == hits \cup {i \in since : i >= k}
  <2>1. BeladyTypeOK /\ used = SizeOf(resident) /\ used <= inst.cache_cap
        /\ SizeOf(now) <= inst.cache_cap
    BY DEF CacheInv
  <2>2. now \in SUBSET Sublayers /\ hits \in SUBSET now /\ hits \in SUBSET Sublayers
    BY <2>1 DEF BeladyTypeOK
  <2> HIDE DEF now
  <2>3. SizeOf(hits) <= SizeOf(now) /\ SizeOf(hits) \in Nat /\ SizeOf(now) \in Nat
        /\ inst.cache_cap \in Nat
    BY <2>1, <2>2, SumsOf, InstanceTyped
  <2> QED
    BY <2>1, <2>3 DEF HitsFitCache
<1> QED
  BY <1>1, CacheInvariant, PTL

\* The sub-layer about to run is resident whenever device DRAM could hold it alone:
\* looking further ahead never pushes it out.
THEOREM NeededNowInvariant == BeladySpec => []NeededNowIsHere
<1>1. CacheInv => NeededNowIsHere
  <2> SUFFICES ASSUME CacheInv, k < n_dev, d > window, inst.bytes[k] <= inst.cache_cap
               PROVE  k \in resident
    BY DEF NeededNowIsHere
  <2>1. window \in Nat /\ d \in Nat
    BY InstanceTyped DEF CacheInv
  <2> QED
    BY <2>1 DEF CacheInv
<1> QED
  BY <1>1, CacheInvariant, PTL

\* With sub-layers of one size no prefetch evicts another before its use, so a byte
\* is read from NAND at most once per use, for every lookahead and capacity.
THEOREM PrefetchesAreUsed == BeladySpec => PrefetchNotWasted
<1>1. CacheInv /\ PrefetchInv /\ [BeladyNext]_beladyVars
        => [OneSize => (fresh \ resident') = {}]_beladyVars
  BY EvictsTheUsed
<1> QED
  BY <1>1, CacheInvariant, PTL DEF BeladySpec, PrefetchNotWasted
=============================================================================
