-------------------------- MODULE DecodeLoop_proofs --------------------------
(***************************************************************************)
(* The decode loop for every placement, every number of tokens and         *)
(* threads, and all sizes and times.  First the CXL link: what a transfer  *)
(* does to it, and the invariant LinkInv.  Then the device cache, the      *)
(* staging channel, the prefill clock and the I/O threads: lemmas about    *)
(* add(), the sums of bytes and times and the candidates, and the          *)
(* invariant LoopInv with one lemma for each of its parts.                 *)
(***************************************************************************)
EXTENDS DecodeLoop, SumTheorems, SequenceTheorems

LEMMA LaterOfNat ==
  ASSUME NEW x \in Int, NEW y \in Int
  PROVE  LaterOf(x, y) \in Int /\ LaterOf(x, y) >= x /\ LaterOf(x, y) >= y
BY DEF LaterOf

\* A read is added to the read lane only, and keeps the lane's total within the
\* time the lane is busy until.
LEMMA ReadKeepsLink ==
  ASSUME NEW l \in LinkType, NEW now \in Nat, NEW dur \in Nat, WithinElapsed(l)
  PROVE  /\ schedule_read(l, now, dur) \in LinkType
         /\ WithinElapsed(schedule_read(l, now, dur))
         /\ schedule_read(l, now, dur).tx_busy_until = l.tx_busy_until
<1> USE LinkConstants
<1>1. LaterOf(now, l.rx_busy_until) \in Nat /\ LaterOf(now, l.rx_busy_until) >= l.rx_busy_until
  BY DEF LinkType, LaterOf
<1>2. RxEnd(l, now, dur) \in Nat /\ RxEnd(l, now, dur) >= l.rx_busy_until + dur
  BY <1>1 DEF RxEnd, LinkType
<1> DEFINE end == RxEnd(l, now, dur)
<1> DEFINE late == LaterOf(l.t_end, end)
<1>3. late \in Nat /\ late >= l.t_end /\ late >= end
  BY <1>2 DEF LaterOf, LinkType
<1>4. schedule_read(l, now, dur)
        = [l EXCEPT !.rx_busy_until = end, !.rx_busy_total = @ + dur, !.t_end = late]
  BY DEF schedule_read
<1>5. end \in Nat /\ end >= l.rx_busy_until + dur
  BY <1>2
<1> DEFINE r == schedule_read(l, now, dur)
<1>6. /\ r.rx_busy_until = end /\ r.rx_busy_total = l.rx_busy_total + dur
      /\ r.tx_busy_until = l.tx_busy_until /\ r.tx_busy_total = l.tx_busy_total
      /\ r.t_end = late
  <2> HIDE DEF end, late
  <2> QED BY <1>4 DEF LinkType
<1>7. /\ l.rx_busy_until \in Nat /\ l.rx_busy_total \in Nat /\ l.tx_busy_until \in Nat
      /\ l.tx_busy_total \in Nat /\ l.t_end \in Nat
  BY DEF LinkType
<1>8. r \in LinkType
  <2>1. l.rx_busy_total + dur \in Nat
    BY <1>7
  <2> HIDE DEF end, late
  <2> QED BY <1>3, <1>4, <1>5, <2>1 DEF LinkType
<1>9. WithinElapsed(r)
  <2>1. WithinElapsed(l) /\ l.rx_busy_total + dur <= l.rx_busy_until + dur
    BY <1>7 DEF WithinElapsed
  <2> HIDE DEF end, late, r
  <2> QED BY <1>3, <1>5, <1>6, <1>7, <2>1 DEF WithinElapsed
<1> QED BY <1>6, <1>8, <1>9

\* A write is added to the write lane only.
LEMMA WriteKeepsLink ==
  ASSUME NEW l \in LinkType, NEW now \in Nat, NEW dur \in Nat, WithinElapsed(l)
  PROVE  /\ schedule_write_background(l, now, dur) \in LinkType
         /\ WithinElapsed(schedule_write_background(l, now, dur))
         /\ schedule_write_background(l, now, dur).tx_busy_until = TxEnd(l, now, dur)
<1> USE LinkConstants
<1>1. LaterOf(now, l.tx_busy_until) \in Nat /\ LaterOf(now, l.tx_busy_until) >= l.tx_busy_until
  BY DEF LinkType, LaterOf
<1>2. TxEnd(l, now, dur) \in Nat /\ TxEnd(l, now, dur) >= l.tx_busy_until + dur
  BY <1>1 DEF TxEnd, LinkType
<1> DEFINE end == TxEnd(l, now, dur)
<1> DEFINE late == LaterOf(l.t_end, end)
<1>3. late \in Nat /\ late >= l.t_end /\ late >= end
  BY <1>2 DEF LaterOf, LinkType
<1>4. schedule_write_background(l, now, dur)
        = [l EXCEPT !.tx_busy_until = end, !.tx_busy_total = @ + dur, !.t_end = late]
  BY DEF schedule_write_background
<1>5. end \in Nat /\ end >= l.tx_busy_until + dur
  BY <1>2
<1> DEFINE r == schedule_write_background(l, now, dur)
<1>6. /\ r.tx_busy_until = end /\ r.tx_busy_total = l.tx_busy_total + dur
      /\ r.rx_busy_until = l.rx_busy_until /\ r.rx_busy_total = l.rx_busy_total
      /\ r.t_end = late
  <2> HIDE DEF end, late
  <2> QED BY <1>4 DEF LinkType
<1>7. /\ l.rx_busy_until \in Nat /\ l.rx_busy_total \in Nat /\ l.tx_busy_until \in Nat
      /\ l.tx_busy_total \in Nat /\ l.t_end \in Nat
  BY DEF LinkType
<1>8. r \in LinkType
  <2>1. l.tx_busy_total + dur \in Nat
    BY <1>7
  <2> HIDE DEF end, late
  <2> QED BY <1>3, <1>4, <1>5, <2>1 DEF LinkType
<1>9. WithinElapsed(r)
  <2>1. WithinElapsed(l) /\ l.tx_busy_total + dur <= l.tx_busy_until + dur
    BY <1>7 DEF WithinElapsed
  <2> HIDE DEF end, late, r
  <2> QED BY <1>3, <1>5, <1>6, <1>7, <2>1 DEF WithinElapsed
<1> QED BY <1>6, <1>8, <1>9

\* Charging the slip past the deadline brings the clock to the end of the write.
LEMMA SlipCoversWrite ==
  ASSUME NEW l \in LinkType, NEW now \in Nat, NEW dur \in Nat, NEW deadline \in Nat
  PROVE  /\ WriteSlip(l, now, dur, deadline) \in Nat
         /\ TxEnd(l, now, dur) <= deadline + WriteSlip(l, now, dur, deadline)
<1> USE LinkConstants
<1>1. TxEnd(l, now, dur) \in Nat
  BY DEF TxEnd, LinkType, LaterOf
<1> QED BY <1>1 DEF WriteSlip, LaterOf

LEMMA FreshLinkIsIdle == FreshLink \in LinkType /\ WithinElapsed(FreshLink)
BY DEF FreshLink, LinkType, WithinElapsed

LEMMA PlacedLayer ==
  ASSUME plan \in Plans, NEW i \in Nat \ {0}, i <= Len(layers)
  PROVE  layers[i] \in LayerType
<1>1. layers \in Seq(LayerType)
  BY DecodeConstants DEF layers
<1>2. i \in 1 .. Len(layers)
  BY <1>1
<1> QED BY <1>1, <1>2

-----------------------------------------------------------------------------
LEMMA InitLinkInv == Init => LinkInv
BY FreshLinkIsIdle DEF Init, LinkInv, WritesLandWithLayer, UtilizationIsShare

\* One layer's transfers: the read first, then the KV write, whose slip the
\* layer's time absorbs.
LEMMA ServeKeepsLinkInv == LinkInv /\ Serve => LinkInv'
<1> SUFFICES ASSUME LinkInv, Serve PROVE LinkInv'
  OBVIOUS
<1> DEFINE layer == layers[idx]
           base  == layer.time[(idx \in session_pinned)]
           onCxl == layer.tier \in {"dram", "nand"}
           read  == IF onCxl THEN schedule_read(link, lat, layer.rx) ELSE link
           slip  == WriteSlip(read, lat, layer.kv, lat + base)
           host  == IF layer.tier = "host" /\ layer.kv > 0 THEN layer.hostKv ELSE 0
<1>1. layer \in LayerType
  BY PlacedLayer DEF LinkInv, Serve
<1>2. base \in Nat /\ layer.rx \in Nat /\ layer.kv \in Nat /\ host \in Nat
  <2>1. (idx \in session_pinned) \in BOOLEAN
    OBVIOUS
  <2>2. layer.time \in [BOOLEAN -> Nat] /\ layer.rx \in Nat /\ layer.kv \in Nat
          /\ layer.hostKv \in Nat
    BY <1>1 DEF LayerType
  <2> HIDE DEF layer
  <2> QED BY <2>1, <2>2
<1>3. lat \in Nat /\ link \in LinkType /\ WithinElapsed(link) /\ link.tx_busy_until <= lat
  BY DEF LinkInv, WritesLandWithLayer, UtilizationIsShare, Serve
<1>4. read \in LinkType /\ WithinElapsed(read) /\ read.tx_busy_until = link.tx_busy_until
  BY <1>2, <1>3, ReadKeepsLink
<1>5. /\ plan' = plan /\ pc' = "harvest" /\ idx' = idx
      /\ idx \in Nat \ {0} /\ idx <= Len(layers) /\ plan \in Plans
  BY DEF Serve, LinkInv
<1>6. /\ link' \in LinkType /\ WithinElapsed(link') /\ lat' \in Nat
      /\ link'.tx_busy_until <= lat'
  <2>1. CASE onCxl /\ layer.kv > 0
    <3>1. link' = schedule_write_background(read, lat, layer.kv) /\ lat' = lat + base + slip
      BY <2>1 DEF Serve
    <3>2. link' \in LinkType /\ WithinElapsed(link')
            /\ link'.tx_busy_until = TxEnd(read, lat, layer.kv)
      BY <3>1, <1>2, <1>3, <1>4, WriteKeepsLink, ZenonT(60)
    <3>3. lat + base \in Nat
      BY <1>2, <1>3
    <3>4. slip \in Nat /\ TxEnd(read, lat, layer.kv) <= lat + base + slip
      BY <3>3, <1>2, <1>3, <1>4, SlipCoversWrite
    <3> HIDE DEF slip, read, base, layer
    <3> QED BY <3>1, <3>2, <3>3, <3>4
  <2>2. CASE ~(onCxl /\ layer.kv > 0)
    <3>1. link' = read /\ lat' = lat + base + host
      BY <2>2 DEF Serve
    <3>2. read.tx_busy_until \in Nat
      BY <1>4 DEF LinkType
    <3> HIDE DEF read, base, host, layer
    <3> QED BY <3>1, <3>2, <1>2, <1>3, <1>4
  <2> QED BY <2>1, <2>2
<1>7. layers' = layers
  BY <1>5 DEF layers
<1>8. t_stage' = t_stage /\ stage_finish' = stage_finish
  BY DEF Serve, staging
<1> QED BY <1>5, <1>6, <1>7, <1>8 DEF LinkInv, WritesLandWithLayer, UtilizationIsShare

\* A staged layer is finished when the channel is; both are times.
LEMMA StageKeepsLinkInv == LinkInv /\ Stage => LinkInv'
<1> SUFFICES ASSUME LinkInv, Stage PROVE LinkInv'
  OBVIOUS
<1>1. layers[idx].nandTime \in Nat
  BY PlacedLayer DEF LinkInv, Stage, LayerType
<1>2. /\ plan' = plan /\ pc' = pc /\ idx' = idx + 1 /\ lat' = lat /\ link' = link
      /\ pc = "stage"
  BY DEF Stage
<1>3. t_stage' \in Nat /\ \A l \in DOMAIN stage_finish' : stage_finish'[l] \in Nat
  <2>1. CASE OnNand(idx) /\ StageFits(idx)
    <3>1. /\ t_stage' = t_stage + layers[idx].nandTime
          /\ stage_finish' = [l \in DOMAIN stage_finish \cup {idx} |->
                                IF l = idx THEN t_stage' ELSE stage_finish[l]]
      BY <2>1 DEF Stage
    <3>2. t_stage' \in Nat
      BY <1>1, <3>1 DEF LinkInv
    <3>3. \A l \in DOMAIN stage_finish : stage_finish[l] \in Nat
      BY DEF LinkInv
    <3> QED BY <3>1, <3>2, <3>3
  <2>2. CASE ~(OnNand(idx) /\ StageFits(idx))
    BY <2>2 DEF Stage, staging, LinkInv
  <2> QED BY <2>1, <2>2
<1> QED BY <1>2, <1>3 DEF LinkInv, WritesLandWithLayer, UtilizationIsShare, layers

LEMMA PrefillKeepsLinkInv == LinkInv /\ Prefill => LinkInv'
<1> SUFFICES ASSUME LinkInv, Prefill PROVE LinkInv'
  OBVIOUS
<1> DEFINE run == layers[idx].prefill[(idx \in session_pinned)]
<1>1. run \in Nat
  <2>1. (idx \in session_pinned) \in BOOLEAN
    OBVIOUS
  <2>2. layers[idx].prefill \in [BOOLEAN -> Nat]
    BY PlacedLayer DEF LinkInv, Prefill, LayerType
  <2> QED BY <2>1, <2>2
<1>2. StagedBy(idx) \in Nat
  BY DEF StagedBy, LinkInv
<1>3. lat' \in Nat
  BY <1>1, <1>2, SMTT(60) DEF Prefill, LaterOf, LinkInv
<1> HIDE DEF run
<1> QED BY <1>3 DEF Prefill, staging, LinkInv, WritesLandWithLayer, UtilizationIsShare, layers

LEMMA NextKeepsLinkInv == LinkInv /\ [Next]_vars => LinkInv'
<1> SUFFICES ASSUME LinkInv, [Next]_vars PROVE LinkInv'
  OBVIOUS
<1> USE DEF LinkInv, WritesLandWithLayer, UtilizationIsShare, layers
<1>1. CASE Stage
  BY <1>1, StageKeepsLinkInv
<1>2. CASE StagingDone
  BY <1>2 DEF StagingDone, staging
<1>3. CASE BeginToken
  <2>1. layers \in Seq(LayerType)
    BY DecodeConstants
  <2>2. layers # <<>> => 1 <= Len(layers)
    BY <2>1
  <2>3. link' = FreshLink /\ lat' = 0 /\ idx' = 1 /\ plan' = plan
    BY <1>3 DEF BeginToken, Reset, staging
  <2>4. pc' \in {"token", "prefetch"} /\ (pc' = "prefetch" => layers # <<>>)
    BY <1>3 DEF BeginToken
  <2>5. FreshLink.tx_busy_until = 0
    BY DEF FreshLink
  <2>6. t_stage' = t_stage /\ stage_finish' = stage_finish
    BY <1>3 DEF BeginToken, staging
  <2> QED BY <2>2, <2>3, <2>4, <2>5, <2>6, FreshLinkIsIdle
<1>4. CASE TakePrefetch
  BY <1>4 DEF TakePrefetch, staging
<1>5. CASE SkipThread
  BY <1>5 DEF SkipThread, staging
<1>6. CASE Serve
  BY <1>6, ServeKeepsLinkInv
<1>7. CASE Harvest
  BY <1>7 DEF Harvest, staging
<1>8. CASE NextLayer
  <2>1. layers \in Seq(LayerType)
    BY DecodeConstants
  <2>2. Len(layers) \in Nat
    BY <2>1
  <2> QED BY <1>8, <2>2 DEF NextLayer, staging
<1>9. CASE Finish
  BY <1>9 DEF Finish, staging
<1>10. CASE UNCHANGED vars
  BY <1>10 DEF vars, cacheVars, ioVars, staging
<1>11. CASE Prefill
  BY <1>11, PrefillKeepsLinkInv
<1>12. CASE PrefillDone
  BY <1>12 DEF PrefillDone, staging
<1> QED BY <1>1, <1>2, <1>11, <1>12, <1>3, <1>4, <1>5, <1>6, <1>7, <1>8, <1>9, <1>10 DEF Next

\* LinkInv holds of every state of the decode loop.
THEOREM LinkInvariant == Spec => []LinkInv
<1>1. Init => LinkInv
  BY InitLinkInv
<1>2. LinkInv /\ [Next]_vars => LinkInv'
  BY NextKeepsLinkInv
<1> QED BY <1>1, <1>2, PTL DEF Spec

\* When a layer ends, its KV write has left the write lane (tiersched.py charges
\* "only the slip past the deadline", and that is enough).
THEOREM WritesLand == Spec => []WritesLandWithLayer
<1>1. LinkInv => WritesLandWithLayer
  BY DEF LinkInv
<1> QED BY <1>1, LinkInvariant, PTL

\* A token's read and write utilization, reported as percentages of the link's
\* last activity, never exceed 100%.
THEOREM UtilizationBounded == Spec => []UtilizationIsShare
<1>1. LinkInv => UtilizationIsShare
  BY DEF LinkInv
<1> QED BY <1>1, LinkInvariant, PTL
-----------------------------------------------------------------------------
\* What a layer of the plan is, and that there are finitely many.
LEMMA PlanTypes ==
  ASSUME plan \in Plans
  PROVE  /\ layers \in Seq(LayerType) /\ Len(layers) \in Nat
         /\ DOMAIN layers = 1 .. Len(layers) /\ IsFiniteSet(DOMAIN layers)
         /\ plan.cap \in Nat /\ plan.reserve \in Nat /\ plan.cap <= plan.reserve
<1>1. /\ layers \in Seq(LayerType) /\ plan.cap \in Nat /\ plan.reserve \in Nat
      /\ plan.cap <= plan.reserve
  BY DecodeConstants DEF layers
<1>2. Len(layers) \in Nat /\ DOMAIN layers = 1 .. Len(layers)
  BY <1>1, LenProperties
<1>3. IsFiniteSet(1 .. Len(layers))
  BY <1>2, FS_Interval
<1> QED
  BY <1>1, <1>2, <1>3

LEMMA LayerTypes ==
  ASSUME plan \in Plans, NEW l \in DOMAIN layers
  PROVE  /\ Bytes(l) \in Nat \ {0} /\ layers[l].nandTime \in Nat \ {0}
         /\ layers[l].score \in Nat
         /\ \A s \in BOOLEAN : layers[l].prefill[s] \in Nat
<1>1. layers[l] \in LayerType
  BY PlanTypes, PlacedLayer
<1> QED
  BY <1>1 DEF LayerType, Bytes

\* The bytes of a set of layers, and of two.
LEMMA BytesInNat ==
  ASSUME plan \in Plans, NEW S \in SUBSET DOMAIN layers
  PROVE  /\ IsFiniteSet(S) /\ BytesIn(S) \in Nat
         /\ \A R \in SUBSET S :
              BytesIn(R) <= BytesIn(S) /\ BytesIn(S \ R) = BytesIn(S) - BytesIn(R)
<1> DEFINE w == [l \in DOMAIN layers |-> Bytes(l)]
<1>1. IsFiniteSet(S)
  BY PlanTypes, FS_Subset
<1>2. \A l \in S : w[l] \in Nat
  BY LayerTypes
<1> HIDE DEF w
<1>3. \A R \in SUBSET S : /\ SumFunctionOnSet(w, R) \in Nat /\ SumFunctionOnSet(w, S) \in Nat
         /\ SumFunctionOnSet(w, R) <= SumFunctionOnSet(w, S)
         /\ SumFunctionOnSet(w, S \ R) = SumFunctionOnSet(w, S) - SumFunctionOnSet(w, R)
  BY <1>1, <1>2, SumSubset
<1>4. \A R : BytesIn(R) = SumFunctionOnSet(w, R)
  BY DEF BytesIn, w
<1> QED
  BY <1>1, <1>3, <1>4

LEMMA BytesInTake ==
  ASSUME plan \in Plans, NEW S \in SUBSET DOMAIN layers, NEW l \in DOMAIN layers
  PROVE  /\ BytesIn(S \cup {l}) <= BytesIn(S) + Bytes(l)
         /\ l \notin S => BytesIn(S \cup {l}) = BytesIn(S) + Bytes(l)
<1> DEFINE w == [x \in DOMAIN layers |-> Bytes(x)]
<1>1. IsFiniteSet(S) /\ BytesIn(S) \in Nat /\ Bytes(l) \in Nat
  BY BytesInNat, LayerTypes
<1>2. \A x \in S : w[x] \in Int
  BY LayerTypes
<1>3. w[l] \in Int /\ w[l] = Bytes(l)
  BY <1>1
<1>4. \A R : BytesIn(R) = SumFunctionOnSet(w, R)
  BY DEF BytesIn
<1> HIDE DEF w
<1>5. l \notin S => BytesIn(S \cup {l}) = BytesIn(S) + Bytes(l)
  BY <1>1, <1>2, <1>3, <1>4, SumAdd
<1>6. l \in S => BytesIn(S \cup {l}) <= BytesIn(S) + Bytes(l)
  <2>1. l \in S => S \cup {l} = S
    OBVIOUS
  <2>2. l \in S => BytesIn(S \cup {l}) = BytesIn(S)
    BY <2>1
  <2> QED
    BY <1>1, <2>2
<1> QED
  BY <1>1, <1>5, <1>6

\* Of two layers that stay, the one cached first keeps the earlier place.
LEMMA PlacesInOrder ==
  ASSUME NEW kept \in SUBSET DOMAIN cache, IsFiniteSet(kept),
         cache \in [DOMAIN cache -> Nat \ {0}], NEW l \in kept
  PROVE  /\ Place(kept, l) \in Nat \ {0} /\ Place(kept, l) <= Cardinality(kept)
         /\ \A m \in kept : cache[l] < cache[m] => Place(kept, l) < Place(kept, m)
<1> DEFINE Ahead(x) == {y \in kept : cache[y] < cache[x]}
<1>1. \A x : Place(kept, x) = Cardinality(Ahead(x)) + 1
  BY DEF Place
<1>2. \A x \in kept : cache[x] \in Nat
  OBVIOUS
<1>3. \A x : IsFiniteSet(Ahead(x)) /\ Cardinality(Ahead(x)) \in Nat
  BY FS_Subset, FS_CardinalityType
<1>4. l \notin Ahead(l)
  BY <1>2
<1>5. IsFiniteSet(Ahead(l) \cup {l}) /\ Cardinality(Ahead(l) \cup {l}) = Cardinality(Ahead(l)) + 1
  BY <1>3, <1>4, FS_AddElement, ZenonT(60)
<1>6. Cardinality(Ahead(l)) + 1 <= Cardinality(kept)
  <2>1. Ahead(l) \cup {l} \subseteq kept
    OBVIOUS
  <2> QED
    BY <2>1, <1>5, FS_Subset
<1>7. ASSUME NEW m \in kept, cache[l] < cache[m] PROVE Cardinality(Ahead(l)) < Cardinality(Ahead(m))
  <2>1. Ahead(l) \cup {l} \subseteq Ahead(m)
    BY <1>2, <1>7
  <2>2. Cardinality(Ahead(l) \cup {l}) <= Cardinality(Ahead(m))
    BY <2>1, <1>3, FS_Subset
  <2>3. Cardinality(Ahead(l)) + 1 <= Cardinality(Ahead(m))
    BY <2>2, <1>5
  <2>4. Cardinality(Ahead(l)) \in Nat /\ Cardinality(Ahead(m)) \in Nat
    BY <1>3
  <2> HIDE DEF Ahead
  <2> QED
    BY <2>3, <2>4
<1> HIDE DEF Ahead
<1> QED
  BY <1>1, <1>3, <1>6, <1>7

\* The cache is a set of layers in an order.
InOrder(c) == c \in [DOMAIN c -> Nat \ {0}] /\ IsInjective(c)

LEMMA KeepInOrder ==
  ASSUME InOrder(cache), NEW kept \in SUBSET DOMAIN cache, IsFiniteSet(kept), NEW l
  PROVE  /\ InOrder(Keep(kept)) /\ DOMAIN Keep(kept) = kept
         /\ InOrder(KeepAndTake(kept, l)) /\ DOMAIN KeepAndTake(kept, l) = kept \cup {l}
<1>1. \A x \in kept : Place(kept, x) \in Nat \ {0} /\ Place(kept, x) <= Cardinality(kept)
  BY PlacesInOrder DEF InOrder
<1>2. \A x, y \in kept : cache[x] < cache[y] => Place(kept, x) < Place(kept, y)
  BY PlacesInOrder DEF InOrder
<1>3. \A x, y \in kept : x # y => Place(kept, x) # Place(kept, y)
  <2> SUFFICES ASSUME NEW x \in kept, NEW y \in kept, x # y
               PROVE  Place(kept, x) # Place(kept, y)
    OBVIOUS
  <2>1. cache[x] # cache[y] /\ cache[x] \in Nat /\ cache[y] \in Nat
    BY DEF InOrder, IsInjective
  <2>2. cache[x] < cache[y] \/ cache[y] < cache[x]
    BY <2>1
  <2>3. Place(kept, x) < Place(kept, y) \/ Place(kept, y) < Place(kept, x)
    BY <1>2, <2>2
  <2>4. Place(kept, x) \in Nat /\ Place(kept, y) \in Nat
    BY <1>1
  <2> QED
    BY <2>3, <2>4
<1>4. Cardinality(kept) \in Nat
  BY FS_CardinalityType
<1>5. DOMAIN Keep(kept) = kept /\ \A x \in kept : Keep(kept)[x] = Place(kept, x)
  BY DEF Keep
<1>6. Keep(kept) \in [kept -> Nat \ {0}]
  BY <1>1 DEF Keep
<1> DEFINE k == KeepAndTake(kept, l)
<1>7. /\ DOMAIN k = kept \cup {l} /\ \A x \in kept : k[x] = Place(kept, x)
      /\ l \notin kept => k[l] = Cardinality(kept) + 1
  BY DEF KeepAndTake
<1>8. k \in [kept \cup {l} -> Nat \ {0}]
  <2>1. \A x \in kept \cup {l} : (IF x \in kept THEN Place(kept, x) ELSE Cardinality(kept) + 1) \in Nat \ {0}
    BY <1>1, <1>4
  <2> QED
    BY <2>1 DEF KeepAndTake
<1>9. IsInjective(k)
  <2> SUFFICES ASSUME NEW x \in kept \cup {l}, NEW y \in kept \cup {l}, k[x] = k[y]
               PROVE  x = y
    BY <1>7 DEF IsInjective
  <2> HIDE DEF k
  <2>1. CASE x \in kept /\ y \in kept
    BY <2>1, <1>3, <1>7
  <2>2. CASE x \in kept /\ y \notin kept
    <3>1. k[x] = Place(kept, x) /\ k[y] = Cardinality(kept) + 1
      BY <2>2, <1>7
    <3>2. Place(kept, x) \in Nat /\ Place(kept, x) <= Cardinality(kept)
      BY <2>2, <1>1
    <3>3. Place(kept, x) = Cardinality(kept) + 1
      BY <3>1
    <3> QED
      BY <3>2, <3>3, <1>4
  <2>3. CASE x \notin kept /\ y \in kept
    <3>1. k[y] = Place(kept, y) /\ k[x] = Cardinality(kept) + 1
      BY <2>3, <1>7
    <3>2. Place(kept, y) \in Nat /\ Place(kept, y) <= Cardinality(kept)
      BY <2>3, <1>1
    <3>3. Place(kept, y) = Cardinality(kept) + 1
      BY <3>1
    <3> QED
      BY <3>2, <3>3, <1>4
  <2> QED
    BY <2>1, <2>2, <2>3
<1>10. IsInjective(Keep(kept))
  BY <1>3, <1>5 DEF IsInjective
<1> QED
  BY <1>5, <1>6, <1>7, <1>8, <1>9, <1>10 DEF InOrder

\* What the cache promises of itself: it holds layers of the plan in an order,
\* its count is never below what it holds, and its capacity never below its
\* count.
CacheOK ==
  /\ DOMAIN cache \subseteq DOMAIN layers /\ InOrder(cache)
  /\ used \in Nat /\ BytesIn(DOMAIN cache) <= used /\ used <= plan.cap
  /\ session_pinned \subseteq DOMAIN cache

\* add() keeps the promises, and never drops a layer pinned for the session.
LEMMA AddKeepsCache ==
  ASSUME plan \in Plans, CacheOK, NEW l \in DOMAIN layers, Add(l)
  PROVE  /\ DOMAIN cache' \subseteq DOMAIN layers /\ InOrder(cache')
         /\ used' \in Nat /\ BytesIn(DOMAIN cache') <= used' /\ used' <= plan.cap
         /\ session_pinned \subseteq DOMAIN cache'
<1> DEFINE need == used + Bytes(l) - plan.cap
           out  == IF need > 0 THEN Evicted(need) ELSE {}
           kept == DOMAIN cache \ out
           left == used - BytesIn(out)
<1>1. out \subseteq DOMAIN cache /\ out \cap session_pinned = {}
  <2>1. Evicted(need) \subseteq DOMAIN cache \ session_pinned
    BY DEF Evicted, Evictable
  <2> QED
    BY <2>1
<1>2. /\ kept \subseteq DOMAIN cache /\ kept \subseteq DOMAIN layers
      /\ session_pinned \subseteq kept
  BY <1>1 DEF CacheOK
<1>3. /\ IsFiniteSet(kept) /\ BytesIn(kept) \in Nat
      /\ BytesIn(kept) = BytesIn(DOMAIN cache) - BytesIn(out)
      /\ BytesIn(out) \in Nat /\ BytesIn(DOMAIN cache) \in Nat
  <2>1. DOMAIN cache \in SUBSET DOMAIN layers /\ out \in SUBSET DOMAIN cache
        /\ kept \in SUBSET DOMAIN layers /\ out \in SUBSET DOMAIN layers
    BY <1>1, <1>2 DEF CacheOK
  <2> HIDE DEF out
  <2> QED
    BY <2>1, BytesInNat
<1>4. /\ used \in Nat /\ BytesIn(DOMAIN cache) <= used /\ used <= plan.cap /\ InOrder(cache)
      /\ plan.cap \in Nat /\ Bytes(l) \in Nat \ {0}
  BY PlanTypes, LayerTypes DEF CacheOK
<1>5. left \in Nat /\ BytesIn(kept) <= left /\ left <= plan.cap
  <2> HIDE DEF out, kept
  <2> QED
    BY <1>3, <1>4
<1>6. CASE Bytes(l) > plan.cap
  BY <1>6 DEF Add, CacheOK
<1>7. CASE Bytes(l) <= plan.cap /\ FitsAfterEvicting(l, left)
  <2>1. used' = left + Bytes(l) /\ cache' = KeepAndTake(kept, l)
    BY <1>4, <1>7 DEF Add
  <2>2. InOrder(cache') /\ DOMAIN cache' = kept \cup {l}
    BY <2>1, <1>2, <1>3, <1>4, KeepInOrder
  <2>3. BytesIn(kept \cup {l}) <= BytesIn(kept) + Bytes(l) /\ BytesIn(kept \cup {l}) \in Nat
    BY <1>2, BytesInTake, BytesInNat
  <2>4. left + Bytes(l) <= plan.cap
    BY <1>7 DEF FitsAfterEvicting
  <2>5. BytesIn(DOMAIN cache') = BytesIn(kept \cup {l})
    BY <2>2
  <2> HIDE DEF left, kept
  <2>6. used' \in Nat /\ BytesIn(DOMAIN cache') <= used' /\ used' <= plan.cap
    BY <2>1, <2>3, <2>4, <2>5, <1>3, <1>4, <1>5
  <2> QED
    BY <2>2, <2>6, <1>2
<1>8. CASE Bytes(l) <= plan.cap /\ ~FitsAfterEvicting(l, left)
  <2>1. used' = left /\ cache' = Keep(kept)
    BY <1>4, <1>8 DEF Add
  <2>2. InOrder(cache') /\ DOMAIN cache' = kept
    BY <2>1, <1>2, <1>3, <1>4, KeepInOrder
  <2>3. BytesIn(DOMAIN cache') = BytesIn(kept)
    BY <2>2
  <2> HIDE DEF left, kept
  <2> QED
    BY <2>1, <2>2, <2>3, <1>2, <1>5
<1> HIDE DEF left
<1> QED
  BY <1>4, <1>6, <1>7, <1>8

\* A layer for which there is room goes in, and nothing goes out.
LEMMA AddWithRoom ==
  ASSUME plan \in Plans, CacheOK, NEW l \in DOMAIN layers, Add(l),
         used + Bytes(l) <= plan.cap
  PROVE  used' = used + Bytes(l) /\ DOMAIN cache' = DOMAIN cache \cup {l}
<1>1. /\ used \in Nat /\ plan.cap \in Nat /\ Bytes(l) \in Nat \ {0} /\ InOrder(cache)
      /\ IsFiniteSet(DOMAIN cache)
  BY PlanTypes, LayerTypes, BytesInNat DEF CacheOK
<1>2. ~(Bytes(l) > plan.cap) /\ ~(used + Bytes(l) - plan.cap > 0)
  BY <1>1
<1>3. BytesIn({}) = 0
  BY SumEmpty DEF BytesIn
<1>4. used - BytesIn({}) = used /\ DOMAIN cache \ {} = DOMAIN cache
  BY <1>1, <1>3
<1>5. FitsAfterEvicting(l, used)
  BY DEF FitsAfterEvicting
<1>6. used' = used + Bytes(l) /\ cache' = KeepAndTake(DOMAIN cache, l)
  BY <1>2, <1>4, <1>5 DEF Add
<1> QED
  BY <1>1, <1>6, KeepInOrder

\* The steps that move nothing of the cache's.
LEMMA OtherStepsLeaveCache ==
  ASSUME [Next]_vars, ~Stage, ~Harvest
  PROVE  UNCHANGED <<plan, cache, used, session_pinned, stage_finish>>
BY DEF Next, vars, cacheVars, staging, ioVars, StagingDone, Prefill, PrefillDone, BeginToken,
       TakePrefetch, SkipThread, Serve, NextLayer, Finish

LEMMA NoStepMovesPlan ==
  ASSUME [Next]_vars
  PROVE  /\ plan' = plan /\ layers' = layers
         /\ \A S : BytesIn(S)' = BytesIn(S)
         /\ \A l : OnNand(l)' = OnNand(l) /\ Bytes(l)' = Bytes(l)
<1>1. plan' = plan
  BY DEF Next, vars, cacheVars, staging, ioVars, Stage, StagingDone, Prefill, PrefillDone,
         BeginToken, TakePrefetch, SkipThread, Serve, Harvest, NextLayer, Finish
<1>2. layers' = layers
  BY <1>1 DEF layers
<1>3. \A l : OnNand(l)' = OnNand(l) /\ Bytes(l)' = Bytes(l)
  BY <1>2 DEF OnNand, Bytes
<1>4. \A S : BytesIn(S)' = BytesIn(S)
  BY <1>2 DEF BytesIn, Bytes
<1> QED
  BY <1>1, <1>2, <1>3, <1>4

\* What has been staged by now, and when.
StagedRight ==
  /\ DOMAIN stage_finish = session_pinned
  /\ \A l \in session_pinned : stage_finish[l] = StageTime({m \in session_pinned : m <= l})
  /\ pc = "stage" => /\ session_pinned \subseteq 1 .. (idx - 1)
                     /\ DOMAIN cache = session_pinned /\ used = BytesIn(session_pinned)
                     /\ budget = IF plan.warmup THEN plan.cap - used ELSE 0
                     /\ t_stage = StageTime(session_pinned)
                     /\ lat = 0

\* With the warmup the cache holds what Phase 1 staged, and a NAND layer Phase 1
\* left out does not fit beside it: no prefetch of decode ever enters.
NoRoomLeft == plan.warmup =>
  /\ DOMAIN cache = session_pinned
  /\ \A l \in DOMAIN layers :
       OnNand(l) /\ l \notin session_pinned /\ (pc = "stage" => l < idx)
         => BytesIn(session_pinned) + Bytes(l) > plan.cap

\* A layer that is there already, or one for which there is no room, leaves the
\* cache as it is.
LEMMA AddWithoutRoom ==
  ASSUME plan \in Plans, CacheOK, DOMAIN cache = session_pinned, NEW l \in DOMAIN layers,
         Add(l), l \in session_pinned \/ BytesIn(session_pinned) + Bytes(l) > plan.cap
  PROVE  DOMAIN cache' = session_pinned
<1>1. /\ used \in Nat /\ plan.cap \in Nat /\ Bytes(l) \in Nat \ {0} /\ InOrder(cache)
      /\ IsFiniteSet(DOMAIN cache) /\ BytesIn(session_pinned) \in Nat
      /\ BytesIn(session_pinned) <= used
  BY PlanTypes, LayerTypes, BytesInNat DEF CacheOK
<1>2. BytesIn({}) = 0
  BY SumEmpty DEF BytesIn
<1> DEFINE need == used + Bytes(l) - plan.cap
           out  == IF need > 0 THEN Evicted(need) ELSE {}
<1>3. out = {}
  BY DEF Evicted, Evictable
<1>4. used - BytesIn(out) = used /\ DOMAIN cache \ out = DOMAIN cache
  <2> HIDE DEF out
  <2>1. BytesIn(out) = 0
    BY <1>2, <1>3
  <2> QED
    BY <2>1, <1>1, <1>3
<1>5. \/ Bytes(l) > plan.cap /\ cache' = cache
      \/ FitsAfterEvicting(l, used - BytesIn(out)) /\ cache' = KeepAndTake(DOMAIN cache \ out, l)
      \/ cache' = Keep(DOMAIN cache \ out)
  BY DEF Add
<1> HIDE DEF out
<1>6. \/ cache' = cache
      \/ FitsAfterEvicting(l, used) /\ cache' = KeepAndTake(DOMAIN cache, l)
      \/ cache' = Keep(DOMAIN cache)
  BY <1>4, <1>5
<1>7. FitsAfterEvicting(l, used) => l \in session_pinned
  BY <1>1 DEF FitsAfterEvicting
<1>8. DOMAIN Keep(DOMAIN cache) = DOMAIN cache
      /\ DOMAIN KeepAndTake(DOMAIN cache, l) = DOMAIN cache \cup {l}
  BY <1>1, KeepInOrder
<1> QED
  BY <1>6, <1>7, <1>8

\* The times of a set of layers, and of one more.
LEMMA StageTimeTakes ==
  ASSUME plan \in Plans, NEW S \in SUBSET DOMAIN layers
  PROVE  /\ StageTime(S) \in Nat
         /\ \A l \in DOMAIN layers \ S : StageTime(S \cup {l}) = StageTime(S) + layers[l].nandTime
<1> DEFINE w == [l \in DOMAIN layers |-> layers[l].nandTime]
<1>1. IsFiniteSet(S) /\ (\A l \in DOMAIN layers : w[l] = layers[l].nandTime /\ w[l] \in Nat)
  BY BytesInNat, LayerTypes
<1>2. \A R : StageTime(R) = SumFunctionOnSet(w, R)
  BY DEF StageTime
<1> HIDE DEF w
<1>3. SumFunctionOnSet(w, S) \in Nat
  BY <1>1, SumSubset
<1>4. \A l \in DOMAIN layers \ S : SumFunctionOnSet(w, S \cup {l}) = SumFunctionOnSet(w, S) + w[l]
  BY <1>1, SumAdd
<1> QED
  BY <1>1, <1>2, <1>3, <1>4

LEMMA RunTimeTakes ==
  ASSUME plan \in Plans, NEW S \in SUBSET DOMAIN layers
  PROVE  /\ RunTime(S) \in Nat
         /\ \A l \in DOMAIN layers \ S :
              RunTime(S \cup {l}) = RunTime(S) + layers[l].prefill[(l \in session_pinned)]
<1> DEFINE w == [l \in DOMAIN layers |-> layers[l].prefill[(l \in session_pinned)]]
<1>1. IsFiniteSet(S)
  BY BytesInNat
<1>2. \A l \in DOMAIN layers : w[l] = layers[l].prefill[(l \in session_pinned)] /\ w[l] \in Nat
  <2>1. \A l : (l \in session_pinned) \in BOOLEAN
    OBVIOUS
  <2> QED
    BY <2>1, LayerTypes
<1>3. \A R : RunTime(R) = SumFunctionOnSet(w, R)
  BY DEF RunTime
<1> HIDE DEF w
<1>4. SumFunctionOnSet(w, S) \in Nat
  BY <1>1, <1>2, SumSubset
<1>5. \A l \in DOMAIN layers \ S : SumFunctionOnSet(w, S \cup {l}) = SumFunctionOnSet(w, S) + w[l]
  BY <1>1, <1>2, SumAdd
<1> QED
  BY <1>2, <1>3, <1>4, <1>5

\* Prefill so far has taken the longest of its chains.
ChainsEndNow == pc = "prefill" => lat \in Chains /\ \A c \in Chains : c <= lat

\* What each thread does: a prefetch of this token, over before the NAND link is
\* free; and the threads the loop has been at have none that is over.
ThreadsRight ==
  /\ \A t \in 1 .. Threads : threads[t].task # NoTask =>
       threads[t].task \in fetched /\ OnNand(threads[t].task) /\ threads[t].busy <= nand_free
  /\ PrefetchesApart
  /\ NoPrefetchOverwritten
  /\ pc = "harvest" => \A t \in 1 .. Threads :
       t < th /\ threads[t].busy <= lat => threads[t].task = NoTask

\* The inductive invariant.
LoopInv ==
  /\ LinkInv /\ TypeOK /\ CacheOK /\ StagedRight /\ NoRoomLeft
  /\ ChainsEndNow /\ ThreadsRight

-----------------------------------------------------------------------------
LEMMA NothingStaged ==
  ASSUME plan \in Plans
  PROVE  BytesIn({}) = 0 /\ StageTime({}) = 0 /\ RunTime({}) = 0
BY SumEmpty DEF BytesIn, StageTime, RunTime

LEMMA EmptyFunction == <<>> = [x \in {} |-> 0] /\ DOMAIN <<>> = {}
<1>1. <<>> \in Seq({0}) /\ Len(<<>>) = 0
  BY EmptySeq
<1>2. DOMAIN <<>> = {} /\ <<>> \in [{} -> {0}]
  <2>1. DOMAIN <<>> = 1 .. 0 /\ <<>> \in [1 .. 0 -> {0}]
    BY <1>1, LenProperties
  <2>2. 1 .. 0 = {}
    OBVIOUS
  <2> QED
    BY <2>1, <2>2
<1> QED
  BY <1>2

LEMMA InitLoopInv == Init => LoopInv
<1> SUFFICES ASSUME Init PROVE LoopInv
  OBVIOUS
<1> USE DecodeConstants
<1>1. /\ plan \in Plans /\ pc = "stage" /\ token = 0 /\ idx = 1 /\ th = 1 /\ lat = 0
      /\ cache = <<>> /\ used = 0 /\ pinned = {} /\ scores = <<>> /\ session_pinned = {}
      /\ budget = StageRoom /\ t_stage = 0 /\ stage_finish = <<>>
      /\ threads = Idle /\ nand_free = 0 /\ fetched = {}
      /\ link = FreshLink /\ landed = {} /\ stalled = {}
  BY DEF Init
<1>2. /\ plan.cap \in Nat /\ Len(layers) \in Nat /\ DOMAIN layers = 1 .. Len(layers)
      /\ BytesIn({}) = 0 /\ StageTime({}) = 0
  BY <1>1, PlanTypes, NothingStaged
<1>3. InOrder(cache) /\ DOMAIN cache = {} /\ DOMAIN scores = {} /\ DOMAIN stage_finish = {}
      /\ stage_finish \in [session_pinned -> Nat]
  <2>1. <<>> \in [{} -> Nat \ {0}] /\ <<>> \in [{} -> Nat]
    BY EmptyFunction
  <2> QED
    BY <1>1, <2>1, EmptyFunction DEF InOrder, IsInjective
<1>4. CacheOK
  BY <1>1, <1>2, <1>3 DEF CacheOK
<1>5. budget \in Nat
  BY <1>1, <1>2 DEF StageRoom
<1>6. threads \in [1 .. Threads -> [busy : Nat, task : DOMAIN layers \cup {NoTask}]]
      /\ \A t \in 1 .. Threads : threads[t].task = NoTask
  BY <1>1 DEF Idle
<1>7. TypeOK
  <2>1. token \in 0 .. Tokens /\ idx \in 1 .. (Len(layers) + 1) /\ th \in 1 .. (Threads + 1)
    BY <1>1, <1>2
  <2>2. \A s \in {DOMAIN cache, pinned, session_pinned, DOMAIN scores, fetched, landed, stalled} :
          s \subseteq DOMAIN layers
    BY <1>1, <1>3
  <2> QED
    BY <1>1, <1>3, <1>5, <1>6, <2>1, <2>2, FreshLinkIsIdle DEF TypeOK, InOrder
<1>8. StagedRight
  BY <1>1, <1>2, <1>3 DEF StagedRight, StageRoom
<1>9. NoRoomLeft
  BY <1>1, <1>2, <1>3 DEF NoRoomLeft
<1>10. ChainsEndNow
  BY <1>1 DEF ChainsEndNow
<1>11. ThreadsRight
  BY <1>1, <1>6 DEF ThreadsRight, PrefetchesApart, NoPrefetchOverwritten
<1> QED
  BY <1>4, <1>7, <1>8, <1>9, <1>10, <1>11, InitLinkInv DEF LoopInv

\* Phase 1 stages a layer it has room for: nothing is evicted for it.
LEMMA StagedLayerEnters ==
  ASSUME LoopInv, Stage, OnNand(idx), StageFits(idx)
  PROVE  /\ plan.warmup /\ idx \in DOMAIN layers \ session_pinned
         /\ used' = used + Bytes(idx) /\ DOMAIN cache' = session_pinned \cup {idx}
         /\ CacheOK' /\ StagedRight' /\ budget' \in Nat
         /\ BytesIn(session_pinned \cup {idx}) = BytesIn(session_pinned) + Bytes(idx)
         /\ stage_finish' \in [session_pinned' -> Nat] /\ t_stage' \in Nat
<1> DEFINE staged == session_pinned \cup {idx}
<1>1. /\ plan \in Plans /\ CacheOK /\ TypeOK /\ StagedRight /\ NoRoomLeft /\ pc = "stage"
      /\ idx <= Len(layers) /\ idx \in 1 .. (Len(layers) + 1)
  BY DEF LoopInv, Stage, TypeOK
<1>2. /\ idx \in DOMAIN layers /\ plan.cap \in Nat /\ Bytes(idx) \in Nat \ {0}
      /\ layers[idx].nandTime \in Nat /\ DOMAIN layers = 1 .. Len(layers)
  BY <1>1, PlanTypes, LayerTypes
<1>3. /\ DOMAIN stage_finish = session_pinned /\ session_pinned \subseteq 1 .. (idx - 1)
      /\ DOMAIN cache = session_pinned /\ used = BytesIn(session_pinned)
      /\ budget = (IF plan.warmup THEN plan.cap - used ELSE 0)
      /\ t_stage = StageTime(session_pinned) /\ lat = 0
      /\ \A l \in session_pinned : stage_finish[l] = StageTime({m \in session_pinned : m <= l})
  BY <1>1 DEF StagedRight
<1>4. session_pinned \subseteq DOMAIN layers /\ idx \notin session_pinned /\ used \in Nat
  BY <1>1, <1>2, <1>3 DEF CacheOK
<1>5. Bytes(idx) <= budget
  BY DEF StageFits
<1>6. plan.warmup /\ used + Bytes(idx) <= plan.cap
  BY <1>2, <1>3, <1>4, <1>5, SMTT(60)
<1>7. /\ budget' = budget - Bytes(idx) /\ t_stage' = t_stage + layers[idx].nandTime
      /\ stage_finish' = [l \in DOMAIN stage_finish \cup {idx} |->
                                IF l = idx THEN t_stage' ELSE stage_finish[l]]
      /\ Add(idx) /\ session_pinned' = staged
      /\ idx' = idx + 1 /\ plan' = plan /\ pc' = pc /\ lat' = lat
  BY DEF Stage
<1>8. used' = used + Bytes(idx) /\ DOMAIN cache' = staged
  BY <1>1, <1>2, <1>3, <1>6, <1>7, AddWithRoom
<1>9. BytesIn(staged) = BytesIn(session_pinned) + Bytes(idx)
  BY <1>1, <1>2, <1>4, BytesInTake
<1>10. [Next]_vars
  BY DEF Next
<1>11. CacheOK'
  <2>1. /\ DOMAIN cache' \subseteq DOMAIN layers /\ InOrder(cache')
        /\ used' \in Nat /\ BytesIn(DOMAIN cache') <= used' /\ used' <= plan.cap
    BY <1>1, <1>2, <1>7, AddKeepsCache
  <2>2. session_pinned' \subseteq DOMAIN cache'
    BY <1>7, <1>8
  <2>3. BytesIn(DOMAIN cache)' = BytesIn(DOMAIN cache')
    BY <1>10, NoStepMovesPlan DEF BytesIn, Bytes
  <2>4. InOrder(cache)'
    BY <2>1 DEF InOrder, IsInjective
  <2>5. layers' = layers
    BY <1>10, NoStepMovesPlan
  <2> QED
    BY <2>1, <2>2, <2>3, <2>4, <2>5, <1>7 DEF CacheOK
<1>12. budget' \in Nat /\ budget' = plan.cap - used'
  <2>1. budget = plan.cap - used
    BY <1>3, <1>6
  <2> QED
    BY <2>1, <1>2, <1>4, <1>5, <1>7, <1>8, SMTT(60)
<1>13. StageTime(session_pinned) \in Nat /\ StageTime(staged) = StageTime(session_pinned) + layers[idx].nandTime
  BY <1>1, <1>2, <1>4, StageTimeTakes
<1>14. t_stage' = StageTime(staged) /\ t_stage' \in Nat
  BY <1>3, <1>7, <1>13, <1>2, SMTT(60)
<1>15. ASSUME NEW l \in staged
       PROVE  stage_finish'[l] = StageTime({m \in staged : m <= l})
  <2>1. CASE l = idx
    <3>1. {m \in staged : m <= l} = staged
      BY <1>1, <1>3, <2>1, SMTT(60)
    <3>2. stage_finish'[l] = t_stage'
      BY <1>7, <2>1
    <3> QED
      BY <3>1, <3>2, <1>14
  <2>2. CASE l # idx
    <3>1. l \in session_pinned
      BY <1>15, <2>2
    <3>2. {m \in staged : m <= l} = {m \in session_pinned : m <= l}
      BY <1>1, <1>3, <3>1
    <3>3. stage_finish'[l] = stage_finish[l]
      BY <1>3, <1>7, <2>2, <3>1
    <3> QED
      BY <3>1, <3>2, <3>3, <1>3
  <2> QED
    BY <2>1, <2>2
<1>16. DOMAIN stage_finish' = staged /\ stage_finish' \in [session_pinned' -> Nat]
  <2>1. \A l \in session_pinned : stage_finish[l] \in Nat
    BY <1>1 DEF TypeOK
  <2>2. DOMAIN stage_finish \cup {idx} = staged
    BY <1>3
  <2> QED
    BY <2>1, <2>2, <1>7, <1>14
<1>17. StagedRight'
  <2>1. layers' = layers /\ plan' = plan
    BY <1>10, NoStepMovesPlan
  <2>2. \A S : StageTime(S)' = StageTime(S)
    BY <2>1 DEF StageTime
  <2>3. \A S : BytesIn(S)' = BytesIn(S)
    BY <1>10, NoStepMovesPlan
  <2>4. DOMAIN stage_finish' = session_pinned'
    BY <1>7, <1>16
  <2>5. \A l \in session_pinned' : stage_finish'[l] = (StageTime({m \in session_pinned : m <= l}))'
    <3> SUFFICES ASSUME NEW l \in session_pinned'
                 PROVE  stage_finish'[l] = (StageTime({m \in session_pinned : m <= l}))'
      OBVIOUS
    <3>1. (StageTime({m \in session_pinned : m <= l}))' = StageTime({m \in staged : m <= l})
      BY <1>7, <2>1 DEF StageTime
    <3> QED
      BY <3>1, <1>7, <1>15
  <2>6. session_pinned' \subseteq 1 .. (idx' - 1)
    BY <1>1, <1>3, <1>7
  <2>7. used' = BytesIn(session_pinned)'
    <3>1. BytesIn(session_pinned)' = BytesIn(staged)
      BY <1>7, <2>3
    <3> QED
      BY <3>1, <1>3, <1>8, <1>9
  <2>8. t_stage' = StageTime(session_pinned)'
    <3>1. StageTime(session_pinned)' = StageTime(staged)
      BY <1>7, <2>2
    <3> QED
      BY <3>1, <1>14
  <2>9. /\ DOMAIN cache' = session_pinned' /\ lat' = 0
        /\ budget' = IF plan'.warmup THEN plan'.cap - used' ELSE 0
    BY <1>3, <1>6, <1>7, <1>8, <1>12, <2>1
  <2> QED
    BY <2>4, <2>5, <2>6, <2>7, <2>8, <2>9 DEF StagedRight
<1> QED
  BY <1>2, <1>4, <1>6, <1>8, <1>9, <1>11, <1>12, <1>14, <1>16, <1>17

LEMMA HarvestedTask ==
  ASSUME LoopInv, Harvest
  PROVE  \/ UNCHANGED <<cache, used, landed, threads>> /\ ~Completed(th)
         \/ /\ Completed(th) /\ Add(threads[th].task) /\ th \in 1 .. Threads
            /\ threads[th].task \in DOMAIN layers /\ OnNand(threads[th].task)
            /\ landed' = landed \cup {threads[th].task}
            /\ threads' = [threads EXCEPT ![th].task = NoTask]
<1>1. TypeOK /\ ThreadsRight
  BY DEF LoopInv
<1>2. th \in 1 .. (Threads + 1) /\ th <= Threads
  BY <1>1 DEF Harvest, TypeOK
<1>3. th \in 1 .. Threads
  BY <1>2, DecodeConstants
<1>4. Completed(th) => threads[th].task \in DOMAIN layers /\ OnNand(threads[th].task)
  BY <1>1, <1>3 DEF Completed, TypeOK, ThreadsRight
<1> QED
  BY <1>3, <1>4 DEF Harvest

LEMMA NextKeepsCache == ASSUME LoopInv, [Next]_vars PROVE CacheOK'
<1>1. /\ plan \in Plans /\ CacheOK /\ layers' = layers /\ plan' = plan
      /\ BytesIn(DOMAIN cache)' = BytesIn(DOMAIN cache')
  <2>1. plan' = plan /\ layers' = layers
    BY NoStepMovesPlan
  <2>2. BytesIn(DOMAIN cache)' = BytesIn(DOMAIN cache')
    BY <2>1 DEF BytesIn, Bytes
  <2> QED
    BY <2>1, <2>2 DEF LoopInv, TypeOK
<1>2. ASSUME DOMAIN cache' \subseteq DOMAIN layers, InOrder(cache'), used' \in Nat,
             BytesIn(DOMAIN cache') <= used', used' <= plan.cap,
             session_pinned' \subseteq DOMAIN cache'
      PROVE  CacheOK'
  <2>1. InOrder(cache)'
    BY <1>2 DEF InOrder, IsInjective
  <2> QED
    BY <1>1, <1>2, <2>1 DEF CacheOK
<1>3. ASSUME UNCHANGED <<cache, used, session_pinned>> PROVE CacheOK'
  BY <1>1, <1>2, <1>3 DEF CacheOK
<1>4. CASE Stage
  <2>1. CASE OnNand(idx) /\ StageFits(idx)
    BY <1>4, <2>1, StagedLayerEnters
  <2>2. CASE ~(OnNand(idx) /\ StageFits(idx))
    BY <1>3, <1>4, <2>2 DEF Stage
  <2> QED
    BY <2>1, <2>2
<1>5. CASE Harvest
  <2>1. session_pinned' = session_pinned
    BY <1>5 DEF Harvest
  <2>2. CASE UNCHANGED <<cache, used>>
    BY <1>3, <2>1, <2>2
  <2>3. CASE Completed(th) /\ Add(threads[th].task) /\ threads[th].task \in DOMAIN layers
    BY <1>1, <1>2, <2>1, <2>3, AddKeepsCache
  <2> QED
    BY <1>5, <2>2, <2>3, HarvestedTask
<1>6. CASE ~Stage /\ ~Harvest
  BY <1>3, <1>6, OtherStepsLeaveCache
<1> QED
  BY <1>4, <1>5, <1>6

LEMMA NextKeepsStaged == ASSUME LoopInv, [Next]_vars PROVE StagedRight'
<1>1. plan \in Plans /\ StagedRight /\ TypeOK /\ layers' = layers /\ plan' = plan
  BY NoStepMovesPlan DEF LoopInv, TypeOK
<1>2. ASSUME UNCHANGED <<session_pinned, stage_finish>>,
             pc' = "stage" => /\ pc = "stage" /\ idx' \in {idx, idx + 1}
                              /\ UNCHANGED <<used, budget, t_stage, cache, lat>>
      PROVE  StagedRight'
  <2>1. \A S : BytesIn(S)' = BytesIn(S)
    BY NoStepMovesPlan
  <2>2. BytesIn(session_pinned)' = BytesIn(session_pinned)
    BY <1>2, <2>1
  <2>3. StageTime(session_pinned)' = StageTime(session_pinned)
    BY <1>1, <1>2 DEF StageTime
  <2>4. ASSUME NEW l \in session_pinned
        PROVE  (StageTime({m \in session_pinned : m <= l}))' = StageTime({m \in session_pinned : m <= l})
    BY <1>1, <1>2 DEF StageTime
  <2>5. pc' = "stage" => session_pinned' \subseteq 1 .. (idx' - 1)
    <3> SUFFICES ASSUME pc' = "stage", NEW l \in session_pinned' PROVE l \in 1 .. (idx' - 1)
      OBVIOUS
    <3>1. idx \in Nat /\ l \in 1 .. (idx - 1) /\ idx' \in {idx, idx + 1}
      BY <1>1, <1>2 DEF StagedRight, TypeOK
    <3>2. CASE idx' = idx
      BY <3>1, <3>2
    <3>3. CASE idx' = idx + 1
      BY <3>1, <3>3
    <3> QED
      BY <3>1, <3>2, <3>3
  <2>6. \A l \in session_pinned' : stage_finish'[l] = (StageTime({m \in session_pinned : m <= l}))'
    BY <1>1, <1>2, <2>4 DEF StagedRight
  <2>7. DOMAIN stage_finish' = session_pinned'
    BY <1>1, <1>2 DEF StagedRight
  <2>8. pc' = "stage" => /\ DOMAIN cache' = session_pinned'
                         /\ used' = BytesIn(session_pinned)'
                         /\ budget' = (IF plan'.warmup THEN plan'.cap - used' ELSE 0)
                         /\ t_stage' = StageTime(session_pinned)' /\ lat' = 0
    BY <1>1, <1>2, <2>2, <2>3 DEF StagedRight
  <2> QED
    BY <2>5, <2>6, <2>7, <2>8 DEF StagedRight
<1>3. CASE Stage
  <2>1. CASE OnNand(idx) /\ StageFits(idx)
    BY <1>3, <2>1, StagedLayerEnters
  <2>2. CASE ~(OnNand(idx) /\ StageFits(idx))
    BY <1>2, <1>3, <2>2 DEF Stage, staging
  <2> QED
    BY <2>1, <2>2
<1>4. CASE UNCHANGED vars
  BY <1>2, <1>4 DEF vars, cacheVars, staging
<1>5. CASE ~Stage /\ Next
  <2>1. pc' # "stage"
    BY <1>5, <1>1 DEF Next, StagingDone, Prefill, PrefillDone, BeginToken, TakePrefetch,
       SkipThread, Serve, Harvest, NextLayer, Finish
  <2>2. UNCHANGED <<session_pinned, stage_finish>>
    <3>1. CASE Harvest
      BY <3>1 DEF Harvest, staging
    <3>2. CASE ~Harvest
      BY <1>5, <3>2, OtherStepsLeaveCache
    <3> QED
      BY <3>1, <3>2
  <2> QED
    BY <1>2, <2>1, <2>2, SMTT(60)
<1> QED
  BY <1>3, <1>4, <1>5

LEMMA NextKeepsNoRoom == ASSUME LoopInv, [Next]_vars PROVE NoRoomLeft'
<1>1. /\ plan \in Plans /\ NoRoomLeft /\ CacheOK /\ StagedRight /\ TypeOK /\ ThreadsRight
      /\ layers' = layers /\ plan' = plan
  BY NoStepMovesPlan DEF LoopInv, TypeOK
<1>2. /\ \A S : BytesIn(S)' = BytesIn(S)
      /\ \A l : OnNand(l)' = OnNand(l) /\ Bytes(l)' = Bytes(l)
  BY NoStepMovesPlan
<1>3. ASSUME session_pinned' = session_pinned, plan.warmup => DOMAIN cache' = session_pinned,
             pc = "stage" => (pc' = "stage" /\ idx' = idx) \/ idx > Len(layers)
      PROVE  NoRoomLeft'
  <2>1. BytesIn(session_pinned)' = BytesIn(session_pinned)
    BY <1>2, <1>3
  <2>2. ASSUME plan.warmup, NEW l \in DOMAIN layers, OnNand(l), l \notin session_pinned',
               pc' = "stage" => l < idx'
        PROVE  BytesIn(session_pinned)' + Bytes(l) > plan.cap
    <3>1. pc = "stage" => l < idx
      <4>1. l \in 1 .. Len(layers) /\ Len(layers) \in Nat /\ idx \in Nat
        BY <1>1, PlanTypes, SMTT(60) DEF TypeOK
      <4>2. CASE pc = "stage" /\ pc' = "stage" /\ idx' = idx
        BY <2>2, <4>2
      <4>3. CASE pc = "stage" /\ idx > Len(layers)
        BY <4>1, <4>3
      <4> QED
        BY <1>3, <4>2, <4>3
    <3> QED
      BY <1>1, <1>3, <2>1, <2>2, <3>1 DEF NoRoomLeft
  <2>3. plan.warmup => DOMAIN cache' = session_pinned'
    BY <1>3
  <2> QED
    BY <1>1, <1>2, <2>2, <2>3 DEF NoRoomLeft
<1>4. CASE Stage
  <2>0. /\ idx' = idx + 1 /\ pc' = pc /\ pc = "stage" /\ idx \in DOMAIN layers
        /\ \A l \in DOMAIN layers : l \in Nat
        /\ plan.cap \in Nat /\ (\A l \in DOMAIN layers : Bytes(l) \in Nat)
    BY <1>1, <1>4, PlanTypes, LayerTypes, SMTT(60) DEF Stage, TypeOK
  <2>1. CASE OnNand(idx) /\ StageFits(idx)
    <3>1. /\ DOMAIN cache' = session_pinned \cup {idx} /\ session_pinned' = session_pinned \cup {idx}
          /\ BytesIn(session_pinned \cup {idx}) = BytesIn(session_pinned) + Bytes(idx)
      BY <1>4, <2>1, StagedLayerEnters DEF Stage
    <3>2. BytesIn(session_pinned)' = BytesIn(session_pinned) + Bytes(idx)
      BY <1>2, <3>1
    <3>3. BytesIn(session_pinned) \in Nat
      BY <1>1, BytesInNat DEF CacheOK
    <3>4. ASSUME plan.warmup, NEW l \in DOMAIN layers, OnNand(l), l \notin session_pinned',
                 l < idx'
          PROVE  BytesIn(session_pinned)' + Bytes(l) > plan.cap
      <4>1. l < idx
        BY <2>0, <3>1, <3>4
      <4>2. BytesIn(session_pinned) + Bytes(l) > plan.cap
        BY <1>1, <3>1, <3>4, <4>1 DEF NoRoomLeft
      <4> QED
        BY <2>0, <3>2, <3>3, <4>2
    <3> QED
      BY <1>1, <1>2, <2>0, <3>1, <3>4 DEF NoRoomLeft
  <2>2. CASE ~(OnNand(idx) /\ StageFits(idx))
    <3>1. UNCHANGED <<cache, used, session_pinned>>
      BY <1>4, <2>2 DEF Stage
    <3>2. BytesIn(session_pinned)' = BytesIn(session_pinned) /\ BytesIn(session_pinned) \in Nat
      BY <1>1, <1>2, <3>1, BytesInNat DEF CacheOK
    <3>3. ASSUME plan.warmup, NEW l \in DOMAIN layers, OnNand(l), l \notin session_pinned',
                 l < idx'
          PROVE  BytesIn(session_pinned)' + Bytes(l) > plan.cap
      <4>1. CASE l < idx
        BY <1>1, <3>1, <3>2, <3>3, <4>1 DEF NoRoomLeft
      <4>2. CASE l = idx
        <5>1. ~(Bytes(idx) <= budget) /\ budget = plan.cap - used
              /\ used = BytesIn(session_pinned)
          BY <1>1, <2>0, <2>2, <3>3, <4>2 DEF StageFits, StagedRight
        <5> QED
          BY <5>1, <4>2, <3>2, <2>0
      <4> QED
        BY <2>0, <3>3, <4>1, <4>2
    <3>4. plan.warmup => DOMAIN cache' = session_pinned'
      BY <1>1, <3>1 DEF NoRoomLeft
    <3> QED
      BY <1>1, <1>2, <2>0, <3>3, <3>4 DEF NoRoomLeft
  <2> QED
    BY <2>1, <2>2
<1>5. CASE Harvest
  <2>1. session_pinned' = session_pinned /\ pc' = "harvest" /\ pc = "harvest"
    BY <1>5 DEF Harvest
  <2>2. plan.warmup => DOMAIN cache' = session_pinned
    <3> SUFFICES ASSUME plan.warmup PROVE DOMAIN cache' = session_pinned
      OBVIOUS
    <3>1. DOMAIN cache = session_pinned
      BY <1>1 DEF NoRoomLeft
    <3>2. CASE UNCHANGED <<cache, used>>
      BY <3>1, <3>2
    <3>3. CASE /\ Add(threads[th].task) /\ threads[th].task \in DOMAIN layers
               /\ OnNand(threads[th].task)
      <4>1. \/ threads[th].task \in session_pinned
            \/ BytesIn(session_pinned) + Bytes(threads[th].task) > plan.cap
        BY <1>1, <2>1, <3>3 DEF NoRoomLeft
      <4> QED
        BY <1>1, <3>1, <3>3, <4>1, AddWithoutRoom
    <3> QED
      BY <1>5, <3>2, <3>3, HarvestedTask
  <2> QED
    BY <1>3, <2>1, <2>2
<1>6. CASE ~Stage /\ ~Harvest
  <2>1. cache' = cache /\ session_pinned' = session_pinned
    BY <1>6, OtherStepsLeaveCache
  <2>2. pc = "stage" => (pc' = "stage" /\ idx' = idx) \/ idx > Len(layers)
    BY <1>6 DEF Next, vars, StagingDone, Prefill, PrefillDone, BeginToken, TakePrefetch,
       SkipThread, Serve, NextLayer, Finish
  <2>3. plan.warmup => DOMAIN cache' = session_pinned
    BY <1>1, <2>1 DEF NoRoomLeft
  <2> QED
    BY <1>3, <2>1, <2>2, <2>3
<1> QED
  BY <1>4, <1>5, <1>6

\* The chains that end with layer i: all layers up to it, or the staging up to some
\* layer and the layers from that one on.
ChainsTo(i) ==
  {RunTime(1 .. i)}
    \cup {StageTime({m \in session_pinned : m <= l}) + RunTime(l .. i)
            : l \in {m \in session_pinned : m <= i}}

LEMMA ChainsAreTo ==
  ASSUME session_pinned \subseteq Nat, idx \in Nat
  PROVE  Chains = ChainsTo(idx - 1)
<1>1. {m \in session_pinned : m < idx} = {m \in session_pinned : m <= idx - 1}
  <2>1. \A m \in session_pinned : m < idx <=> m <= idx - 1
    OBVIOUS
  <2> QED
    BY <2>1
<1> QED
  BY <1>1 DEF Chains, ChainsTo

LEMMA ChainsGrow ==
  ASSUME plan \in Plans, session_pinned \subseteq DOMAIN layers, NEW i \in DOMAIN layers
  PROVE  /\ RunTime(1 .. i) = RunTime(1 .. (i - 1)) + layers[i].prefill[(i \in session_pinned)]
         /\ RunTime(i .. i) = layers[i].prefill[(i \in session_pinned)]
         /\ \A l \in session_pinned : l < i =>
              RunTime(l .. i) = RunTime(l .. (i - 1)) + layers[i].prefill[(i \in session_pinned)]
         /\ RunTime(1 .. (i - 1)) \in Nat
         /\ \A l \in DOMAIN layers : RunTime(l .. (i - 1)) \in Nat
         /\ layers[i].prefill[(i \in session_pinned)] \in Nat
<1>1. DOMAIN layers = 1 .. Len(layers) /\ Len(layers) \in Nat
  BY PlanTypes
<1>2. ASSUME NEW l \in DOMAIN layers, l <= i
      PROVE  /\ RunTime(l .. i) = RunTime(l .. (i - 1)) + layers[i].prefill[(i \in session_pinned)]
             /\ RunTime(l .. (i - 1)) \in Nat
  <2>1. /\ l .. (i - 1) \in SUBSET DOMAIN layers /\ i \in DOMAIN layers \ (l .. (i - 1))
        /\ (l .. (i - 1)) \cup {i} = l .. i
    BY <1>1, <1>2
  <2> QED
    BY <2>1, RunTimeTakes
<1>3. 1 \in DOMAIN layers /\ 1 <= i /\ i <= i
  BY <1>1
<1>4. RunTime(i .. (i - 1)) = 0
  <2>1. i .. (i - 1) = {}
    BY <1>1
  <2> QED
    BY <2>1, NothingStaged
<1>5. layers[i].prefill[(i \in session_pinned)] \in Nat
  <2>1. (i \in session_pinned) \in BOOLEAN
    OBVIOUS
  <2> QED
    BY <2>1, LayerTypes
<1>6. RunTime(i .. i) = layers[i].prefill[(i \in session_pinned)]
  <2> DEFINE run == layers[i].prefill[(i \in session_pinned)]
  <2>1. RunTime(i .. i) = RunTime(i .. (i - 1)) + run
    BY <1>2, <1>3
  <2>2. run \in Nat
    BY <1>5
  <2> HIDE DEF run
  <2>3. RunTime(i .. i) = run
    BY <2>1, <2>2, <1>4
  <2> QED
    BY <2>3 DEF run
<1>7. ASSUME NEW l \in DOMAIN layers PROVE RunTime(l .. (i - 1)) \in Nat
  <2>1. l .. (i - 1) \in SUBSET DOMAIN layers
    BY <1>1
  <2> QED
    BY <2>1, RunTimeTakes
<1>8. RunTime(1 .. i) = RunTime(1 .. (i - 1)) + layers[i].prefill[(i \in session_pinned)]
  BY <1>2, <1>3
<1>9. \A l \in session_pinned : l < i =>
        RunTime(l .. i) = RunTime(l .. (i - 1)) + layers[i].prefill[(i \in session_pinned)]
  <2> SUFFICES ASSUME NEW l \in session_pinned, l < i
               PROVE  RunTime(l .. i) = RunTime(l .. (i - 1)) + layers[i].prefill[(i \in session_pinned)]
    OBVIOUS
  <2>1. l \in DOMAIN layers /\ l <= i
    BY <1>1
  <2> QED
    BY <2>1, <1>2
<1> QED
  BY <1>3, <1>5, <1>6, <1>7, <1>8, <1>9

\* One layer more of prefill: each chain is longer by it, and the layer's staging
\* starts one more.
LEMMA PrefillStep ==
  ASSUME plan \in Plans, session_pinned \subseteq DOMAIN layers, StagedRight,
         NEW i \in DOMAIN layers, NEW t \in Nat,
         t \in ChainsTo(i - 1), \A c \in ChainsTo(i - 1) : c <= t,
         NEW u, u = LaterOf(t, StagedBy(i)) + layers[i].prefill[(i \in session_pinned)]
  PROVE  u \in ChainsTo(i) /\ \A c \in ChainsTo(i) : c <= u
<1> DEFINE run == layers[i].prefill[(i \in session_pinned)]
           st(l) == StageTime({m \in session_pinned : m <= l})
           rt(l, j) == RunTime(l .. j)
<1>1. DOMAIN layers = 1 .. Len(layers) /\ Len(layers) \in Nat /\ i \in Nat
  BY PlanTypes
<1>2. /\ rt(1, i) = rt(1, i - 1) + run /\ rt(i, i) = run /\ run \in Nat
      /\ rt(1, i - 1) \in Nat
      /\ \A l \in session_pinned : /\ l < i => rt(l, i) = rt(l, i - 1) + run
                                   /\ rt(l, i - 1) \in Nat
  BY ChainsGrow
<1>3. \A l : st(l) \in Nat
  <2> SUFFICES ASSUME NEW l PROVE st(l) \in Nat
    OBVIOUS
  <2>1. {m \in session_pinned : m <= l} \in SUBSET DOMAIN layers
    OBVIOUS
  <2> QED
    BY <2>1, StageTimeTakes
<1>4. StagedBy(i) = IF i \in session_pinned THEN st(i) ELSE 0
  BY DEF StagedBy, StagedRight
<1>5. \A j : ChainsTo(j) = {rt(1, j)} \cup {st(l) + rt(l, j) : l \in {m \in session_pinned : m <= j}}
  BY DEF ChainsTo
<1>6. \A l \in session_pinned : l \in Nat
  BY <1>1
<1> HIDE DEF run, st, rt
<1>7. StagedBy(i) \in Nat
  BY <1>3, <1>4
<1>8. LaterOf(t, StagedBy(i)) >= t /\ LaterOf(t, StagedBy(i)) >= StagedBy(i)
      /\ LaterOf(t, StagedBy(i)) \in {t, StagedBy(i)} /\ LaterOf(t, StagedBy(i)) \in Nat
  BY <1>7 DEF LaterOf
<1>9. u = LaterOf(t, StagedBy(i)) + run
  BY DEF run
<1>10. ASSUME NEW c \in ChainsTo(i) PROVE c <= u
  <2>1. CASE c = rt(1, i)
    <3>1. rt(1, i - 1) \in ChainsTo(i - 1)
      BY <1>5
    <3>2. rt(1, i - 1) <= t
      BY <3>1
    <3> QED
      BY <3>2, <2>1, <1>2, <1>8, <1>9
  <2>2. ASSUME NEW l \in session_pinned, l <= i, c = st(l) + rt(l, i) PROVE c <= u
    <3>1. CASE l = i
      <4>1. c = st(i) + run /\ StagedBy(i) = st(i)
        BY <2>2, <3>1, <1>2, <1>4
      <4> QED
        BY <4>1, <1>2, <1>3, <1>8, <1>9
    <3>2. CASE l < i
      <4>1. st(l) + rt(l, i - 1) \in ChainsTo(i - 1)
        <5>1. l <= i - 1
          BY <3>2, <1>1, <1>6
        <5> QED
          BY <5>1, <1>5
      <4>2. st(l) + rt(l, i - 1) <= t
        BY <4>1
      <4>3. c = st(l) + (rt(l, i - 1) + run) /\ rt(l, i - 1) \in Nat /\ st(l) \in Nat
        BY <2>2, <3>2, <1>2, <1>3
      <4> QED
        BY <4>2, <4>3, <1>2, <1>8, <1>9
    <3> QED
      BY <2>2, <3>1, <3>2, <1>1, <1>6
  <2> QED
    BY <2>1, <2>2, <1>5, <1>10
<1>11. u \in ChainsTo(i)
  <2>1. CASE LaterOf(t, StagedBy(i)) = t
    <3>1. u = t + run
      BY <2>1, <1>9
    <3>2. CASE t = rt(1, i - 1)
      <4>1. u = rt(1, i)
        BY <3>1, <3>2, <1>2
      <4> QED
        BY <4>1, <1>5
    <3>3. ASSUME NEW l \in session_pinned, l <= i - 1, t = st(l) + rt(l, i - 1)
          PROVE  u \in ChainsTo(i)
      <4>1. l <= i /\ l < i
        BY <3>3, <1>1, <1>6
      <4>2. rt(l, i) = rt(l, i - 1) + run /\ rt(l, i - 1) \in Nat /\ st(l) \in Nat
        BY <4>1, <1>2, <1>3
      <4>3. u = st(l) + rt(l, i)
        BY <3>1, <3>3, <4>2, <1>2
      <4> QED
        BY <4>1, <4>3, <1>5
    <3> QED
      BY <3>2, <3>3, <1>5
  <2>2. CASE LaterOf(t, StagedBy(i)) # t
    <3>1. LaterOf(t, StagedBy(i)) = StagedBy(i) /\ StagedBy(i) # 0
      BY <2>2, <1>7, <1>8
    <3>2. i \in session_pinned /\ StagedBy(i) = st(i)
      BY <3>1, <1>4
    <3>3. u = st(i) + rt(i, i)
      BY <3>1, <3>2, <1>2, <1>9
    <3>4. i \in {m \in session_pinned : m <= i}
      BY <3>2, <1>1
    <3> QED
      BY <3>3, <3>4, <1>5
  <2> QED
    BY <2>1, <2>2
<1> QED
  BY <1>10, <1>11

LEMMA ChainsAreTimes == ASSUME LoopInv PROVE \A c \in Chains : c \in Int
<1>1. /\ plan \in Plans /\ session_pinned \subseteq DOMAIN layers /\ Len(layers) \in Nat
      /\ DOMAIN layers = 1 .. Len(layers) /\ idx \in 1 .. (Len(layers) + 1)
  BY PlanTypes DEF LoopInv, TypeOK
<1>2. ASSUME NEW l \in DOMAIN layers PROVE RunTime(l .. (idx - 1)) \in Nat
  <2>1. l .. (idx - 1) \in SUBSET DOMAIN layers
    BY <1>1
  <2> QED
    BY <2>1, <1>1, RunTimeTakes
<1>3. RunTime(1 .. (idx - 1)) \in Nat
  <2>1. 1 .. (idx - 1) \in SUBSET DOMAIN layers
    BY <1>1
  <2> QED
    BY <2>1, <1>1, RunTimeTakes
<1>4. ASSUME NEW l \in session_pinned
      PROVE  StageTime({m \in session_pinned : m <= l}) \in Nat
  <2>1. {m \in session_pinned : m <= l} \in SUBSET DOMAIN layers
    BY <1>1
  <2> QED
    BY <2>1, <1>1, StageTimeTakes
<1>5. ASSUME NEW l \in session_pinned
      PROVE  StageTime({m \in session_pinned : m <= l}) + RunTime(l .. (idx - 1)) \in Int
  <2>1. l \in DOMAIN layers
    BY <1>1
  <2>2. RunTime(l .. (idx - 1)) \in Nat
    BY <2>1, <1>2
  <2> QED
    BY <1>4, <2>2
<1> DEFINE whole == RunTime(1 .. (idx - 1))
           chain(l) == StageTime({m \in session_pinned : m <= l}) + RunTime(l .. (idx - 1))
<1>6. Chains = {whole} \cup {chain(l) : l \in {m \in session_pinned : m < idx}}
  BY DEF Chains
<1>7. whole \in Int /\ \A l \in session_pinned : chain(l) \in Int
  BY <1>3, <1>5
<1> HIDE DEF whole, chain
<1> QED
  BY <1>6, <1>7

LEMMA NextKeepsChains == ASSUME LoopInv, [Next]_vars PROVE ChainsEndNow'
<1>1. /\ plan \in Plans /\ TypeOK /\ StagedRight /\ ChainsEndNow /\ CacheOK
      /\ layers' = layers /\ plan' = plan
  BY NoStepMovesPlan DEF LoopInv, TypeOK
<1>2. /\ session_pinned \subseteq DOMAIN layers /\ session_pinned \subseteq Nat
      /\ idx \in Nat /\ lat \in Nat /\ Len(layers) \in Nat
      /\ DOMAIN layers = 1 .. Len(layers)
  BY <1>1, PlanTypes, SMTT(60) DEF TypeOK, CacheOK
<1>3. CASE Prefill
  <2>1. /\ pc = "prefill" /\ idx' = idx + 1 /\ session_pinned' = session_pinned
        /\ lat' = LaterOf(lat, StagedBy(idx)) + layers[idx].prefill[(idx \in session_pinned)]
        /\ idx <= Len(layers)
    BY <1>3 DEF Prefill, cacheVars
  <2>2. idx \in DOMAIN layers
    BY <2>1, <1>1, <1>2 DEF TypeOK
  <2>3. lat \in ChainsTo(idx - 1) /\ \A c \in ChainsTo(idx - 1) : c <= lat
    BY <2>1, <1>1, <1>2, ChainsAreTo DEF ChainsEndNow
  <2>4. lat' \in ChainsTo(idx) /\ \A c \in ChainsTo(idx) : c <= lat'
    BY <2>1, <2>2, <2>3, <1>1, <1>2, PrefillStep
  <2>5. Chains' = ChainsTo(idx)
    <3>1. idx' - 1 = idx /\ \A m \in session_pinned : m < idx' <=> m <= idx
      BY <2>1, <1>2
    <3>2. \A l : (RunTime(l .. (idx - 1)))' = RunTime(l .. idx)
      BY <3>1, <2>1, <1>1 DEF RunTime
    <3>3. \A l : (StageTime({m \in session_pinned : m <= l}))' = StageTime({m \in session_pinned : m <= l})
      BY <2>1, <1>1 DEF StageTime
    <3>4. {m \in session_pinned' : m < idx'} = {m \in session_pinned : m <= idx}
      BY <3>1, <2>1
    <3>5. Chains' = {(RunTime(1 .. (idx - 1)))'}
                      \cup {(StageTime({m \in session_pinned : m <= l}))' + (RunTime(l .. (idx - 1)))'
                              : l \in {m \in session_pinned' : m < idx'}}
      BY DEF Chains
    <3> DEFINE r2(l) == (RunTime(l .. (idx - 1)))'
               s2(l) == (StageTime({m \in session_pinned : m <= l}))'
               r1(l) == RunTime(l .. idx)
               s1(l) == StageTime({m \in session_pinned : m <= l})
               upto2 == {m \in session_pinned' : m < idx'}
               upto1 == {m \in session_pinned : m <= idx}
    <3>6. /\ Chains' = {r2(1)} \cup {s2(l) + r2(l) : l \in upto2}
          /\ ChainsTo(idx) = {r1(1)} \cup {s1(l) + r1(l) : l \in upto1}
      BY <3>5 DEF ChainsTo
    <3>7. (\A l : r2(l) = r1(l) /\ s2(l) = s1(l)) /\ upto2 = upto1
      BY <3>2, <3>3, <3>4
    <3> HIDE DEF r2, s2, r1, s1, upto2, upto1
    <3> QED
      BY <3>6, <3>7
  <2> QED
    BY <2>4, <2>5 DEF ChainsEndNow
<1>4. CASE StagingDone
  <2>1. lat' = lat /\ lat = 0 /\ idx' = 1 /\ session_pinned' = session_pinned
    BY <1>1, <1>4 DEF StagingDone, StagedRight, cacheVars
  <2>2. RunTime({})' = 0
    BY <1>1, SumEmpty DEF RunTime
  <2>3. 1 .. (idx' - 1) = {} /\ {m \in session_pinned : m < idx'} = {}
    <3>1. \A m \in session_pinned : m >= 1
      BY <1>2
    <3>2. \A m \in session_pinned : ~(m < 1)
      BY <3>1, <1>2
    <3> QED
      BY <2>1, <3>2
  <2>4. Chains' = {RunTime({})'}
    BY <2>1, <2>3 DEF Chains, RunTime
  <2> QED
    BY <2>1, <2>2, <2>4 DEF ChainsEndNow
<1>5. CASE ~Prefill /\ ~StagingDone /\ Next
  <2>1. pc' # "prefill"
    BY <1>5 DEF Next, Stage, PrefillDone, BeginToken, TakePrefetch, SkipThread, Serve, Harvest,
       NextLayer, Finish
  <2> QED
    BY <2>1 DEF ChainsEndNow
<1>6. CASE UNCHANGED vars
  <2>1. UNCHANGED <<pc, lat, idx, session_pinned>>
    BY <1>6 DEF vars, cacheVars
  <2>2. Chains' = Chains
    BY <2>1, <1>1 DEF Chains, RunTime, StageTime
  <2> QED
    BY <2>1, <2>2, <1>1 DEF ChainsEndNow
<1> QED
  BY <1>3, <1>4, <1>5, <1>6

\* Of some candidates one goes first.
LEMMA FirstOfIsOne ==
  ASSUME plan \in Plans, NEW C \in SUBSET DOMAIN layers, C # {}
  PROVE  FirstOf(C) \in C
<1> DEFINE first(l, m) == layers[m].score < layers[l].score
                            \/ (layers[m].score = layers[l].score /\ l <= m)
           upto(n) == {l \in C : l <= n}
           T == {n \in Nat : upto(n) = {} \/ \E l \in upto(n) : \A m \in upto(n) : first(l, m)}
<1>1. DOMAIN layers = 1 .. Len(layers) /\ Len(layers) \in Nat
      /\ \A l \in C : l \in Nat \ {0} /\ l <= Len(layers) /\ layers[l].score \in Nat
  BY PlanTypes, LayerTypes
<1>2. 0 \in T
  <2>1. upto(0) = {}
    BY <1>1
  <2> QED
    BY <2>1
<1>3. ASSUME NEW n \in Nat, n \in T PROVE n + 1 \in T
  <2>1. \A l \in C : l <= n + 1 <=> l <= n \/ l = n + 1
    BY <1>1
  <2>2. CASE n + 1 \notin C
    <3>1. upto(n + 1) = upto(n)
      BY <2>1, <2>2
    <3> QED
      BY <3>1, <1>3
  <2>3. CASE n + 1 \in C
    <3>1. upto(n + 1) = upto(n) \cup {n + 1}
      BY <2>1, <2>3
    <3>2. first(n + 1, n + 1)
      OBVIOUS
    <3>3. CASE upto(n) = {}
      <4>1. upto(n + 1) = {n + 1}
        BY <3>1, <3>3
      <4> HIDE DEF upto, first
      <4> QED
        BY <4>1, <3>2
    <3>4. ASSUME NEW l \in upto(n), \A m \in upto(n) : first(l, m)
          PROVE  n + 1 \in T
      <4>1. /\ l \in Nat /\ l <= n /\ l \in C
            /\ layers[l].score \in Nat /\ layers[n + 1].score \in Nat
        BY <1>1, <2>3
      <4>2. CASE layers[n + 1].score <= layers[l].score
        <5>1. first(l, n + 1)
          BY <4>1, <4>2
        <5>2. \A m \in upto(n + 1) : first(l, m)
          <6> HIDE DEF first, upto
          <6> QED
            BY <5>1, <3>1, <3>4
        <5>3. l \in upto(n + 1)
          BY <3>1
        <5> QED
          BY <5>2, <5>3
      <4>3. CASE layers[n + 1].score > layers[l].score
        <5>1. ASSUME NEW m \in upto(n) PROVE first(n + 1, m)
          <6>1. layers[m].score \in Nat /\ first(l, m)
            BY <1>1, <3>4
          <6> QED
            BY <6>1, <4>1, <4>3
        <5>2. \A m \in upto(n + 1) : first(n + 1, m)
          <6> HIDE DEF first, upto
          <6> QED
            BY <5>1, <3>1, <3>2
        <5>3. n + 1 \in upto(n + 1)
          BY <3>1
        <5> QED
          BY <5>2, <5>3
      <4> QED
        BY <4>1, <4>2, <4>3
    <3> QED
      BY <3>3, <3>4, <1>3
  <2> QED
    BY <2>2, <2>3
<1>4. Len(layers) \in T
  <2> HIDE DEF T
  <2> QED
    BY <1>1, <1>2, <1>3, NaturalsByInduction
<1>5. upto(Len(layers)) = C
  BY <1>1
<1>6. \E l \in C : \A m \in C : first(l, m)
  BY <1>4, <1>5
<1> QED
  BY <1>6 DEF FirstOf

\* A prefetch that starts is of a layer not yet fetched in this token, and starts
\* when the link is free.
LEMMA PrefetchTaken ==
  ASSUME LoopInv, TakePrefetch
  PROVE  \E l \in DOMAIN layers \ fetched, start \in Nat :
           /\ OnNand(l) /\ start >= nand_free /\ th \in 1 .. Threads
           /\ fetched' = fetched \cup {l}
           /\ nand_free' = start + layers[l].nandTime
           /\ threads' = [threads EXCEPT ![th] = [busy |-> start + layers[l].nandTime, task |-> l]]
           /\ scores' = [x \in DOMAIN scores \cup {l} |->
                           IF x = l THEN layers[l].score ELSE scores[x]]
           /\ pinned' \in {pinned \cup {l}, pinned \ {l}}
<1> DEFINE l == FirstOf(Candidates)
<1>1. plan \in Plans /\ TypeOK /\ th \in 1 .. Threads
  <2>1. plan \in Plans /\ TypeOK /\ th \in 1 .. (Threads + 1) /\ th <= Threads
    BY DEF LoopInv, TypeOK, TakePrefetch
  <2> QED
    BY <2>1, DecodeConstants
<1>2. Candidates \subseteq DOMAIN layers /\ Candidates # {}
  BY DEF Candidates, TakePrefetch
<1>3. l \in Candidates
  BY <1>1, <1>2, FirstOfIsOne
<1>4. l \in DOMAIN layers /\ OnNand(l) /\ l \notin fetched
  BY <1>3 DEF Candidates
<1>5. PrefetchStart(th) \in Nat /\ PrefetchStart(th) >= nand_free
  <2>1. lat \in Nat /\ threads[th].busy \in Nat /\ nand_free \in Nat
    BY <1>1 DEF TypeOK
  <2> QED
    BY <2>1 DEF PrefetchStart, LaterOf
<1>6. /\ fetched' = fetched \cup {l}
      /\ nand_free' = PrefetchStart(th) + layers[l].nandTime
      /\ threads' = [threads EXCEPT ![th] = [busy |-> PrefetchStart(th) + layers[l].nandTime, task |-> l]]
      /\ scores' = [x \in DOMAIN scores \cup {l} |->
                           IF x = l THEN layers[l].score ELSE scores[x]]
      /\ pinned' \in {pinned \cup {l}, pinned \ {l}}
  BY DEF TakePrefetch
<1> HIDE DEF l
<1> QED
  BY <1>1, <1>4, <1>5, <1>6

\* Threads that stay as they are keep what is true of them.
LEMMA SameThreads ==
  ASSUME ThreadsRight, UNCHANGED <<plan, threads, fetched, nand_free>>
  PROVE  /\ \A t \in 1 .. Threads : threads'[t].task # NoTask =>
              /\ threads'[t].task \in fetched' /\ OnNand(threads'[t].task)
              /\ threads'[t].busy <= nand_free'
         /\ PrefetchesApart'
<1>1. layers' = layers
  BY DEF layers
<1>2. PrefetchesApart'
  BY <1>1 DEF ThreadsRight, PrefetchesApart, Read
<1> QED
  BY <1>2 DEF ThreadsRight

LEMMA NextKeepsThreads == ASSUME LoopInv, [Next]_vars PROVE ThreadsRight'
<1>1. /\ plan \in Plans /\ TypeOK /\ ThreadsRight /\ layers' = layers /\ plan' = plan
      /\ (\A l : OnNand(l)' = OnNand(l))
  BY NoStepMovesPlan DEF LoopInv, TypeOK
<1>2. /\ threads \in [1 .. Threads -> [busy : Nat, task : DOMAIN layers \cup {NoTask}]]
      /\ th \in Nat /\ Threads \in Nat /\ lat \in Nat /\ nand_free \in Nat
      /\ fetched \subseteq DOMAIN layers
  BY <1>1, DecodeConstants, SMTT(60) DEF TypeOK
<1>3. ASSUME UNCHANGED <<threads, fetched, nand_free>>,
             pc' = "prefetch" => \A t \in 1 .. Threads :
               threads[t].busy <= lat' /\ t >= th' => threads[t].task = NoTask,
             pc' = "harvest" => \A t \in 1 .. Threads :
               t < th' /\ threads[t].busy <= lat' => threads[t].task = NoTask
      PROVE  ThreadsRight'
  <2>1. /\ \A t \in 1 .. Threads : threads'[t].task # NoTask =>
             /\ threads'[t].task \in fetched' /\ OnNand(threads'[t].task)
             /\ threads'[t].busy <= nand_free'
        /\ PrefetchesApart'
    BY <1>1, <1>3, SameThreads
  <2>2. NoPrefetchOverwritten'
    BY <1>3 DEF NoPrefetchOverwritten
  <2> QED
    BY <1>1, <1>3, <2>1, <2>2 DEF ThreadsRight
<1>4. CASE BeginToken
  <2>1. \A t \in 1 .. Threads : threads'[t].task = NoTask
    BY <1>4 DEF BeginToken, Idle
  <2>2. pc' # "harvest"
    BY <1>4 DEF BeginToken
  <2> QED
    BY <2>1, <2>2 DEF ThreadsRight, PrefetchesApart, NoPrefetchOverwritten
<1>5. CASE TakePrefetch
  <2>1. PICK l \in DOMAIN layers \ fetched, start \in Nat :
           /\ OnNand(l) /\ start >= nand_free /\ th \in 1 .. Threads
           /\ fetched' = fetched \cup {l}
           /\ nand_free' = start + layers[l].nandTime
           /\ threads' = [threads EXCEPT ![th] = [busy |-> start + layers[l].nandTime, task |-> l]]
    BY <1>5, PrefetchTaken
  <2>2. /\ pc = "prefetch" /\ pc' = "prefetch" /\ lat' = lat /\ th' = th + 1
    BY <1>5 DEF TakePrefetch
  <2>3. layers[l].nandTime \in Nat \ {0}
    BY <1>1, LayerTypes
  <2> DEFINE end == start + layers[l].nandTime
  <2>4. end \in Nat /\ end >= nand_free /\ end > start
        /\ end - layers[l].nandTime = start
    BY <2>1, <2>3, <1>2, SMTT(60)
  <2>5. /\ threads'[th].task = l /\ threads'[th].busy = end
        /\ \A t \in 1 .. Threads : t # th => threads'[t] = threads[t]
    BY <2>1, <1>2
  <2>6. ASSUME NEW t \in 1 .. Threads, threads'[t].task # NoTask
        PROVE  /\ threads'[t].task \in fetched' /\ OnNand(threads'[t].task)
               /\ threads'[t].busy <= nand_free'
    <3>1. CASE t = th
      BY <3>1, <2>1, <2>4, <2>5
    <3>2. CASE t # th
      <4>1. threads'[t] = threads[t] /\ threads[t].busy \in Nat /\ threads[t].task \in fetched
            /\ OnNand(threads[t].task) /\ threads[t].busy <= nand_free
        BY <3>2, <2>5, <2>6, <1>1, <1>2 DEF ThreadsRight
      <4> HIDE DEF end
      <4>2. nand_free' = end
        BY <2>1 DEF end
      <4> QED
        BY <4>1, <4>2, <2>1, <2>4, <1>2, SMTT(60)
    <3> QED
      BY <3>1, <3>2
  <2>7. ASSUME NEW t \in 1 .. Threads, t # th, threads[t].task # NoTask
        PROVE  /\ threads[t].task # l
               /\ ((threads[t].busy - layers[threads[t].task].nandTime) .. (threads[t].busy - 1))
                    \cap (start .. (end - 1)) = {}
    <3>1. threads[t].task \in fetched /\ threads[t].busy <= nand_free /\ threads[t].busy \in Nat
          /\ threads[t].task \in DOMAIN layers
      BY <2>7, <1>1, <1>2 DEF ThreadsRight
    <3>2. threads[t].task # l
      BY <3>1, <2>1
    <3>3. layers[threads[t].task].nandTime \in Nat
      BY <3>1, <1>1, LayerTypes
    <3>4. threads[t].busy - 1 < start
      BY <3>1, <2>1, <1>2, SMTT(60)
    <3> HIDE DEF end
    <3> QED
      BY <3>1, <3>2, <3>3, <3>4, <2>4
  <2>8. PrefetchesApart'
    <3> SUFFICES ASSUME NEW t \in 1 .. Threads, NEW u \in 1 .. Threads, t # u,
                        threads'[t].task # NoTask, threads'[u].task # NoTask
                 PROVE  /\ threads'[t].task # threads'[u].task
                        /\ ((threads'[t].busy - layers[threads'[t].task].nandTime) .. (threads'[t].busy - 1))
                             \cap ((threads'[u].busy - layers[threads'[u].task].nandTime) .. (threads'[u].busy - 1)) = {}
      BY <1>1 DEF PrefetchesApart, Read
    <3>1. CASE t = th
      <4>1. threads'[u] = threads[u] /\ threads[u].task # l
            /\ ((threads[u].busy - layers[threads[u].task].nandTime) .. (threads[u].busy - 1))
                    \cap (start .. (end - 1)) = {}
        BY <3>1, <2>5, <2>7
      <4>2. threads'[t].busy = end /\ threads'[t].task = l /\ end - layers[l].nandTime = start
        BY <3>1, <2>4, <2>5
      <4> HIDE DEF end
      <4> QED
        BY <4>1, <4>2
    <3>2. CASE u = th
      <4>1. threads'[t] = threads[t] /\ threads[t].task # l
            /\ ((threads[t].busy - layers[threads[t].task].nandTime) .. (threads[t].busy - 1))
                    \cap (start .. (end - 1)) = {}
        BY <3>2, <2>5, <2>7
      <4>2. threads'[u].busy = end /\ threads'[u].task = l /\ end - layers[l].nandTime = start
        BY <3>2, <2>4, <2>5
      <4> HIDE DEF end
      <4> QED
        BY <4>1, <4>2
    <3>3. CASE t # th /\ u # th
      BY <3>3, <2>5, <1>1 DEF ThreadsRight, PrefetchesApart, Read
    <3> QED
      BY <3>1, <3>2, <3>3
  <2>9. NoPrefetchOverwritten'
    <3> SUFFICES ASSUME NEW t \in 1 .. Threads, threads'[t].busy <= lat', t >= th'
                 PROVE  threads'[t].task = NoTask
      BY DEF NoPrefetchOverwritten
    <3>1. t # th /\ t >= th
      BY <2>2, <1>2
    <3> QED
      BY <3>1, <2>2, <2>5, <1>1 DEF ThreadsRight, NoPrefetchOverwritten
  <2> HIDE DEF end
  <2> QED
    BY <1>1, <2>2, <2>6, <2>8, <2>9 DEF ThreadsRight
<1>6. CASE SkipThread
  <2>1. /\ UNCHANGED <<threads, fetched, nand_free>> /\ pc = "prefetch" /\ pc' = "prefetch"
        /\ th' = th + 1 /\ lat' = lat
    BY <1>6 DEF SkipThread, ioVars
  <2>2. \A t \in 1 .. Threads : t >= th' => t >= th
    BY <2>1, <1>2
  <2> QED
    BY <1>1, <1>3, <2>1, <2>2 DEF ThreadsRight, NoPrefetchOverwritten
<1>7. CASE Serve
  <2>1. UNCHANGED <<threads, fetched, nand_free>> /\ pc' = "harvest" /\ th' = 1
    BY <1>7 DEF Serve, ioVars
  <2>2. \A t \in 1 .. Threads : ~(t < th')
    BY <2>1
  <2> QED
    BY <1>3, <2>1, <2>2
<1>8. CASE Harvest
  <2>1. /\ pc = "harvest" /\ pc' = "harvest" /\ th' = th + 1 /\ lat' = lat
        /\ UNCHANGED <<fetched, nand_free>>
    BY <1>8 DEF Harvest
  <2>2. CASE UNCHANGED threads /\ ~Completed(th)
    <3>1. \A t \in 1 .. Threads : t < th' => t < th \/ t = th
      BY <2>1, <1>2
    <3>2. threads[th].busy <= lat => threads[th].task = NoTask
      BY <2>2 DEF Completed
    <3>3. \A t \in 1 .. Threads : t < th' /\ threads[t].busy <= lat' => threads[t].task = NoTask
      BY <3>1, <3>2, <2>1, <1>1 DEF ThreadsRight
    <3> QED
      BY <1>3, <2>1, <2>2, <3>3
  <2>3. CASE threads' = [threads EXCEPT ![th].task = NoTask] /\ th \in 1 .. Threads
    <3>1. /\ threads'[th].task = NoTask
          /\ \A t \in 1 .. Threads : t # th => threads'[t] = threads[t]
      BY <2>3, <1>2
    <3>2. ASSUME NEW t \in 1 .. Threads, threads'[t].task # NoTask
          PROVE  t # th /\ threads'[t] = threads[t]
      BY <3>1, <3>2
    <3>3. \A t \in 1 .. Threads : threads'[t].task # NoTask =>
               threads'[t].task \in fetched' /\ OnNand(threads'[t].task)
                 /\ threads'[t].busy <= nand_free'
      BY <3>2, <2>1, <1>1 DEF ThreadsRight
    <3>4. PrefetchesApart'
      BY <3>2, <1>1 DEF ThreadsRight, PrefetchesApart, Read
    <3>5. \A t \in 1 .. Threads : t < th' /\ threads'[t].busy <= lat' => threads'[t].task = NoTask
      <4> SUFFICES ASSUME NEW t \in 1 .. Threads, t < th', threads'[t].busy <= lat'
                   PROVE  threads'[t].task = NoTask
        OBVIOUS
      <4>1. CASE t = th
        BY <4>1, <3>1
      <4>2. CASE t # th
        <5>1. t < th /\ threads'[t] = threads[t]
          BY <4>2, <2>1, <3>1, <1>2
        <5> QED
          BY <5>1, <2>1, <1>1 DEF ThreadsRight
      <4> QED
        BY <4>1, <4>2
    <3> QED
      BY <1>1, <2>1, <3>3, <3>4, <3>5 DEF ThreadsRight, NoPrefetchOverwritten
  <2> QED
    BY <1>8, <2>2, <2>3, HarvestedTask
<1>9. CASE NextLayer
  <2>1. /\ UNCHANGED <<threads, fetched, nand_free>> /\ pc = "harvest" /\ th > Threads
        /\ pc' # "harvest" /\ lat' = lat
    BY <1>9 DEF NextLayer, ioVars
  <2>2. \A t \in 1 .. Threads : t < th
    BY <2>1, <1>2
  <2>3. \A t \in 1 .. Threads : threads[t].busy <= lat' => threads[t].task = NoTask
    BY <2>1, <2>2, <1>1 DEF ThreadsRight
  <2> QED
    BY <1>3, <2>1, <2>3
<1>10. CASE Stage \/ StagingDone \/ Prefill \/ PrefillDone \/ Finish
  <2>1. UNCHANGED <<threads, fetched, nand_free>> /\ pc' \notin {"prefetch", "harvest"}
    BY <1>10 DEF Stage, StagingDone, Prefill, PrefillDone, Finish, ioVars
  <2> QED
    BY <1>3, <2>1
<1>11. CASE UNCHANGED vars
  BY <1>1, <1>3, <1>11 DEF vars, ioVars, ThreadsRight, NoPrefetchOverwritten
<1> QED
  BY <1>4, <1>5, <1>6, <1>7, <1>8, <1>9, <1>10, <1>11 DEF Next

LEMMA SetsOfLayers ==
  ASSUME TypeOK
  PROVE  /\ plan \in Plans /\ idx \in 1 .. (Len(layers) + 1) /\ th \in 1 .. (Threads + 1)
         /\ token \in 0 .. Tokens /\ Tokens \in Nat /\ Threads \in Nat \ {0}
         /\ Len(layers) \in Nat /\ DOMAIN layers = 1 .. Len(layers)
         /\ DOMAIN cache \subseteq DOMAIN layers /\ pinned \subseteq DOMAIN layers
         /\ session_pinned \subseteq DOMAIN layers /\ DOMAIN scores \subseteq DOMAIN layers
         /\ fetched \subseteq DOMAIN layers /\ landed \subseteq DOMAIN layers
         /\ stalled \subseteq DOMAIN layers
<1>1. \A s \in {DOMAIN cache, pinned, session_pinned, DOMAIN scores, fetched, landed, stalled} :
        s \subseteq DOMAIN layers
  BY DEF TypeOK
<1> QED
  BY <1>1, DecodeConstants, PlanTypes DEF TypeOK

\* The counters of the loops stay in range.
LEMMA NextKeepsCounters ==
  ASSUME LoopInv, [Next]_vars
  PROVE  /\ pc' \in {"stage", "prefill", "token", "prefetch", "harvest", "done"}
         /\ token' \in 0 .. Tokens /\ idx' \in 1 .. (Len(layers) + 1)
         /\ th' \in 1 .. (Threads + 1)
         /\ pc' \in {"prefetch", "harvest"} => idx' <= Len(layers) /\ token' < Tokens
<1>1. TypeOK /\ pc \in {"stage", "prefill", "token", "prefetch", "harvest", "done"}
      /\ (pc \in {"prefetch", "harvest"} => idx <= Len(layers) /\ token < Tokens)
  BY DEF LoopInv, TypeOK
<1>2. /\ idx \in 1 .. (Len(layers) + 1) /\ th \in 1 .. (Threads + 1) /\ token \in 0 .. Tokens
      /\ Tokens \in Nat /\ Threads \in Nat \ {0} /\ Len(layers) \in Nat
  BY <1>1, SetsOfLayers
<1>3. /\ 1 \in 1 .. (Len(layers) + 1) /\ 1 \in 1 .. (Threads + 1)
      /\ (idx <= Len(layers) => idx + 1 \in 1 .. (Len(layers) + 1))
      /\ (th <= Threads => th + 1 \in 1 .. (Threads + 1))
      /\ (token < Tokens => token + 1 \in 0 .. Tokens)
      /\ (idx < Len(layers) => idx + 1 <= Len(layers))
  BY <1>2
<1>4. CASE Stage
  BY <1>1, <1>2, <1>3, <1>4 DEF Stage
<1>5. CASE StagingDone
  BY <1>1, <1>2, <1>3, <1>5 DEF StagingDone
<1>6. CASE Prefill
  BY <1>1, <1>2, <1>3, <1>6 DEF Prefill
<1>7. CASE PrefillDone
  BY <1>1, <1>2, <1>3, <1>7 DEF PrefillDone
<1>8. CASE BeginToken
  <2>1. layers # <<>> => 1 <= Len(layers)
    BY <1>1, PlanTypes, EmptySeq, LenProperties DEF TypeOK
  <2> QED
    BY <2>1, <1>1, <1>2, <1>3, <1>8 DEF BeginToken
<1>9. CASE TakePrefetch
  BY <1>1, <1>2, <1>3, <1>9 DEF TakePrefetch
<1>10. CASE SkipThread
  BY <1>1, <1>2, <1>3, <1>10 DEF SkipThread
<1>11. CASE Serve
  BY <1>1, <1>2, <1>3, <1>11 DEF Serve
<1>12. CASE Harvest
  BY <1>1, <1>2, <1>3, <1>12 DEF Harvest
<1>13. CASE NextLayer
  BY <1>1, <1>2, <1>3, <1>13 DEF NextLayer
<1>14. CASE Finish
  BY <1>1, <1>2, <1>3, <1>14 DEF Finish
<1>15. CASE UNCHANGED vars
  BY <1>1, <1>2, <1>15 DEF vars
<1> QED
  BY <1>4, <1>5, <1>6, <1>7, <1>8, <1>9, <1>10, <1>11, <1>12, <1>13, <1>14, <1>15 DEF Next

\* What Phase 1 counts.
LEMMA NextKeepsStaging ==
  ASSUME LoopInv, [Next]_vars
  PROVE  /\ budget' \in Nat /\ t_stage' \in Nat /\ stage_finish' \in [session_pinned' -> Nat]
         /\ session_pinned' \subseteq DOMAIN layers
<1>1. /\ TypeOK /\ budget \in Nat /\ t_stage \in Nat /\ stage_finish \in [session_pinned -> Nat]
  BY DEF LoopInv, TypeOK
<1>2. session_pinned \subseteq DOMAIN layers
  BY <1>1, SetsOfLayers
<1>3. ASSUME UNCHANGED <<budget, t_stage, stage_finish, session_pinned>>
      PROVE  /\ budget' \in Nat /\ t_stage' \in Nat /\ stage_finish' \in [session_pinned' -> Nat]
             /\ session_pinned' \subseteq DOMAIN layers
  BY <1>1, <1>2, <1>3
<1>4. CASE Stage
  <2>1. CASE OnNand(idx) /\ StageFits(idx)
    <3>1. session_pinned' = session_pinned \cup {idx}
      BY <1>4, <2>1 DEF Stage
    <3> QED
      BY <3>1, <1>2, <1>4, <2>1, StagedLayerEnters
  <2>2. CASE ~(OnNand(idx) /\ StageFits(idx))
    BY <1>3, <1>4, <2>2 DEF Stage, staging
  <2> QED
    BY <2>1, <2>2
<1>5. CASE ~Stage
  BY <1>3, <1>5 DEF Next, vars, cacheVars, staging, StagingDone, Prefill, PrefillDone,
     BeginToken, TakePrefetch, SkipThread, Serve, Harvest, NextLayer, Finish
<1> QED
  BY <1>4, <1>5

\* What the threads and the sets of the token hold.
LEMMA NextKeepsSets ==
  ASSUME LoopInv, [Next]_vars
  PROVE  /\ nand_free' \in Nat
         /\ threads' \in [1 .. Threads -> [busy : Nat, task : DOMAIN layers \cup {NoTask}]]
         /\ pinned' \subseteq DOMAIN layers /\ DOMAIN scores' \subseteq DOMAIN layers
         /\ fetched' \subseteq DOMAIN layers /\ landed' \subseteq DOMAIN layers
         /\ stalled' \subseteq DOMAIN layers
<1> DEFINE ThreadType == [1 .. Threads -> [busy : Nat, task : DOMAIN layers \cup {NoTask}]]
<1>1. TypeOK /\ nand_free \in Nat /\ threads \in ThreadType /\ plan \in Plans
  BY DEF LoopInv, TypeOK
<1>2. /\ pinned \subseteq DOMAIN layers /\ DOMAIN scores \subseteq DOMAIN layers
      /\ fetched \subseteq DOMAIN layers /\ landed \subseteq DOMAIN layers
      /\ stalled \subseteq DOMAIN layers /\ DOMAIN layers = 1 .. Len(layers)
      /\ idx \in 1 .. (Len(layers) + 1) /\ Len(layers) \in Nat
  BY <1>1, SetsOfLayers
<1>3. CASE BeginToken
  <2>1. threads' \in ThreadType
    BY <1>3 DEF BeginToken, Idle
  <2>2. /\ nand_free' = 0 /\ fetched' = {} /\ landed' = {} /\ stalled' = {}
        /\ pinned' = pinned /\ scores' = scores
    BY <1>3 DEF BeginToken, cacheVars
  <2> QED
    BY <2>1, <2>2, <1>2
<1>4. CASE TakePrefetch
  <2>1. PICK l \in DOMAIN layers \ fetched, start \in Nat :
           /\ th \in 1 .. Threads /\ fetched' = fetched \cup {l}
           /\ nand_free' = start + layers[l].nandTime
           /\ threads' = [threads EXCEPT ![th] = [busy |-> start + layers[l].nandTime, task |-> l]]
           /\ scores' = [x \in DOMAIN scores \cup {l} |->
                           IF x = l THEN layers[l].score ELSE scores[x]]
           /\ pinned' \in {pinned \cup {l}, pinned \ {l}}
    BY <1>4, PrefetchTaken
  <2>2. start + layers[l].nandTime \in Nat
    <3>1. layers[l].nandTime \in Nat
      BY <1>1, LayerTypes
    <3> QED
      BY <3>1
  <2>3. threads' \in ThreadType /\ nand_free' \in Nat
    BY <2>1, <2>2, <1>1
  <2>4. DOMAIN scores' = DOMAIN scores \cup {l} /\ landed' = landed /\ stalled' = stalled
    BY <1>4, <2>1 DEF TakePrefetch
  <2> HIDE DEF ThreadType
  <2> QED
    BY <2>1, <2>3, <2>4, <1>2 DEF ThreadType
<1>5. CASE Serve
  <2>1. /\ UNCHANGED <<threads, nand_free, fetched, landed, pinned, scores>>
        /\ stalled' \in {stalled, stalled \cup {idx}} /\ pc = "prefetch"
    BY <1>5 DEF Serve, ioVars, cacheVars
  <2>2. idx \in DOMAIN layers
    BY <2>1, <1>1, <1>2 DEF TypeOK
  <2> QED
    BY <2>1, <2>2, <1>1, <1>2
<1>6. CASE Harvest
  <2>1. UNCHANGED <<nand_free, fetched, stalled, pinned, scores>>
    BY <1>6 DEF Harvest
  <2>2. CASE UNCHANGED <<landed, threads>>
    BY <2>1, <2>2, <1>1, <1>2
  <2>3. CASE /\ threads[th].task \in DOMAIN layers /\ th \in 1 .. Threads
             /\ landed' = landed \cup {threads[th].task}
             /\ threads' = [threads EXCEPT ![th].task = NoTask]
    <3>1. threads' \in ThreadType
      BY <2>3, <1>1
    <3> QED
      BY <3>1, <2>1, <2>3, <1>1, <1>2
  <2> QED
    BY <1>6, <2>2, <2>3, HarvestedTask
<1>7. CASE Stage \/ StagingDone \/ Prefill \/ PrefillDone \/ SkipThread \/ NextLayer \/ Finish
           \/ UNCHANGED vars
  <2>1. UNCHANGED <<nand_free, threads, fetched, landed, stalled, pinned, scores>>
    BY <1>7 DEF vars, cacheVars, ioVars, Stage, StagingDone, Prefill, PrefillDone, SkipThread,
       NextLayer, Finish
  <2> QED
    BY <2>1, <1>1, <1>2
<1> QED
  BY <1>3, <1>4, <1>5, <1>6, <1>7 DEF Next

LEMMA NextKeepsTypeOK == ASSUME LoopInv, [Next]_vars PROVE TypeOK'
<1>1. layers' = layers /\ plan' = plan /\ plan \in Plans
  BY NoStepMovesPlan DEF LoopInv, TypeOK
<1>2. CacheOK'
  BY NextKeepsCache
<1>3. LinkInv'
  BY NextKeepsLinkInv DEF LoopInv
<1>4. /\ DOMAIN cache' \subseteq DOMAIN layers /\ used' \in Nat
      /\ cache' \in [DOMAIN cache' -> Nat \ {0}] /\ IsInjective(cache)'
  BY <1>1, <1>2 DEF CacheOK, InOrder
<1>5. lat' \in Nat /\ link' \in LinkType
  BY <1>3 DEF LinkInv
<1>6. \A s \in {DOMAIN cache', pinned', session_pinned', DOMAIN scores', fetched', landed', stalled'} :
        s \subseteq DOMAIN layers
  BY <1>4, NextKeepsStaging, NextKeepsSets
<1>7. /\ nand_free' \in Nat
      /\ threads' \in [1 .. Threads -> [busy : Nat, task : DOMAIN layers' \cup {NoTask}]]
  BY <1>1, NextKeepsSets
<1>8. budget' \in Nat /\ t_stage' \in Nat /\ stage_finish' \in [session_pinned' -> Nat]
  BY NextKeepsStaging
<1>9. /\ pc' \in {"stage", "prefill", "token", "prefetch", "harvest", "done"}
      /\ token' \in 0 .. Tokens /\ idx' \in 1 .. (Len(layers') + 1)
      /\ th' \in 1 .. (Threads + 1)
      /\ pc' \in {"prefetch", "harvest"} => idx' <= Len(layers') /\ token' < Tokens
  BY <1>1, NextKeepsCounters
<1> QED
  BY <1>1, <1>4, <1>5, <1>6, <1>7, <1>8, <1>9 DEF TypeOK

\* LoopInv holds of every state.
THEOREM LoopInvariant == Spec => []LoopInv
<1>1. Init => LoopInv
  BY InitLoopInv
<1>2. ASSUME LoopInv, [Next]_vars PROVE LoopInv'
  <2>1. LinkInv'
    BY <1>2, NextKeepsLinkInv DEF LoopInv
  <2> QED
    BY <1>2, <2>1, NextKeepsTypeOK, NextKeepsCache, NextKeepsStaged, NextKeepsNoRoom,
       NextKeepsChains, NextKeepsThreads DEF LoopInv
<1>3. LoopInv /\ [Next]_vars => LoopInv'
  BY <1>2
<1> QED
  BY <1>1, <1>3, PTL DEF Spec

\* What the device cache holds and what decode may have in flight beside it fit the
\* staging reserve together, and what Phase 1 pinned is there for the whole
\* session (tiersched.py:958-962, 1156-1157).
THEOREM PinnedForTheSession == Spec => []PinnedStayResident
<1>1. LoopInv => PinnedStayResident
  <2> SUFFICES ASSUME LoopInv PROVE PinnedStayResident
    OBVIOUS
  <2>1. plan \in Plans /\ CacheOK /\ NoRoomLeft
    BY DEF LoopInv, TypeOK
  <2>2. /\ plan.cap \in Nat /\ plan.reserve \in Nat /\ plan.cap <= plan.reserve
        /\ BytesIn(session_pinned) \in Nat /\ BytesIn(DOMAIN cache) <= plan.cap
        /\ BytesIn(DOMAIN cache) \in Nat
    BY <2>1, PlanTypes, BytesInNat DEF CacheOK
  <2>3. plan.warmup => BytesIn(DOMAIN cache) = BytesIn(session_pinned)
    BY <2>1 DEF NoRoomLeft
  <2>4. plan.warmup => BytesIn(DOMAIN cache) + InflightBudget <= plan.reserve
    BY <2>2, <2>3 DEF InflightBudget, LaterOf
  <2> QED
    BY <2>1, <2>4 DEF PinnedStayResident, CacheOK
<1> QED
  BY <1>1, LoopInvariant, PTL

\* add() keeps the device cache within its capacity, by a count that may only be too
\* high (tiersched.py:289-297).
THEOREM CacheStaysInCapacity == Spec => []CacheFits
<1>1. LoopInv => CacheFits
  BY DEF LoopInv, CacheOK, CacheFits
<1> QED
  BY <1>1, LoopInvariant, PTL

\* A thread is given a new prefetch only after its last one was harvested
\* (tiersched.py:1035-1043, 1125-1129).
THEOREM PrefetchesAreHarvested == Spec => []NoPrefetchOverwritten
<1>1. LoopInv => NoPrefetchOverwritten
  BY DEF LoopInv, ThreadsRight
<1> QED
  BY <1>1, LoopInvariant, PTL

\* Prefill takes its longest chain of staging and running, no more, and no two
\* prefetches of decode share the NAND link (tiersched.py:555-602, 1038-1041).
THEOREM NandLinkOneAtATime == Spec => []NandLinkSerial
<1>1. LoopInv => NandLinkSerial
  <2> SUFFICES ASSUME LoopInv PROVE NandLinkSerial
    OBVIOUS
  <2>1. ChainsEndNow /\ PrefetchesApart /\ lat \in Nat
    BY DEF LoopInv, ThreadsRight, TypeOK
  <2>2. ASSUME pc = "prefill" PROVE lat = Max(Chains)
    <3>1. lat \in Chains /\ \A c \in Chains : c <= lat
      BY <2>1, <2>2 DEF ChainsEndNow
    <3>2. \A c \in Chains : (\A d \in Chains : c >= d) => c = lat
      <4> SUFFICES ASSUME NEW c \in Chains, \A d \in Chains : c >= d PROVE c = lat
        OBVIOUS
      <4>1. c >= lat /\ c <= lat
        BY <3>1
      <4>2. c \in Int
        BY ChainsAreTimes
      <4> QED
        BY <4>1, <4>2, <2>1
    <3>3. \A d \in Chains : lat >= d
      BY <3>1
    <3> QED
      BY <3>1, <3>2, <3>3 DEF Max
  <2> QED
    BY <2>1, <2>2 DEF NandLinkSerial, PrefillIsLongestChain
<1> QED
  BY <1>1, LoopInvariant, PTL

\* With the warmup decode never changes what is in the device cache: Phase 1 has
\* left no room for any other layer that is in NAND, so every prefetch of such a
\* layer is dropped when it lands (tiersched.py:563-577, 289-297, 1125-1129).
CacheIsStaged == plan.warmup => DOMAIN cache = session_pinned

THEOREM DecodeLeavesCache == Spec => []CacheIsStaged
<1>1. LoopInv => CacheIsStaged
  BY DEF LoopInv, NoRoomLeft, CacheIsStaged
<1> QED
  BY <1>1, LoopInvariant, PTL
=============================================================================
