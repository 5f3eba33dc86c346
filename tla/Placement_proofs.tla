-------------------------- MODULE Placement_proofs ---------------------------
(***************************************************************************)
(* The placement for every model and every tier size: no byte is lost and  *)
(* no tier overfilled, the fill keeps its order, and spreading leaves the  *)
(* tiers as they were and the NAND sub-layers of a group apart.            *)
(***************************************************************************)
EXTENDS Placement, SumTheorems, SequenceTheorems

\* What the arguments of a call are, spelled out.
LEMMA InstanceType ==
  ASSUME inst \in Instances
  PROVE  /\ layers \in Seq(LayerType) /\ Len(layers) \in Nat /\ Indices = 1 .. Len(layers)
         /\ IsFiniteSet(Indices) /\ Indices \subseteq Int
         /\ inst.caps \in [Fast -> Nat]
         /\ inst.order \in {"semantic", "sequential", "size-desc"}
         /\ inst.mode \in {"spread", "contig", "stripe"}
         /\ \A i \in Indices : /\ layers[i] \in LayerType
                               /\ layers[i].bytes \in Nat \ {0} /\ layers[i].kv \in Nat
                               /\ layers[i].read \in Nat /\ layers[i].sparsity \in Nat
<1>1. /\ layers \in Seq(LayerType) /\ inst.caps \in [Fast -> Nat]
      /\ inst.order \in {"semantic", "sequential", "size-desc"}
      /\ inst.mode \in {"spread", "contig", "stripe"}
  BY PlacementConstants DEF layers
<1>2. Len(layers) \in Nat /\ Indices = 1 .. Len(layers)
  BY <1>1 DEF Indices
<1>3. IsFiniteSet(1 .. Len(layers))
  BY <1>2, FS_Interval
<1>4. \A i \in Indices : layers[i] \in LayerType
  BY <1>1, <1>2, ElementOfSeq
<1>5. \A i \in Indices : /\ layers[i].bytes \in Nat \ {0} /\ layers[i].kv \in Nat
                         /\ layers[i].read \in Nat /\ layers[i].sparsity \in Nat
  BY <1>4 DEF LayerType
<1> QED
  BY <1>1, <1>2, <1>3, <1>4, <1>5

-----------------------------------------------------------------------------
(* The orders hold layers.                                                 *)

\* A sorted list is a sequence of the set's elements.
LEMMA SortedSeq ==
  ASSUME NEW S \in SUBSET Int, IsFiniteSet(S), NEW key, \A x \in S : key[x] \in Int
  PROVE  /\ Sorted(S, key) \in Seq(S) /\ Len(Sorted(S, key)) = Cardinality(S)
         /\ Range(Sorted(S, key)) = S /\ IsInjective(Sorted(S, key))
<1> DEFINE f == Sorted(S, key)
           n == Cardinality(S)
<1>1. /\ n \in Nat /\ f \in [1 .. n -> S]
      /\ \A a, b \in 1 .. n : f[a] = f[b] => a = b
      /\ \A x \in S : \E a \in 1 .. n : f[a] = x
  BY SortedIsPermutation
<1> HIDE DEF f, n
<1>2. f \in Seq(S) /\ Len(f) = n /\ DOMAIN f = 1 .. n
  BY <1>1
<1>3. Range(f) = S
  <2>1. Range(f) = {f[a] : a \in 1 .. n}
    BY <1>2 DEF Range
  <2>2. \A x \in Range(f) : x \in S
    BY <1>1, <2>1
  <2>3. \A x \in S : x \in Range(f)
    BY <1>1, <2>1
  <2> QED
    BY <2>2, <2>3
<1>4. IsInjective(f)
  BY <1>1, <1>2 DEF IsInjective
<1> QED
  BY <1>2, <1>3, <1>4 DEF f, n

\* A set of layers in index order is a sequence of just those layers.
LEMMA InOrderSeq ==
  ASSUME NEW S \in SUBSET Int, IsFiniteSet(S)
  PROVE  /\ InOrder(S) \in Seq(S) /\ Len(InOrder(S)) = Cardinality(S)
         /\ Range(InOrder(S)) = S /\ IsInjective(InOrder(S))
<1>1. \A x \in S : [i \in S |-> i][x] \in Int
  OBVIOUS
<1> QED
  BY <1>1, SortedSeq DEF InOrder

\* Whatever the order, fill() goes through layers of the model.
LEMMA FillOrderIsOfLayers ==
  ASSUME inst \in Instances
  PROVE  FillOrder \in Seq(Indices)
<1>1. /\ IsFiniteSet(Indices) /\ Indices \subseteq Int
      /\ \A i \in Indices : layers[i].read \in Nat /\ layers[i].sparsity \in Nat
  BY InstanceType
<1>2. \A S \in SUBSET Indices : IsFiniteSet(S) /\ S \in SUBSET Int
  BY <1>1, FS_Subset
<1>3. \A S \in SUBSET Indices : Seq(S) \subseteq Seq(Indices)
  BY SeqMonotonic
<1>4. \A kind : Of(kind) \in Seq(Indices)
  <2> TAKE kind
  <2> DEFINE S == {i \in Indices : layers[i].type = kind}
  <2>1. S \in SUBSET Indices
    OBVIOUS
  <2> HIDE DEF S
  <2>2. InOrder(S) \in Seq(S)
    BY <2>1, <1>2, InOrderSeq
  <2> QED
    BY <2>1, <2>2, <1>3 DEF Of, S
<1>5. embedding_last \in Seq(Indices)
  <2> DEFINE key == [i \in Indices |-> IF layers[i].type = "embedding" THEN 1 ELSE 0]
  <2>1. \A i \in Indices : key[i] \in Int
    OBVIOUS
  <2> HIDE DEF key
  <2>2. Sorted(Indices, key) \in Seq(Indices)
    BY <1>1, <2>1, SortedSeq
  <2> QED
    BY <2>2 DEF embedding_last, key
<1>6. SizeDescending \in Seq(Indices)
  <2> DEFINE key == [i \in Indices |-> -layers[i].read]
  <2>1. \A i \in Indices : key[i] \in Int
    BY <1>1
  <2> HIDE DEF key
  <2>2. Sorted(Indices, key) \in Seq(Indices)
    BY <1>1, <2>1, SortedSeq
  <2> QED
    BY <2>2 DEF SizeDescending, key
<1>7. SparseMlp \in Seq(Indices)
  <2> DEFINE key == [i \in Indices |-> -layers[i].sparsity]
             S == {i \in Indices : layers[i].type = "mlp" /\ layers[i].sparsity > 60}
  <2>1. S \in SUBSET Indices /\ \A i \in S : key[i] \in Int
    BY <1>1
  <2> HIDE DEF key, S
  <2>2. Sorted(S, key) \in Seq(S)
    BY <1>2, <2>1, SortedSeq
  <2>3. Sorted(S, key) \in Seq(Indices)
    BY <1>3, <2>1, <2>2
  <2> QED
    BY <2>3 DEF SparseMlp, key, S
<1>8. Of("output") \o Of("attention") \o Of("embedding") \o SparseMlp \o Of("mlp")
        \in Seq(Indices)
  <2>1. \A a, b \in Seq(Indices) : a \o b \in Seq(Indices)
    BY ConcatProperties
  <2>2. Of("output") \o Of("attention") \in Seq(Indices)
    BY <1>4, <2>1
  <2>3. Of("output") \o Of("attention") \o Of("embedding") \in Seq(Indices)
    BY <1>4, <2>1, <2>2
  <2>4. Of("output") \o Of("attention") \o Of("embedding") \o SparseMlp \in Seq(Indices)
    BY <1>7, <2>1, <2>3
  <2> QED
    BY <1>4, <2>1, <2>4
<1>9. FillOrder = IF inst.order = "sequential" THEN embedding_last
                  ELSE IF inst.order = "size-desc" THEN SizeDescending
                  ELSE Of("output") \o Of("attention") \o Of("embedding") \o SparseMlp \o Of("mlp")
  BY Zenon DEF FillOrder
<1> QED
  BY <1>5, <1>6, <1>8, <1>9

-----------------------------------------------------------------------------
(* The invariants.                                                         *)

\* While the tiers are filled, what the fill has passed in this tier is placed or
\* the tier is full, and a layer with bytes on a tier came after nothing that was
\* not done by then.
FillInv ==
  pc = "fill" =>
    /\ \A i \in Indices : \A u \in 1 .. 4 : u > tier => share[i][u] = 0
    /\ \A a \in 1 .. (pos - 1) : rem[order[a]] = 0 \/ free = 0
    /\ \A a, b \in DOMAIN order : \A t \in Fast :
         a < b /\ order[a] # order[b] /\ (\A c \in 1 .. (a - 1) : order[c] # order[b])
           /\ share[order[b]][t] > 0
         => rem[order[a]] = 0 /\ \A u \in (t + 1) .. 4 : share[order[a]][u] = 0

\* Bytes of a layer, and of a tier.
LayersWhole ==
  \A i \in Indices :
    share[i][1] + share[i][2] + share[i][3] + share[i][4] + rem[i] = layers[i].bytes
TiersFit ==
  \A t \in Fast : TierBytes(t) + (IF pc = "fill" /\ tier = t THEN free ELSE 0) <= inst.caps[t]
MixWhole ==
  pc = "done" /\ inst.mode = "stripe" =>
    mix[1] + mix[2] + mix[3] + mix[4]
      = SumFunctionOnSet([i \in Indices |-> layers[i].bytes], Striped)

\* The inductive invariant; SpreadApart below completes it.
Inv ==
  /\ TypeOK /\ FillInv /\ LayersWhole /\ TiersFit /\ MixWhole
  /\ pc # "fill" => \A i \in Indices : rem[i] = 0
  /\ pc = "done" => groups = {}

\* What the proofs use of the types.
LEMMA StateType ==
  ASSUME TypeOK
  PROVE  /\ inst \in Instances /\ inst.caps \in [Fast -> Nat]
         /\ IsFiniteSet(Indices) /\ Indices \subseteq Int
         /\ order \in Seq(Indices) /\ Len(order) \in Nat /\ DOMAIN order = 1 .. Len(order)
         /\ \A a \in DOMAIN order : order[a] \in Indices
         /\ tier \in 1 .. 3 /\ tier \in Fast /\ pos \in 1 .. (Len(order) + 1)
         /\ free \in Nat /\ rem \in [Indices -> Nat] /\ kvGot \in [Indices -> Nat]
         /\ share \in [Indices -> [1 .. 4 -> Nat]] /\ mix \in [1 .. 4 -> Nat]
         /\ \A i \in Indices : \A t \in 1 .. 4 : share[i][t] \in Nat
<1>1. /\ inst \in Instances /\ order \in Seq(Indices) /\ tier \in Fast
      /\ pos \in 1 .. (Len(order) + 1)
      /\ free \in Nat /\ rem \in [Indices -> Nat] /\ kvGot \in [Indices -> Nat]
      /\ share \in [Indices -> [1 .. 4 -> Nat]] /\ mix \in [1 .. 4 -> Nat]
  BY DEF TypeOK
<1>2. inst.caps \in [Fast -> Nat] /\ IsFiniteSet(Indices) /\ Indices \subseteq Int
  BY <1>1, InstanceType
<1>3. Len(order) \in Nat /\ DOMAIN order = 1 .. Len(order)
      /\ \A a \in DOMAIN order : order[a] \in Indices
  BY <1>1
<1> QED
  BY <1>1, <1>2, <1>3, ZenonT(60) DEF Fast

\* What a step leaves alone as long as it keeps the call's arguments.
LEMMA SameInstance ==
  ASSUME inst' = inst
  PROVE  /\ layers' = layers /\ Indices' = Indices /\ Striped' = Striped
         /\ {GroupOf(i) : i \in Indices}' = {GroupOf(i) : i \in Indices}
         /\ \A i : GroupOf(i)' = GroupOf(i)
         /\ \A g : Group(g)' = Group(g) /\ Members(g)' = Members(g)
<1>1. layers' = layers
  BY DEF layers
<1>2. Indices' = Indices /\ \A i : GroupOf(i)' = GroupOf(i)
  BY <1>1 DEF Indices, GroupOf
<1>3. \A g : Group(g)' = Group(g)
  BY <1>1, <1>2 DEF Group, GroupOf
<1>4. \A g : Members(g)' = Members(g)
  BY <1>3 DEF Members, InOrder
<1> QED
  BY <1>1, <1>2, <1>3, <1>4 DEF Striped, GroupOf

\* The invariant holds before the first take().
THEOREM InvInit == Init => Inv
<1> SUFFICES ASSUME Init PROVE Inv
  OBVIOUS
<1>1. inst \in Instances
  BY DEF Init
<1>2. /\ IsFiniteSet(Indices) /\ inst.caps \in [Fast -> Nat]
      /\ \A i \in Indices : layers[i].bytes \in Nat \ {0}
  BY <1>1, InstanceType
<1>3. order \in Seq(Indices)
  BY <1>1, FillOrderIsOfLayers DEF Init
<1>4. Len(order) \in Nat /\ 1 \in Fast
  BY <1>3 DEF Fast
<1>5. \A i \in Indices : \A u \in 1 .. 4 : share[i][u] = 0
  BY DEF Init
<1>6. TypeOK
  <2>1. rem \in [Indices -> Nat] /\ kvGot \in [Indices -> Nat]
    BY <1>2 DEF Init
  <2>2. share \in [Indices -> [1 .. 4 -> Nat]] /\ mix \in [1 .. 4 -> Nat]
    BY DEF Init
  <2>3. free \in Nat /\ tier \in Fast
    BY <1>2, <1>4 DEF Init
  <2>4. pos \in 1 .. (Len(order) + 1)
    BY <1>4 DEF Init
  <2> QED
    BY <1>1, <1>3, <2>1, <2>2, <2>3, <2>4 DEF Init, TypeOK
<1>7. FillInv
  <2>1. \A a \in 1 .. (pos - 1) : FALSE
    BY DEF Init
  <2>2. \A b \in DOMAIN order : \A t \in Fast : share[order[b]][t] = 0
    BY <1>3, <1>5, ElementOfSeq DEF Fast
  <2> QED
    BY <1>5, <2>1, <2>2 DEF FillInv
<1>8. LayersWhole
  BY <1>2, <1>5 DEF LayersWhole, Init
<1>9. TiersFit
  <2>1. ASSUME NEW t \in Fast PROVE TierBytes(t) = 0
    <3> DEFINE w == [i \in Indices |-> share[i][t]]
    <3>1. \A i \in Indices : w[i] = 0
      BY <1>5 DEF Fast
    <3>2. SumFunctionOnSet(w, Indices) = 0
      BY <1>2, <3>1, SumZero
    <3> QED
      BY <3>2 DEF TierBytes
  <2> QED
    BY <1>2, <2>1 DEF TiersFit, Init
<1> QED
  BY <1>6, <1>7, <1>8, <1>9 DEF Inv, MixWhole, Init

-----------------------------------------------------------------------------
(* The fill.                                                               *)

\* What take() answers.
LEMMA TakeBounds ==
  ASSUME TypeOK, NEW i \in Indices
  PROVE  /\ Got(i) \in Nat /\ Moved(i) \in Nat /\ Left(i) \in Nat
         /\ Left(i) + Moved(i) <= free /\ Moved(i) <= rem[i] /\ Got(i) >= Moved(i)
         /\ Moved(i) = rem[i] \/ Left(i) = 0
<1>1. free \in Nat /\ rem[i] \in Nat /\ layers[i].kv \in Nat
  BY InstanceType DEF TypeOK
<1>2. Want(i) \in Nat /\ Want(i) >= rem[i]
  BY <1>1 DEF Want, Extra
<1>3. Got(i) \in Nat /\ Got(i) <= free /\ (Got(i) = Want(i) \/ Got(i) = free)
  BY <1>1, <1>2 DEF Got, Least
<1>4. Moved(i) \in Nat /\ Moved(i) <= rem[i] /\ Moved(i) <= Got(i)
      /\ (Got(i) >= rem[i] => Moved(i) = rem[i])
  BY <1>1, <1>3 DEF Moved, Least
<1>5. Left(i) = free - Got(i)
  BY DEF Left
<1> HIDE DEF Got, Moved, Left, Want
<1> QED
  BY <1>1, <1>2, <1>3, <1>4, <1>5

\* A tier's column adds up to a natural number of bytes.
LEMMA TierBytesInt ==
  ASSUME TypeOK, NEW t \in 1 .. 4
  PROVE  TierBytes(t) \in Int
<1>1. IsFiniteSet(Indices) /\ \A j \in Indices : share[j][t] \in Nat
  BY StateType
<1> DEFINE w == [i \in Indices |-> share[i][t]]
<1>2. \A j \in Indices : w[j] \in Int
  BY <1>1
<1> HIDE DEF w
<1>3. SumFunctionOnSet(w, Indices) \in Int
  BY <1>1, <1>2, SumInt
<1> QED
  BY <1>3 DEF TierBytes, w

\* One element of a tier's column changes.
LEMMA TierBytesAfter ==
  ASSUME TypeOK, NEW i \in Indices, NEW t \in 1 .. 4, NEW m \in Nat,
         inst' = inst, share' = [share EXCEPT ![i][t] = @ + m]
  PROVE  /\ TierBytes(t)' = TierBytes(t) + m
         /\ \A u \in 1 .. 4 \ {t} : TierBytes(u)' = TierBytes(u)
<1>0. PICK s : s = share'
  OBVIOUS
<1>1. /\ IsFiniteSet(Indices) /\ share \in [Indices -> [1 .. 4 -> Nat]]
      /\ \A j \in Indices : \A u \in 1 .. 4 : share[j][u] \in Nat
      /\ s = [share EXCEPT ![i][t] = @ + m]
  BY <1>0, StateType
<1>2. /\ \A j \in Indices \ {i} : \A u \in 1 .. 4 : s[j][u] = share[j][u]
      /\ \A u \in 1 .. 4 : s[i][u] = IF u = t THEN share[i][u] + m ELSE share[i][u]
  BY <1>1
<1>3. \A u \in 1 .. 4 \ {t} :
        SumFunctionOnSet([j \in Indices |-> s[j][u]], Indices) = TierBytes(u)
  <2> TAKE u \in 1 .. 4 \ {t}
  <2>1. [j \in Indices |-> s[j][u]] = [j \in Indices |-> share[j][u]]
    BY <1>2
  <2> QED
    BY <2>1 DEF TierBytes
<1> DEFINE w == [j \in Indices |-> share[j][t]]
           v == [j \in Indices |-> s[j][t]]
           rest == Indices \ {i}
<1>4. /\ \A j \in Indices : w[j] \in Int /\ v[j] \in Int
      /\ v[i] = w[i] + m /\ \A j \in rest : v[j] = w[j]
  BY <1>1, <1>2
<1>5. IsFiniteSet(rest)
  BY <1>1, FS_Subset
<1> HIDE DEF w, v
<1>6. /\ SumFunctionOnSet(v, Indices) = v[i] + SumFunctionOnSet(v, rest)
      /\ SumFunctionOnSet(w, Indices) = w[i] + SumFunctionOnSet(w, rest)
  BY <1>1, <1>4, SumTake, SMTT(60)
<1>7. SumFunctionOnSet(w, rest) = SumFunctionOnSet(v, rest)
  BY <1>4, <1>5, SumSame
<1>8. SumFunctionOnSet(w, rest) \in Int
  BY <1>4, <1>5, SumInt
<1>9. SumFunctionOnSet(v, Indices) = SumFunctionOnSet(w, Indices) + m
  <2> HIDE DEF rest
  <2> QED
    BY <1>4, <1>6, <1>7, <1>8
<1>10. Indices' = Indices
  BY SameInstance
<1> QED
  BY <1>0, <1>3, <1>9, <1>10 DEF TierBytes, w, v

\* take() moves bytes of one layer onto the tier being filled, never more than fit.
LEMMA TakeKeepsInv ==
  ASSUME Inv, Take
  PROVE  Inv'
<1> DEFINE i == order[pos]
<1>1. /\ TypeOK /\ FillInv /\ LayersWhole /\ TiersFit /\ MixWhole /\ pc = "fill"
      /\ inst' = inst /\ order' = order /\ pc' = pc /\ tier' = tier /\ mix' = mix
      /\ groups' = groups /\ pos' = pos + 1
  BY DEF Inv, Take
<1>2. /\ order \in Seq(Indices) /\ Len(order) \in Nat /\ pos \in 1 .. Len(order) /\ i \in Indices
      /\ DOMAIN order = 1 .. Len(order) /\ \A a \in DOMAIN order : order[a] \in Indices
      /\ tier \in 1 .. 3 /\ tier \in Fast
  <2>1. pos <= Len(order)
    BY DEF Take
  <2> QED
    BY <1>1, <2>1, StateType
<1>3. /\ layers' = layers /\ Indices' = Indices /\ Striped' = Striped
      /\ {GroupOf(j) : j \in Indices}' = {GroupOf(j) : j \in Indices}
  BY <1>1, SameInstance
<1>4. /\ free \in Nat /\ rem \in [Indices -> Nat] /\ share \in [Indices -> [1 .. 4 -> Nat]]
      /\ kvGot \in [Indices -> Nat]
  BY <1>1, StateType
<1> HIDE DEF i
<1>5. CASE free <= 0 \/ rem[i] <= 0
  <2>1. UNCHANGED <<free, rem, share, kvGot>>
    BY <1>5 DEF Take, i
  <2>2. rem[i] = 0 \/ free = 0
    BY <1>2, <1>4, <1>5, SMTT(60)
  <2>3. TypeOK'
    <3>1. pos' \in 1 .. (Len(order) + 1)
      BY <1>1, <1>2
    <3> QED
      BY <1>1, <1>2, <1>3, <2>1, <3>1 DEF TypeOK
  <2>4. FillInv'
    <3>1. \A a \in 1 .. pos : rem[order[a]] = 0 \/ free = 0
      BY <1>1, <1>2, <2>2, SMTT(60) DEF FillInv, i
    <3> QED
      BY <1>1, <1>2, <1>3, <2>1, <3>1 DEF FillInv
  <2>5. LayersWhole' /\ TiersFit' /\ MixWhole'
    BY <1>1, <1>3, <2>1 DEF LayersWhole, TiersFit, TierBytes, MixWhole
  <2> QED
    BY <1>1, <2>3, <2>4, <2>5 DEF Inv
<1>6. CASE ~(free <= 0 \/ rem[i] <= 0)
  <2> DEFINE m == Moved(i)
             x == Got(i) - Moved(i)
  <2>1. /\ share' = [share EXCEPT ![i][tier] = @ + m]
        /\ rem' = [rem EXCEPT ![i] = @ - m]
        /\ free' = Left(i) /\ kvGot' = [kvGot EXCEPT ![i] = @ + x]
    BY <1>6 DEF Take, i
  <2>2. /\ m \in Nat /\ x \in Nat /\ Left(i) \in Nat /\ Left(i) + m <= free /\ m <= rem[i]
        /\ (m = rem[i] \/ Left(i) = 0)
    BY <1>1, <1>2, TakeBounds, SMTT(60)
  <2>3. free > 0 /\ rem[i] > 0
    BY <1>2, <1>4, <1>6, SMTT(60)
  <2> HIDE DEF m, x
  <2>4. /\ \A j \in Indices : \A u \in 1 .. 4 :
             share'[j][u] = IF j = i /\ u = tier THEN share[j][u] + m ELSE share[j][u]
        /\ \A j \in Indices : rem'[j] = IF j = i THEN rem[j] - m ELSE rem[j]
    BY <1>2, <1>4, <2>1
  <2>5. TypeOK'
    <3>1. share' \in [Indices -> [1 .. 4 -> Nat]]
      <4>0. share[i] \in [1 .. 4 -> Nat] /\ tier \in 1 .. 4
        BY <1>2, <1>4
      <4>1. share[i][tier] + m \in Nat
        BY <4>0, <2>2
      <4>2. [share[i] EXCEPT ![tier] = @ + m] \in [1 .. 4 -> Nat]
        BY <4>0, <4>1
      <4> QED
        BY <1>2, <1>4, <2>1, <4>2
    <3>2. rem' \in [Indices -> Nat] /\ kvGot' \in [Indices -> Nat]
      <4>0. rem[i] \in Nat /\ kvGot[i] \in Nat
        BY <1>2, <1>4
      <4>1. rem[i] - m \in Nat /\ kvGot[i] + x \in Nat
        BY <4>0, <2>2
      <4> QED
        BY <1>2, <1>4, <2>1, <4>1
    <3>3. free' \in Nat /\ pos' \in 1 .. (Len(order) + 1)
      BY <1>1, <1>2, <2>1, <2>2
    <3> QED
      BY <1>1, <1>2, <1>3, <3>1, <3>2, <3>3 DEF TypeOK
  <2>6. FillInv'
    <3>1. \A j \in Indices : \A u \in 1 .. 4 : u > tier => share'[j][u] = 0
      BY <1>1, <1>2, <2>4, SMTT(60) DEF FillInv
    <3>2. \A a \in 1 .. ((pos + 1) - 1) : rem'[order[a]] = 0 \/ free' = 0
      <4> TAKE a \in 1 .. ((pos + 1) - 1)
      <4>1. order[a] \in Indices /\ i = order[pos] /\ (a = pos \/ a \in 1 .. (pos - 1))
        BY <1>2 DEF i
      <4>2. CASE order[a] = i
        BY <1>2, <1>4, <2>1, <2>2, <2>4, <4>2
      <4>3. CASE order[a] # i
        <5>1. a \in 1 .. (pos - 1) /\ (rem[order[a]] = 0 \/ free = 0)
          BY <1>1, <4>1, <4>3 DEF FillInv
        <5> QED
          BY <2>3, <2>4, <4>1, <4>3, <5>1
      <4> QED
        BY <4>2, <4>3
    <3>3. ASSUME NEW a \in DOMAIN order, NEW b \in DOMAIN order, NEW t \in Fast,
                 a < b, order[a] # order[b], \A c \in 1 .. (a - 1) : order[c] # order[b],
                 share'[order[b]][t] > 0
          PROVE  rem'[order[a]] = 0 /\ \A u \in (t + 1) .. 4 : share'[order[a]][u] = 0
      <4>1. order[a] \in Indices /\ order[b] \in Indices /\ t \in 1 .. 3 /\ t \in 1 .. 4
        BY <1>2 DEF Fast
      <4>2. CASE share[order[b]][t] > 0
        <5>1. rem[order[a]] = 0 /\ \A u \in (t + 1) .. 4 : share[order[a]][u] = 0
          BY <1>1, <3>3, <4>2 DEF FillInv
        <5>2. order[a] # i
          BY <2>3, <5>1
        <5> QED
          BY <2>4, <4>1, <5>1, <5>2
      <4>3. CASE ~(share[order[b]][t] > 0)
        <5>1. order[b] = i /\ t = tier
          BY <2>4, <3>3, <4>1, <4>3
        <5>2. order[a] # i /\ a \in 1 .. (pos - 1)
          <6>1. i = order[pos] /\ order[a] # i /\ \A c \in 1 .. (a - 1) : order[c] # i
            BY <3>3, <5>1 DEF i
          <6>2. pos \notin 1 .. (a - 1) /\ pos # a
            BY <6>1
          <6> QED
            BY <1>2, <6>1, <6>2
        <5>3. rem[order[a]] = 0
          BY <1>1, <2>3, <5>2 DEF FillInv
        <5>4. \A u \in (t + 1) .. 4 : u \in 1 .. 4 /\ u > tier
          BY <1>2, <5>1
        <5> QED
          BY <2>4, <3>1, <4>1, <5>2, <5>3, <5>4
      <4> QED
        BY <4>2, <4>3
    <3> QED
      BY <1>1, <1>2, <1>3, <3>1, <3>2, <3>3 DEF FillInv
  <2>7. LayersWhole'
    <3> SUFFICES ASSUME NEW j \in Indices
                 PROVE  share'[j][1] + share'[j][2] + share'[j][3] + share'[j][4] + rem'[j]
                          = layers[j].bytes
      BY <1>3 DEF LayersWhole
    <3>1. /\ share[j][1] \in Nat /\ share[j][2] \in Nat /\ share[j][3] \in Nat
          /\ share[j][4] \in Nat /\ rem[j] \in Nat
          /\ share[j][1] + share[j][2] + share[j][3] + share[j][4] + rem[j] = layers[j].bytes
      BY <1>1, <1>4 DEF LayersWhole
    <3>2. /\ share'[j][1] = IF j = i /\ 1 = tier THEN share[j][1] + m ELSE share[j][1]
          /\ share'[j][2] = IF j = i /\ 2 = tier THEN share[j][2] + m ELSE share[j][2]
          /\ share'[j][3] = IF j = i /\ 3 = tier THEN share[j][3] + m ELSE share[j][3]
          /\ share'[j][4] = IF j = i /\ 4 = tier THEN share[j][4] + m ELSE share[j][4]
          /\ rem'[j] = IF j = i THEN rem[j] - m ELSE rem[j]
      BY <2>4
    <3>3. CASE j # i
      BY <3>1, <3>2, <3>3
    <3>4. CASE j = i
      <4>1. m \in Nat /\ tier \in {1, 2, 3}
        BY <1>2, <2>2
      <4>2. CASE tier = 1
        BY <3>1, <3>2, <3>4, <4>1, <4>2
      <4>3. CASE tier = 2
        BY <3>1, <3>2, <3>4, <4>1, <4>3
      <4>4. CASE tier = 3
        BY <3>1, <3>2, <3>4, <4>1, <4>4
      <4> QED
        BY <4>1, <4>2, <4>3, <4>4
    <3> QED
      BY <3>3, <3>4
  <2>8. TiersFit'
    <3>1. \A t \in Fast : TierBytes(t)' = IF t = tier THEN TierBytes(t) + m ELSE TierBytes(t)
      <4>1. PICK t : t = tier
        OBVIOUS
      <4>2. t \in 1 .. 4 /\ i \in Indices /\ share' = [share EXCEPT ![i][t] = @ + m]
            /\ m \in Nat /\ TypeOK
        BY <1>1, <1>2, <2>1, <2>2, <4>1
      <4>3. PICK j, k : j = i /\ k = m
        OBVIOUS
      <4>4. j \in Indices /\ share' = [share EXCEPT ![j][t] = @ + k] /\ k \in Nat
        BY <4>2, <4>3
      <4>5. /\ TierBytes(t)' = TierBytes(t) + k
            /\ \A u \in 1 .. 4 \ {t} : TierBytes(u)' = TierBytes(u)
        BY <1>1, <4>2, <4>4, TierBytesAfter, ZenonT(60)
      <4>6. \A u \in Fast : u = t \/ u \in 1 .. 4 \ {t}
        BY DEF Fast
      <4> QED
        BY <4>1, <4>3, <4>5, <4>6
    <3>2. \A t \in Fast : TierBytes(t) \in Int /\ inst.caps[t] \in Int
      <4>1. inst.caps \in [Fast -> Nat] /\ \A t \in Fast : t \in 1 .. 4
        BY <1>1, StateType DEF Fast
      <4> QED
        BY <1>1, <4>1, TierBytesInt
    <3> SUFFICES ASSUME NEW t \in Fast
                 PROVE  TierBytes(t)' + (IF tier = t THEN free' ELSE 0) <= inst.caps[t]
      BY <1>1 DEF TiersFit
    <3>3. TierBytes(t) + (IF tier = t THEN free ELSE 0) <= inst.caps[t]
      BY <1>1 DEF TiersFit
    <3>4. TierBytes(t)' = IF t = tier THEN TierBytes(t) + m ELSE TierBytes(t)
      BY <3>1
    <3> QED
      BY <1>4, <2>1, <2>2, <3>2, <3>3, <3>4
  <2> QED
    BY <1>1, <2>5, <2>6, <2>7, <2>8 DEF Inv, MixWhole
<1> QED
  BY <1>5, <1>6

-----------------------------------------------------------------------------
(* Spreading: who changes places with whom.                                *)

\* The layers of one kind and size, those of them on NAND, and the group's list.
LEMMA GroupIsFinite ==
  ASSUME TypeOK, NEW g
  PROVE  /\ Group(g) \in SUBSET Indices /\ IsFiniteSet(Group(g))
         /\ Cardinality(Group(g)) \in Nat
         /\ NandOf(g) \in SUBSET Group(g) /\ IsFiniteSet(NandOf(g))
         /\ Cardinality(NandOf(g)) \in Nat
         /\ Members(g) \in Seq(Group(g)) /\ Len(Members(g)) = Cardinality(Group(g))
         /\ DOMAIN Members(g) = 1 .. Cardinality(Group(g))
         /\ Range(Members(g)) = Group(g) /\ IsInjective(Members(g))
<1>1. IsFiniteSet(Indices) /\ Indices \subseteq Int
  BY StateType
<1>2. Group(g) \in SUBSET Indices /\ NandOf(g) \in SUBSET Group(g)
  BY DEF Group, NandOf
<1>3. IsFiniteSet(Group(g)) /\ IsFiniteSet(NandOf(g)) /\ Group(g) \in SUBSET Int
  BY <1>1, <1>2, FS_Subset
<1>4. Cardinality(Group(g)) \in Nat /\ Cardinality(NandOf(g)) \in Nat
  BY <1>3, FS_CardinalityType
<1>5. /\ Members(g) \in Seq(Group(g)) /\ Len(Members(g)) = Cardinality(Group(g))
      /\ Range(Members(g)) = Group(g) /\ IsInjective(Members(g))
  BY <1>3, InOrderSeq DEF Members
<1>6. DOMAIN Members(g) = 1 .. Cardinality(Group(g))
  BY <1>5
<1> QED
  BY <1>2, <1>3, <1>4, <1>5, <1>6

\* Division of naturals is a natural.
LEMMA DivNat ==
  ASSUME NEW a \in Nat, NEW b \in Nat \ {0}
  PROVE  a \div b \in Nat
  OBVIOUS

\* The position of the j-th target.
Spot(l, n, j) == 1 + Least(l - 1, ((2 * j + 1) * l) \div (2 * n))

\* A target's place is in the group's list.
LEMMA SpotInList ==
  ASSUME NEW l \in Nat \ {0}, NEW n \in Nat \ {0}, NEW j \in Nat
  PROVE  Spot(l, n, j) \in 1 .. l
<1>1. (2 * j + 1) * l \in Nat /\ 2 * n \in Nat \ {0}
  <2>1. 2 * j + 1 \in Nat
    OBVIOUS
  <2> QED
    BY <2>1
<1> DEFINE q == ((2 * j + 1) * l) \div (2 * n)
<1>2. q \in Nat
  BY <1>1, DivNat
<1> HIDE DEF q
<1>3. Least(l - 1, q) \in 0 .. (l - 1)
  BY <1>2 DEF Least
<1> QED
  BY <1>3 DEF Spot, q

\* The targets are sub-layers of the group.
LEMMA TargetIsOfGroup ==
  ASSUME TypeOK, NEW g, NandOf(g) # {}
  PROVE  /\ Cardinality(NandOf(g)) \in Nat \ {0} /\ Cardinality(Group(g)) \in Nat \ {0}
         /\ Target(g) = {Members(g)[Spot(Cardinality(Group(g)), Cardinality(NandOf(g)), j)] :
                           j \in 0 .. (Cardinality(NandOf(g)) - 1)}
         /\ Target(g) \in SUBSET Group(g) /\ IsFiniteSet(Target(g))
<1> DEFINE n == Cardinality(NandOf(g))
           l == Cardinality(Group(g))
<1>1. n \in Nat \ {0} /\ l \in Nat \ {0}
  BY GroupIsFinite, FS_EmptySet, FS_Subset
<1>2. Target(g) = {Members(g)[Spot(l, n, j)] : j \in 0 .. (n - 1)}
  <2>1. Len(Members(g)) = l
    BY GroupIsFinite
  <2> QED
    BY <2>1 DEF Target, Spot
<1>3. \A j \in 0 .. (n - 1) : Spot(l, n, j) \in 1 .. l
  <2> TAKE j \in 0 .. (n - 1)
  <2> HIDE DEF n, l
  <2>1. j \in Nat
    BY <1>1
  <2> QED
    BY <1>1, <2>1, SpotInList
<1>4. \A q \in 1 .. l : Members(g)[q] \in Group(g)
  BY GroupIsFinite
<1>5. Target(g) \in SUBSET Group(g)
  BY <1>2, <1>3, <1>4
<1> QED
  BY <1>1, <1>2, <1>5, GroupIsFinite, FS_Subset

\* Two lists of one length without a common element, one to the places of the other:
\* everyone has one partner, and is its partner's.
LEMMA PartnersSwap ==
  ASSUME NEW S, NEW d \in Seq(S), NEW r \in Seq(S), Len(d) = Len(r),
         IsInjective(d), IsInjective(r), Range(d) \cap Range(r) = {}
  PROVE  /\ \A i \in Range(d) : Partner(d \o r, r \o d, i) \in Range(r)
         /\ \A i \in Range(r) : Partner(d \o r, r \o d, i) \in Range(d)
         /\ \A i \in S \ (Range(d) \cup Range(r)) : Partner(d \o r, r \o d, i) = i
         /\ \A i \in S : Partner(d \o r, r \o d, Partner(d \o r, r \o d, i)) = i
<1> DEFINE n == Len(d)
           from == d \o r
           to == r \o d
           P(i) == Partner(from, to, i)
<1>1. /\ n \in Nat /\ DOMAIN d = 1 .. n /\ DOMAIN r = 1 .. n
      /\ from \in Seq(S) /\ DOMAIN from = 1 .. (n + n) /\ to \in Seq(S)
      /\ \A a \in 1 .. n : from[a] = d[a] /\ to[a] = r[a] /\ from[n + a] = r[a] /\ to[n + a] = d[a]
  BY SMTT(60)
<1>2. \A a \in 1 .. n : d[a] \in Range(d) /\ r[a] \in Range(r) /\ d[a] \in S /\ r[a] \in S
  BY <1>1 DEF Range
<1>3. \A a, b \in 1 .. n : (d[a] = d[b] => a = b) /\ (r[a] = r[b] => a = b) /\ d[a] # r[b]
  BY <1>1, <1>2 DEF IsInjective
<1>4. \A x \in 1 .. (n + n) : x \in 1 .. n \/ \E a \in 1 .. n : x = n + a
  <2> TAKE x \in 1 .. (n + n)
  <2> HIDE DEF n
  <2>1. CASE x <= n
    BY <1>1, <2>1
  <2>2. CASE x > n
    <3>1. x - n \in 1 .. n /\ x = n + (x - n)
      BY <1>1, <2>2
    <3> QED
      BY <3>1
  <2> QED
    BY <1>1, <2>1, <2>2
<1> HIDE DEF from, to, n
<1>5. /\ \A a \in 1 .. n : n + a \in 1 .. (n + n) /\ a \in 1 .. (n + n)
      /\ \A x, y \in 1 .. (n + n) : from[x] = from[y] => x = y
  <2>1. \A a \in 1 .. n : n + a \in 1 .. (n + n) /\ a \in 1 .. (n + n)
    BY <1>1
  <2>2. ASSUME NEW x \in 1 .. (n + n), NEW y \in 1 .. (n + n), from[x] = from[y] PROVE x = y
    <3>1. CASE x \in 1 .. n /\ y \in 1 .. n
      BY <1>1, <1>3, <2>2, <3>1
    <3>2. CASE x \in 1 .. n /\ \E a \in 1 .. n : y = n + a
      <4>1. PICK a \in 1 .. n : y = n + a
        BY <3>2
      <4>2. from[x] = d[x] /\ from[y] = r[a]
        BY <1>1, <3>2, <4>1
      <4> QED
        BY <1>3, <2>2, <3>2, <4>2
    <3>3. CASE y \in 1 .. n /\ \E a \in 1 .. n : x = n + a
      <4>1. PICK a \in 1 .. n : x = n + a
        BY <3>3
      <4>2. from[y] = d[y] /\ from[x] = r[a]
        BY <1>1, <3>3, <4>1
      <4> QED
        BY <1>3, <2>2, <3>3, <4>2
    <3>4. CASE (\E a \in 1 .. n : x = n + a) /\ \E a \in 1 .. n : y = n + a
      <4>1. PICK a \in 1 .. n : x = n + a
        BY <3>4
      <4>2. PICK b \in 1 .. n : y = n + b
        BY <3>4
      <4>3. from[x] = r[a] /\ from[y] = r[b]
        BY <1>1, <4>1, <4>2
      <4> QED
        BY <1>3, <2>2, <4>1, <4>2, <4>3
    <3> QED
      BY <1>4, <3>1, <3>2, <3>3, <3>4
  <2> QED
    BY <2>1, <2>2
<1>6. \A x \in 1 .. (n + n) : P(from[x]) = to[x]
  <2> TAKE x \in 1 .. (n + n)
  <2>1. from[x] \in Range(from)
    BY <1>1 DEF Range
  <2>2. (CHOOSE j \in DOMAIN from : from[j] = from[x]) = x
    BY <1>1, <1>5
  <2> QED
    BY <2>1, <2>2 DEF Partner
<1>7. \A a \in 1 .. n : P(d[a]) = r[a] /\ P(r[a]) = d[a]
  BY <1>1, <1>5, <1>6, ZenonT(60)
<1>8. /\ \A i \in Range(d) : \E a \in 1 .. n : i = d[a]
      /\ \A i \in Range(r) : \E a \in 1 .. n : i = r[a]
  BY <1>1 DEF Range
<1>9. \A i : i \notin Range(d) /\ i \notin Range(r) => P(i) = i
  <2> SUFFICES ASSUME NEW i, i \notin Range(d), i \notin Range(r) PROVE P(i) = i
    OBVIOUS
  <2>1. i \notin Range(from)
    <3> SUFFICES ASSUME NEW x \in 1 .. (n + n), i = from[x] PROVE FALSE
      BY <1>1 DEF Range
    <3>1. CASE x \in 1 .. n
      <4>1. from[x] = d[x]
        BY <1>1, <3>1
      <4> QED
        BY <1>2, <3>1, <4>1
    <3>2. CASE \E a \in 1 .. n : x = n + a
      <4>1. PICK a \in 1 .. n : x = n + a
        BY <3>2
      <4>2. from[x] = r[a]
        BY <1>1, <4>1
      <4> QED
        BY <1>2, <4>2
    <3> QED
      BY <1>4, <3>1, <3>2, Zenon
  <2> QED
    BY <2>1 DEF Partner
<1> HIDE DEF P
<1>10. /\ \A i \in Range(d) : P(i) \in Range(r)
       /\ \A i \in Range(r) : P(i) \in Range(d)
       /\ \A i \in S \ (Range(d) \cup Range(r)) : P(i) = i
       /\ \A i \in S : P(P(i)) = i
  <2>1. \A i \in Range(d) : P(i) \in Range(r) /\ P(P(i)) = i
    BY <1>2, <1>7, <1>8
  <2>2. \A i \in Range(r) : P(i) \in Range(d) /\ P(P(i)) = i
    BY <1>2, <1>7, <1>8
  <2> QED
    BY <1>9, <2>1, <2>2
<1> QED
  BY <1>10 DEF P, from, to

Mirror(g) ==
  [i \in Indices |-> Partner(Donors(g) \o Receivers(g), Receivers(g) \o Donors(g), i)]

\* Spreading is a permutation of the sub-layers that undoes itself, and after it the
\* targets are what is on NAND.
LEMMA MirrorSwaps ==
  ASSUME TypeOK, NEW g, Spreadable(g)
  PROVE  /\ Mirror(g) \in [Indices -> Indices]
         /\ \A i \in Indices : Mirror(g)[Mirror(g)[i]] = i
         /\ \A i \in Indices : GroupOf(Mirror(g)[i]) = GroupOf(i)
         /\ \A i \in Indices \ Group(g) : Mirror(g)[i] = i
         /\ \A i \in Group(g) : Mirror(g)[i] \in NandOf(g) <=> i \in Target(g)
         /\ Swapped(g) = [i \in Indices |-> share[Mirror(g)[i]]]
<1> DEFINE N == NandOf(g)
           T == Target(g)
           D == N \ T
           R == T \ N
           d == InOrder(D)
           r == InOrder(R)
           h == Mirror(g)
<1>1. /\ N \in SUBSET Group(g) /\ T \in SUBSET Group(g) /\ Group(g) \in SUBSET Indices
      /\ IsFiniteSet(N) /\ IsFiniteSet(T) /\ Cardinality(T) = Cardinality(N)
  BY GroupIsFinite, TargetIsOfGroup DEF Spreadable
<1>2. Indices \in SUBSET Int
  BY StateType
<1> HIDE DEF N, T
<1>3. D \in SUBSET Int /\ R \in SUBSET Int /\ IsFiniteSet(D) /\ IsFiniteSet(R)
      /\ D \in SUBSET Indices /\ R \in SUBSET Indices
  BY <1>1, <1>2, FS_Subset
<1>4. Cardinality(D) = Cardinality(R)
  <2>1. Cardinality(D) = Cardinality(N) - Cardinality(N \cap T)
    BY <1>1, FS_Difference
  <2>2. Cardinality(R) = Cardinality(T) - Cardinality(T \cap N)
    BY <1>1, FS_Difference
  <2>3. N \cap T = T \cap N
    OBVIOUS
  <2> QED
    BY <1>1, <2>1, <2>2, <2>3
<1>5. /\ d \in Seq(D) /\ r \in Seq(R) /\ Len(d) = Len(r) /\ Range(d) = D /\ Range(r) = R
      /\ IsInjective(d) /\ IsInjective(r)
  BY <1>3, <1>4, InOrderSeq
<1>6. d \in Seq(Indices) /\ r \in Seq(Indices)
  BY <1>3, <1>5, SeqMonotonic
<1>7. Donors(g) = d /\ Receivers(g) = r
  BY DEF Donors, Receivers, N, T
<1>8. \A i \in Indices : h[i] = Partner(d \o r, r \o d, i)
  BY <1>7 DEF Mirror
<1>9. h = [i \in Indices |-> h[i]] /\ Swapped(g) = [i \in Indices |-> share[h[i]]]
  BY <1>7 DEF Mirror, Swapped
<1> DEFINE P(i) == Partner(d \o r, r \o d, i)
<1>10. Range(d) \cap Range(r) = {}
  BY <1>5
<1>11. /\ \A i \in Range(d) : P(i) \in Range(r)
       /\ \A i \in Range(r) : P(i) \in Range(d)
       /\ \A i \in Indices \ (Range(d) \cup Range(r)) : P(i) = i
       /\ \A i \in Indices : P(P(i)) = i
  BY <1>5, <1>6, <1>10, PartnersSwap
<1> HIDE DEF h, d, r, P
<1>12. /\ \A i \in D : h[i] \in R
       /\ \A i \in R : h[i] \in D
       /\ \A i \in Indices \ (D \cup R) : h[i] = i
  BY <1>3, <1>5, <1>8, <1>11 DEF P
<1>13. \A i \in Indices : h[i] \in Indices
  BY <1>3, <1>12
<1>14. \A i \in Indices : h[h[i]] = i
  BY <1>8, <1>11, <1>13 DEF P
<1>15. \A i \in Indices \ Group(g) : h[i] = i
  BY <1>1, <1>12
<1>16. \A i \in Group(g) : h[i] \in Group(g)
  BY <1>1, <1>12
<1>17. \A i \in Indices : GroupOf(h[i]) = GroupOf(i)
  <2>1. \A i \in Group(g) : GroupOf(i) = g
    BY DEF Group
  <2> QED
    BY <1>15, <1>16, <2>1
<1>18. \A i \in Group(g) : h[i] \in N <=> i \in T
  BY <1>1, <1>12
<1> QED
  BY <1>9, <1>13, <1>14, <1>15, <1>17, <1>18 DEF h, N, T

\* A spread swaps the splits of sub-layers, so each tier holds what it held.
LEMMA SwapKeepsTiers ==
  ASSUME TypeOK, NEW g, Spreadable(g), inst' = inst, share' = Swapped(g), NEW t \in 1 .. 4
  PROVE  TierBytes(t)' = TierBytes(t)
<1>0. PICK s : s = share'
  OBVIOUS
<1> DEFINE h == Mirror(g)
           w == [i \in Indices |-> share[i][t]]
           v == [i \in Indices |-> s[i][t]]
<1>1. /\ h \in [Indices -> Indices] /\ (\A i \in Indices : h[h[i]] = i)
      /\ s = [i \in Indices |-> share[h[i]]]
  BY <1>0, MirrorSwaps
<1>2. IsFiniteSet(Indices) /\ \A i \in Indices : share[i][t] \in Nat
  BY StateType
<1>3. \A i \in Indices : w[i] \in Int
  BY <1>2
<1> HIDE DEF h
<1>4. \A i \in Indices : v[i] = w[h[i]] /\ h[i] \in Indices
  BY <1>1
<1> HIDE DEF w, v
<1>5. \A x, y \in Indices : h[x] = h[y] => x = y
  BY <1>1
<1>6. {h[x] : x \in Indices} = Indices
  BY <1>1
<1>7. SumFunctionOnSet(v, Indices) = SumFunctionOnSet(w, {h[x] : x \in Indices})
  <2>1. \A i \in Indices : w[h[i]] \in Int /\ v[i] = w[h[i]]
    BY <1>3, <1>4
  <2> QED
    BY <1>2, <1>5, <2>1, SumImage
<1>8. SumFunctionOnSet(v, Indices) = SumFunctionOnSet(w, Indices)
  BY <1>6, <1>7
<1> QED
  BY <1>0, <1>8, SameInstance DEF TierBytes, w, v

\* A tier's fill ends, or the rest goes to NAND.
LEMMA NextTierKeepsInv ==
  ASSUME Inv, NextTier
  PROVE  Inv'
<1>1. /\ TypeOK /\ FillInv /\ LayersWhole /\ TiersFit /\ MixWhole /\ pc = "fill"
      /\ inst' = inst /\ order' = order /\ mix' = mix /\ kvGot' = kvGot
  BY DEF Inv, NextTier
<1>2. /\ order \in Seq(Indices) /\ Len(order) \in Nat /\ inst.caps \in [Fast -> Nat]
      /\ tier \in 1 .. 3 /\ rem \in [Indices -> Nat] /\ share \in [Indices -> [1 .. 4 -> Nat]]
      /\ (\A i \in Indices : \A t \in 1 .. 4 : share[i][t] \in Nat)
      /\ IsFiniteSet(Indices)
  BY <1>1, StateType
<1>3. /\ layers' = layers /\ Indices' = Indices /\ Striped' = Striped
      /\ {GroupOf(j) : j \in Indices}' = {GroupOf(j) : j \in Indices}
  BY <1>1, SameInstance
<1>4. CASE tier < 3
  <2>1. /\ tier' = tier + 1 /\ pos' = 1 /\ free' = inst.caps[tier + 1]
        /\ pc' = pc /\ rem' = rem /\ share' = share /\ groups' = groups
    BY <1>4 DEF NextTier
  <2>2. tier + 1 \in 1 .. 3 /\ tier + 1 \in Fast /\ free' \in Nat
    BY <1>2, <1>4, <2>1 DEF Fast
  <2>3. TypeOK'
    <3>1. pos' \in 1 .. (Len(order) + 1)
      BY <1>2, <2>1
    <3> QED
      BY <1>1, <1>3, <2>1, <2>2, <3>1 DEF TypeOK
  <2>4. FillInv'
    <3>1. \A i \in Indices : \A u \in 1 .. 4 : u > tier + 1 => share[i][u] = 0
      BY <1>1, <1>2, SMTT(60) DEF FillInv
    <3> QED
      BY <1>1, <1>3, <2>1, <3>1 DEF FillInv
  <2>5. \A t \in Fast : TierBytes(t)' = TierBytes(t) /\ TierBytes(t) \in Int /\ t \in 1 .. 4
    BY <1>1, <1>3, <2>1, TierBytesInt DEF TierBytes, Fast
  <2>6. \A t \in Fast : t = tier + 1 => TierBytes(t) = 0
    <3> SUFFICES ASSUME NEW t \in Fast, t = tier + 1 PROVE TierBytes(t) = 0
      OBVIOUS
    <3> DEFINE w == [i \in Indices |-> share[i][t]]
    <3>1. \A i \in Indices : w[i] = 0
      BY <1>1, <1>2, <2>5, SMTT(60) DEF FillInv
    <3> HIDE DEF w
    <3>2. SumFunctionOnSet(w, Indices) = 0
      BY <1>2, <3>1, SumZero
    <3> QED
      BY <3>2 DEF TierBytes, w
  <2>7. TiersFit'
    <3> SUFFICES ASSUME NEW t \in Fast
                 PROVE  TierBytes(t)' + (IF tier + 1 = t THEN free' ELSE 0) <= inst.caps[t]
      BY <1>1, <2>1 DEF TiersFit
    <3>1. TierBytes(t) + (IF tier = t THEN free ELSE 0) <= inst.caps[t]
      BY <1>1 DEF TiersFit
    <3>2. free \in Nat /\ inst.caps[t] \in Nat
      BY <1>1, <1>2, StateType
    <3> QED
      BY <1>2, <2>1, <2>5, <2>6, <3>1, <3>2
  <2> QED
    BY <1>1, <1>3, <2>1, <2>3, <2>4, <2>7 DEF Inv, LayersWhole, MixWhole
<1>5. CASE ~(tier < 3)
  <2>1. /\ share' = [i \in Indices |-> [share[i] EXCEPT ![Nand] = rem[i]]]
        /\ rem' = [i \in Indices |-> 0]
        /\ groups' = IF inst.mode = "spread" THEN {GroupOf(i) : i \in Indices} ELSE {}
        /\ pc' = "spread" /\ tier' = tier /\ pos' = pos /\ free' = free
    BY <1>5 DEF NextTier
  <2>2. \A i \in Indices : /\ share[i][4] = 0 /\ share'[i][4] = rem[i] /\ rem'[i] = 0
                           /\ \A u \in Fast : share'[i][u] = share[i][u]
    <3>1. \A i \in Indices : share[i][4] = 0
      BY <1>1, <1>2, <1>5 DEF FillInv
    <3>2. \A i \in Indices : share[i] \in [1 .. 4 -> Nat]
      BY <1>2
    <3> QED
      BY <2>1, <3>1, <3>2 DEF Nand, Fast
  <2>3. TypeOK'
    <3>1. share' \in [Indices -> [1 .. 4 -> Nat]]
      <4>1. \A i \in Indices : [share[i] EXCEPT ![4] = rem[i]] \in [1 .. 4 -> Nat]
        <5> TAKE i \in Indices
        <5>1. share[i] \in [1 .. 4 -> Nat] /\ rem[i] \in Nat
          BY <1>2
        <5> QED
          BY <5>1
      <4> QED
        BY <2>1, <4>1 DEF Nand
    <3>2. rem' \in [Indices -> Nat]
      BY <2>1
    <3> QED
      BY <1>1, <1>3, <2>1, <3>1, <3>2 DEF TypeOK
  <2>4. FillInv'
    BY <2>1 DEF FillInv
  <2>5. LayersWhole'
    <3> SUFFICES ASSUME NEW j \in Indices
                 PROVE  share'[j][1] + share'[j][2] + share'[j][3] + share'[j][4] + rem'[j]
                          = layers[j].bytes
      BY <1>3 DEF LayersWhole
    <3>1. /\ share[j][1] \in Nat /\ share[j][2] \in Nat /\ share[j][3] \in Nat
          /\ share[j][4] \in Nat /\ rem[j] \in Nat
          /\ share[j][1] + share[j][2] + share[j][3] + share[j][4] + rem[j] = layers[j].bytes
      BY <1>1, <1>2 DEF LayersWhole
    <3>2. /\ share'[j][1] = share[j][1] /\ share'[j][2] = share[j][2]
          /\ share'[j][3] = share[j][3] /\ share'[j][4] = rem[j] /\ rem'[j] = 0 /\ share[j][4] = 0
      BY <2>2 DEF Fast
    <3> QED
      BY <3>1, <3>2
  <2>6. TiersFit'
    <3>0. PICK s : s = share'
      OBVIOUS
    <3> SUFFICES ASSUME NEW t \in Fast PROVE TierBytes(t)' + 0 <= inst.caps[t]
      BY <1>1, <2>1 DEF TiersFit
    <3>1. [i \in Indices |-> s[i][t]] = [i \in Indices |-> share[i][t]]
      BY <2>2, <3>0
    <3>2. TierBytes(t)' = TierBytes(t)
      BY <1>3, <3>0, <3>1 DEF TierBytes
    <3>3. TierBytes(t) + (IF tier = t THEN free ELSE 0) <= inst.caps[t]
      BY <1>1 DEF TiersFit
    <3>4. free \in Nat /\ inst.caps[t] \in Nat /\ TierBytes(t) \in Int
      BY <1>1, <1>2, StateType, TierBytesInt, SMTT(60) DEF Fast
    <3> QED
      BY <3>2, <3>3, <3>4
  <2> QED
    BY <1>1, <1>3, <2>1, <2>3, <2>4, <2>5, <2>6 DEF Inv, MixWhole
<1> QED
  BY <1>4, <1>5

-----------------------------------------------------------------------------
(* Where the targets are.                                                  *)

\* Integer division, by its remainder.
LEMMA DivBounds ==
  ASSUME NEW a \in Nat, NEW b \in Nat \ {0}
  PROVE  a \div b \in Nat /\ b * (a \div b) <= a /\ a < b * (a \div b) + b
<1> DEFINE q == a \div b
           r == a % b
<1>1. q \in Nat /\ r \in 0 .. (b - 1) /\ a = b * q + r
  OBVIOUS
<1> HIDE DEF q, r
<1>2. b * q \in Nat
  BY <1>1
<1> QED
  BY <1>1, <1>2 DEF q

\* Two numbers at least 2 b apart have quotients by b at least two apart.
LEMMA DivAhead ==
  ASSUME NEW a \in Nat, NEW c \in Nat, NEW b \in Nat \ {0}, c >= a + 2 * b
  PROVE  c \div b >= a \div b + 2
<1> DEFINE p == c \div b
           q == a \div b
<1>1. p \in Nat /\ q \in Nat /\ b * q <= a /\ c < b * p + b
  BY DivBounds
<1> HIDE DEF p, q
<1>2. b * p \in Nat /\ b * q \in Nat /\ b * p > b * q + b
  BY <1>1
<1>3. ASSUME p <= q + 1 PROVE FALSE
  <2>1. b * p <= b * (q + 1) /\ b * (q + 1) = b * q + b
    BY <1>1, <1>3
  <2> QED
    BY <1>2, <2>1
<1> QED
  BY <1>1, <1>3 DEF p, q

\* With at most half of a group on NAND, each target is at least two past the one
\* before, and the first is not first.
LEMMA SpotsApart ==
  ASSUME NEW l \in Nat, NEW n \in Nat \ {0}, 2 * n <= l
  PROVE  /\ \A j \in 0 .. (n - 1) : Spot(l, n, j) \in 2 .. l
         /\ \A j, k \in 0 .. (n - 1) : j < k => Spot(l, n, k) >= Spot(l, n, j) + 2
<1> DEFINE a(j) == (2 * j + 1) * l
           b == 2 * n
           q(j) == a(j) \div b
<1>1. b \in Nat \ {0} /\ b <= l
  OBVIOUS
<1>2. \A j \in 0 .. (n - 1) : a(j) \in Nat /\ a(j) >= l /\ a(j) + l <= b * l
  <2> TAKE j \in 0 .. (n - 1)
  <2>1. PICK c \in Nat : c = 2 * j + 1
    OBVIOUS
  <2>2. c >= 1 /\ c + 1 <= b
    BY <2>1
  <2>3. c * l \in Nat /\ c * l >= l
    BY <2>2
  <2>4. PICK d \in Nat : b = c + 1 + d
    <3>1. b - c - 1 \in Nat /\ b = c + 1 + (b - c - 1)
      BY <2>2, <1>1
    <3> QED
      BY <3>1
  <2>5. b * l = c * l + l + d * l /\ d * l \in Nat
    BY <2>4
  <2> QED
    BY <2>1, <2>3, <2>5
<1>3. \A j, k \in 0 .. (n - 1) : j < k => a(k) >= a(j) + 2 * b
  <2> TAKE j, k \in 0 .. (n - 1)
  <2> HAVE j < k
  <2>1. PICK d \in Nat : k = j + 1 + d
    <3>1. k - j - 1 \in Nat /\ k = j + 1 + (k - j - 1)
      OBVIOUS
    <3> QED
      BY <3>1
  <2>2. a(k) = (2 * j + 1) * l + 2 * l + 2 * (d * l) /\ d * l \in Nat
    BY <2>1
  <2>3. (2 * j + 1) * l \in Nat
    OBVIOUS
  <2> QED
    BY <1>1, <2>2, <2>3
<1> HIDE DEF a, b
<1>4. \A j \in 0 .. (n - 1) : q(j) \in 1 .. (l - 1)
  <2> TAKE j \in 0 .. (n - 1)
  <2>1. a(j) \in Nat /\ a(j) >= l /\ a(j) + l <= b * l
    BY <1>2
  <2>2. q(j) \in Nat /\ b * q(j) <= a(j) /\ a(j) < b * q(j) + b
    BY <1>1, <2>1, DivBounds
  <2> HIDE DEF q
  <2>3. q(j) # 0
    BY <1>1, <2>1, <2>2
  <2>4. ASSUME q(j) >= l PROVE FALSE
    <3>1. b * q(j) >= b * l
      BY <1>1, <2>2, <2>4
    <3>2. l > 0 /\ b * l \in Nat /\ b * q(j) \in Nat
      BY <1>1, <2>2
    <3> QED
      BY <2>1, <2>2, <3>1, <3>2
  <2> QED
    BY <2>2, <2>3, <2>4
<1>5. \A j, k \in 0 .. (n - 1) : j < k => q(k) >= q(j) + 2
  BY <1>1, <1>2, <1>3, DivAhead
<1>6. \A j \in 0 .. (n - 1) : Spot(l, n, j) = 1 + q(j)
  <2> TAKE j \in 0 .. (n - 1)
  <2>1. q(j) <= l - 1 /\ q(j) \in Nat
    BY <1>4
  <2>2. Spot(l, n, j) = 1 + Least(l - 1, q(j))
    BY DEF Spot, a, b
  <2> HIDE DEF q
  <2> QED
    BY <2>1, <2>2 DEF Least
<1> HIDE DEF q
<1> QED
  BY <1>4, <1>5, <1>6

\* No two neighbours of the group are both targets, and its first sub-layer is not one.
LEMMA TargetsApart ==
  ASSUME TypeOK, NEW g, NandOf(g) # {}, 2 * Cardinality(NandOf(g)) <= Cardinality(Group(g))
  PROVE  /\ Cardinality(Target(g)) = Cardinality(NandOf(g))
         /\ \A q \in 1 .. Cardinality(Group(g)) :
              Members(g)[q] \in Target(g) => q > 1 /\ Members(g)[q - 1] \notin Target(g)
<1> DEFINE l == Cardinality(Group(g))
           n == Cardinality(NandOf(g))
           m == Members(g)
           S(j) == Spot(l, n, j)
<1>1. /\ n \in Nat \ {0} /\ l \in Nat /\ 2 * n <= l
      /\ Target(g) = {m[S(j)] : j \in 0 .. (n - 1)}
  BY TargetIsOfGroup
<1>2. \A x, y \in 1 .. l : m[x] = m[y] => x = y
  BY GroupIsFinite DEF IsInjective
<1> HIDE DEF l, n, m
<1>3. /\ \A j \in 0 .. (n - 1) : S(j) \in 2 .. l
      /\ \A j, k \in 0 .. (n - 1) : j < k => S(k) >= S(j) + 2
  BY <1>1, SpotsApart
<1> HIDE DEF S
<1>4. Cardinality(Target(g)) = n
  <2> DEFINE f == [j \in 0 .. (n - 1) |-> m[S(j)]]
  <2>1. \A j, k \in 0 .. (n - 1) : f[j] = f[k] => j = k
    <3> SUFFICES ASSUME NEW j \in 0 .. (n - 1), NEW k \in 0 .. (n - 1), f[j] = f[k], j # k
                 PROVE  FALSE
      OBVIOUS
    <3>1. S(j) \in 1 .. l /\ S(k) \in 1 .. l /\ S(j) \in Int /\ S(k) \in Int
      BY <1>1, <1>3
    <3>2. S(j) = S(k)
      BY <1>2, <3>1
    <3>3. j < k \/ k < j
      BY <1>1
    <3> QED
      BY <1>3, <3>1, <3>2, <3>3
  <2>2. f \in Bijection(0 .. (n - 1), Target(g))
    <3>1. f \in [0 .. (n - 1) -> Target(g)] /\ \A x \in Target(g) : \E j \in 0 .. (n - 1) : f[j] = x
      BY <1>1
    <3> HIDE DEF f
    <3> QED
      BY <2>1, <3>1 DEF Bijection, Injection, Surjection, IsInjective
  <2>3. IsFiniteSet(0 .. (n - 1)) /\ Cardinality(0 .. (n - 1)) = n
    <3>1. 0 \in Int /\ n - 1 \in Int /\ ~(0 > n - 1) /\ (n - 1) - 0 + 1 = n
      BY <1>1
    <3> QED
      BY <3>1, FS_Interval
  <2> QED
    BY <2>2, <2>3, FS_Bijection DEF ExistsBijection
<1>5. ASSUME NEW q \in 1 .. l, m[q] \in Target(g)
      PROVE  q > 1 /\ m[q - 1] \notin Target(g)
  <2>1. PICK j \in 0 .. (n - 1) : m[q] = m[S(j)]
    BY <1>1, <1>5
  <2>2. S(j) \in 2 .. l /\ S(j) \in 1 .. l
    BY <1>1, <1>3
  <2>3. q = S(j)
    BY <1>2, <2>1, <2>2
  <2>4. q > 1 /\ q - 1 \in 1 .. l /\ q \in Int
    BY <1>1, <2>2, <2>3
  <2>5. ASSUME m[q - 1] \in Target(g) PROVE FALSE
    <3>1. PICK k \in 0 .. (n - 1) : m[q - 1] = m[S(k)]
      BY <1>1, <2>5
    <3>2. S(k) \in 2 .. l /\ S(k) \in 1 .. l
      BY <1>1, <1>3
    <3>3. q - 1 = S(k)
      BY <1>2, <2>4, <3>1, <3>2
    <3>4. k < j \/ j < k \/ j = k
      BY <1>1
    <3>5. k < j => S(j) >= S(k) + 2
      BY <1>3
    <3>6. j < k => S(k) >= S(j) + 2
      BY <1>3
    <3> QED
      BY <2>3, <2>4, <3>3, <3>4, <3>5, <3>6
  <2> QED
    BY <2>4, <2>5
<1> QED
  BY <1>4, <1>5 DEF l, n, m

\* What NandBehindFastWork says of a group with N on NAND.
Apart(N, g) ==
  2 * Cardinality(N) <= Cardinality(Group(g)) /\ Cardinality(Group(g)) >= 3 =>
    \A q \in 1 .. Cardinality(Group(g)) :
      Members(g)[q] \in N => q > 1 /\ Members(g)[q - 1] \notin N

\* A group that has been spread is apart.
SpreadApart ==
  pc \in {"spread", "done"} /\ inst.mode = "spread" => \A i \in Indices :
    GroupOf(i) \notin groups => Apart(NandOf(GroupOf(i)), GroupOf(i))

\* Once a group has been spread, its NAND sub-layers are apart.
LEMMA SpreadGroupApart ==
  ASSUME TypeOK, NEW g
  PROVE  IF Spreadable(g) THEN Apart(Target(g), g) ELSE Apart(NandOf(g), g)
<1>1. CASE Spreadable(g)
  <2>1. /\ NandOf(g) # {} /\ Cardinality(Target(g)) = Cardinality(NandOf(g))
    BY <1>1 DEF Spreadable
  <2>2. CASE 2 * Cardinality(NandOf(g)) <= Cardinality(Group(g))
    BY <1>1, <2>1, <2>2, TargetsApart DEF Apart
  <2>3. CASE ~(2 * Cardinality(NandOf(g)) <= Cardinality(Group(g)))
    BY <1>1, <2>1, <2>3 DEF Apart
  <2> QED
    BY <2>2, <2>3
<1>2. CASE ~Spreadable(g)
  <2> SUFFICES ASSUME 2 * Cardinality(NandOf(g)) <= Cardinality(Group(g)),
                      Cardinality(Group(g)) >= 3
               PROVE  \A q \in 1 .. Cardinality(Group(g)) : Members(g)[q] \in NandOf(g) =>
                        q > 1 /\ Members(g)[q - 1] \notin NandOf(g)
    BY <1>2 DEF Apart
  <2>1. CASE NandOf(g) = {}
    BY <2>1
  <2>2. CASE NandOf(g) # {}
    <3>1. /\ Cardinality(Target(g)) = Cardinality(NandOf(g))
          /\ \A q \in 1 .. Cardinality(Group(g)) :
               Members(g)[q] \in Target(g) => q > 1 /\ Members(g)[q - 1] \notin Target(g)
      BY <2>2, TargetsApart
    <3>2. NandOf(g) # Group(g)
      <4>1. Cardinality(Group(g)) \in Nat
        BY GroupIsFinite
      <4> SUFFICES ASSUME NandOf(g) = Group(g) PROVE FALSE
        OBVIOUS
      <4> QED
        BY <4>1
    <3>3. Target(g) = NandOf(g)
      BY <1>2, <2>2, <3>1, <3>2 DEF Spreadable
    <3> QED
      BY <3>1, <3>3
  <2> QED
    BY <2>1, <2>2
<1> QED
  BY <1>1, <1>2

-----------------------------------------------------------------------------
(* Spreading and striping.                                                 *)

\* What a spread does to every group's NAND set.
LEMMA SpreadMoves ==
  ASSUME TypeOK, NEW g, inst' = inst, share' = IF Spreadable(g) THEN Swapped(g) ELSE share
  PROVE  /\ NandOf(g)' = IF Spreadable(g) THEN Target(g) ELSE NandOf(g)
         /\ \A x : x # g => NandOf(x)' = NandOf(x)
<1>1. /\ Indices' = Indices /\ \A x : Group(x)' = Group(x)
  BY SameInstance
<1>2. PICK s : s = share'
  OBVIOUS
<1>3. \A x : NandOf(x)' = {i \in Group(x) : s[i][4] > 0}
  BY <1>1, <1>2 DEF NandOf, OnNand, Nand
<1>4. \A x : NandOf(x) = {i \in Group(x) : share[i][4] > 0}
  BY DEF NandOf, OnNand, Nand
<1>5. CASE ~Spreadable(g)
  <2>1. s = share
    BY <1>2, <1>5
  <2> QED
    BY <1>3, <1>4, <1>5, <2>1
<1>6. CASE Spreadable(g)
  <2> DEFINE h == Mirror(g)
  <2>1. /\ h \in [Indices -> Indices]
        /\ \A i \in Indices : GroupOf(h[i]) = GroupOf(i)
        /\ \A i \in Indices \ Group(g) : h[i] = i
        /\ \A i \in Group(g) : h[i] \in NandOf(g) <=> i \in Target(g)
        /\ s = [i \in Indices |-> share[h[i]]]
    BY <1>2, <1>6, MirrorSwaps
  <2> HIDE DEF h
  <2>2. \A x : Group(x) \subseteq Indices /\ \A i \in Group(x) : GroupOf(i) = x
    BY DEF Group
  <2>3. \A i \in Group(g) : h[i] \in Group(g)
    BY <2>1, <2>2 DEF Group
  <2>4. \A i \in Group(g) : s[i][4] > 0 <=> i \in Target(g)
    BY <1>4, <2>1, <2>2, <2>3
  <2>5. Target(g) \subseteq Group(g)
    BY <1>6, TargetIsOfGroup DEF Spreadable
  <2>6. \A x : x # g => \A i \in Group(x) : s[i] = share[i]
    <3> SUFFICES ASSUME NEW x, x # g, NEW i \in Group(x) PROVE s[i] = share[i]
      OBVIOUS
    <3>1. i \in Indices \ Group(g)
      BY <2>2
    <3> QED
      BY <2>1, <3>1
  <2>7. NandOf(g)' = Target(g)
    BY <1>3, <2>4, <2>5
  <2>8. \A x : x # g => NandOf(x)' = NandOf(x)
    BY <1>3, <1>4, <2>6
  <2> QED
    BY <1>6, <2>7, <2>8
<1> QED
  BY <1>5, <1>6

\* Being apart depends on the group's NAND set alone.
LEMMA SameApart ==
  ASSUME inst' = inst, NEW g, NEW N, NandOf(g)' = N, Apart(N, g)
  PROVE  Apart(NandOf(g), g)'
<1>1. Group(g)' = Group(g) /\ Members(g)' = Members(g)
  BY SameInstance
<1>2. PICK n : n = NandOf(g)'
  OBVIOUS
<1> QED
  BY <1>1, <1>2 DEF Apart

\* Spreading one group moves no byte between tiers and disturbs no other group.
LEMMA SpreadKeepsInv ==
  ASSUME Inv, SpreadApart, Spread
  PROVE  Inv' /\ SpreadApart' /\ \A t \in 1 .. 4 : TierBytes(t)' = TierBytes(t)
<1>1. /\ TypeOK /\ LayersWhole /\ TiersFit /\ pc = "spread" /\ \A i \in Indices : rem[i] = 0
      /\ inst' = inst /\ order' = order /\ mix' = mix /\ kvGot' = kvGot /\ pc' = pc
      /\ tier' = tier /\ pos' = pos /\ free' = free /\ rem' = rem
  BY DEF Inv, Spread
<1>2. PICK g \in groups : /\ share' = IF Spreadable(g) THEN Swapped(g) ELSE share
                          /\ groups' = groups \ {g}
  BY DEF Spread
<1>3. /\ layers' = layers /\ Indices' = Indices /\ Striped' = Striped
      /\ {GroupOf(j) : j \in Indices}' = {GroupOf(j) : j \in Indices}
      /\ \A i : GroupOf(i)' = GroupOf(i)
  BY <1>1, SameInstance
<1>4. PICK s : s = share'
  OBVIOUS
<1>5. PICK h : /\ h \in [Indices -> Indices] /\ \A i \in Indices : s[i] = share[h[i]]
               /\ s = [i \in Indices |-> share[h[i]]]
               /\ \A i \in Indices : GroupOf(h[i]) = GroupOf(i)
  <2>1. CASE Spreadable(g)
    <3> WITNESS Mirror(g)
    <3> QED
      BY <1>1, <1>2, <1>4, <2>1, MirrorSwaps
  <2>2. CASE ~Spreadable(g)
    <3> DEFINE h == [i \in Indices |-> i]
    <3>1. share \in [Indices -> [1 .. 4 -> Nat]]
      BY <1>1, StateType
    <3>2. /\ h \in [Indices -> Indices] /\ \A i \in Indices : s[i] = share[h[i]]
          /\ s = [i \in Indices |-> share[h[i]]]
          /\ \A i \in Indices : GroupOf(h[i]) = GroupOf(i)
      BY <1>2, <1>4, <2>2, <3>1
    <3> QED
      BY <3>2
  <2> QED
    BY <2>1, <2>2
<1>6. /\ share \in [Indices -> [1 .. 4 -> Nat]] /\ rem \in [Indices -> Nat]
      /\ \A i \in Indices : \A t \in 1 .. 4 : share[i][t] \in Nat
  BY <1>1, StateType
<1>7. TypeOK'
  <2>1. share' \in [Indices -> [1 .. 4 -> Nat]]
    BY <1>4, <1>5, <1>6
  <2>2. groups' \subseteq {GroupOf(j) : j \in Indices}
    BY <1>1, <1>2 DEF TypeOK
  <2> QED
    BY <1>1, <1>3, <2>1, <2>2 DEF TypeOK
<1>8. FillInv' /\ MixWhole'
  BY <1>1 DEF FillInv, MixWhole
<1>9. LayersWhole'
  <2> SUFFICES ASSUME NEW j \in Indices
               PROVE  s[j][1] + s[j][2] + s[j][3] + s[j][4] + rem[j] = layers[j].bytes
    BY <1>1, <1>3, <1>4 DEF LayersWhole
  <2>1. h[j] \in Indices /\ s[j] = share[h[j]] /\ rem[j] = 0 /\ rem[h[j]] = 0
    BY <1>1, <1>5
  <2>2. layers[h[j]].bytes = layers[j].bytes
    BY <1>5 DEF GroupOf
  <2>3. share[h[j]][1] + share[h[j]][2] + share[h[j]][3] + share[h[j]][4] + rem[h[j]]
          = layers[h[j]].bytes
    BY <1>1, <2>1 DEF LayersWhole
  <2> QED
    BY <2>1, <2>2, <2>3
<1>10. \A t \in 1 .. 4 : TierBytes(t)' = TierBytes(t)
  <2>1. CASE Spreadable(g)
    BY <1>1, <1>2, <2>1, SwapKeepsTiers
  <2>2. CASE ~Spreadable(g)
    BY <1>2, <1>3, <2>2 DEF TierBytes
  <2> QED
    BY <2>1, <2>2
<1>11. TiersFit'
  <2>1. \A t \in Fast : t \in 1 .. 4
    BY DEF Fast
  <2> QED
    BY <1>1, <1>10, <2>1 DEF TiersFit
<1>12. SpreadApart'
  <2>1. NandOf(g)' = (IF Spreadable(g) THEN Target(g) ELSE NandOf(g))
        /\ \A x : x # g => NandOf(x)' = NandOf(x)
    BY <1>1, <1>2, SpreadMoves
  <2>2. IF Spreadable(g) THEN Apart(Target(g), g) ELSE Apart(NandOf(g), g)
    BY <1>1, SpreadGroupApart
  <2>3. Apart(NandOf(g), g)'
    <3>1. PICK N : N = IF Spreadable(g) THEN Target(g) ELSE NandOf(g)
      OBVIOUS
    <3>2. NandOf(g)' = N /\ Apart(N, g)
      BY <2>1, <2>2, <3>1
    <3> QED
      BY <1>1, <3>2, SameApart
  <2>4. \A x : x # g /\ Apart(NandOf(x), x) => Apart(NandOf(x), x)'
    <3> SUFFICES ASSUME NEW x, x # g, Apart(NandOf(x), x) PROVE Apart(NandOf(x), x)'
      OBVIOUS
    <3>1. PICK N : N = NandOf(x)
      OBVIOUS
    <3>2. NandOf(x)' = N /\ Apart(N, x)
      BY <2>1, <3>1
    <3> QED
      BY <1>1, <3>2, SameApart
  <2>5. inst.mode = "spread" => \A x :
           x \notin groups' /\ x \in {GroupOf(j) : j \in Indices} => Apart(NandOf(x), x)'
    <3> SUFFICES ASSUME inst.mode = "spread", NEW x, x \notin groups',
                        x \in {GroupOf(j) : j \in Indices}
                 PROVE  Apart(NandOf(x), x)'
      OBVIOUS
    <3>1. CASE x = g
      BY <2>3, <3>1
    <3>2. CASE x # g
      <4>1. x \notin groups
        BY <1>2, <3>2
      <4>2. Apart(NandOf(x), x)
        BY <1>1, <4>1 DEF SpreadApart
      <4> QED
        BY <2>4, <3>2, <4>2
    <3> QED
      BY <3>1, <3>2
  <2>6. ASSUME inst.mode = "spread", NEW i \in Indices, GroupOf(i) \notin groups'
        PROVE  Apart(NandOf(GroupOf(i)), GroupOf(i))'
    <3>1. PICK x : x = GroupOf(i)
      OBVIOUS
    <3>2. Apart(NandOf(x), x)'
      BY <2>5, <2>6, <3>1
    <3>3. x = GroupOf(i)'
      BY <1>3, <3>1
    <3> QED
      BY <3>2, <3>3
  <2> QED
    BY <1>1, <1>3, <2>6 DEF SpreadApart
<1> QED
  BY <1>1, <1>3, <1>7, <1>8, <1>9, <1>10, <1>11, <1>12 DEF Inv

\* Striping records the common split and moves no byte.
LEMMA StripeKeepsInv ==
  ASSUME Inv, SpreadApart, Stripe
  PROVE  Inv' /\ SpreadApart' /\ \A t \in 1 .. 4 : TierBytes(t)' = TierBytes(t)
<1>1. /\ TypeOK /\ LayersWhole /\ TiersFit /\ pc = "spread" /\ groups = {}
      /\ \A i \in Indices : rem[i] = 0
      /\ inst' = inst /\ order' = order /\ kvGot' = kvGot /\ pc' = "done" /\ tier' = tier
      /\ pos' = pos /\ free' = free /\ rem' = rem /\ share' = share /\ groups' = groups
      /\ mix' = IF inst.mode = "stripe"
                THEN [t \in 1 .. 4 |-> SumFunctionOnSet([i \in Indices |-> share[i][t]], Striped)]
                ELSE mix
  BY DEF Inv, Stripe
<1>2. /\ layers' = layers /\ Indices' = Indices /\ Striped' = Striped
      /\ {GroupOf(j) : j \in Indices}' = {GroupOf(j) : j \in Indices}
      /\ \A i : GroupOf(i)' = GroupOf(i)
  BY <1>1, SameInstance
<1>3. /\ IsFiniteSet(Indices) /\ Striped \in SUBSET Indices /\ rem \in [Indices -> Nat]
      /\ \A i \in Indices : \A t \in 1 .. 4 : share[i][t] \in Nat
      /\ mix \in [1 .. 4 -> Nat]
  BY <1>1, StateType DEF Striped
<1> DEFINE col(t) == [i \in Indices |-> share[i][t]]
           S(t) == SumFunctionOnSet(col(t), Striped)
<1>4. IsFiniteSet(Striped)
  BY <1>3, FS_Subset
<1>5. \A t \in 1 .. 4 : /\ \A i \in Striped : col(t)[i] \in Nat /\ col(t)[i] \in Int
                        /\ S(t) \in Nat
  <2> TAKE t \in 1 .. 4
  <2>1. \A i \in Striped : col(t)[i] \in Nat /\ col(t)[i] \in Int
    BY <1>3
  <2> HIDE DEF col
  <2> QED
    BY <1>4, <2>1, SumNat
<1>6. TypeOK'
  <2>1. mix' \in [1 .. 4 -> Nat]
    BY <1>1, <1>3, <1>5
  <2> QED
    BY <1>1, <1>2, <2>1 DEF TypeOK
<1>7. MixWhole'
  <2> SUFFICES ASSUME inst.mode = "stripe"
               PROVE  mix'[1] + mix'[2] + mix'[3] + mix'[4]
                        = SumFunctionOnSet([i \in Indices |-> layers[i].bytes], Striped)
    BY <1>1, <1>2 DEF MixWhole
  <2>1. mix'[1] = S(1) /\ mix'[2] = S(2) /\ mix'[3] = S(3) /\ mix'[4] = S(4)
    BY <1>1
  <2> DEFINE c1 == col(1)  c2 == col(2)  c3 == col(3)  c4 == col(4)
             w == [i \in Indices |-> layers[i].bytes]
             a == [i \in Indices |-> c1[i] + c2[i]]
             b == [i \in Indices |-> c3[i] + c4[i]]
  <2>2. \A i \in Striped : /\ c1[i] \in Int /\ c2[i] \in Int /\ c3[i] \in Int /\ c4[i] \in Int
                           /\ a[i] = c1[i] + c2[i] /\ b[i] = c3[i] + c4[i]
    BY <1>3, <1>5
  <2>3. \A i \in Striped : w[i] = a[i] + b[i] /\ a[i] \in Int /\ b[i] \in Int
    <3> TAKE i \in Striped
    <3>1. /\ i \in Indices /\ w[i] = layers[i].bytes /\ c1[i] = share[i][1]
          /\ c2[i] = share[i][2] /\ c3[i] = share[i][3] /\ c4[i] = share[i][4]
      BY <1>3
    <3>2. share[i][1] + share[i][2] + share[i][3] + share[i][4] + rem[i] = layers[i].bytes
          /\ rem[i] = 0
      BY <1>1, <3>1 DEF LayersWhole
    <3>3. a[i] = c1[i] + c2[i] /\ b[i] = c3[i] + c4[i]
      BY <2>2
    <3> HIDE DEF a, b, w, c1, c2, c3, c4
    <3> QED
      BY <1>3, <3>1, <3>2, <3>3
  <2>4. S(1) = SumFunctionOnSet(c1, Striped) /\ S(2) = SumFunctionOnSet(c2, Striped)
        /\ S(3) = SumFunctionOnSet(c3, Striped) /\ S(4) = SumFunctionOnSet(c4, Striped)
    OBVIOUS
  <2>5. S(1) \in Nat /\ S(2) \in Nat /\ S(3) \in Nat /\ S(4) \in Nat
    BY <1>5
  <2> HIDE DEF a, b, w, c1, c2, c3, c4, S
  <2>6. SumFunctionOnSet(a, Striped)
          = SumFunctionOnSet(c1, Striped) + SumFunctionOnSet(c2, Striped)
    BY <1>4, <2>2, SumPlus
  <2>7. SumFunctionOnSet(b, Striped)
          = SumFunctionOnSet(c3, Striped) + SumFunctionOnSet(c4, Striped)
    BY <1>4, <2>2, SumPlus
  <2>8. SumFunctionOnSet(w, Striped)
          = SumFunctionOnSet(a, Striped) + SumFunctionOnSet(b, Striped)
    BY <1>4, <2>3, SumPlus
  <2>9. SumFunctionOnSet(w, Striped) = S(1) + S(2) + S(3) + S(4)
    BY <2>4, <2>5, <2>6, <2>7, <2>8
  <2> QED
    BY <2>1, <2>9 DEF w
<1>8. \A t \in 1 .. 4 : TierBytes(t)' = TierBytes(t)
  BY <1>1, <1>2 DEF TierBytes
<1>9. FillInv' /\ LayersWhole'
  BY <1>1, <1>2 DEF FillInv, LayersWhole
<1>10. TiersFit'
  <2>1. \A t \in Fast : t \in 1 .. 4
    BY DEF Fast
  <2> QED
    BY <1>1, <1>8, <2>1 DEF TiersFit
<1>11. SpreadApart'
  <2> SUFFICES ASSUME inst.mode = "spread", NEW i \in Indices
               PROVE  Apart(NandOf(GroupOf(i)), GroupOf(i))'
    BY <1>1, <1>2 DEF SpreadApart
  <2>1. PICK x, N : x = GroupOf(i) /\ N = NandOf(x)
    OBVIOUS
  <2>2. Apart(N, x) /\ x = GroupOf(i)'
    BY <1>1, <1>2, <2>1 DEF SpreadApart
  <2>3. NandOf(x)' = N
    BY <1>1, <2>1, SameInstance DEF NandOf, OnNand
  <2>4. Apart(NandOf(x), x)'
    BY <1>1, <2>2, <2>3, SameApart
  <2> QED
    BY <2>2, <2>4
<1> QED
  BY <1>1, <1>2, <1>6, <1>7, <1>8, <1>9, <1>10, <1>11 DEF Inv

\* Nothing changes.
LEMMA StutterKeepsInv ==
  ASSUME Inv, SpreadApart, UNCHANGED vars
  PROVE  Inv' /\ SpreadApart' /\ \A t \in 1 .. 4 : TierBytes(t)' = TierBytes(t)
<1>1. /\ inst' = inst /\ order' = order /\ kvGot' = kvGot /\ pc' = pc /\ tier' = tier
      /\ pos' = pos /\ free' = free /\ rem' = rem /\ share' = share /\ groups' = groups
      /\ mix' = mix
  BY DEF vars
<1>2. /\ layers' = layers /\ Indices' = Indices /\ Striped' = Striped
      /\ {GroupOf(j) : j \in Indices}' = {GroupOf(j) : j \in Indices}
      /\ (\A i : GroupOf(i)' = GroupOf(i))
      /\ \A g : Group(g)' = Group(g) /\ Members(g)' = Members(g)
  BY <1>1, SameInstance
<1>3. TypeOK' /\ FillInv' /\ LayersWhole' /\ TiersFit' /\ MixWhole'
  <2>1. TypeOK'
    BY <1>1, <1>2, SMTT(60) DEF Inv, TypeOK
  <2>2. FillInv'
    BY <1>1, <1>2 DEF Inv, FillInv
  <2>3. LayersWhole' /\ TiersFit' /\ MixWhole'
    BY <1>1, <1>2 DEF Inv, LayersWhole, TiersFit, TierBytes, MixWhole
  <2> QED
    BY <2>1, <2>2, <2>3
<1>4. SpreadApart'
  <2> SUFFICES ASSUME pc \in {"spread", "done"}, inst.mode = "spread", NEW i \in Indices,
                      GroupOf(i) \notin groups
               PROVE  Apart(NandOf(GroupOf(i)), GroupOf(i))'
    BY <1>1, <1>2 DEF SpreadApart
  <2>1. PICK x, N : x = GroupOf(i) /\ N = NandOf(x)
    OBVIOUS
  <2>2. Apart(N, x) /\ x = GroupOf(i)'
    BY <1>1, <1>2, <2>1 DEF SpreadApart
  <2>3. NandOf(x)' = N
    BY <1>1, <2>1, SameInstance DEF NandOf, OnNand
  <2>4. Apart(NandOf(x), x)'
    BY <1>1, <2>2, <2>3, SameApart
  <2> QED
    BY <2>2, <2>4
<1>5. \A t \in 1 .. 4 : TierBytes(t)' = TierBytes(t)
  BY <1>1, <1>2 DEF TierBytes
<1> QED
  BY <1>1, <1>2, <1>3, <1>4, <1>5 DEF Inv

\* Every step keeps the invariant, and from the spreading on the tiers keep their bytes.
LEMMA StepKeepsInv ==
  ASSUME Inv, SpreadApart, [Next]_vars
  PROVE  /\ Inv' /\ SpreadApart'
         /\ pc = "spread" => \A t \in 1 .. 4 : TierBytes(t)' = TierBytes(t)
<1>1. CASE Take
  <2>1. pc = "fill" /\ pc' = pc
    BY <1>1 DEF Take
  <2> QED
    BY <1>1, <2>1, TakeKeepsInv DEF SpreadApart
<1>2. CASE NextTier
  <2>1. pc = "fill" /\ inst' = inst
        /\ (pc' = "fill" \/ (pc' = "spread"
              /\ (inst.mode = "spread" => groups' = {GroupOf(i) : i \in Indices})))
    BY <1>2 DEF NextTier
  <2>2. SpreadApart'
    BY <2>1, SameInstance DEF SpreadApart
  <2> QED
    BY <1>2, <2>1, <2>2, NextTierKeepsInv
<1>3. CASE Spread
  BY <1>3, SpreadKeepsInv
<1>4. CASE Stripe
  BY <1>4, StripeKeepsInv
<1>5. CASE UNCHANGED vars
  BY <1>5, StutterKeepsInv
<1> QED
  BY <1>1, <1>2, <1>3, <1>4, <1>5 DEF Next

\* The inductive invariant holds for every set of calls.
THEOREM SpecInv == Spec => [](Inv /\ SpreadApart)
<1>1. Init => Inv /\ SpreadApart
  <2>1. Init => SpreadApart
    BY DEF Init, SpreadApart
  <2> QED
    BY <2>1, InvInit
<1>2. (Inv /\ SpreadApart) /\ [Next]_vars => (Inv /\ SpreadApart)'
  BY StepKeepsInv
<1> QED
  BY <1>1, <1>2, PTL DEF Spec

-----------------------------------------------------------------------------
(* What the run checks.                                                    *)

\* The variables keep their types.
THEOREM SpecTypeOK == Spec => []TypeOK
<1>1. Inv => TypeOK
  BY DEF Inv
<1> QED
  BY <1>1, SpecInv, PTL

\* "Every tier is filled exactly": each byte of each layer is on one tier or still to
\* place, and no tier holds more than it has, through filling, spreading and striping.
THEOREM SpecSharesFit == Spec => []SharesFit
<1>1. ASSUME Inv PROVE SharesFit
  <2>1. TypeOK /\ LayersWhole /\ TiersFit /\ MixWhole
    BY <1>1 DEF Inv
  <2>2. ASSUME NEW i \in Indices
        PROVE  SumFunctionOnSet(share[i], 1 .. 4) + rem[i] = layers[i].bytes
    <3>1. \A t \in 1 .. 4 : share[i][t] \in Nat
      BY <2>1, StateType
    <3>2. SumFunctionOnSet(share[i], 1 .. 4) = share[i][1] + share[i][2] + share[i][3] + share[i][4]
      BY <3>1, SumOfFour
    <3> QED
      BY <2>1, <3>2 DEF LayersWhole
  <2>3. SumFunctionOnSet(mix, 1 .. 4) = mix[1] + mix[2] + mix[3] + mix[4]
    <3>1. \A t \in 1 .. 4 : mix[t] \in Nat
      BY <2>1, StateType
    <3> QED
      BY <3>1, SumOfFour
  <2> QED
    BY <2>1, <2>2, <2>3 DEF SharesFit, TiersFit, MixWhole
<1> QED
  BY <1>1, SpecInv, PTL

\* A layer is on a slower tier only if the layers after it in the order are kept off
\* the faster ones, as long as take() goes through the order.
THEOREM SpecFasterFirst == Spec => []FasterFirst
<1>1. Inv => FasterFirst
  BY DEF Inv, FillInv, FasterFirst
<1> QED
  BY <1>1, SpecInv, PTL

\* Spreading and striping leave on every tier the bytes the fill gave it.
THEOREM SpecSpreadKeepsTiers == Spec => SpreadKeepsTiers
<1>1. (Inv /\ SpreadApart) /\ [Next]_vars
        => [pc = "spread" => \A t \in 1 .. 4 : TierBytes(t)' = TierBytes(t)]_vars
  BY StepKeepsInv
<1> QED
  BY <1>1, SpecInv, PTL DEF Spec, SpreadKeepsTiers

\* "each NAND read has fast-tier work before it to hide behind", in a group of which at
\* most half is on NAND.
THEOREM SpecNandBehindFastWork == Spec => []NandBehindFastWork
<1>1. ASSUME Inv, SpreadApart PROVE NandBehindFastWork
  <2> SUFFICES ASSUME pc = "done", inst.mode = "spread", NEW i \in Indices,
                      2 * Cardinality(NandOf(GroupOf(i))) <= Len(Members(GroupOf(i))),
                      Len(Members(GroupOf(i))) >= 3,
                      NEW q \in DOMAIN Members(GroupOf(i)), OnNand(Members(GroupOf(i))[q])
               PROVE  q > 1 /\ ~OnNand(Members(GroupOf(i))[q - 1])
    BY DEF NandBehindFastWork
  <2> DEFINE g == GroupOf(i)
             m == Members(g)
             l == Cardinality(Group(g))
  <2>1. TypeOK /\ groups = {}
    BY <1>1 DEF Inv
  <2>2. /\ Len(m) = l /\ DOMAIN m = 1 .. l /\ l \in Nat
        /\ \A k \in 1 .. l : m[k] \in Group(g)
    BY <2>1, GroupIsFinite
  <2>3. Apart(NandOf(g), g)
    BY <1>1, <2>1 DEF SpreadApart
  <2>4. \A k \in 1 .. l : m[k] \in NandOf(g) <=> OnNand(m[k])
    BY <2>2 DEF NandOf
  <2>5. q > 1 /\ m[q - 1] \notin NandOf(g)
    BY <2>2, <2>3, <2>4 DEF Apart
  <2>6. q - 1 \in 1 .. l
    BY <2>2, <2>5
  <2> QED
    BY <2>4, <2>5, <2>6
<1> QED
  BY <1>1, SpecInv, PTL
=============================================================================
