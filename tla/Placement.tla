------------------------------ MODULE Placement ------------------------------
(***************************************************************************)
(* semantic_aware_placement of tiersched.py: the tiers are filled fastest  *)
(* first, each in one order over the sub-layers, a sub-layer that does not *)
(* fit is split, and what is left goes to NAND.  Then the NAND share is    *)
(* spread through the sub-layers of one kind and size, or every sub-layer  *)
(* is striped across the tiers alike.                                      *)
(***************************************************************************)
EXTENDS Order, Sequences, Functions

CONSTANT Instances   \* [layers, caps, order, mode]: one call

Tiers == <<"gpu", "host", "dram", "nand">>     \* fastest first
Fast  == 1 .. 3
Nand  == 4

\* kv is one position's KV increment; read what a decode step reads of it.
LayerType ==
  [type : {"attention", "mlp", "norm", "embedding", "output"},
   bytes : Nat \ {0}, kv : Nat, read : Nat, sparsity : 0 .. 100]

ASSUME PlacementConstants ==
  \A c \in Instances :
    /\ c.layers \in Seq(LayerType) /\ c.caps \in [Fast -> Nat]
    /\ c.order \in {"semantic", "sequential", "size-desc"}
    /\ c.mode \in {"spread", "contig", "stripe"}

VARIABLES
  inst,    \* the call's arguments
  order,   \* the order every fill() goes through
  pc,      \* "fill", "spread", "done"
  tier,    \* the tier being filled
  pos,     \* the position in the order
  free,    \* bytes left in the tier being filled
  rem,     \* bytes of each layer not yet assigned
  share,   \* bytes of each layer on each tier (frac, times the layer's bytes)
  mix,     \* bytes of all striped layers on each tier; striped layers split alike
  groups,  \* the (type, bytes) groups not yet spread
  kvGot    \* how much of its KV increment each layer was charged (history)

vars == <<inst, order, pc, tier, pos, free, rem, share, mix, groups, kvGot>>

layers == inst.layers
Indices == DOMAIN layers
Least(a, b) == IF a <= b THEN a ELSE b
-----------------------------------------------------------------------------
(* The orders.                                                             *)

InOrder(set) == Sorted(set, [i \in set |-> i])
Of(kind) == InOrder({i \in Indices : layers[i].type = kind})

embedding_last ==
  Sorted(Indices, [i \in Indices |-> IF layers[i].type = "embedding" THEN 1 ELSE 0])

SizeDescending == Sorted(Indices, [i \in Indices |-> -layers[i].read])

SparseMlp ==
  Sorted({i \in Indices : layers[i].type = "mlp" /\ layers[i].sparsity > 60},
         [i \in Indices |-> -layers[i].sparsity])

\* The order fill() goes through.
FillOrder ==
  CASE inst.order = "sequential" -> embedding_last
    [] inst.order = "size-desc"  -> SizeDescending
    [] OTHER                     ->
         Of("output") \o Of("attention") \o Of("embedding") \o SparseMlp \o Of("mlp")
-----------------------------------------------------------------------------
(* take(): as much of layer i as fits, with its KV increment if the whole  *)
(* layer is still to place.                                                *)

\* The KV increment an attention layer holds besides its weights.
Extra(i) == IF layers[i].type = "attention" THEN layers[i].kv ELSE 0
Want(i) == rem[i] + (IF rem[i] = layers[i].bytes THEN Extra(i) ELSE 0)

\* The mutant does not split a layer that does not fit.
GotWhole(i) == IF Want(i) <= free THEN Want(i) ELSE 0
Got(i) == Least(Want(i), free)

\* What moves of the layer itself, not of its KV increment.
Moved(i) == Least(Got(i), rem[i])

\* What is left in the tier.  The mutant does not count what a split layer took.
LeftWhole(i) == IF Moved(i) < rem[i] THEN free ELSE free - Got(i)
Left(i) == free - Got(i)
-----------------------------------------------------------------------------
(* Spreading.                                                              *)

\* Sub-layers of a group may change places.
GroupOf(i) == <<layers[i].type, layers[i].bytes>>
Group(g) == {i \in Indices : GroupOf(i) = g}
Members(g) == InOrder(Group(g))

OnNand(i) == share[i][Nand] > 0
NandOf(g) == {i \in Group(g) : OnNand(i)}

\* _target: an even stride, half a stride in.  The mutant starts at the front.
TargetFromFront(g) ==
  LET m == Members(g)
      n == Cardinality(NandOf(g))
  IN  {m[1 + Least(Len(m) - 1, (j * Len(m)) \div n)] : j \in 0 .. (n - 1)}
Target(g) ==
  LET m == Members(g)
      n == Cardinality(NandOf(g))
  IN  {m[1 + Least(Len(m) - 1, ((2 * j + 1) * Len(m)) \div (2 * n))] : j \in 0 .. (n - 1)}

Spreadable(g) ==
  /\ Cardinality(Group(g)) >= 3
  /\ NandOf(g) # {} /\ NandOf(g) # Group(g)
  /\ Cardinality(Target(g)) = Cardinality(NandOf(g)) /\ Target(g) # NandOf(g)

\* Donors and receivers swap their splits, in index order.  The mutant overwrites
\* the donor's split before the receiver gets it.
Donors(g) == InOrder(NandOf(g) \ Target(g))
Receivers(g) == InOrder(Target(g) \ NandOf(g))
Partner(from, to, i) == IF i \in Range(from) THEN to[CHOOSE j \in DOMAIN from : from[j] = i] ELSE i
SwappedOneWay(g) == [i \in Indices |-> share[Partner(Donors(g), Receivers(g), i)]]
Swapped(g) ==
  [i \in Indices |->
     share[Partner(Donors(g) \o Receivers(g), Receivers(g) \o Donors(g), i)]]
-----------------------------------------------------------------------------
TierBytes(t) == SumFunctionOnSet([i \in Indices |-> share[i][t]], Indices)
Striped == {i \in Indices : layers[i].type # "embedding"}

Init ==
  /\ inst \in Instances /\ order = FillOrder
  /\ pc = "fill" /\ tier = 1 /\ pos = 1 /\ free = inst.caps[1]
  /\ rem = [i \in Indices |-> layers[i].bytes]
  /\ share = [i \in Indices |-> [t \in 1 .. 4 |-> 0]]
  /\ mix = [t \in 1 .. 4 |-> 0] /\ groups = {}
  /\ kvGot = [i \in Indices |-> 0]

\* One call of take().
Take ==
  /\ pc = "fill" /\ pos <= Len(order)
  /\ LET i == order[pos]
     IN  IF free <= 0 \/ rem[i] <= 0 THEN UNCHANGED <<free, rem, share, kvGot>>
         ELSE /\ share' = [share EXCEPT ![i][tier] = @ + Moved(i)]
              /\ rem' = [rem EXCEPT ![i] = @ - Moved(i)]
              /\ free' = Left(i)
              /\ kvGot' = [kvGot EXCEPT ![i] = @ + (Got(i) - Moved(i))]
  /\ pos' = pos + 1
  /\ UNCHANGED <<inst, order, pc, tier, mix, groups>>

\* The tier's fill is over; after the last, the rest of every layer is on NAND.
NextTier ==
  /\ pc = "fill" /\ pos > Len(order)
  /\ IF tier < 3
     THEN /\ tier' = tier + 1 /\ pos' = 1 /\ free' = inst.caps[tier + 1]
          /\ UNCHANGED <<pc, rem, share, groups>>
     ELSE /\ share' = [i \in Indices |-> [share[i] EXCEPT ![Nand] = rem[i]]]
          /\ rem' = [i \in Indices |-> 0]
          /\ groups' = IF inst.mode = "spread" THEN {GroupOf(i) : i \in Indices} ELSE {}
          /\ pc' = "spread"
          /\ UNCHANGED <<tier, pos, free>>
  /\ UNCHANGED <<inst, order, mix, kvGot>>

\* One group is spread, or has nothing to choose.  Groups share no layer, so their
\* order does not matter.
Spread ==
  /\ pc = "spread"
  /\ \E g \in groups :
       /\ share' = IF Spreadable(g) THEN Swapped(g) ELSE share
       /\ groups' = groups \ {g}
  /\ UNCHANGED <<inst, order, pc, tier, pos, free, rem, mix, kvGot>>

\* Striping gives every sub-layer but the embedding table the split of them all.
Stripe ==
  /\ pc = "spread" /\ groups = {}
  /\ mix' = IF inst.mode = "stripe"
            THEN [t \in 1 .. 4 |-> SumFunctionOnSet([i \in Indices |-> share[i][t]], Striped)]
            ELSE mix
  /\ pc' = "done"
  /\ UNCHANGED <<inst, order, tier, pos, free, rem, share, groups, kvGot>>

Next == Take \/ NextTier \/ Spread \/ Stripe

Spec == Init /\ [][Next]_vars
-----------------------------------------------------------------------------
TypeOK ==
  /\ inst \in Instances /\ order \in Seq(Indices) /\ pc \in {"fill", "spread", "done"}
  /\ tier \in Fast /\ pos \in 1 .. (Len(order) + 1) /\ free \in Nat
  /\ rem \in [Indices -> Nat] /\ share \in [Indices -> [1 .. 4 -> Nat]]
  /\ mix \in [1 .. 4 -> Nat] /\ kvGot \in [Indices -> Nat]
  /\ groups \subseteq {GroupOf(i) : i \in Indices}

\* Every byte of every layer is on one tier or still to place, and no tier holds
\* more than it has: "Every tier is filled exactly" (the comment on rem), and
\* neither spreading nor striping changes it.  (The run checks TypeOK with it.)
SharesFit ==
  /\ TypeOK
  /\ \A i \in Indices : SumFunctionOnSet(share[i], 1 .. 4) + rem[i] = layers[i].bytes
  /\ \A t \in Fast : TierBytes(t) + (IF pc = "fill" /\ tier = t THEN free ELSE 0) <= inst.caps[t]
  /\ pc = "done" /\ inst.mode = "stripe" =>
       SumFunctionOnSet(mix, 1 .. 4)
         = SumFunctionOnSet([i \in Indices |-> layers[i].bytes], Striped)

\* The order is a priority: a layer is on a slower tier only if every layer after
\* it in the order is kept off the faster ones.  A split layer ends its tier.  What a
\* layer has left goes to a slower tier, in the end to NAND.
FasterFirst ==
  pc = "fill" => \A a, b \in DOMAIN order : \A t \in Fast :
    a < b /\ order[a] # order[b] /\ (\A c \in 1 .. (a - 1) : order[c] # order[b])
      /\ share[order[b]][t] > 0
        => rem[order[a]] = 0 /\ \A u \in (t + 1) .. 4 : share[order[a]][u] = 0

\* Spreading moves no byte between tiers: every tier, NAND too, holds what the fill
\* gave it.
SpreadKeepsTiers ==
  [][pc = "spread" => \A t \in 1 .. 4 : TierBytes(t)' = TierBytes(t)]_vars

\* "each NAND read has fast-tier work before it to hide behind": in a spread group
\* of which at most half is on NAND, the layer before each one on NAND is not.
NandBehindFastWork ==
  pc = "done" /\ inst.mode = "spread" => \A i \in Indices :
    LET m == Members(GroupOf(i))
    IN  2 * Cardinality(NandOf(GroupOf(i))) <= Len(m) /\ Len(m) >= 3 =>
          \A q \in DOMAIN m : OnNand(m[q]) => q > 1 /\ ~OnNand(m[q - 1])

\* "The KV increment is indivisible, so it is charged only when the whole layer
\* fits" (take): a layer is charged all of its KV increment or none of it.
KvIndivisible == \A i \in Indices : kvGot[i] \in {0, Extra(i)}
=============================================================================
