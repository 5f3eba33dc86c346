----------------------------- MODULE Baselines ------------------------------
(***************************************************************************)
(* The six policy baselines over one ledger, and what must hold of every   *)
(* one of them: each tier's bytes are given out once, staging room is      *)
(* backed by bytes no one else has, a step reads all it needs, and growth  *)
(* of the cache is charged exactly where it no longer fits.                *)
(***************************************************************************)
EXTENDS FlexGen, Lia, AimPod, Itme, DynamicPlan, LlmFlash

Next ==
  \/ CascadeTier \/ CascadeRest
  \/ FlexGenNext \/ LiaNext \/ ItmeNext
  \/ DynamicNext \/ LlmFlashNext \/ AimPodNext

Spec == Init /\ [][Next]_vars
-----------------------------------------------------------------------------
\* The one type invariant; counters may be negative only in a run ITME's
\* assertion stops.
TypeOK ==
  /\ pc \in {"start", "cascade", "kvPlaced", "pin", "fill", "place", "decode",
             "done", "aborted"}
  /\ kvLeft \in Nat
  /\ took \in [Tiers -> Nat]
  /\ tail \in Tiers \cup {"none"}
  /\ reserve \in [FastTiers -> Nat]
  /\ free \in [FastTiers -> IF pc = "aborted" THEN Int ELSE Nat]
  /\ next \in 1 .. (Len(layers) + 1)
  /\ staging \in Nat /\ headroom \in Nat /\ spill \in Nat
  /\ step \in 0 .. run.tokens

Placing == pc \in {"decode", "done"}
MyTiers == IF run.policy = "llmflash" THEN {"pool"} ELSE DramTiers

\* Weights of a tier, times the common denominator of the striped shares.
Denominator == Larger(1, Total(BytesOf, Striped))
PlacedOf(l, t) ==
  IF share[l].total = BytesOf(l) THEN share[l].of[t] * Denominator
  ELSE BytesOf(l) * share[l].of[t]
PooledWeights ==
  (IF \E l \in Layers : IsPinned(l) THEN PinnedIn ELSE 0)
  + (IF \E l \in Layers : IsFfn(l) THEN WindowIn ELSE 0)
  + (IF \E l \in Layers : IsTable(l) THEN TableIn ELSE 0)
Placed(t) ==
  IF t = "pool" THEN PooledWeights * Denominator
  ELSE Total(LAMBDA l : PlacedOf(l, t), Layers)

\* Every byte of a fast tier is given out once: to the cache, to the staging
\* reserve, to weights, or it is still free.  The scripts keep these counts in
\* separate counters over three or four passes, and FlexGen gives each layer
\* shares other than those it took from the counters.  (flexgen:114-220,
\* lia:89-112, cxlaimpod:73-100, itme:77-136, dynamic:71-95, llmflash:160-230)
BytesAccounted ==
  Placing => \A t \in MyTiers :
    Denominator * (took[t] + reserve[t] + free[t]) + Placed(t) = Denominator * Cap(t)

\* In-flight reads have somewhere to wait: the engine's budget is no more than
\* the bytes reserved for staging or left free, and no counter is overdrawn
\* (pipeline.py moves reads ahead on the strength of this number; itme:138
\* "No tier holds more than it has").
StagingIsBacked ==
  Placing =>
    /\ \A t \in MyTiers : free[t] >= 0
    /\ staging <= Total(LAMBDA t : reserve[t] + free[t], MyTiers)

\* A step's unit reads all of its layer's weights, and all of the cache: the
\* shares over the tiers a script names add up to the whole, before and after
\* the cache outgrows its reservation (flexgen:247-285, lia:152-197,
\* tiers.py:103-114).
Whole(s) == Total(LAMBDA t : s.of[t], Tiers) = s.total
ReadsCoverLayer ==
  \A l \in DOMAIN units : Whole(units[l].weights) /\ Whole(units[l].kv)

\* What a step charges as displaced weights is what the cache's last tier would
\* hold beyond its capacity, with the growth of that step, the weights and the
\* staging reserve all still in it (tiers.py:148-166 and each `headroom`).
Growth == Larger(0, KvAt(run.prefill + step) - KvReserved)
SpillIsOverflow ==
  (step > 0 /\ tail \in FastTiers) =>
    Denominator * spill =
      Larger(0, Denominator * (took[tail] + reserve[tail] + Growth - Cap(tail))
                + Placed(tail))

\* No layer of a pass is used before the prefetcher's read of it has landed
\* (cxlaimpod:111-125 and :154-157: a resident layer may still be in flight).
WaitsForArrival ==
  \A l \in DOMAIN arrival : l < at => arrival[l] <= elapsed
=============================================================================
