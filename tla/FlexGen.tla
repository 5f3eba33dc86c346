------------------------------ MODULE FlexGen -------------------------------
(***************************************************************************)
(* flexgen_baseline.py: cache and weights cascade GPU, host, device, NAND; *)
(* a double buffer is held back from the fast tiers; hot layers are pinned *)
(* whole; the rest fills the tiers by fractions and is then striped, every *)
(* layer with the same split.                                              *)
(***************************************************************************)
EXTENDS PolicyBook

FlexGenTiers == <<"gpu", "host", "cxl">>

\* The cache gets of the GPU only what all the weights would leave.
FlexGenStart ==
  /\ At("flexgen", "start")
  /\ StartCascade(<< <<"gpu", Larger(0, Cap("gpu") - Weights)>>,
                     <<"host", Cap("host")>>, <<"cxl", Cap("cxl")>> >>)
  /\ UNCHANGED <<run, phaseVars, placeVars, staging, headroom, decodeVars>>

\* The double buffer of two of the largest layers, from GPU, host, device in
\* turn; staging is what they could hold.
DoubleBuffer == 2 * Largest
WorkingSet ==
  LET g == Smaller(DoubleBuffer, LeftByKv("gpu"))
      h == Smaller(DoubleBuffer - g, LeftByKv("host"))
      c == Smaller(DoubleBuffer - g - h, LeftByKv("cxl"))
  IN  [NoRoom EXCEPT !["gpu"] = g, !["host"] = h, !["cxl"] = c]
StagedOf(ws) == ws["gpu"] + ws["host"] + ws["cxl"]
FlexGenReserve ==
  /\ At("flexgen", "kvPlaced")
  /\ LET ws == WorkingSet
     IN  /\ reserve' = ws
         /\ staging' = StagedOf(ws)
         /\ free' = [t \in FastTiers |->
                       IF t = "pool" THEN 0 ELSE LeftByKv(t) - ws[t]]
  /\ pc' = "pin"
  /\ next' = 1
  /\ UNCHANGED <<run, phaseVars, kvVars, share, headroom, decodeVars>>

\* Hot layers whole, fastest tier first, the head before the norm ahead of it
\* (HOT_LAYERS_BY_NAME); one that fits nowhere is left to the fill.
FromLast == Len(layers) + 1 - next
FlexGenPin ==
  /\ At("flexgen", "pin")
  /\ IF next \in Layers
     THEN /\ next' = next + 1
          /\ pc' = pc
          /\ IF layers[FromLast].hot
             THEN PlaceWhole(FromLast, FirstFit(FromLast, FlexGenTiers))
             ELSE UNCHANGED <<share, free>>
     ELSE /\ next' = 1
          /\ pc' = "fill"
          /\ UNCHANGED <<share, free>>
  /\ UNCHANGED <<run, phaseVars, kvVars, reserve, staging, headroom, decodeVars>>

Pinned(l) == \E t \in DramTiers : share[l] = InTier(l, t)

\* Every other layer fills the tiers in order, each to its last byte.
Filled(l) ==
  LET g == Smaller(BytesOf(l), free["gpu"])
      h == Smaller(BytesOf(l) - g, free["host"])
      c == Smaller(BytesOf(l) - g - h, free["cxl"])
  IN  [Nowhere EXCEPT !["gpu"] = g, !["host"] = h, !["cxl"] = c,
                      !["nand"] = BytesOf(l) - g - h - c]
FlexGenFill ==
  /\ At("flexgen", "fill")
  /\ next \in Layers
  /\ LET l == Loop  of == Filled(l)
     IN  IF Pinned(l)
         THEN UNCHANGED <<share, free>>
         ELSE /\ share' = [share EXCEPT ![l].of = of]
              /\ free' = [t \in FastTiers |-> free[t] - of[t]]
  /\ next' = next + 1
  /\ UNCHANGED <<run, phaseVars, pc, kvVars, reserve, staging, headroom, decodeVars>>

\* Each tier keeps its total; every striped layer gets the same split.  The
\* mutant takes the totals over all layers.
Striped == {l \in Layers : ~layers[l].hot /\ ~IsTable(l)}
StripeOfAll ==
  [of |-> [t \in Tiers |-> Total(LAMBDA l : share[l].of[t], Layers)],
   total |-> Total(BytesOf, Striped)]
StripeOf ==
  [of |-> [t \in Tiers |-> Total(LAMBDA l : share[l].of[t], Striped)],
   total |-> Total(BytesOf, Striped)]

\* The growth room is what the cache's last tier still has free.  The mutant
\* counts the double buffer in.
RoomWithBuffer(t) == IF t \in DramTiers THEN free[t] + reserve[t] ELSE 0
RoomAt(t) == IF t \in DramTiers THEN free[t] ELSE 0
FlexGenStripe ==
  /\ At("flexgen", "fill")
  /\ next \notin Layers
  /\ share' = [l \in Layers |-> IF l \in Striped THEN StripeOf ELSE share[l]]
  /\ headroom' = RoomAt(tail)
  /\ pc' = "decode"
  /\ UNCHANGED <<run, phaseVars, kvVars, free, reserve, next, staging, decodeVars>>

FlexGenDecode ==
  /\ At("flexgen", "decode")
  /\ DecodeStep(share, KvUnit(KvNow))
  /\ UNCHANGED phaseVars

FlexGenNext ==
  \/ FlexGenStart \/ FlexGenReserve \/ FlexGenPin \/ FlexGenFill
  \/ FlexGenStripe \/ FlexGenDecode
=============================================================================
