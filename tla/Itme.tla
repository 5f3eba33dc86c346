-------------------------------- MODULE Itme --------------------------------
(***************************************************************************)
(* itme_baseline.py: a ring of FFN-sized slots in device DRAM and a host   *)
(* staging buffer come first; every weight but the FFNs stays with the     *)
(* compute engine; the cache takes what is left; the streamed weights are  *)
(* cached in device DRAM only if all of them fit beside ring and cache.    *)
(***************************************************************************)
EXTENDS PolicyBook

Gpu    == run.cap["gpu"] > 0
Engine == IF Gpu THEN "gpu" ELSE "host"
Slot   == CHOOSE b \in {BytesOf(l) : l \in {k \in Layers : layers[k].kind = "MLP"}} :
            \A l \in Layers : layers[l].kind = "MLP" => BytesOf(l) <= b
\* At least one slot, even where the device cannot hold it.
BUFFER_LAYERS == Smaller(run.slots, Larger(1, Cap("cxl") \div Slot))
Ring == BUFFER_LAYERS * Slot

\* Staging is reserved before anything is placed; of the tiers only the
\* engine's has a counter while the weights go in.
ItmeReserve ==
  /\ At("itme", "start")
  /\ reserve' = [NoRoom EXCEPT !["cxl"] = Ring, !["host"] = run.hostStaging]
  /\ staging' = Ring + run.hostStaging
  /\ free' = [NoRoom EXCEPT ![Engine] = IF Gpu THEN Cap("gpu") ELSE Cap("host") - run.hostStaging]
  /\ pc' = "place"
  /\ UNCHANGED <<run, phaseVars, kvVars, share, next, headroom, decodeVars>>

ItmePlace ==
  /\ At("itme", "place")
  /\ next \in Layers
  /\ LET l == Loop
     IN  PlaceWhole(l, IF layers[l].kind = "MLP" THEN "nand"
                       ELSE FirstFit(l, <<Engine>>))
  /\ next' = next + 1
  /\ UNCHANGED <<run, phaseVars, pc, kvVars, reserve, staging, headroom, decodeVars>>

\* The cache: what the engine's weights leave, host DRAM, device DRAM outside
\* the ring.
DeviceBesideRing == Cap("cxl") - Ring
ItmeCache ==
  /\ At("itme", "place")
  /\ next \notin Layers
  /\ StartCascade(<< <<"gpu", IF Gpu THEN free["gpu"] ELSE 0>>,
                     <<"host", IF Gpu THEN Cap("host") - run.hostStaging
                               ELSE free["host"]>>,
                     <<"cxl", DeviceBesideRing>> >>)
  /\ UNCHANGED <<run, phaseVars, placeVars, staging, headroom, decodeVars>>

Streamed == {l \in Layers : share[l] = InTier(l, "nand")}
StreamedBytes == Total(BytesOf, Streamed)
CacheRoom == Cap("cxl") - Ring - took["cxl"]
Cached == StreamedBytes <= CacheRoom
Resident(t) == Total(BytesOf, {l \in Layers : share[l] = InTier(l, t)})

\* `_free`, with the streamed weights placed.
ItmeFree ==
  [NoRoom EXCEPT
     !["gpu"]  = (IF Gpu THEN free["gpu"] ELSE 0) - took["gpu"],
     !["host"] = (IF Gpu THEN Cap("host") - run.hostStaging - Resident("host")
                  ELSE free["host"]) - took["host"],
     !["cxl"]  = CacheRoom - (IF Cached THEN StreamedBytes ELSE 0)]
\* The script's assertion: no tier holds more than it has.  Resident weights
\* besides the streamed ones are in the engine's tier.
Held(t) == took[t] + reserve[t] + Resident(t)
           + IF t = "cxl" /\ Cached THEN StreamedBytes ELSE 0
NoTierOverfull ==
  /\ \A t \in DramTiers : Held(t) <= Cap(t)
  /\ StreamedBytes + took["nand"] <= run.ssd
ItmeStream ==
  /\ At("itme", "kvPlaced")
  /\ share' = [l \in Layers |-> IF l \in Streamed /\ Cached THEN InTier(l, "cxl")
                                ELSE share[l]]
  /\ free' = ItmeFree
  /\ headroom' = IF tail \in DramTiers THEN Larger(0, ItmeFree[tail]) ELSE 0
  /\ pc' = IF NoTierOverfull THEN "decode" ELSE "aborted"
  /\ UNCHANGED <<run, phaseVars, kvVars, reserve, next, staging, decodeVars>>

ItmeDecode ==
  /\ At("itme", "decode")
  /\ DecodeStep(share, KvUnit(KvNow))
  /\ UNCHANGED phaseVars

ItmeNext ==
  \/ ItmeReserve \/ ItmePlace \/ ItmeCache \/ ItmeStream \/ ItmeDecode
=============================================================================
