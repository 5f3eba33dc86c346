---------------------------- MODULE DynamicPlan -----------------------------
(***************************************************************************)
(* dynamic_baseline.py around its device cache: the cache of keys and      *)
(* values and the whole layers that fit GPU and host are placed, and all   *)
(* of device DRAM the KV leaves is the cache for the other weights.  What  *)
(* that cache serves in a step is DynamicCache's `hits`; here it is any    *)
(* set of device-class layers that fits the cache.                         *)
(***************************************************************************)
EXTENDS PolicyBook

DynamicStart ==
  /\ At("dynamic", "start")
  /\ LET host == <<"host", Cap("host")>>  cxl == <<"cxl", Cap("cxl")>>
     IN  StartCascade(IF run.kvTier = "host" THEN <<host, cxl>> ELSE <<cxl, host>>)
  /\ UNCHANGED <<run, phaseVars, placeVars, staging, headroom, decodeVars>>

\* cache_cap: the weight cache takes all the KV leaves of the device.
DynamicCounters ==
  /\ At("dynamic", "kvPlaced")
  /\ free' = [NoRoom EXCEPT !["gpu"] = Cap("gpu"), !["host"] = LeftByKv("host")]
  /\ reserve' = [reserve EXCEPT !["cxl"] = LeftByKv("cxl")]
  /\ pc' = "place"
  /\ UNCHANGED <<run, phaseVars, kvVars, share, next, staging, headroom, decodeVars>>

DynamicPlace ==
  /\ At("dynamic", "place")
  /\ next \in Layers
  /\ PlaceWhole(Loop, FirstFit(Loop, <<"gpu", "host">>))
  /\ next' = next + 1
  /\ UNCHANGED <<run, phaseVars, pc, kvVars, reserve, staging, headroom, decodeVars>>

\* Prefetched bytes live in the cache and in free host DRAM.  The KV
\* cache has no room to grow in on the device, which is full of weights.
GrowthRoom == IF tail \in {"gpu", "host"} THEN free[tail] ELSE 0
DynamicStage ==
  /\ At("dynamic", "place")
  /\ next \notin Layers
  /\ staging' = reserve["cxl"] + free["host"]
  /\ headroom' = GrowthRoom
  /\ pc' = "decode"
  /\ UNCHANGED <<run, phaseVars, kvVars, placeVars, decodeVars>>

\* The hits are computed once, before the first step.
DeviceClass == {l \in Layers : share[l] = InTier(l, "nand") /\ ~IsTable(l)}
HitsOfLastStep == {l \in DeviceClass : units[l].weights = InTier(l, "cxl")}
DynamicDecode ==
  /\ At("dynamic", "decode")
  /\ \E hits \in SUBSET DeviceClass :
       /\ Total(BytesOf, hits) <= reserve["cxl"]
       /\ step > 0 => hits = HitsOfLastStep
       /\ DecodeStep([l \in Layers |-> IF l \in hits THEN InTier(l, "cxl")
                                       ELSE share[l]],
                     KvUnit(KvNow))
  /\ UNCHANGED phaseVars

DynamicNext ==
  \/ DynamicStart \/ DynamicCounters \/ DynamicPlace \/ DynamicStage
  \/ DynamicDecode
=============================================================================
