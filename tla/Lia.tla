-------------------------------- MODULE Lia ---------------------------------
(***************************************************************************)
(* lia_baseline.py: the cache lives in host DRAM and spills to the device; *)
(* layers are placed whole in GPU, then device DRAM, then NAND; two layer  *)
(* buffers are staged in whatever stays free.                              *)
(***************************************************************************)
EXTENDS PolicyBook

LiaStart ==
  /\ At("lia", "start")
  /\ StartCascade(<< <<"host", Cap("host")>>, <<"cxl", Cap("cxl")>> >>)
  /\ UNCHANGED <<run, phaseVars, placeVars, staging, headroom, decodeVars>>

\* The GPU holds no cache, and host DRAM nothing but the cache.
LiaCounters ==
  /\ At("lia", "kvPlaced")
  /\ free' = [t \in FastTiers |-> IF t = "gpu" THEN Cap("gpu")
                                  ELSE IF t = "pool" THEN 0 ELSE LeftByKv(t)]
  /\ pc' = "place"
  /\ UNCHANGED <<run, phaseVars, kvVars, reserve, share, next, staging, headroom, decodeVars>>

LiaPlace ==
  /\ At("lia", "place")
  /\ next \in Layers
  /\ PlaceWhole(Loop, FirstFit(Loop, <<"gpu", "cxl">>))
  /\ next' = next + 1
  /\ UNCHANGED <<run, phaseVars, pc, kvVars, reserve, staging, headroom, decodeVars>>

\* Two buffers of the largest layer, as far as free memory goes.  The mutant
\* takes both whatever is free.
BuffersAlways(bytes) == bytes
BuffersFrom(bytes) == Smaller(bytes, free["gpu"] + free["cxl"] + free["host"])
LiaStage ==
  /\ At("lia", "place")
  /\ next \notin Layers
  /\ staging' = BuffersFrom(2 * Largest)
  /\ headroom' = IF tail \in {"host", "cxl"} THEN free[tail] ELSE 0
  /\ pc' = "decode"
  /\ UNCHANGED <<run, phaseVars, kvVars, placeVars, decodeVars>>

LiaDecode ==
  /\ At("lia", "decode")
  /\ DecodeStep(share, KvUnit(KvNow))
  /\ UNCHANGED phaseVars

LiaNext ==
  LiaStart \/ LiaCounters \/ LiaPlace \/ LiaStage \/ LiaDecode
=============================================================================
