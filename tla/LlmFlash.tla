------------------------------ MODULE LlmFlash ------------------------------
(***************************************************************************)
(* llmflash_baseline.py: GPU, host and device DRAM are one pool.  It holds *)
(* the cache, then every weight but FFNs and embedding table, then the     *)
(* active part of the FFNs, then the table; what is over is the window     *)
(* reads in flight wait in.  Pooled bytes are read from the three tiers in *)
(* the proportions in which the working set fills them.                    *)
(***************************************************************************)
EXTENDS PolicyBook

\* `active`: bytes of the FFNs whose neurons fire in a step for the batch.
IsFfn(l)    == layers[l].kind = "MLP"
IsPinned(l) == ~IsFfn(l) /\ ~IsTable(l)
PinnedBytes == Total(BytesOf, {l \in Layers : IsPinned(l)})
TableBytes  == Total(BytesOf, {l \in Layers : IsTable(l)})

LlmFlashStart ==
  /\ At("llmflash", "start")
  /\ StartCascade(<< <<"pool", PoolCap>> >>)
  /\ UNCHANGED <<run, phaseVars, placeVars, staging, headroom, decodeVars>>

\* total_dram, and what the pinned layers leave of it.
PoolLeft  == LeftByKv("pool")
Remaining == Larger(0, PoolLeft - PinnedBytes)

\* What is in the pool, of each group.
PinnedIn == Smaller(PinnedBytes, PoolLeft)
WindowIn == Smaller(run.active, Remaining)
TableIn  == Smaller(TableBytes, Larger(0, Remaining - WindowIn))

InPool(pooled, total) ==
  [of |-> [Nowhere EXCEPT !["pool"] = pooled, !["nand"] = total - pooled],
   total |-> total]
LlmFlashPlace ==
  /\ At("llmflash", "kvPlaced")
  /\ share' = [l \in Layers |->
                 IF IsFfn(l) THEN InPool(WindowIn, run.active)
                 ELSE IF IsTable(l) THEN InPool(TableIn, TableBytes)
                 ELSE InPool(PinnedIn, PinnedBytes)]
  /\ LET window == Larger(0, PoolLeft - PinnedIn - WindowIn - TableIn)
     IN  /\ free' = [free EXCEPT !["pool"] = window]
         /\ staging' = window
  /\ headroom' = Larger(0, Remaining - WindowIn - TableIn)
  /\ pc' = "decode"
  /\ UNCHANGED <<run, phaseVars, kvVars, reserve, next, decodeVars>>

\* The working set fills the pool's tiers fastest first.
WorkingBytes == Smaller(PoolCap, Weights + KvReserved)
WsTake ==
  LET g == Smaller(WorkingBytes, Cap("gpu"))
      h == Smaller(WorkingBytes - g, Cap("host"))
      c == Smaller(WorkingBytes - g - h, Cap("cxl"))
  IN  [Nowhere EXCEPT !["gpu"] = g, !["host"] = h, !["cxl"] = c]

\* pool_bytes: the pooled part of a read, spread over the tiers.
Spread(s, pooled) ==
  [of |-> [t \in Tiers |-> IF t = "nand" THEN s.of["nand"] * WorkingBytes
                           ELSE pooled * WsTake[t]],
   total |-> s.total * WorkingBytes]
LlmFlashDecode ==
  /\ At("llmflash", "decode")
  /\ LET kv == KvUnit(KvNow)
     IN  DecodeStep([l \in Layers |-> Spread(share[l], share[l].of["pool"])],
                    Spread(kv, kv.total - kv.of["nand"]))
  /\ UNCHANGED phaseVars

LlmFlashNext ==
  LlmFlashStart \/ LlmFlashPlace \/ LlmFlashDecode
=============================================================================
