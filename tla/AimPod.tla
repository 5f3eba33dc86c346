------------------------------- MODULE AimPod -------------------------------
(***************************************************************************)
(* cxlaimpod_baseline.py: the cache lives in device DRAM; whole layers go  *)
(* to GPU, host, device, NAND; CXLPrefetcher, a new one for the prefill    *)
(* pass and for every decode step, fetches up to PREFETCH_WINDOW layers    *)
(* ahead over one link and evicts in the order of its `resident` list.     *)
(* Times are slots: NAND takes two per byte, every other tier one, and     *)
(* compute is hidden behind it.  A phase decides the read stalls reported; *)
(* the step itself is timed by the engine, with staging as its budget.     *)
(***************************************************************************)
EXTENDS PolicyBook

CONSTANT PREFETCH_WINDOW

ASSUME WindowIsPositive == PREFETCH_WINDOW \in Nat \ {0}

NandTime(bytes) == 2 * bytes
CxlTime(bytes)  == bytes
\* bytes_read for the phase's rows: a prefill looks up every prompt position.
ReadOf(l) == IF prefilling THEN Smaller(BytesOf(l), layers[l].read * run.prefill)
             ELSE layers[l].read
StoredIn(l, t) == share[l] = InTier(l, t)
-----------------------------------------------------------------------------
AimPodStart ==
  /\ At("aimpod", "start")
  /\ StartCascade(<< <<"cxl", Cap("cxl")>> >>)
  /\ UNCHANGED <<run, placeVars, staging, headroom, decodeVars, phaseVars>>

AimPodCounters ==
  /\ At("aimpod", "kvPlaced")
  /\ free' = [t \in FastTiers |-> IF t = "pool" THEN 0 ELSE LeftByKv(t)]
  /\ pc' = "place"
  /\ UNCHANGED <<run, kvVars, reserve, share, next, staging, headroom, decodeVars,
                 phaseVars>>

AimPodPlace ==
  /\ At("aimpod", "place")
  /\ next \in Layers
  /\ PlaceWhole(Loop, FirstFit(Loop, <<"gpu", "host", "cxl">>))
  /\ next' = next + 1
  /\ UNCHANGED <<run, pc, kvVars, reserve, staging, headroom, decodeVars, phaseVars>>

\* The window is bounded by what placement left free.
AimPodStage ==
  /\ At("aimpod", "place")
  /\ next \notin Layers
  /\ staging' = free["gpu"] + free["cxl"] + free["host"]
  /\ headroom' = IF tail \in DramTiers THEN free[tail] ELSE 0
  /\ pc' = "decode"
  /\ UNCHANGED <<run, kvVars, placeVars, decodeVars, phaseVars>>
-----------------------------------------------------------------------------
\* How many of the oldest go before `size` more bytes are counted within the
\* device's capacity, or all; their stored bytes are taken off the count.
Gone(n) == {pf_resident[k] : k \in 1 .. n}
Evictions(size) ==
  Min({n \in 0 .. Len(pf_resident) :
         \/ mem_used - Total(BytesOf, Gone(n)) + size <= Cap("cxl")
         \/ n = Len(pf_resident)})
IsResident(l) == \E k \in DOMAIN pf_resident : pf_resident[k] = l

\* schedule(idx, size, now).  A layer that is resident is not fetched again.
Schedule(l, size) ==
  IF IsResident(l) THEN UNCHANGED prefetcherVars
  ELSE LET finish == Larger(elapsed, link_busy_until) + NandTime(size)
           n == Evictions(size)
           kept == DOMAIN arrival \ Gone(n)
       IN  /\ link_busy_until' = finish
           /\ pf_resident' = Append(SubSeq(pf_resident, n + 1, Len(pf_resident)), l)
           /\ mem_used' = mem_used - Total(BytesOf, Gone(n)) + size
           /\ arrival' = [k \in kept \cup {l} |-> IF k = l THEN finish ELSE arrival[k]]

\* The k-loop: fetch the NAND layers of the window.
AimPodPrefetch ==
  /\ At("aimpod", "decode")
  /\ at \in Layers
  /\ ahead <= PREFETCH_WINDOW
  /\ IF at + ahead \in Layers /\ StoredIn(at + ahead, "nand")
     THEN Schedule(at + ahead, ReadOf(at + ahead))
     ELSE UNCHANGED prefetcherVars
  /\ ahead' = ahead + 1
  /\ UNCHANGED <<bookVars, prefilling, at, elapsed>>

\* The layer's own read: from host or device DRAM, and through the prefetcher
\* otherwise, GPU layers included, waiting for it to arrive.  The mutant takes
\* a resident layer for one that has landed.
KvReadTime(l) ==
  IF prefilling \/ layers[l].kv = 0 THEN 0
  ELSE (layers[l].kv * (run.prefill + step)
        * (CxlTime(took["cxl"]) + NandTime(took["nand"]))) \div KvReserved
WaitIfAbsent(l) ==
  IF IsResident(l) THEN 0
  ELSE Larger(0, Larger(elapsed, link_busy_until) + NandTime(ReadOf(l)) - elapsed)
WaitFor(l) ==
  IF IsResident(l) THEN Larger(0, arrival[l] - elapsed)
  ELSE Larger(0, Larger(elapsed, link_busy_until) + NandTime(ReadOf(l)) - elapsed)
KvWriteTime(l) == IF prefilling THEN 0 ELSE CxlTime(layers[l].kv)
AimPodUse ==
  /\ At("aimpod", "decode")
  /\ at \in Layers
  /\ ahead > PREFETCH_WINDOW
  /\ IF StoredIn(at, "host") \/ StoredIn(at, "cxl")
     THEN /\ elapsed' = elapsed + KvWriteTime(at) + CxlTime(ReadOf(at)) + KvReadTime(at)
          /\ UNCHANGED prefetcherVars
     ELSE /\ elapsed' = elapsed + KvWriteTime(at) + WaitFor(at) + CxlTime(ReadOf(at))
                        + KvReadTime(at)
          /\ Schedule(at, ReadOf(at))
  /\ at' = at + 1
  /\ ahead' = 1
  /\ UNCHANGED <<bookVars, prefilling>>

\* The pass ends; the next one starts with a prefetcher that holds nothing.
AimPodDecode ==
  /\ At("aimpod", "decode")
  /\ at \notin Layers
  /\ IF prefilling THEN UNCHANGED bookVars ELSE DecodeStep(share, KvUnit(KvNow))
  /\ prefilling' = FALSE /\ at' = 1 /\ ahead' = 1 /\ elapsed' = 0
  /\ pf_resident' = << >> /\ mem_used' = 0 /\ arrival' = << >> /\ link_busy_until' = 0

AimPodNext ==
  \/ AimPodStart \/ AimPodCounters \/ AimPodPlace \/ AimPodStage
  \/ AimPodPrefetch \/ AimPodUse \/ AimPodDecode
=============================================================================
