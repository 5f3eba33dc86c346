----------------------------- MODULE PolicyBook -----------------------------
(***************************************************************************)
(* The ledger the policy baselines share.  Each baseline is a script that  *)
(* reserves its KV cache tier by tier (kv_cascade), places its weights in  *)
(* what is left, keeps some bytes as staging room, and then times decode   *)
(* steps in which the cache grows past its reservation (kv_step_split,     *)
(* kv_growth_spill_time_s).  This module holds that state and the steps    *)
(* all of them take; FlexGen, Lia, AimPod, Itme, DynamicPlan and LlmFlash  *)
(* add the steps of one policy each, and Baselines composes them.          *)
(*                                                                         *)
(* Sizes are whole numbers.  A fraction of the code, x / y, is kept as the *)
(* pair of its parts: a Share says how many of `total` parts a tier holds. *)
(***************************************************************************)
EXTENDS Order, Sequences, FiniteSetsExt, Functions

CONSTANT Runs   \* the platforms, models and settings a script is started with

DramTiers == {"gpu", "host", "cxl"}
\* LLM-in-a-Flash sees the three as one pool.
FastTiers == DramTiers \cup {"pool"}
Tiers     == FastTiers \cup {"nand"}

Policies == {"flexgen", "lia", "aimpod", "itme", "dynamic", "llmflash"}
Kinds    == {"Embedding", "Attention", "MLP"}

\* `read` is what one decode step reads of the layer: some rows of an embedding
\* table, all of any other.  `kv` is the cache one token adds, for the batch.
LayerType == {L \in [kind : Kinds, bytes : Nat \ {0}, read : Nat, kv : Nat,
                     hot : BOOLEAN] :
                /\ L.read <= L.bytes
                /\ L.kind # "Embedding" => L.read = L.bytes}
\* level 1 reserves the cache at the generation mean, 2 at its peak.  The last
\* five are knobs of single policies: ITME's ring slots, host staging bytes and
\* NAND size, the dynamic baseline's KV tier, LLM-in-a-Flash's active FFN bytes.
RunType == [policy : Policies, cap : [DramTiers -> Nat], layers : Seq(LayerType),
            prefill : Nat \ {0}, tokens : Nat \ {0}, level : {1, 2},
            slots : Nat \ {0}, hostStaging : Nat, ssd : Nat,
            kvTier : {"host", "cxl"}, active : Nat]
Share == [of : [Tiers -> Nat], total : Nat]

\* HOST_STAGING_FRAC is a fraction (itme:60), and every model has FFN layers (itme:83).
ASSUME RunsAreTyped ==
  \A r \in Runs : /\ r \in RunType
                  /\ r.hostStaging <= r.cap["host"]
                  /\ \E l \in DOMAIN r.layers : r.layers[l].kind = "MLP"

VARIABLES
  run,       \* the settings, fixed
  pc,        \* "start", "cascade", "kvPlaced", ..., "decode", "done", "aborted"
  cascade,   \* kv_cascade's tiers not yet tried, with their room
  kvLeft,    \* its `rem`: bytes of the cache no tier has taken yet
  took,      \* bytes of the cache each tier took
  tail,      \* the last tier that took any, "none" before
  free,      \* the free counters of the tiers
  reserve,   \* bytes held back from weights and cache as staging room
  share,     \* where each layer is stored
  next,      \* the placement loop's position
  staging,   \* inflight_budget
  headroom,  \* bytes the cache may grow into before it displaces weights
  step,      \* decode steps timed
  units,     \* what the last step read: per layer the split of weights and KV
  spill      \* bytes the last step charged as displaced to NAND

VARIABLES    \* a pass of CXLAimPod's prefetcher; the other scripts have none
  prefilling,  \* is_prefill
  at,          \* the layer of run_phase's loop
  ahead,       \* its k: how far ahead the next prefetch looks
  pf_resident,  \* the prefetcher's layers, in the order they were fetched
  mem_used,    \* the bytes it counts for them
  arrival,     \* when each of them lands
  link_busy_until,
  elapsed

kvVars     == <<cascade, kvLeft, took, tail>>
placeVars  == <<free, reserve, share, next>>
decodeVars == <<step, units, spill>>
bookVars   == <<run, pc, kvVars, placeVars, staging, headroom, decodeVars>>
prefetcherVars == <<pf_resident, mem_used, arrival, link_busy_until>>
phaseVars  == <<prefilling, at, ahead, elapsed, prefetcherVars>>
vars       == <<bookVars, phaseVars>>
-----------------------------------------------------------------------------
Smaller(x, y) == IF x <= y THEN x ELSE y
Larger(x, y)  == IF x >= y THEN x ELSE y
Nowhere == [t \in Tiers |-> 0]
NoRoom  == [t \in FastTiers |-> 0]

layers  == run.layers
Layers  == DOMAIN layers
Total(F(_), S) == SumFunctionOnSet([x \in S |-> F(x)], S)
BytesOf(l) == layers[l].bytes
Weights == Total(BytesOf, Layers)
Largest == CHOOSE b \in {BytesOf(l) : l \in Layers} : \A l \in Layers : BytesOf(l) <= b
PoolCap == run.cap["gpu"] + run.cap["host"] + run.cap["cxl"]
Cap(t)  == IF t = "pool" THEN PoolCap ELSE run.cap[t]

\* Layer indices in model order, the embedding table moved to the end.
IsTable(l) == layers[l].kind = "Embedding"
embedding_last == Sorted(Layers, [l \in Layers |-> IF IsTable(l) THEN 1 ELSE 0])
Loop == embedding_last[next]

KvOf(l) == layers[l].kv
KvPerToken == Total(KvOf, Layers)
KvAt(positions) == KvPerToken * positions
\* The reservation at its level, truncated as int() does.
KvReserved == (KvPerToken * (2 * run.prefill + run.tokens * run.level)) \div 2

InTier(l, t) == [of |-> [Nowhere EXCEPT ![t] = BytesOf(l)], total |-> BytesOf(l)]
-----------------------------------------------------------------------------
Init ==
  /\ run \in Runs
  /\ pc = "start"
  /\ cascade = << >> /\ kvLeft = 0 /\ took = Nowhere /\ tail = "none"
  /\ free = NoRoom /\ reserve = NoRoom
  /\ share = [l \in Layers |-> InTier(l, "nand")]
  /\ next = 1
  /\ staging = 0 /\ headroom = 0
  /\ step = 0 /\ units = << >> /\ spill = 0
  /\ prefilling = TRUE /\ at = 1 /\ ahead = 1 /\ elapsed = 0
  /\ pf_resident = << >> /\ mem_used = 0 /\ link_busy_until = 0
  /\ arrival = << >>

\* The script of `policy` is at the point `where`.
At(policy, where) == run.policy = policy /\ pc = where

\* kv_cascade is called with `tiers`, a sequence of <<key, room>>.
StartCascade(tiers) ==
  /\ pc' = "cascade"
  /\ cascade' = tiers
  /\ kvLeft' = KvReserved
  /\ UNCHANGED <<took, tail>>

\* One turn of kv_cascade's loop.  The mutant forgets that the room of an
\* overbooked tier is negative.
TakeUnclamped(room) == Smaller(kvLeft, room)
TakeOf(room) == Smaller(kvLeft, Larger(0, room))
CascadeTier ==
  /\ pc = "cascade"
  /\ cascade # << >>
  /\ LET key == Head(cascade)[1]
         take == TakeOf(Head(cascade)[2])
     IN  /\ took' = [took EXCEPT ![key] = take]
         /\ tail' = IF take > 0 THEN key ELSE tail
         /\ kvLeft' = kvLeft - take
  /\ cascade' = Tail(cascade)
  /\ UNCHANGED <<run, phaseVars, pc, placeVars, staging, headroom, decodeVars>>

\* What none of the tiers has room for is read from NAND.
CascadeRest ==
  /\ pc = "cascade"
  /\ cascade = << >>
  /\ took' = [took EXCEPT !["nand"] = kvLeft]
  /\ tail' = IF kvLeft > 0 THEN "nand" ELSE tail
  /\ kvLeft' = 0
  /\ pc' = "kvPlaced"
  /\ UNCHANGED <<run, phaseVars, cascade, placeVars, staging, headroom, decodeVars>>

\* Bytes of a tier the cache leaves.
LeftByKv(t) == Larger(0, Cap(t) - took[t])

\* A layer goes whole to the first of `tiers` it fits in, else to NAND.
FirstFit(l, tiers) ==
  LET fits == {n \in DOMAIN tiers : BytesOf(l) <= free[tiers[n]]}
  IN  IF fits = {} THEN "nand" ELSE tiers[Min(fits)]
PlaceWhole(l, t) ==
  /\ share' = [share EXCEPT ![l] = InTier(l, t)]
  /\ free' = IF t = "nand" THEN free ELSE [free EXCEPT ![t] = @ - BytesOf(l)]
-----------------------------------------------------------------------------
\* The split of a step's KV reads when the cache holds `now` bytes: the reserved
\* bytes where the cascade put them, the growth on the last tier.  The mutant
\* leaves the reserved shares as they were.
kv_step_split_unscaled(now) ==
  IF now > KvReserved
  THEN [of |-> [took EXCEPT ![tail] = @ + now - KvReserved], total |-> KvReserved]
  ELSE [of |-> took, total |-> KvReserved]
kv_step_split(now) ==
  IF now > KvReserved /\ tail # "none"
  THEN [of |-> [took EXCEPT ![tail] = @ + now - KvReserved], total |-> now]
  ELSE [of |-> took, total |-> KvReserved]

\* Bytes past the reservation and the free room of the cache's last tier: they
\* displace weights, which NAND serves from then on.  A cache that already ends
\* on NAND displaces nothing.
kv_growth_spill(now) ==
  IF tail = "nand" THEN 0 ELSE Larger(0, now - KvReserved - headroom)

\* The tiers a script names when it charges a unit's KV reads.
KvTiersRead ==
  CASE run.policy \in {"flexgen", "itme"} -> {"gpu", "host", "cxl", "nand"}
    [] run.policy \in {"lia", "dynamic"}  -> {"host", "cxl", "nand"}
    [] run.policy = "aimpod"              -> {"cxl", "nand"}
    [] OTHER                              -> {"pool", "nand"}
KvUnit(now) ==
  LET s == kv_step_split(now)
  IN  [s EXCEPT !.of = [t \in Tiers |-> IF t \in KvTiersRead THEN @[t] ELSE 0]]

\* One decode step: `weightsOf` says where each layer's weights are read from,
\* `kv` where the cache is.  The KV read is that of the tokens so far, the spill
\* that of the cache with this step's token.
DecodeStep(weightsOf, kv) ==
  /\ units' = [l \in Layers |->
                 [weights |-> weightsOf[l], kv |-> kv]]
  /\ spill' = kv_growth_spill(KvAt(run.prefill + step + 1))
  /\ step' = step + 1
  /\ pc' = IF step + 1 = run.tokens THEN "done" ELSE pc
  /\ UNCHANGED <<run, kvVars, placeVars, staging, headroom>>
KvNow == KvAt(run.prefill + step)
=============================================================================
