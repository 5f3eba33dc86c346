---------------------------- MODULE DynamicCache ----------------------------
(***************************************************************************)
(* belady_hits of dynamic_baseline.py: device DRAM as a cache over NAND.   *)
(* The sub-layers that go through the cache run in the same order every    *)
(* decode step, so the cache knows when each is needed next: before one    *)
(* runs, the next `window` are prefetched, nearest first, evicting what is *)
(* needed furthest in the future (Belady's rule), or, in CMM-H's default   *)
(* mode, the least recently used on a demand fetch.  The hits of a late    *)
(* step stand for every step of the reported decode time.                  *)
(***************************************************************************)
EXTENDS Integers, Sequences, Functions

CONSTANTS
  Instances,   \* [n_dev, bytes, cache_cap, depth, policy]: one run of the script
  Steps,       \* the decode steps simulated
  Warmup       \* WARMUP_STEPS

ASSUME CacheConstants ==
  /\ \A c \in Instances :
       /\ c.n_dev \in Nat /\ c.bytes \in [0 .. (c.n_dev - 1) -> Nat \ {0}]
       /\ c.cache_cap \in Nat /\ c.depth \in Nat /\ c.policy \in {"belady", "lru"}
  /\ Steps \in Nat /\ Warmup \in Nat

VARIABLES
  inst,      \* the instance, fixed
  s, k, d,   \* the step, the sub-layer about to run, the prefetch offset
  resident,  \* the sub-layers in device DRAM
  fresh,     \* fetched from NAND and not yet used
  last,      \* the position of each sub-layer's last use; -1: none
  used,      \* bytes in device DRAM
  hits,      \* hits of this step
  per_step,  \* hits of the finished steps
  since      \* resident ever since their last use (history)

cacheVars == <<resident, fresh, last, used, since>>
beladyVars == <<inst, s, k, d, cacheVars, hits, per_step>>

n_dev == inst.n_dev
Sublayers == 0 .. (n_dev - 1)
window == IF inst.policy = "belady" THEN inst.depth ELSE 0
SizeOf(set) == SumFunctionOnSet(inst.bytes, set)

p == s * n_dev + k
next_use(i) == p + ((i - k) % n_dev)

\* The sub-layer at offset d, and whether the loop looks for room for it.
x == (k + d) % n_dev
need == inst.bytes[x]
Looking == s < Steps /\ k < n_dev /\ d <= window
Fetchable == Looking /\ x \notin resident /\ need <= inst.cache_cap

Full == used + need > inst.cache_cap

Victim ==
  IF inst.policy = "lru"
  THEN CHOOSE v \in resident : \A w \in resident : last[v] <= last[w]
  ELSE CHOOSE v \in resident : \A w \in resident : next_use(v) >= next_use(w)

\* Belady's rule stops where the victim is needed before the one being fetched.
\* The mutants never stop, and stop only for what runs right now.
NeededSoonerNever == FALSE
NeededSoonerNow == inst.policy = "belady" /\ next_use(Victim) <= p
NeededSooner == inst.policy = "belady" /\ next_use(Victim) <= p + d

\* What is fresh after an eviction, and after a fetch.  The mutant forgets the one
\* fetched.
FreshWithout(v) == fresh \ {v}
FreshUnmarked(i) == fresh
FreshWith(i) == fresh \cup {i}
-----------------------------------------------------------------------------
BeladyInit ==
  /\ inst \in Instances
  /\ s = 0 /\ k = 0 /\ d = 0
  /\ resident = {} /\ fresh = {} /\ since = {} /\ used = 0
  /\ last = [i \in Sublayers |-> -1]
  /\ hits = {} /\ per_step = <<>>

\* Already resident, or larger than the whole cache.
Skip ==
  /\ Looking /\ (x \in resident \/ need > inst.cache_cap)
  /\ d' = d + 1
  /\ UNCHANGED <<inst, s, k, cacheVars, hits, per_step>>

\* One turn of the eviction loop.
Evict ==
  /\ Fetchable /\ Full /\ ~NeededSooner
  /\ used' = used - inst.bytes[Victim]
  /\ resident' = resident \ {Victim} /\ fresh' = FreshWithout(Victim)
  /\ since' = since \ {Victim}
  /\ UNCHANGED <<inst, s, k, d, last, hits, per_step>>

\* The eviction loop breaks without the room: what it evicted stays out.
GiveUp ==
  /\ Fetchable /\ Full /\ NeededSooner
  /\ d' = d + 1
  /\ UNCHANGED <<inst, s, k, cacheVars, hits, per_step>>

Fetch ==
  /\ Fetchable /\ ~Full
  /\ resident' = resident \cup {x} /\ used' = used + need
  /\ fresh' = FreshWith(x) /\ last' = [last EXCEPT ![x] = p]
  /\ d' = d + 1
  /\ UNCHANGED <<inst, s, k, since, hits, per_step>>

\* The window is looked through: sub-layer k runs.
Use ==
  /\ s < Steps /\ k < n_dev /\ d > window
  /\ hits' = IF k \in resident /\ k \notin fresh THEN hits \cup {k} ELSE hits
  /\ fresh' = fresh \ {k} /\ last' = [last EXCEPT ![k] = p]
  /\ since' = since \cup ({k} \cap resident)
  /\ k' = k + 1 /\ d' = 0
  /\ UNCHANGED <<inst, s, resident, used, per_step>>

EndStep ==
  /\ s < Steps /\ k = n_dev
  /\ per_step' = Append(per_step, hits) /\ hits' = {}
  /\ s' = s + 1 /\ k' = 0
  /\ UNCHANGED <<inst, d, cacheVars>>

BeladyNext == Skip \/ Evict \/ GiveUp \/ Fetch \/ Use \/ EndStep

BeladySpec == BeladyInit /\ [][BeladyNext]_beladyVars
-----------------------------------------------------------------------------
BeladyTypeOK ==
  /\ inst \in Instances
  /\ s \in 0 .. Steps /\ k \in 0 .. n_dev /\ d \in 0 .. (window + 1)
  /\ resident \subseteq Sublayers /\ used \in Nat
  /\ fresh \subseteq resident /\ since \subseteq resident /\ hits \subseteq Sublayers
  /\ last \in [Sublayers -> Int]
  /\ per_step \in Seq(SUBSET Sublayers)

\* The inductive invariant behind HitsStayedResident: what is resident and not
\* fresh is exactly what has stayed since its last use.
StayInv ==
  /\ k \in Nat
  /\ hits \subseteq 0 .. (k - 1)
  /\ since = resident \ fresh

\* "A sub-layer is a hit only if it stayed resident since its previous use"
\* (belady_hits), and then it is one: prefetch, eviction and a second fetch
\* in between make it a NAND read.
HitsStayedResident == [][k' = k + 1 => (k \in hits' <=> k \in since)]_beladyVars

\* What is resident, and what one step reads from it, is never more than device
\* DRAM holds, and the count kept of it is exact: the hits of a step were all
\* resident at once, when the step began.  (The run checks BeladyTypeOK with it.)
HitsFitCache ==
  /\ BeladyTypeOK
  /\ used = SizeOf(resident) /\ used <= inst.cache_cap
  /\ SizeOf(hits) <= inst.cache_cap

\* The sub-layer about to run is in the cache whenever it can be: prefetching the
\* rest of the window never pushes it out.
NeededNowIsHere ==
  s < Steps /\ k < n_dev /\ d > window /\ inst.bytes[k] <= inst.cache_cap => k \in resident

\* With sub-layers of one size, no prefetch evicts what an earlier one read from
\* NAND and nothing has used: a byte is read from NAND at most once per use.
\* (With mixed sizes the rule does waste reads, which `fresh` accounts for.)
OneSize == \A i, j \in Sublayers : inst.bytes[i] = inst.bytes[j]
PrefetchNotWasted == [][OneSize => (fresh \ resident') = {}]_beladyVars

\* "steady state: repeats every step" (dynamic_baseline.py): the hits of the step
\* after the warm-up, which the script times for every token, recur in each later
\* step.
SteadyState == \A j \in (Warmup + 1) .. Len(per_step) : per_step[j] = per_step[Warmup + 1]
=============================================================================
