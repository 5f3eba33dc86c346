----------------------------- MODULE DecodeLoop -----------------------------
(***************************************************************************)
(* Prefill and the decode loop of tiersched.py.  Phase 1 of prefill stages *)
(* NAND layers into the device cache over one channel, and the prefill     *)
(* pass waits for each where it is needed.  Then for every token, layer by *)
(* layer, idle I/O threads prefetch NAND layers among the next Window, the *)
(* layer is served, its KV write goes out on the CXL link's write lane,    *)
(* and prefetches completed by then enter the AttentionGuidedCache.  These *)
(* clocks feed the reported prefill time, stalls, write utilization and    *)
(* hit rate; the decode step time itself comes from PipelineFill.          *)
(***************************************************************************)
EXTENDS CXLLink, Sequences, FiniteSets, FiniteSetsExt, Functions

CONSTANTS
  Plans,     \* [layers, cap, reserve, warmup]: the placed layers, the staging
             \* reserve, the part of it the device cache may take, and
             \* ENABLE_PREFILL_WARMUP, which the ablation turns off
  Tokens,    \* TOKENS
  Threads,   \* IO_THREAD_POOL_SIZE
  Window,    \* PREFETCH_QUEUE_DEPTH
  NoTask     \* current_task = None

\* tier is where the layer is placed; score its prefetch priority; nandTime what
\* its bytes take from NAND; prefill and time what the layer takes in prefill,
\* reads and computes overlapped, and in decode, pinned in the device cache or
\* not; rx and kv what its read and its KV write take on the link's lanes
\* (kv = 0: no KV), hostKv the KV write off the link.
LayerType ==
  [tier : {"gpu", "host", "dram", "nand"}, bytes : Nat \ {0}, score : Nat,
   nandTime : Nat \ {0}, prefill : [BOOLEAN -> Nat], time : [BOOLEAN -> Nat],
   rx : Nat, kv : Nat, hostKv : Nat]

ASSUME DecodeConstants ==
  /\ Plans \subseteq [layers : Seq(LayerType), cap : Nat, reserve : Nat, warmup : BOOLEAN]
  /\ \A p \in Plans : p.cap <= p.reserve
  /\ Tokens \in Nat /\ Threads \in Nat \ {0} /\ Window \in Nat
  /\ NoTask \notin Nat

DefaultScore == 5     \* attention_scores.get(lid, 0.5), in tenths
PinScore     == 8     \* set_attention_score pins above 0.8

VARIABLES
  plan,           \* the placement decode runs
  pc,             \* "stage", "prefill", "token", "prefetch", "harvest", "done"
  token, idx,     \* loop counters; idx from 1
  th,             \* the thread the prefetch or harvest loop is at
  lat,            \* the serial clock of prefill, then of this token
  cache,          \* the cached layers, each with its place in the OrderedDict
  used,           \* the cache's own count of its bytes
  pinned,         \* layers pinned by their score
  scores,         \* attention_scores
  session_pinned, \* layers Phase 1 staged
  budget,         \* _stage_budget
  t_stage,        \* when the staging channel is done with all staged so far
  stage_finish,   \* ... with each staged layer
  threads,        \* [busy, task] per thread
  nand_free,      \* nand_link_free_at
  fetched,        \* layers prefetched in this token
  link,           \* the CXL link
  landed,         \* layers whose prefetch completed in this token
  stalled         \* layers charged a whole NAND read of their own

cacheVars == <<cache, used, pinned, scores, session_pinned>>
ioVars    == <<threads, nand_free, fetched>>
staging   == <<budget, t_stage, stage_finish>>
vars == <<plan, pc, token, idx, th, lat, cacheVars, staging, ioVars, link, landed, stalled>>

layers == plan.layers
Bytes(l) == layers[l].bytes
BytesIn(lids) == SumFunctionOnSet([l \in DOMAIN layers |-> Bytes(l)], lids)
-----------------------------------------------------------------------------
(* AttentionGuidedCache.                                                   *)

Score(l) == IF l \in DOMAIN scores THEN scores[l] ELSE DefaultScore

\* What _evict may drop.  The mutant forgets the layers Phase 1 pinned for the
\* session.
EvictableUnpinned == DOMAIN cache \ pinned
Evictable == DOMAIN cache \ (pinned \cup session_pinned)

\* The lowest score goes first, and of two with one score the one cached first
\* (the sort is stable).
EvictedBefore(x, y) ==
  Score(x) < Score(y) \/ (Score(x) = Score(y) /\ cache[x] < cache[y])

\* _evict pops candidates until `need` bytes are freed, or all of them: a layer
\* goes when those popped before it free less.
Evicted(need) ==
  {l \in Evictable : BytesIn({m \in Evictable : EvictedBefore(m, l)}) < need}

\* The places of the layers that stay, and of l after them unless it is one: a
\* layer added again keeps its place.
Place(kept, l) == Cardinality({m \in kept : cache[m] < cache[l]}) + 1
Keep(kept) == [l \in kept |-> Place(kept, l)]
KeepAndTake(kept, l) ==
  [m \in kept \cup {l} |-> IF m \in kept THEN Place(kept, m) ELSE Cardinality(kept) + 1]

\* add(l): evict what the capacity needs, then take the layer in if it fits.  The
\* mutant does not look whether the eviction freed enough.
FitsAfterEvictingAlways(l, left) == TRUE
FitsAfterEvicting(l, left) == left + Bytes(l) <= plan.cap

Add(l) ==
  LET need == used + Bytes(l) - plan.cap
      out  == IF need > 0 THEN Evicted(need) ELSE {}
      kept == DOMAIN cache \ out
      left == used - BytesIn(out)
  IN  IF Bytes(l) > plan.cap THEN UNCHANGED <<cache, used>>
      ELSE IF FitsAfterEvicting(l, left)
      THEN used' = left + Bytes(l) /\ cache' = KeepAndTake(kept, l)
      ELSE used' = left /\ cache' = Keep(kept)
-----------------------------------------------------------------------------
OnNand(l) == layers[l].tier = "nand"

\* The prefetch candidates, and the one that goes first.
Candidates ==
  {l \in DOMAIN layers : idx < l /\ l <= idx + Window /\ OnNand(l) /\ l \notin fetched}
FirstOf(cands) ==
  CHOOSE l \in cands : \A m \in cands :
    layers[m].score < layers[l].score \/ (layers[m].score = layers[l].score /\ l <= m)

\* When thread t's next prefetch may start: one transfer at a time on the NAND
\* link.  The mutant lets every thread have the link.
StartOnOwn(t) == LaterOf(lat, threads[t].busy)
PrefetchStart(t) == LaterOf(LaterOf(lat, threads[t].busy), nand_free)

\* A prefetch is over by now.  The mutant misses the one that ends exactly now.
CompletedBefore(t) == threads[t].task # NoTask /\ threads[t].busy < lat
Completed(t) == threads[t].task # NoTask /\ threads[t].busy <= lat
-----------------------------------------------------------------------------
Idle == [t \in 1 .. Threads |-> [busy |-> 0, task |-> NoTask]]

\* What Phase 1 may stage: nothing without the warmup.
StageRoom == IF plan.warmup THEN plan.cap ELSE 0

Init ==
  /\ plan \in Plans
  /\ pc = "stage" /\ token = 0 /\ idx = 1 /\ th = 1 /\ lat = 0
  /\ cache = <<>> /\ used = 0 /\ pinned = {} /\ scores = <<>> /\ session_pinned = {}
  /\ budget = StageRoom /\ t_stage = 0 /\ stage_finish = <<>>
  /\ threads = Idle /\ nand_free = 0 /\ fetched = {}
  /\ link = FreshLink /\ landed = {} /\ stalled = {}

\* A layer that does not fit what is left of the staging room stays in NAND.
StageFits(l) == Bytes(l) <= budget

\* Phase 1: one layer is staged and pinned, if it is in NAND and there is room.
Stage ==
  /\ pc = "stage" /\ idx <= Len(layers)
  /\ IF OnNand(idx) /\ StageFits(idx)
     THEN /\ budget' = budget - Bytes(idx)
          /\ t_stage' = t_stage + layers[idx].nandTime
          /\ stage_finish' = [l \in DOMAIN stage_finish \cup {idx} |->
                                IF l = idx THEN t_stage' ELSE stage_finish[l]]
          /\ Add(idx)
          /\ session_pinned' = session_pinned \cup {idx}
     ELSE UNCHANGED <<staging, cache, used, session_pinned>>
  /\ idx' = idx + 1
  /\ UNCHANGED <<plan, pc, token, th, lat, pinned, scores, ioVars, link, landed, stalled>>

StagingDone ==
  /\ pc = "stage" /\ idx > Len(layers)
  /\ pc' = "prefill" /\ idx' = 1
  /\ UNCHANGED <<plan, token, th, lat, cacheVars, staging, ioVars, link, landed, stalled>>

\* A layer of prefill runs, after its staging if it was staged: staging is
\* "independent of compute, so it overlaps prefill".
StagedBy(l) == IF l \in DOMAIN stage_finish THEN stage_finish[l] ELSE 0
Prefill ==
  /\ pc = "prefill" /\ idx <= Len(layers)
  /\ lat' = LaterOf(lat, StagedBy(idx)) + layers[idx].prefill[(idx \in session_pinned)]
  /\ idx' = idx + 1
  /\ UNCHANGED <<plan, pc, token, th, cacheVars, staging, ioVars, link, landed, stalled>>

PrefillDone ==
  /\ pc = "prefill" /\ idx > Len(layers)
  /\ pc' = "token"
  /\ UNCHANGED <<plan, token, idx, th, lat, cacheVars, staging, ioVars, link, landed, stalled>>

\* What the engine may have in flight in a decode step: the reserve less the
\* bytes staged for the session.
InflightBudget == LaterOf(0, plan.reserve - BytesIn(session_pinned))

\* "Each decode step starts with idle I/O threads" and a fresh link.
BeginToken ==
  /\ pc = "token" /\ token < Tokens
  /\ lat' = 0 /\ idx' = 1 /\ th' = 1
  /\ threads' = Idle /\ nand_free' = 0 /\ fetched' = {}
  /\ link' = Reset(link)
  /\ landed' = {} /\ stalled' = {}
  /\ pc' = IF layers = <<>> THEN "token" ELSE "prefetch"
  /\ token' = IF layers = <<>> THEN token + 1 ELSE token
  /\ UNCHANGED <<plan, cacheVars, staging>>

\* Thread th takes the first candidate if it is idle.
TakePrefetch ==
  /\ pc = "prefetch" /\ th <= Threads
  /\ threads[th].busy <= lat /\ Candidates # {}
  /\ LET l == FirstOf(Candidates)
         end == PrefetchStart(th) + layers[l].nandTime
     IN  /\ fetched' = fetched \cup {l}
         /\ threads' = [threads EXCEPT ![th] = [busy |-> end, task |-> l]]
         /\ nand_free' = end
         /\ scores' = [x \in DOMAIN scores \cup {l} |->
                         IF x = l THEN layers[l].score ELSE scores[x]]
         /\ pinned' = IF layers[l].score > PinScore THEN pinned \cup {l} ELSE pinned \ {l}
  /\ th' = th + 1
  /\ UNCHANGED <<plan, pc, token, idx, lat, cache, used, session_pinned, staging, link,
                 landed, stalled>>

SkipThread ==
  /\ pc = "prefetch" /\ th <= Threads
  /\ threads[th].busy > lat \/ Candidates = {}
  /\ th' = th + 1
  /\ UNCHANGED <<plan, pc, token, idx, lat, cacheVars, staging, ioVars, link, landed, stalled>>

\* The layer runs.  A NAND layer that is neither cached nor being prefetched is
\* reported with a NAND read of its own.  A KV write on the device goes out on
\* the write lane with the end of the layer as its deadline, "and only the slip
\* past the deadline is charged"; one to host DRAM is serialized.
Serve ==
  LET layer == layers[idx]
      base  == layer.time[(idx \in session_pinned)]
      onCxl == layer.tier \in {"dram", "nand"}
      read  == IF onCxl THEN schedule_read(link, lat, layer.rx) ELSE link
      ownRead == /\ OnNand(idx) /\ idx \notin DOMAIN cache
                 /\ \A t \in 1 .. Threads : threads[t].task # idx
  IN  /\ pc = "prefetch" /\ th > Threads
      /\ IF onCxl /\ layer.kv > 0
         THEN /\ link' = schedule_write_background(read, lat, layer.kv)
              /\ lat' = lat + base + WriteSlip(read, lat, layer.kv, lat + base)
         ELSE /\ link' = read
              /\ lat' = lat + base
                        + (IF layer.tier = "host" /\ layer.kv > 0 THEN layer.hostKv ELSE 0)
      /\ stalled' = IF ownRead THEN stalled \cup {idx} ELSE stalled
      /\ pc' = "harvest" /\ th' = 1
      /\ UNCHANGED <<plan, token, idx, cacheVars, staging, ioVars, landed>>

\* "Completed prefetches enter the cache."
Harvest ==
  /\ pc = "harvest" /\ th <= Threads
  /\ IF Completed(th)
     THEN /\ Add(threads[th].task)
          /\ landed' = landed \cup {threads[th].task}
          /\ threads' = [threads EXCEPT ![th].task = NoTask]
     ELSE UNCHANGED <<cache, used, landed, threads>>
  /\ th' = th + 1
  /\ UNCHANGED <<plan, pc, token, idx, lat, pinned, scores, session_pinned, staging,
                 nand_free, fetched, link, stalled>>

NextLayer ==
  /\ pc = "harvest" /\ th > Threads
  /\ th' = 1
  /\ IF idx < Len(layers) THEN idx' = idx + 1 /\ pc' = "prefetch" /\ UNCHANGED token
     ELSE token' = token + 1 /\ pc' = "token" /\ UNCHANGED idx
  /\ UNCHANGED <<plan, lat, cacheVars, staging, ioVars, link, landed, stalled>>

Finish ==
  /\ pc = "token" /\ token = Tokens
  /\ pc' = "done"
  /\ UNCHANGED <<plan, token, idx, th, lat, cacheVars, staging, ioVars, link, landed, stalled>>

Next == \/ Stage \/ StagingDone \/ Prefill \/ PrefillDone
        \/ BeginToken \/ TakePrefetch \/ SkipThread \/ Serve \/ Harvest \/ NextLayer \/ Finish

Spec == Init /\ [][Next]_vars
-----------------------------------------------------------------------------
TypeOK ==
  /\ plan \in Plans
  /\ pc \in {"stage", "prefill", "token", "prefetch", "harvest", "done"}
  /\ token \in 0 .. Tokens /\ idx \in 1 .. (Len(layers) + 1) /\ th \in 1 .. (Threads + 1)
  /\ pc \in {"prefetch", "harvest"} => idx <= Len(layers) /\ token < Tokens
  /\ lat \in Nat /\ used \in Nat /\ nand_free \in Nat
  /\ budget \in Nat /\ t_stage \in Nat /\ stage_finish \in [session_pinned -> Nat]
  /\ cache \in [DOMAIN cache -> Nat \ {0}] /\ IsInjective(cache)
  /\ \A s \in {DOMAIN cache, pinned, session_pinned, DOMAIN scores, fetched, landed, stalled} :
       s \subseteq DOMAIN layers
  /\ threads \in [1 .. Threads -> [busy : Nat, task : DOMAIN layers \cup {NoTask}]]
  /\ link \in LinkType

\* "Bytes Phase 1 pins stay resident for the session, so decode deducts them from
\* the prefetcher's in-flight budget" (tiersched.py:960): no prefetch of any later
\* token evicts them, though decode prefetches them again, and what the cache
\* holds and what may be in flight fit the staging reserve together.  (Without the
\* warmup nothing is pinned or deducted, and prefetches fill the cache.)
PinnedStayResident ==
  /\ session_pinned \subseteq DOMAIN cache
  /\ plan.warmup => BytesIn(DOMAIN cache) + InflightBudget <= plan.reserve

\* The cache never holds more than its capacity: its own count, which counts a
\* layer added twice twice, never falls behind what is resident.  (The run checks
\* TypeOK with it.)
CacheFits == TypeOK /\ BytesIn(DOMAIN cache) <= used /\ used <= plan.cap

\* A thread handed a new prefetch has had its last one harvested: a completed
\* prefetch is never overwritten, not even one that ends exactly when a layer does.
NoPrefetchOverwritten ==
  pc = "prefetch" => \A t \in 1 .. Threads :
    threads[t].busy <= lat /\ t >= th => threads[t].task = NoTask

\* Prefill up to layer idx ends with its longest chain: all layers one after the
\* other, or the staging of everything up to some staged layer and the layers
\* from it on.
StageTime(lids) == SumFunctionOnSet([l \in DOMAIN layers |-> layers[l].nandTime], lids)
RunTime(lids) ==
  SumFunctionOnSet([l \in DOMAIN layers |-> layers[l].prefill[(l \in session_pinned)]], lids)
Chains ==
  {RunTime(1 .. (idx - 1))}
    \cup {StageTime({m \in session_pinned : m <= l}) + RunTime(l .. (idx - 1))
            : l \in {m \in session_pinned : m < idx}}
PrefillIsLongestChain == pc = "prefill" => lat = Max(Chains)

Read(t) == (threads[t].busy - layers[threads[t].task].nandTime) .. (threads[t].busy - 1)
PrefetchesApart ==
  \A t, u \in 1 .. Threads :
    t # u /\ threads[t].task # NoTask /\ threads[u].task # NoTask =>
      threads[t].task # threads[u].task /\ Read(t) \cap Read(u) = {}

\* The NAND link carries one transfer at a time.  In prefill "a layer waits only if
\* its staging has not finished" on the single channel (tiersched.py:555-559), and
\* no longer than that; in decode no two prefetches overlap and none is done twice
\* in a token.
NandLinkSerial == PrefillIsLongestChain /\ PrefetchesApart

\* When a layer ends its KV write has left the write lane, on time or with its
\* slip charged: no write ever queues behind another layer's.
WritesLandWithLayer == pc \in {"prefetch", "harvest"} => link.tx_busy_until <= lat

\* The write and read utilization of a token are at most 100%.
UtilizationIsShare == WithinElapsed(link)

\* The inductive invariant behind the two properties of the link.
LinkInv ==
  /\ plan \in Plans
  /\ pc \in {"stage", "prefill", "token", "prefetch", "harvest", "done"}
  /\ idx \in Nat \ {0} /\ lat \in Nat
  /\ pc \in {"prefetch", "harvest"} => idx <= Len(layers)
  /\ t_stage \in Nat /\ \A l \in DOMAIN stage_finish : stage_finish[l] \in Nat
  /\ link \in LinkType
  /\ WritesLandWithLayer
  /\ UtilizationIsShare

\* "A NAND layer not yet in the cache waits for its prefetch" (tiersched.py) and
\* "Completed prefetches enter the cache": a layer whose prefetch completed is not
\* charged a NAND read of its own.
PrefetchedNotReread == landed \cap stalled = {}
=============================================================================
