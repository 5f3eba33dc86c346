# SemSched: models, checks and proofs

SemSched places the weights and the KV cache of a large language model over GPU memory, host
DRAM, and the DRAM and NAND of a CXL hybrid device, and times a decode step with reads issued
ahead of compute. Its claims are numbers printed by a simulator, so what has to be right is the
bookkeeping behind them: which bus is busy when, which bytes hold staging room, what is in a
cache when a layer runs. This directory models that bookkeeping in TLA+, checks it with TLC on
small instances and proves the central invariants with TLAPS for every instance.

## 1. The system

| Component | Code | State | Operations | What makes it correct |
|---|---|---|---|---|
| Bus booking | `pipeline.py` `_Bus` | sorted list of busy intervals | `book(t, dur)` | intervals disjoint and merged; the answer is the earliest idle stretch |
| Timing engine | `pipeline.py` `pipelined_time_s`, `_pipelined_fill` | buses, compute-end times, staged prefix sums | issue, transfer, hold a further bus, compute | reads issue by the depth, the staging budget and the demand list; no bus idles; no pass beats the hardware |
| fifo engine | `pipeline.py` 166-246 | one free time per bus | the same, in issue order | as above, without the gaps: a bus serves blocks in order |
| Placement | `tiersched.py` `semantic_aware_placement` | bytes of each sub-layer per tier | fill a tier, spread the NAND share, stripe | bytes conserved, capacities held, order is a priority |
| Plan search | `tiersched.py` 677-942 | candidates, the swapped settings of the engine, KV mean, capacities | enumerate, shortlist, time, restore | decode runs under what the winner was timed with; no tier promised twice; more device memory is never slower |
| Device cache and decode loop | `tiersched.py` `AttentionGuidedCache`, `run_prefill_chunked`, decode loop | cached bytes, pins, I/O threads, NAND link, serial clock | stage, prefill, prefetch, serve, harvest | pinned layers stay, one transfer at a time on the NAND link |
| CXL link | `cxl_link.py` | busy-until and totals of two lanes | read, background write, reset | a slip is charged once, a utilization is a share |
| Runtime baseline's cache | `dynamic_baseline.py` `belady_hits` | resident, fresh, last use, bytes used | fetch, evict, use | a hit is a re-use of what stayed resident |
| KV tiers | `tiers.py` | none (functions) | `kv_cascade`, `kv_step_split`, `kv_growth_spill_time_s`, `kv_reserve_level` | shares sum to one, growth past the last tier is charged once |
| Prefetch benchmark | `hardware/reserve_bench.py` | staging slots, futures, GPU buffers | issue, wait, copy, multiply, drain | each multiplication sees its layer, no slot is lost, no hang |
| Policy baselines | `flexgen_`, `llmflash_`, `lia_`, `itme_`, `cxlaimpod_`, `dynamic_baseline.py` | local free-byte counters, a prefetcher's arrivals | cascade the cache, fill, stage, decode a step | each byte given out once; staging backed by bytes; a step reads the whole layer |
| Concurrent sweeps | `run_paper_tables.py`, `sensitivity.py` | pool of workers, private copies, rows, results file | submit, copy, patch, run, parse, tabulate, save | a row holds its own cells' numbers or the run fails; a failure loses no sweep saved before it |
| Other harness, hardware scripts, plots | `verify_results.py`, `validation/`, `hardware/*`, `plot_*` | files and processes | run, parse, draw | |

How they interact: placement hands the shares of every sub-layer to `build_units`, which turns
them into the engine's `units`; the engine calls `_Bus.book` for each bus a transfer crosses. The
plan search calls both for every candidate; decode calls the engine once per token for the
reported step time, and runs the loop over threads, device cache and CXL link beside it for the
reported stalls, utilization and hit rate. The baselines call the same engine. The harness runs
patched copies of all of them, several at a time. Only the harness and the hardware scripts have
real concurrency (threads, processes, a GPU stream); in the simulator the hard part
is *simulated* concurrency: several clocks advanced by one sequential program, where an off-by-one
or a stale clock gives a plausible but wrong number. The full list of hazards, each at its line and
with the property that watches it, is in `PROJECT.json`.

## 2. Modules

    BusTime ------- BusSpec (abstract bus)
       |               ^ refined by
       |            BusBook ---------- MCBusBook, Pipeline_proofs
       +---------- PipelineFill
                       |
                   PipelineFifo ------ MCPipelineFill, Pipeline_proofs
    CXLLink ------ DecodeLoop -------- MCDecodeLoop, DecodeLoop_proofs
    DynamicCache --------------------- MCDynamicCache, Baselines_proofs
    Order -------- Placement --------- MCPlacement, Placement_proofs
    PlanSearch ----------------------- MCPlanSearch, PlanSearch_proofs
    PolicyBook --- FlexGen, Lia, AimPod, Itme, DynamicPlan, LlmFlash
                       |
                   Baselines --------- MCBaselines, Baselines_proofs
    ReserveBench --------------------- MCReserveBench, ReserveBench_proofs
    Harness -------------------------- MCHarness, Harness_proofs
    SumTheorems: facts about sums and sorted lists, for the proofs of the engine, the decode loop,
    the baselines, the device cache and Placement

Conventions. Each definition keeps the source's name where it can. Definitions whose comment
mentions a mutant (`OwnTier`, `FloorOneTooFar`, ...) are deliberately wrong forms of the
definition below them: substituting one must make TLC refute the property `PROJECT.json` pairs it
with. Time is a natural number of slots and a rate a number of slots per byte, so equality is
exact where the code compares floats. Lists count from 1 in TLA+ sequences; units, blocks and
positions count from 0 as in the code.

**BusBook** takes `book()` apart into `BookNothing`, `Locate` (bisection and the interval that still
runs), `Scan` (one turn of the loop) and `Insert` (insertion and the two merges). **BusSpec** is
what callers rely on: the first idle stretch, and exactly those slots become busy. The refinement
mapping reads a list as the set of slots it covers; a request is outstanding while `pc # "idle"`.

**PipelineFill** is one call of `pipelined_time_s` under `BUS_ORDER=fill`: `StagePrefix` builds the
prefix sums, `Issue` computes `_issue_time`, `Transfer(tier)` books the tier's bus, `Hold` each
further bus the transfer crosses (host link, GPU link, device DRAM for bytes that pass through it),
`Consume` times the compute. The buses are sets of slots and a booking is a first fit, which is
what BusBook is proved to implement. The order in which a unit's tiers are charged, and the order
of the further buses, are left open: the code's order is the dict's and is one of them. All settings
(`NAND_PASS_THROUGH`, `DEVICE_SERIAL`, `STAGE_NAND_ONLY`, `STREAM_COMPUTE`, `GPU_LINK_BPS`) and
`blocks`, `demand`, `prefetch_depth`, `inflight_budget` are parameters.

**PipelineFifo** is the whole of `pipelined_time_s`, `BUS_ORDER` chosen at the start: PipelineFill's
actions for what the two orders share and for `fill`, and `FifoTransfer(tier)` for `fifo`, which in one
step takes the latest of the times the buses it crosses are free and moves each of them on. `trace`,
as in PipelineFill, is history: every stretch booked, with its bus and block.

**DecodeLoop** is `run_prefill_chunked`, with the staging channel of Phase 1 (`Stage`) and the pass that
waits for it (`Prefill`), and the decode loop, a thread and a layer at a time: `BeginToken`,
`TakePrefetch`/`SkipThread`, `Serve`, `Harvest`, `NextLayer`. With the warmup off Phase 1 has no room
(`StageRoom`) and stages nothing. The device cache is a function from the layers in it to their
places in the dict, which `_evict`'s stable sort falls back on. `Add` and `Evicted` are
`AttentionGuidedCache.add` and `_evict`: a layer goes when the candidates popped before it free less
than is needed. `used` is the code's own count, which counts a layer added twice twice.
`CXLLink` gives the link's methods as operators on a record. What a layer takes to run is data
(`prefill`, `time`), pinned in the device cache or not. `InflightBudget` is what decode hands the
engine. `landed` and `stalled` are history.

**DynamicCache** is `belady_hits`, an eviction or a fetch at a time, under both policies; `since` is
history. A sub-layer is named by its position `k` among the device-class sub-layers. Its initial
state, next-state relation and specification are `BeladyInit`, `BeladyNext` and `BeladySpec`, so that
one module can hold the proofs of the script (DynamicPlan, in Baselines) and of its cache.

**Placement** is `semantic_aware_placement`: `Take` is one call of `take()`, `NextTier` the end of a
fill, `Spread` one group, `Stripe` the last step. Shares are kept in bytes where the code keeps
fractions of the layer. Two parts are left out: the shuffled order (an ablation) and the label
`place` read off the largest share.

**PlanSearch** is the search before the decode loop, once per device of a sweep. `Begin` sets up,
`OpenGroup` one (device, KV tier, level), `TryReserve` one (reserve, layout): `_kv_place` with the
reserves, the placement, the estimate and the append; `NextGroup`, `Shortlist`, `TimeFinalist`,
`Establish` (what lines 929-942 put back) and `Decode`. The variables `caps0`, `kv_mean`, `kv_split`,
`caps`, `settings` and `room` are the module variables the search overwrites for every candidate. A
plan is the bytes per tier a `FillDown` gives (Placement has the fills themselves), and what the
engine answers is left to two constant operators, `StepTime` and `DecodeTime`, of everything the
code hands it; PlanSearch and PipelineFill meet in that call.

**PolicyBook** holds the ledger of a baseline script (what the cache took, what is free, reserved,
staged, placed), `CascadeTier`/`CascadeRest` for `kv_cascade`, and `Decode` steps for the cache's growth
(`kv_step_split`, `kv_growth_spill_time_s`). **FlexGen, Lia, AimPod, Itme, DynamicPlan** and
**LlmFlash** add the fills, staging and unit lists of one script each; `CXLPrefetcher` of
`cxlaimpod_baseline.py` is in AimPod, a fetch, an eviction or a use at a time. **Baselines** is the
union of the six, with one set of properties. A fraction is kept as a pair of parts and total.

**Harness** is the two concurrent sweeps of `run_paper_tables.py` and those of `sensitivity.py`, which
save the file after each: `Submit`, `Collect`, `CollectException`, `Drain` (leaving the pool's `with`),
`Tabulate` and `Write` are the script; `Take`, `CopyFiles`, `Patch`, `Rewrite` (`RewriteTiers` in
`sensitivity.py`), `StartLevel`, `TimeOut` and `CleanUp` a worker; `EndLevel` the end of a simulator's
run. `Tabulate` enters a platform's table as the script does: `run_paper_tables.py` merges it row by row
into what it loaded (`rows.update`, `Updated`), so rows of another grid stay; `sensitivity.py` puts it in
the place of the old one (`data[n] = ...`). What the file held is any of `Earlier`. A worker runs a job
per KV level as `kv_reserve_level` does and keeps the faster. A file is the number of the cell it was
patched for, and what a simulator prints is a constant operator of the files it reads and its level, 0
when it prints no throughput.

**ReserveBench** is `run()` of the prefetch benchmark with three actors: the main thread, the pool of
reader threads (each chunk read may finish or come up short), and the GPU stream. `issue()` is a
read at a time (`IssueRead`) until no slot is free or nothing is wanted (`IssueReturn`); the end of
`run()` drains the reads still in flight one by one (`Drain`) and then returns (`Return`). The stream
(`GpuCopy`, `GpuMatmul`) is torch's, external to the repository; it is modelled from its use:
operations queued on one stream run in order, and `synchronize()` waits for them.

## 3. Runs

| Run | Question | Bounds |
|---|---|---|
| `bus_book` | does the interval list implement the abstract bus? | requests at 0..7, lengths 0..3, until a booking ends past 9: lists of up to four intervals, every merge and gap case |
| `pipeline_fill` | under either bus order, are the issue rule, the staging budget and the charges right? | every list of up to 3 of 5 kinds of units, depth 0..2, budgets none/0/3/4, one unit on demand or none, two units in two blocks each, four settings that use every knob, both bus orders (1.2 million states) |
| `reserve_bench` | every interleaving of threads and stream | 2-4 layers, budget 0..3, every split, depth 0/1/4, two steps, 2 chunks, 2 threads, short reads |
| `decode_loop` | do cache, threads and link keep their promises? | every list of 5 layers of 5 kinds with a cache of 2 or 3, of 4 without the warmup, of 3 with no cache; 2 tokens, 2 threads, window 2 |
| `dynamic_cache` | is a hit a re-use? | 0-4 sub-layers of 1-2 bytes, capacity 0..7, window up to 5 (past a whole step), 5 steps, both policies |
| `placement` | are bytes and capacities kept, is the order a priority? | models of 2-4 blocks, host 0..6, device 0/2/5/7, GPU 0/3, three orders, three modes |
| `baselines` | does every policy script keep its books? | six policies, two models, GPU 0/3/14, host 1/5, device 1/4/9, both KV levels, every setting a policy reads; 4 tokens, so that the cache outgrows its mean reservation |
| `plan_search` | does decode run what was timed, and does capacity help? | sweeps over the devices 4, 6 (standard sizes) and 9, GPU 0/3, host 2/5, two weights and KV sizes, both plan defaults, three cost seeds, reserves 0 to 2 of 4, two finalists per group |
| `harness` | is every row its own cells', whatever the workers do? | 2 workers, 2 or 4 jobs per pool, up to 3 pools one after the other, all three kinds of sweep, one of them of two pools saved as a whole, a cell whose patch finds no anchor, cells that print nothing, simulators that hang, no file or one with rows the sweeps make again and one they do not |
| `decode_reread` | violated: a refused prefetch is read again | as `decode_loop` |
| `dynamic_steady` | violated: the hits do not repeat every step | as `dynamic_cache` |
| `placement_kv` | violated: part of a KV increment is charged | as `placement` |

Why the bounds are enough to be worth running: each is the smallest at which the interesting case
occurs, which the mutants confirm (each breaks its property within the same bounds). A budget of 3
with units of 2 to 6 bytes makes some reads wait, some fit together and some exceed the budget
alone; a window of 5 over 4 sub-layers wraps past the end of a step; two threads and a pool with
two chunks per layer are enough for a later layer's chunk to overtake; two tokens let the second
prefetch what the first has staged; with two workers and four jobs a worker is re-used while the
other still runs. In `plan_search` the third device is above every standard size, so its own size
joins the grid. In `baselines` every tier is absent or empty, tight and ample in some run, and a
lookahead of 4 with a staging of a few bytes makes AimPod's prefetcher evict. The bounds that exist only to make a run finite are `Horizon`
(BusBook), `Steps` (DynamicCache), `Tokens` (DecodeLoop) and `tokens` (Baselines, PlanSearch); the
sweeps of Harness are as finite as the code's lists.

What the properties say:

- *BusBook.* `Separated`: intervals stay sorted, disjoint and apart. `EarliestIdleStretch`: BusBook
  implements BusSpec.
- *PipelineFill, PipelineFifo.* `StagingFits`: whenever a read is issued, what is fetched and not
  consumed fits the budget, unless it is that block alone. `IssueInOrder`, `BlocksIssueTogether`: the
  claims of the comments and the differential test. `FillConservesWork`: under `fill` no bus is idle
  while an issued read could use it. `FloorsHold`: the pass takes at least its compute and the load of
  every serial bus, under `fifo` where no tier is faster than the links it crosses. `ServesInOrder`:
  under `fifo` no bus carries two transfers at once, nor a later block's first.
- *ReserveBench.* `RightWeights`: every multiplication uses the whole of the layer whose turn it is.
  `NextIsStaged`: `inflight.pop(p)` never raises. `SlotsAccounted`: a slot is free, in flight or
  being consumed, exactly once. `QuietAtReturn`: nothing is still reading or copying when `run()`
  returns. `Returns`: it ends.
- *DecodeLoop.* `PinnedStayResident` (and, with the warmup, cache and reads in flight fit the staging
  reserve together), `CacheFits`, `NoPrefetchOverwritten`, `NandLinkSerial` (and prefill ends with its longest chain of
  staging and layers, no later),
  `WritesLandWithLayer` (no KV write queues behind another layer's), `UtilizationIsShare`.
- *DynamicCache.* `HitsStayedResident`, `HitsFitCache`, `NeededNowIsHere`, `PrefetchNotWasted` (for
  sub-layers of one size).
- *Placement.* `SharesFit`, `FasterFirst`, `SpreadKeepsTiers`, `NandBehindFastWork` (for groups at most
  half on NAND).
- *Baselines.* `BytesAccounted`: cache, staging reserve, weights and what is free make up each
  tier. `StagingIsBacked`: the engine's budget is bytes no one else holds. `ReadsCoverLayer`: shares
  add up to the whole. `SpillIsOverflow`: a step is charged exactly what the cache's last tier would
  overflow by. `WaitsForArrival`: AimPod uses no layer whose read is still on the link.
- *PlanSearch.* `DecodesAsTimed`: split, capacities, reservation, room and settings in force for decode
  are those the winner was timed with. `WinnerIsLeast`: the shortlist drops no group and no finalist
  is faster. `PlanFits`: cache, weights, reserve and growth room fit each tier of the served device.
  `MoreDeviceNoWorse`: over standard sizes a larger device is never slower.
- *Harness.* `OwnResult`: a job's result is what its own cell prints at the faster of its levels.
  `TablesAreTrue`: a table done has every row of a complete, undisturbed sweep and, of the other rows
  the file held, all of them (equal footing, merged) or none (sensitivity, replaced); any other table
  is as the file held it, and the file holds exactly the tables of the sweeps it was saved after.
  `Returns`: the script ends and leaves no temporary directory.

The type invariant of a module is part of the first property named where it is not on its own.
Every model but ReserveBench stops by design at the end of its call, so deadlock is checked in
ReserveBench only; there a stopped main thread or pool would be a real hang.

*Fairness.* Only the two `Returns` need it. ReserveBench: `WF(Main)`: the interpreter runs the main thread whenever it can
go on. `WF(Pool)`: a `ThreadPoolExecutor` runs queued work whenever a worker is free, and a read of
a file returns, whole or short. `WF(Gpu)`: work on a stream is executed. Nothing stronger is assumed:
which of several chunk reads finishes first is open. Harness: `WF(Main)` for the script and
`WF(Work(w))` for every worker, the interpreter or the system running what can run; `Work` has the time
limit of `subprocess.run` (900 s, 1800 s in `sensitivity.py`), so a worker always has a next step. `EndLevel`, a simulator
ending, is not fair: a simulator may hang for ever, and `Returns` still holds.

### Disagreements between comments and code

1. `decode_reread` - `tiersched.py:1046,1125`: a NAND layer "waits for its prefetch" and "completed
   prefetches enter the cache". With the default `STAGE_RESERVE_FRAC` of 0 the cache refuses every
   one and the task is cleared, so a layer prefetched in time is reported as a stall of a full NAND
   read. Report rows and hit rate are affected, the step time is not.
2. `dynamic_steady` - `dynamic_baseline.py:150`: "steady state: repeats every step". The hits may cycle
   with a longer period, so the one step that times all tokens need not be representative.
3. `placement_kv` - `tiersched.py:390`: "The KV increment is indivisible, so it is charged only when the
   whole layer fits". When the weights fit and the increment does not, a part of it is charged.

## 4. Proofs

All proofs are of the specifications the runs check, for every value of the constants, from the
assumptions named in the modules: `BusConstants`, `PipelineConstants`, `PlacementConstants`, `LinkConstants`,
`DecodeConstants`, `CacheConstants`, `BenchConstants`, `HarnessConstants`, `SearchConstants`,
`SweepConstants`, `RunsAreTyped`, `WindowIsPositive`. They say that
times and sizes are natural numbers and lists are lists of the kind the code builds; that the cache's
capacity is at most the staging reserve it is cut from (`DecodeConstants`); that sub-layers have bytes
(`CacheConstants`); that a budget leaves at least one layer on NVMe and the staging share is part of
it, as the script asserts (`reserve_bench.py:208`) and computes (`BenchConstants`); that the standard
sizes ascend strictly, being those of a sorted set, and there is a reserve to try (`SearchConstants`);
that a sweep is over standard sizes, its largest device aside, as `CXLS` of `run_paper_tables.py:51` is
(`SweepConstants`, which only `MoreDeviceNoWorse` needs); that a prompt and an answer have tokens,
ITME's host staging is a fraction of host DRAM (`itme_baseline.py:60`) and a model has FFN layers
(`itme_baseline.py:83` takes the largest of them; `RunsAreTyped`). The theorems of PlanSearch have one more
hypothesis: whatever it is asked, the engine answers with a natural number.

- **Pipeline_proofs**, the booking list. `BookInv` adds to `Separated` and `ScanPoint` that the request's time is still the
  argument when the bisection starts. `Separated` alone is not inductive: `Insert` keeps it only
  because the scan stops in a gap that holds the transfer, which is `ScanPoint` with the loop's
  exit. The lemmas give the positions of a list after `InsertAt` and `RemoveAt`, show that inserting
  in a gap keeps order, and that each merge keeps it and the covered slots. `ListImplementsBus`
  is the refinement: `Insert` and `BookNothing` are `Answer`, `Request` is `Request`, the rest stutters.
- **SumTheorems.** Sums over sets of layers, blocks or tiers are written with `SumFunctionOnSet`, so
  what they come to can be proved: one element more adds its value, disjoint sets add up, a subset
  sums to no more. The library's induction takes an operator no installed prover instantiates; the
  proofs go by the least size of a set for which the fact would fail, which is first-order.
- **Pipeline_proofs**, the engine under `fill`. `BudgetFloorWalksBack`: on ascending prefix sums the
  capped binary search returns the largest block in range whose run to `i` exceeds the budget, else
  the lookback. `EngineInvariant`: `IInv` holds that prefix sums ascend, computes end in order, and
  every issued read has the time the rule gives *by the compute times known now*. That last part is
  what makes `StagingFits` provable: the rule only looks at blocks already timed, so a later `Consume`
  cannot change it. `ReadsIssueInOrder` adds that lookback and floor grow with the block.
  `BlocksTogether` rests on the issue rule seeing the unit, not the block, when there is no budget.
- **Pipeline_proofs**, either order. `FifoInv` adds that under `fifo` every booking ends by the time
  its bus is next free and belongs to no later block (`BookedBehind`), and that a device served one
  transfer at a time has one free time for both its tiers. With that a new booking, which starts
  no earlier, lies behind all others: `ServesInOrder`. A `FifoTransfer` leaves everything the issue
  rule reads, so `StagingFits`, `IssueInOrder` and `BlocksIssueTogether` carry over to both orders.
- **Pipeline_proofs**, the two bounds. `FloorInv` compares, for each bus, what the blocks have asked of
  it so far with what it carried: under `fill` the slots it has booked, which are that many because
  no booking overlaps another, under `fifo` its free time. Every booking ends by the pass's time, and
  the computes follow one another; so at the end the pass is no shorter than any load: `FloorsHold`.
  `ConserveInv` says of a pass over one tier that its bus is solid from the latest issue on and the
  further buses from the latest start on. A first fit from there leaves no gap, and what is idle
  before it was idle before the read was issued: `FillConservesWork`.
- **DecodeLoop_proofs.** `LinkInv`: between layers the write lane is free by the serial clock, and
  neither lane's total exceeds its busy-until time. It is preserved because the slip is added to
  the very clock the next write starts from, and both clocks restart together in `BeginToken`.
  `LoopInv` adds four parts. `CacheOK`: the code's count is at least the bytes in the cache, at most
  its capacity, and what Phase 1 pinned is in it. `StagedRight` and `NoRoomLeft`: Phase 1 leaves a NAND
  layer out only when it no longer fits; from then on every such layer is larger than what the cache
  has left and nothing in it may be evicted, so `add` refuses it. `ChainsEndNow`: the prefill clock is
  the longest chain of staging up to a layer and running from it on. `ThreadsRight`: a task is a
  prefetch of this token, over before the NAND link is free, and a thread the harvest has passed
  holds none that is over. From it follow `PinnedStayResident`, `CacheFits`, `NoPrefetchOverwritten`
  and `NandLinkSerial`, and `DecodeLeavesCache`: with the warmup decode never changes what is in the
  cache, for any sizes. That is disagreement 1 above, seen from the other side: not only a cache of
  size 0, but every cache the warmup has filled, refuses all prefetches.
- **Baselines_proofs**, the scripts. `BaseInv` holds at every point of all six, and none of the six
  properties is inductive without it: each speaks of `decode`, and what makes it true was
  settled passes earlier. `KvInv`: what the cascade has placed and what is left are the reservation,
  it takes from a tier once and, ITME aside, no more than it has, and only from tiers whose reads the script
  later charges (`KvTiersRead`); so `ReadsCoverLayer` loses no part of the cache. `PlaceInv`: while
  layers are placed every DRAM tier's cache, reserve, free bytes and weights are its capacity
  (`LedgerInv`), and the loop's position says which layers are still in NAND (`OrderInv`), so that a
  placement moves bytes that were counted nowhere. ITME places weights before the cache and keeps one
  counter, its engine's, which `ItmeInv` ties to the weights stored there until `_free` is computed.
  `StepInv`: the headroom is what the cache's last tier had free, hence `SpillIsOverflow`, by
  multiplying out (`ScaledOverflow`). `PhaseInv`: the prefetcher's layers are distinct and each has an
  arrival, and layers stored in host or device DRAM have none, so a use waits for every one in
  flight. FlexGen's striping is one fact about sums: the layers given equal fractions hold together in
  each tier what the filling pass put there. `SpillIsOverflow` and `BytesAccounted` are over integers:
  fractions are multiplied by their common denominator.
- **Baselines_proofs**, the device cache. `StayInv`: what is resident and not fresh is what
  stayed since its last use, and the hits of a step are behind `k`; then a `Use` counts a hit exactly when it should. `CacheInv`
  adds that the hits so far and those the step may still have fit the capacity together; each was
  resident when the step began. It gives `HitsFitCache` and `NeededNowIsHere`. `PrefetchNotWasted`
  needs `NearestFirst`: with one size, what is needed before something fetched and unused is
  resident, and the look-ahead has found all it passed or the cache is full of what is needed
  sooner; so the victim, which is needed last of all, is never fresh.
- **Placement_proofs.** `Inv`: the bytes of a layer are on the four tiers or still to place
  (`LayersWhole`), a tier's column and what is free of it are within its size (`TiersFit`), and
  everything the fill has passed in this tier is placed or the tier is full (`FillInv`). `FasterFirst`
  is kept only with that last part: bytes go to a slower tier when the order is walked again, and
  the layers before have nothing left by then, or the tier was full and nothing moves. Spreading is
  shown to be a permutation of the sub-layers that is its own inverse (`MirrorSwaps`), so every
  column sums to what it did: `SpreadKeepsTiers`. That it leaves the NAND sub-layers of a group apart
  is arithmetic of the even stride: two targets' places are quotients whose numerators differ by two
  denominators or more when at most half is on NAND (`DivAhead`), so there is one between them
  (`TargetsApart`). The fill orders are sorted lists; Order defines sorting by rank, without
  recursion, and `SortedIsPermutation` says what it returns.
- **ReserveBench_proofs.** `IInv`. A slot is on the free list, in flight for one position, or being
  consumed, once (`HeldOnce`), and there are as many as slots (`NoneLost`). Reads in flight are the
  slow layers from the next position on, without a gap (`InOrder`); there is always at
  least one slot, which `NextIsStaged` needs. The pool reads only into a slot held for the
  position it reads (`ReadsHeld`), and a chunk holds its layer, is being read, or its read failed
  (`Staged`), so a wait that did not raise has the whole layer. What is left on the stream is the
  last operations queued, and a copy's slot is still the consumed one (`OnStream`), so no read
  overwrites it: `RightWeights`. Nothing rests on which of the threads is faster.
- **PlanSearch_proofs.** `SearchInv`: every candidate, and the winner so far, carries the placement that
  its own device, KV tier, level and reserves give, whatever the shared variables hold at the
  moment; while a group is open `caps0` and `kv_mean` are the group's. `Establish` recomputes the
  placement from the winner's own parameters, so it restores what the winner was timed with. That a
  search ends with a winner (`FindsSome`) is part of it: without one `Establish` would have nothing
  to read. `TimedInv`: the winner is no slower than every finalist timed; with the least estimate of
  each group on the shortlist that is `WinnerIsLeast`. `FitsInv`: a candidate's plan and its reserves
  fit the capacities of its own device, which is never larger than the served one; so the bytes fit
  where decode puts them: `PlanFits`.
- **PlanSearch_proofs**, across devices. The candidates of a group are numbered by turn and layout
  (`Keys`: those whose reserve no earlier turn had), and what a number stands for depends on the
  platform and the group alone (`CandAt`). `KeyedInv`: the candidates found are the numbers tried, each
  once and, within a group, in order. Then a bijection takes the candidates before a given one to the
  numbers before its own, so which numbers are finalists does not depend on what else was searched:
  `FinalistsAre`, and with `BestInv` an answer is the least time of the finalists of its device's
  groups (`IsAnswer`). A larger device's groups include every smaller one's, so its least is no
  greater: `MoreDeviceNoWorse`. Shortlisting per group is what the argument rests on.
- **Harness_proofs.** `HInv`: a running job has one worker, whose directory holds what it has written so
  far and whose best throughput is that of the levels run so far; jobs collected have a value; tables
  done have the true rows over those found and no other changed, and the file has those it was saved
  with. A merge over a table already merged changes nothing (`EnteredIsAfter`), so a platform may be
  asked for twice. `OwnResult` needs
  the part on directories: a worker's directory is re-used for the next job only after `CleanUp`.

Only model-checked: both `Returns` (liveness, out of the prover's reach). Every other property of the
passing runs is a theorem.

## 5. Not modelled

- Float rounding: times and bytes are natural numbers. The interval list merges by `==` on floats;
  a rounding error there leaves an extra entry. A unit of the models stands for many bytes, so ITME's
  final check is without the byte of tolerance it has for rounding (`itme_baseline.py:150`).
- In PlanSearch the weights are a quantity placed tier by tier: the KV increment that `take()` charges
  with an attention layer is in Placement only (finding 3). `MoreDeviceNoWorse` compares the times
  the search chose by, which sample nine steps, and not those of the decode loop.
- The prefill timing of the baselines, the traffic monitor and the duplex scheduler: arithmetic for
  printed statistics, on which no decision depends. `track_write_stalls` in `tiersched.py` is never called.
- Of Placement the shuffled order (an ablation) and the label read off the largest share; of PlanSearch
  the ablation switches that narrow the grid; of the harness the other tables and curves, which run
  the same steps one cell after the other, and `verify_results.py`, which compares printed numbers.
- The process group: the time limit of a cell kills its process and not the child that runs a KV
  level. The child holds its modules in memory and writes nothing, so the model ends it too.
- `bound.py`: closed-form arithmetic over the tier rates; `FloorsHold` has the same loads.
- The hardware scripts other than the prefetch benchmark: FlexGen, the page cache, and other users of a
  shared machine are not in the repository, so there is nothing to check a model of them against.
- Plots, the gem5 configuration, the trace download: no state of the scheduler.

## 6. Plan

1. `hardware/flexgen_overnight.sh` and its retries, if its page-cache assumptions are ever stated.
