---------------------------- MODULE PipelineFifo ----------------------------
(***************************************************************************)
(* pipelined_time_s under either BUS_ORDER.  The issue rule, the charges   *)
(* and the compute engine are those of PipelineFill; under "fifo" every    *)
(* bus serves its requests strictly in issue order, so a bus is a single   *)
(* time it is next free, and a transfer starts once every bus and link it  *)
(* crosses is.                                                             *)
(***************************************************************************)
EXTENDS PipelineFill

VARIABLES
  bus_order,      \* BUS_ORDER: "fill" or "fifo"
  tier_free,      \* when each tier's bus is next idle
  link_free,      \* when the shared CXL host link is
  gpu_link_free   \* when the GPU's PCIe link is

free    == <<tier_free, link_free, gpu_link_free>>
engine  == <<vars, bus_order, free>>
-----------------------------------------------------------------------------
EngineInit ==
  /\ Init
  /\ bus_order \in {"fill", "fifo"}
  /\ tier_free = [tier \in Tiers |-> 0]
  /\ link_free = 0 /\ gpu_link_free = 0

\* When a transfer of `tier` starts: not before its reads may, nor before any
\* bus or link it crosses is free.
FifoStart(tier) ==
  LET bus  == Later(issued[i], tier_free[tier])
      link == IF CrossesHostLink(tier) THEN Later(bus, link_free) ELSE bus
  IN  IF CrossesGpuLink(tier) THEN Later(link, gpu_link_free) ELSE link

\* The tiers a transfer of `tier` keeps until it ends: with DEVICE_SERIAL, the
\* whole device.  In the mutant only its own.
OwnTier(tier) == {tier}
Occupied(tier) ==
  IF env.serial /\ tier \in SHARED_LINK THEN SHARED_LINK ELSE {tier}

FifoTransfer(tier) ==
  /\ bus_order = "fifo"
  /\ pc = "move" /\ tier \in pending
  /\ LET s == FifoStart(tier)
         e == s + TransferTime(i, tier)
         hold(b) == HoldTime(i, tier, b)
         d0 == Later(s, tier_free[DEVICE_DRAM])       \* the pass through the DRAM
         d1 == IF PassesThrough(tier) THEN d0 + hold(DEVICE_DRAM) ELSE e
         booked(b, t0, t1) == [block |-> i, bus |-> b, start |-> t0, end |-> t1]
     IN  /\ tier_free' = [t \in Tiers |->
                            IF t \in Occupied(tier) THEN e
                            ELSE IF t = DEVICE_DRAM /\ PassesThrough(tier) THEN d1
                            ELSE tier_free[t]]
         /\ link_free' = IF CrossesHostLink(tier) THEN s + hold(HostLink) ELSE link_free
         /\ gpu_link_free' =
              IF CrossesGpuLink(tier) THEN s + hold(GpuLink) ELSE gpu_link_free
         /\ ready' = Later(ready, Later(e, d1))
         /\ trace' = trace \cup {booked(BusOf(tier), s, e)}
              \cup {booked(b, s, s + hold(b)) : b \in Held(tier) \ {DEVICE_DRAM}}
              \cup {booked(b, d0, d1) : b \in Held(tier) \cap {DEVICE_DRAM}}
  /\ pending' = pending \ {tier}
  /\ UNCHANGED <<call, env, p, pc, i, holding, begun, issued, comp_done, buses, bus_order>>
-----------------------------------------------------------------------------
\* What the two orders share, and what only "fill" does.
Common(A) == A /\ UNCHANGED <<bus_order, free>>
FillOnly(A) == bus_order = "fill" /\ A /\ UNCHANGED <<bus_order, free>>

EngineStagePrefix    == Common(StagePrefix)
EngineStaged         == Common(Staged)
EngineIssue          == Common(Issue)
EngineConsume        == Common(Consume)
EngineReturn         == Common(Return)
FillTransfer(tier)   == FillOnly(Transfer(tier))
FillHold(h)          == FillOnly(Hold(h))
FillLanded           == FillOnly(Landed)

EngineNext ==
  \/ EngineStagePrefix \/ EngineStaged \/ EngineIssue
  \/ \E tier \in Tiers : FillTransfer(tier)
  \/ \E h \in holding : FillHold(h)
  \/ FillLanded
  \/ \E tier \in Tiers : FifoTransfer(tier)
  \/ EngineConsume \/ EngineReturn

EngineSpec == EngineInit /\ [][EngineNext]_engine
-----------------------------------------------------------------------------
\* "BUS_ORDER=fifo serves every bus strictly in issue order" (pipeline.py:76):
\* no bus or link carries two transfers at once, and none carries a later
\* block's before an earlier block's has ended, pass-through and one-at-a-time
\* device included.
ServesInOrder ==
  bus_order = "fifo" =>
    \A x, y \in trace :
      x # y /\ x.bus = y.bus =>
        \/ x.end <= y.start /\ x.block <= y.block
        \/ y.end <= x.start /\ y.block <= x.block

\* The inductive invariant behind it: what is booked on a bus lies behind the time
\* it is next free, and a one-at-a-time device has one such time.
FreeAt(b) ==
  IF b = HostLink THEN link_free ELSE IF b = GpuLink THEN gpu_link_free ELSE tier_free[b]

BookedBehind ==
  \A x \in trace : x.start <= x.end /\ x.end <= FreeAt(x.bus) /\ x.block <= i

FreeTypeOK ==
  /\ bus_order \in {"fill", "fifo"}
  /\ tier_free \in [Tiers -> Nat] /\ link_free \in Nat /\ gpu_link_free \in Nat

FifoInv ==
  /\ IInv /\ FreeTypeOK
  /\ env.serial => tier_free[DEVICE_DRAM] = tier_free[DEVICE_NAND]
  /\ bus_order = "fifo" => BookedBehind
  /\ ServesInOrder

\* Bounds 1 to 3c "hold under both bus orders" (test_pipeline_differential.py:334),
\* under fifo for tiers no faster than the links they cross (lines 70 to 74:
\* "fifo counts a transfer done when its bus is").
NoFasterThanLinks ==
  /\ \A tier \in SHARED_LINK : env.tierTime[tier] > 0 => env.tierTime[tier] >= env.hostLinkTime
  /\ \A tier \in Tiers \ {GPU_TIER} :
       env.tierTime[tier] > 0 => env.tierTime[tier] >= env.gpuLinkTime

FloorsHold == bus_order = "fill" \/ NoFasterThanLinks => NeverBeatsHardware

\* Work conservation is "a property of fill only: under fifo a bus also waits for
\* the links its transfer crosses" (test_pipeline_differential.py:496).
FillConservesWork == bus_order = "fill" => WorkConserving
=============================================================================
