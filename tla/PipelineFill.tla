---------------------------- MODULE PipelineFill ----------------------------
(***************************************************************************)
(* pipelined_time_s under BUS_ORDER=fill, the timing engine every policy   *)
(* calls: units are taken in execution order, each unit's reads are issued *)
(* as far ahead as the depth, the staging budget and the demand list       *)
(* allow, every read books each bus it crosses in the first idle stretch   *)
(* (BusBook shows the list of intervals does that), and one compute engine *)
(* consumes the units.                                                     *)
(*                                                                         *)
(* Time is a number of slots (BusTime); a rate is given as slots per byte. *)
(* Units and blocks are numbered from 0, as in the code.                   *)
(***************************************************************************)
EXTENDS BusTime, Sequences, FiniteSets, Functions

CONSTANTS
  Calls,     \* arguments: [units, depth, budget, demand, blocks]
  Settings,  \* tier_bw, tier_lat and the environment's knobs
  NoBudget   \* inflight_budget=None

GPU_TIER    == "GPU HBM"
HOST_DRAM   == "Host DRAM"
DEVICE_DRAM == "CXL Device DRAM"
DEVICE_NAND == "CXL Device NAND"
Tiers       == {GPU_TIER, HOST_DRAM, DEVICE_DRAM, DEVICE_NAND}
SHARED_LINK == {DEVICE_DRAM, DEVICE_NAND}

HostLink == "host link"
GpuLink  == "GPU link"
Buses    == Tiers \cup {HostLink, GpuLink}

\* One entry of `units`: bytes per tier (0 where the dict has no key), compute.
UnitType == [bytes : [Tiers -> Nat], comp : Nat]
CallType == [units : Seq(UnitType), depth : Nat, budget : Nat \cup {NoBudget},
             demand : SUBSET Nat, blocks : Nat \ {0}]
\* A tier time of 0 means the tier has no bandwidth given and is not charged;
\* a GPU link time of 0 means the link is not capped.
SettingType == [tierTime : [Tiers -> Nat], tierLat : [Tiers -> Nat],
                chunk : Nat \ {0}, hostLinkTime : Nat, gpuLinkTime : Nat,
                passThrough : Nat, serial : BOOLEAN, nandOnly : BOOLEAN,
                stream : BOOLEAN]

ASSUME PipelineConstants ==
  /\ Calls \subseteq CallType
  /\ Settings \subseteq SettingType
  /\ NoBudget \notin Nat

VARIABLES
  call, env,        \* the arguments and the settings, fixed for the pass
  p,                \* staged_prefix; p[x] of the code is p[x + 1]
  pc,               \* "stage", "issue", "move", "hold", "done"
  i,                \* the block being timed
  pending,          \* the tiers of block i not yet charged
  holding,          \* the further buses the current transfer has yet to book
  begun,            \* when it started: the code's `start`
  issued,           \* when the reads of each block were issued
  ready,            \* when the bytes of block i charged so far have landed
  comp_done,        \* when each block's compute ended, 0 before it did
  buses,            \* the booked slots of every bus
  trace             \* the bookings [block, bus, start, end], links included

vars == <<call, env, p, pc, i, pending, holding, begun, issued, ready,
          comp_done, buses, trace>>

Earlier(x, y) == IF x <= y THEN x ELSE y
-----------------------------------------------------------------------------
\* `blocks` splits every unit into K equal blocks; depth and demand stay in units.
K == call.blocks
N == Len(call.units) * K
Blocks == 0 .. (N - 1)

UnitOf(u) == call.units[(u \div K) + 1]
BytesOf(u, tier) == UnitOf(u).bytes[tier] \div K
CompOf(u) == UnitOf(u).comp \div K

\* Block j of a unit looks j blocks further back.  The mutant forgets that.
DepthOfFlat(u) == call.depth * K
DepthOf(u) == call.depth * K + (u % K)

\* The block whose end a demand block waits for: the last of the unit before.
DemandAfter(u) == (u \div K) * K - 1
OnDemand(u) == (u \div K) \in call.demand
-----------------------------------------------------------------------------
\* Bytes a read issued ahead holds in staging room until it is consumed.
staged_bytes(u) ==
  IF env.nandOnly THEN BytesOf(u, DEVICE_NAND)
  ELSE BytesOf(u, GPU_TIER) + BytesOf(u, HOST_DRAM)
       + BytesOf(u, DEVICE_DRAM) + BytesOf(u, DEVICE_NAND)

P(x) == p[x + 1]

\* bisect_left(p, x): how many entries of the ascending list are below x.
bisect_left(x) == Cardinality({y \in DOMAIN p : p[y] < x})

\* The block whose compute must end before block u's reads may issue.  The
\* mutants let one block too many in, and drop the cap at u - 1.
FloorOneTooFar(u, j, budget) ==
  LET lo == Later(j, -1)
      m  == Earlier(bisect_left(P(u + 1) - budget) - 1, u - 1)
  IN  IF m - 1 > lo THEN m - 1 ELSE lo
FloorUncapped(u, j, budget) ==
  LET lo == Later(j, -1)
      m  == bisect_left(P(u + 1) - budget) - 1
  IN  IF m > lo THEN m ELSE lo
_budget_floor(u, j, budget) ==
  LET lo == Later(j, -1)
      m  == Earlier(bisect_left(P(u + 1) - budget) - 1, u - 1)
  IN  IF m > lo THEN m ELSE lo

CompDone(m) == IF m >= 0 THEN comp_done[m] ELSE 0

Lookback(u) == u - DepthOf(u) - 1

\* When block u's reads may start.
_issue_time(u) ==
  LET j == Lookback(u)
      ahead  == CompDone(j)
      staged == IF call.budget = NoBudget THEN ahead
                ELSE Later(ahead, CompDone(_budget_floor(u, j, call.budget)))
  IN  IF OnDemand(u) THEN Later(staged, CompDone(DemandAfter(u))) ELSE staged
-----------------------------------------------------------------------------
\* DEVICE_SERIAL gives both device tiers one bus: "one request at a time".
BusOf(tier) == IF env.serial /\ tier \in SHARED_LINK THEN DEVICE_DRAM ELSE tier

Charged(u, tier) == BytesOf(u, tier) > 0 /\ env.tierTime[tier] > 0

\* Time on the tier's own bus: the bytes, and a latency per chunk begun.
TransferTime(u, tier) ==
  LET n == BytesOf(u, tier)
  IN  n * env.tierTime[tier] + ((n + env.chunk - 1) \div env.chunk) * env.tierLat[tier]

\* The further buses a transfer holds, and for how long: the shared host link,
\* the GPU link, and the device DRAM that NAND bytes pass through.  The mutant
\* does not charge the pass-through.
CrossesHostLink(tier) == tier \in SHARED_LINK
CrossesGpuLink(tier) == env.gpuLinkTime > 0 /\ tier # GPU_TIER
PassesThrough(tier) ==
  /\ env.passThrough > 0 /\ ~env.serial
  /\ tier = DEVICE_NAND /\ env.tierTime[DEVICE_DRAM] > 0

Crosses(tier, b) ==
  CASE b = HostLink -> CrossesHostLink(tier)
    [] b = GpuLink -> CrossesGpuLink(tier)
    [] b = DEVICE_DRAM -> PassesThrough(tier)

HeldLinksOnly(tier) == {b \in {HostLink, GpuLink} : Crosses(tier, b)}
Held(tier) == {b \in {HostLink, GpuLink, DEVICE_DRAM} : Crosses(tier, b)}

HoldTime(u, tier, b) ==
  BytesOf(u, tier) *
    (CASE b = HostLink -> env.hostLinkTime
       [] b = GpuLink -> env.gpuLinkTime
       [] OTHER -> env.passThrough * env.tierTime[DEVICE_DRAM])

\* A further bus is booked from the transfer's start on.  The mutant waits for
\* its end.
HeldFromEnd(s, d) == s + d
HeldFrom(s, d) == s

\* A first fit starts when it was asked for or where something booked ends.
Candidates(b, t) == {t} \cup {x + 1 : x \in buses[b]}

\* start = bus.book(t, d), then finish = max(finish, start + d).
Book(b, t, d, s) ==
  /\ IsFirstFit(buses[b], t, d, s)
  /\ buses' = [buses EXCEPT ![b] = @ \cup Slots(s, d)]
  /\ trace' = trace \cup {[block |-> i, bus |-> b, start |-> s, end |-> s + d]}
  /\ ready' = Later(ready, s + d)

\* Compute is one engine: in order, once the bytes have landed; STREAM_COMPUTE
\* lets it run beside the block's own reads.
ComputeEnd(prev) ==
  IF env.stream THEN Later(Later(issued[i], prev) + CompOf(i), ready)
  ELSE Later(ready, prev) + CompOf(i)
-----------------------------------------------------------------------------
Init ==
  /\ call \in Calls /\ env \in Settings
  /\ p = <<0>>
  /\ pc = "stage"
  /\ i = 0 /\ pending = {} /\ holding = {} /\ begun = 0 /\ ready = 0
  /\ issued = [u \in Blocks |-> 0]
  /\ comp_done = [u \in Blocks |-> 0]
  /\ buses = [b \in Buses |-> {}]
  /\ trace = {}

\* One turn of _staged_prefix, run only under a budget.
StagePrefix ==
  /\ pc = "stage"
  /\ call.budget # NoBudget /\ Len(p) <= N
  /\ p' = Append(p, p[Len(p)] + staged_bytes(Len(p) - 1))
  /\ UNCHANGED <<call, env, pc, i, pending, holding, begun, issued, ready,
                 comp_done, buses, trace>>

Staged ==
  /\ pc = "stage"
  /\ call.budget = NoBudget \/ Len(p) = N + 1
  /\ pc' = "issue"
  /\ UNCHANGED <<call, env, p, i, pending, holding, begun, issued, ready,
                 comp_done, buses, trace>>

\* The loop takes block i and finds when its reads may issue.
Issue ==
  /\ pc = "issue" /\ i < N
  /\ issued' = [issued EXCEPT ![i] = _issue_time(i)]
  /\ ready' = _issue_time(i)
  /\ pending' = {tier \in Tiers : Charged(i, tier)}
  /\ pc' = "move"
  /\ UNCHANGED <<call, env, p, i, holding, begun, comp_done, buses, trace>>

\* One tier of block i books its own bus; the dict may hold the tiers in any
\* order.
Transfer(tier) ==
  /\ pc = "move" /\ tier \in pending
  /\ LET b == BusOf(tier)
         d == TransferTime(i, tier)
     IN  \E s \in Candidates(b, issued[i]) :
           /\ Book(b, issued[i], d, s)
           /\ begun' = HeldFrom(s, d)
           /\ holding' = {<<h, HoldTime(i, tier, h)>> : h \in Held(tier)}
  /\ pending' = pending \ {tier}
  /\ pc' = "hold"
  /\ UNCHANGED <<call, env, p, i, issued, comp_done>>

\* The transfer books one of the further buses it crosses.
Hold(h) ==
  /\ pc = "hold" /\ h \in holding
  /\ \E s \in Candidates(h[1], begun) : Book(h[1], begun, h[2], s)
  /\ holding' = holding \ {h}
  /\ UNCHANGED <<call, env, p, pc, i, pending, begun, issued, comp_done>>

Landed ==
  /\ pc = "hold" /\ holding = {}
  /\ pc' = "move"
  /\ UNCHANGED <<call, env, p, i, pending, holding, begun, issued, ready,
                 comp_done, buses, trace>>

\* Every tier of block i is charged: its compute is timed, the loop goes on.
Consume ==
  /\ pc = "move" /\ pending = {}
  /\ comp_done' = [comp_done EXCEPT ![i] = ComputeEnd(CompDone(i - 1))]
  /\ i' = i + 1
  /\ pc' = "issue"
  /\ UNCHANGED <<call, env, p, pending, holding, begun, issued, ready, buses, trace>>

AllTimed == i >= N

Return ==
  /\ pc = "issue" /\ AllTimed
  /\ pc' = "done"
  /\ UNCHANGED <<call, env, p, i, pending, holding, begun, issued, ready,
                 comp_done, buses, trace>>

Next ==
  \/ StagePrefix \/ Staged \/ Issue
  \/ \E tier \in Tiers : Transfer(tier)
  \/ \E h \in holding : Hold(h)
  \/ Landed \/ Consume \/ Return

Spec == Init /\ [][Next]_vars
-----------------------------------------------------------------------------
TypeOK ==
  /\ call \in Calls /\ env \in Settings
  /\ p \in Seq(Nat) /\ Len(p) \in 1 .. (N + 1)
  /\ pc \in {"stage", "issue", "move", "hold", "done"}
  /\ i \in 0 .. N /\ (pc \in {"move", "hold"} => i < N) /\ (pc = "done" => i = N)
  /\ pending \subseteq Tiers
  /\ holding \subseteq Buses \X Nat
  /\ begun \in Nat /\ ready \in Nat
  /\ issued \in [Blocks -> Nat] /\ comp_done \in [Blocks -> Nat]
  /\ buses \in [Buses -> SUBSET Nat]
  /\ trace \subseteq [block : Nat, bus : Buses, start : Nat, end : Nat]

\* The blocks whose reads have been issued.
Fetched == 0 .. (IF pc \in {"move", "hold"} THEN i ELSE i - 1)

\* Block w still holds its staging room at time s.
Unconsumed(w, s) == w >= i \/ comp_done[w] > s

\* inflight_budget: "bytes that may be fetched but not yet consumed"
\* (pipeline.py:133).  Whenever a read is issued, the blocks from the oldest one
\* not yet consumed up to it stage no more than the budget, unless it is alone.
StagingFits ==
  call.budget # NoBudget =>
    \A u \in Fetched : \A w \in 0 .. u :
      Unconsumed(w, issued[u]) => w = u \/ P(u + 1) - P(w) <= call.budget

\* staged_prefix never decreases, and is complete once the units are timed.
PrefixSums ==
  /\ \A x, y \in 1 .. Len(p) : x <= y => p[x] <= p[y]
  /\ call.budget # NoBudget /\ pc # "stage" => Len(p) = N + 1
  /\ pc = "stage" => i = 0

\* Computes end in block order.
ComputeInOrder == \A x, y \in 0 .. (i - 1) : x <= y => comp_done[x] <= comp_done[y]

\* Every read was issued when the rule says, by compute times that are final.
IssuedByRule == \A u \in Fetched : issued[u] = _issue_time(u)

IInv == TypeOK /\ PrefixSums /\ ComputeInOrder /\ IssuedByRule /\ StagingFits

\* "Issue times never decrease along the unit list" (test_pipeline_differential.py:260):
\* without demand blocks no read overtakes an earlier block's.
IssueInOrder ==
  call.demand = {} => \A u, w \in Fetched : w <= u => issued[w] <= issued[u]

\* "Block j of unit i is issued when unit i would be" (pipeline.py:149): without
\* a budget every block of a unit is issued at one time, the end of the unit
\* depth + 1 before, or of the one before it on demand.
UnitEnd(q) == IF q >= 0 THEN comp_done[q * K + K - 1] ELSE 0

BlocksIssueTogether ==
  call.budget = NoBudget =>
    \A u \in Fetched :
      LET q == u \div K
          ahead == UnitEnd(q - call.depth - 1)
      IN  issued[u] = IF OnDemand(u) THEN Later(ahead, UnitEnd(q - 1)) ELSE ahead

\* "a bus never sits idle while a request that is ready waits for it"
\* (test_pipeline_differential.py:46), when every unit reads the same single
\* tier and none is on demand: from the moment a bus is asked for until its
\* booking starts, that bus is busy.
SingleTier(tier) ==
  call.demand = {} /\ \A u \in Blocks : \A x \in Tiers \ {tier} : BytesOf(u, x) = 0

AskedAt(x, tier) ==
  IF x.bus = BusOf(tier) THEN issued[x.block]
  ELSE (CHOOSE y \in trace : y.block = x.block /\ y.bus = BusOf(tier)).start

WorkConserving ==
  \A tier \in Tiers : SingleTier(tier) =>
    \A x \in trace : AskedAt(x, tier) .. (x.start - 1) \subseteq buses[x.bus]

\* Bounds 1 to 3c of test_pipeline_differential.py: the pass beats neither its
\* total compute nor what any serial bus has to carry, the device DRAM with the
\* bytes that pass through it, the whole device when it serves one request at a
\* time, and the two links.
Total(load) == SumFunctionOnSet(load, Blocks)
LoadOf(u, tier) == IF Charged(u, tier) THEN TransferTime(u, tier) ELSE 0
CarriedBy(u, tiers) ==
  SumFunctionOnSet([x \in Tiers |-> IF Charged(u, x) THEN BytesOf(u, x) ELSE 0], tiers)

NeverBeatsHardware ==
  pc = "done" =>
    LET got == CompDone(N - 1) IN
    /\ got >= Total([u \in Blocks |-> CompOf(u)])
    /\ \A tier \in Tiers : got >= Total([u \in Blocks |-> LoadOf(u, tier)])
    /\ ~env.serial /\ env.tierTime[DEVICE_DRAM] > 0 =>
         got >= Total([u \in Blocks |-> LoadOf(u, DEVICE_DRAM) + env.passThrough
                        * CarriedBy(u, {DEVICE_NAND}) * env.tierTime[DEVICE_DRAM]])
    /\ got >= Total([u \in Blocks |-> CarriedBy(u, SHARED_LINK) * env.hostLinkTime])
    /\ env.serial =>
         got >= Total([u \in Blocks |-> LoadOf(u, DEVICE_DRAM) + LoadOf(u, DEVICE_NAND)])
    /\ got >= Total([u \in Blocks |-> CarriedBy(u, Tiers \ {GPU_TIER}) * env.gpuLinkTime])
=============================================================================
