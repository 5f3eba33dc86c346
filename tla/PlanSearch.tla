----------------------------- MODULE PlanSearch -----------------------------
(***************************************************************************)
(* TierSched's plan search (run_semantic_duplex_simulation up to its       *)
(* decode loop), for a sweep over device sizes: for each device size up to *)
(* the real one, KV tier and reservation level, every staging reserve and  *)
(* layout is placed and estimated; the best few of each group are timed    *)
(* over the generation; and the winner's cache placement is put back in    *)
(* force for the decode loop, which reads it from shared variables the     *)
(* search has overwritten many times.                                      *)
(*                                                                         *)
(* Placement is modelled in Placement; here a plan is the bytes each tier  *)
(* gets.  What a plan costs is left to two constant operators of all the   *)
(* timing engine is given.  Bytes are whole: shares are rounded down.      *)
(***************************************************************************)
EXTENDS Integers, Sequences, FiniteSets, FiniteSetsExt

CONSTANTS
  Platforms,        \* memory sizes, model sizes, the sweep's devices
  StandardSizes,    \* the device sizes searched below the real one, ascending
  ReserveShares,    \* _rf, as a sequence of parts in Whole
  Whole,
  Finalists,        \* how many of each group are timed
  StepTime(_, _),   \* what the engine answers for a representative step
  DecodeTime(_, _)  \* ... for the probed steps of the generation

Dram  == {"gpu", "host", "cxl"}
Tiers == Dram \cup {"nand"}
Levels == <<1, 2>>                        \* halves of the generation reserved for
Splits == <<"host", "device", "even">>
Modes  == <<"spread", "contig", "stripe">>

PlatformType ==
  [gpu : Nat, host : Nat, devices : Seq(Nat) \ {<< >>}, weights : Nat \ {0}, table : Nat,
   kvPerToken : Nat, prefill : Nat, tokens : Nat, planDefault : BOOLEAN, cost : Nat]
SplitType == [of : [Tiers -> Nat], total : Nat]

ASSUME SearchConstants ==
  /\ Platforms \subseteq PlatformType
  /\ StandardSizes \in Seq(Nat)
  /\ \A x, y \in DOMAIN StandardSizes : x < y => StandardSizes[x] < StandardSizes[y]
  /\ Whole \in Nat \ {0} /\ Finalists \in Nat \ {0}
  /\ ReserveShares \in Seq(0 .. Whole) /\ ReserveShares # << >>

\* A sweep is over standard sizes, its largest device aside (run_paper_tables.py:51).
ASSUME SweepConstants ==
  \A f \in Platforms : \A a, b \in DOMAIN f.devices : f.devices[a] < f.devices[b] =>
    \E x \in DOMAIN StandardSizes : StandardSizes[x] = f.devices[a]

VARIABLES
  inst,       \* the platform, fixed
  sweep,      \* which of its devices is searched
  pc,         \* "begin", "group", "reserve", "time", "decode", "done"
  settings,   \* the timing engine's module settings: "served" or "default"
  caps0,      \* _caps0["cxl"], the device size kv_place starts from
  kv_mean,    \* the bytes reserved for the cache
  kv_split,   \* the share of the cache on each tier
  caps,       \* what the cache leaves of each tier
  group,      \* position in the (device, KV tier, level) loop
  turn,       \* position in the (share, split) loop
  seen,       \* reserves already tried in this group
  cands,      \* the candidates, in the order they were found
  toTime,     \* positions of the finalists not yet timed
  best,       \* the best finalist so far with its time, or << >>
  room,       \* _room: what the cache may grow into during decode
  answers     \* the winner of every device searched so far

vars == <<inst, sweep, pc, settings, caps0, kv_mean, kv_split, caps, group, turn,
          seen, cands, toTime, best, room, answers>>

Smaller(x, y) == IF x <= y THEN x ELSE y
Larger(x, y)  == IF x >= y THEN x ELSE y
-----------------------------------------------------------------------------
Device == inst.devices[sweep]
KvMean(p, level) == (p.kvPerToken * (2 * p.prefill + p.tokens * level)) \div 2

\* `amount` bytes filled into `avail`, fastest tier first, the rest on NAND.
FillDown(amount, avail) ==
  LET g == Smaller(amount, avail["gpu"])
      h == Smaller(amount - g, avail["host"])
      c == Smaller(amount - g - h, avail["cxl"])
  IN  [t \in Tiers |-> CASE t = "gpu" -> g [] t = "host" -> h [] t = "cxl" -> c
                         [] t = "nand" -> amount - g - h - c]

\* _kv_place on platform `p` from the device size `dev`, with `mean` bytes to place.  A cascade
\* starts at its tier; "stripe" fills weights and cache together into what the
\* reserves leave, and gives the cache the split of the whole.
From(tier) == CASE tier = "gpu" -> Dram [] tier = "host" -> {"host", "cxl"}
                [] tier = "cxl" -> {"cxl"} [] tier = "stripe" -> {}
Size(p, dev) == [t \in Dram |-> CASE t = "gpu" -> p.gpu [] t = "host" -> p.host
                                  [] t = "cxl" -> dev]
_kv_place(p, dev, mean, tier, dr, hr) ==
  LET size  == Size(p, dev)
      took  == FillDown(mean, [t \in Dram |-> IF t \in From(tier) THEN size[t] ELSE 0])
      tot   == p.weights + mean
      mixed == FillDown(tot, [t \in Dram |->
                                CASE t = "gpu"  -> size[t]
                                  [] t = "host" -> Larger(0, size[t] - hr)
                                  [] t = "cxl"  -> Larger(0, size[t] - dr)])
  IN  IF tier = "stripe"
      THEN [split |-> [of |-> mixed, total |-> tot],
            caps |-> [t \in Dram |-> size[t] - (mean * mixed[t]) \div tot]]
      ELSE [split |-> [of |-> took, total |-> mean],
            caps |-> [t \in Dram |-> size[t] - took[t]]]

\* (device, host) reserve bytes for f parts of their total.
_split(f, how, host, dev) ==
  LET r == (f * (host + dev)) \div Whole
      h == Smaller(r, host)
      d == Smaller(r, dev)
  IN  CASE how = "even"   -> <<(dev * f) \div Whole, (host * f) \div Whole>>
        [] how = "host"   -> <<Smaller(r - h, dev), h>>
        [] how = "device" -> <<d, Smaller(r - d, host)>>

\* The weights of a plan with the reserves held back: all but the table go in
\* before the table, so the totals are those of one fill.
PlanOf(left, dr, hr) ==
  FillDown(inst.weights + inst.table,
           [t \in Dram |-> CASE t = "gpu"  -> left["gpu"]
                             [] t = "host" -> Larger(0, left["host"] - hr)
                             [] t = "cxl"  -> Larger(0, left["cxl"] - dr)])

\* _kv_headroom: what the cache's last tier has left beside weights and
\* reserve.  The mutant forgets the reserve.
LastTier(split) ==
  CASE split.of["nand"] > 0 -> "nand"
    [] split.of["nand"] = 0 /\ split.of["cxl"] > 0 -> "cxl"
    [] split.of["nand"] = 0 /\ split.of["cxl"] = 0 /\ split.of["host"] > 0 -> "host"
    [] split.of["nand"] = 0 /\ split.of["cxl"] = 0 /\ split.of["host"] = 0 -> "gpu"
HeadroomWithReserve(split, left, plan, dr, hr) ==
  LET tail == LastTier(split)
  IN  IF tail = "nand" \/ split.total = 0 THEN 0 ELSE Larger(0, left[tail] - plan[tail])
_kv_headroom(split, left, plan, dr, hr) ==
  LET tail == LastTier(split)
      res  == CASE tail = "host" -> hr [] tail = "cxl" -> dr [] OTHER -> 0
  IN  IF tail = "nand" \/ split.total = 0 THEN 0
      ELSE Larger(0, left[tail] - res - plan[tail])

\* All the engine is given when a candidate is timed.
Context(split, left, mean, plan, dr, hr, mode) ==
  [split |-> split, caps |-> left, mean |-> mean, plan |-> plan,
   dr |-> dr, hr |-> hr, mode |-> mode,
   room |-> _kv_headroom(split, left, plan, dr, hr)]
-----------------------------------------------------------------------------
Below == Cardinality({x \in DOMAIN StandardSizes : StandardSizes[x] < Device})
_dev_caps == [x \in 1 .. (Below + 1) |-> IF x <= Below THEN StandardSizes[x] ELSE Device]
_kv_opts == IF inst.gpu > 0 THEN <<"cxl", "host", "stripe", "gpu">>
            ELSE <<"cxl", "host", "stripe">>
Groups == Len(_dev_caps) * Len(_kv_opts) * Len(Levels)
GroupDev(n)   == _dev_caps[(n \div (Len(_kv_opts) * Len(Levels))) + 1]
GroupTier(n)  == _kv_opts[((n \div Len(Levels)) % Len(_kv_opts)) + 1]
GroupLevel(n) == Levels[(n % Len(Levels)) + 1]
-----------------------------------------------------------------------------
Init ==
  /\ inst \in Platforms
  /\ sweep = 1
  /\ pc = "begin"
  /\ settings = "served"
  /\ caps0 = 0 /\ kv_mean = 0
  /\ kv_split = [of |-> [t \in Tiers |-> 0], total |-> 0]
  /\ caps = [t \in Dram |-> 0]
  /\ group = 0 /\ turn = 0 /\ seen = {} /\ cands = << >> /\ toTime = {}
  /\ best = << >> /\ room = 0 /\ answers = << >>

\* With PLAN_DEVICE=default the search plans for the default device.
Begin ==
  /\ pc = "begin"
  /\ settings' = IF inst.planDefault THEN "default" ELSE settings
  /\ cands' = << >> /\ group' = 0 /\ best' = << >>
  /\ pc' = "group"
  /\ UNCHANGED <<inst, sweep, caps0, kv_mean, kv_split, caps, turn, seen, toTime,
                 room, answers>>

OpenGroup ==
  /\ pc = "group"
  /\ group < Groups
  /\ LET dev == GroupDev(group)  mean == KvMean(inst, GroupLevel(group))
         place == _kv_place(inst, dev, mean, GroupTier(group), 0, 0)
     IN  /\ caps0' = dev /\ kv_mean' = mean
         /\ kv_split' = place.split /\ caps' = place.caps
  /\ turn' = 0 /\ seen' = {}
  /\ pc' = "reserve"
  /\ UNCHANGED <<inst, sweep, settings, group, cands, toTime, best, room, answers>>

\* One reserve, in every layout, unless the group has had it.  With the cache
\* striped, the reserve is a share of the whole sizes and the cache is placed
\* again beside it.
Turns == Len(ReserveShares) * Len(Splits)
Striping == GroupTier(group) = "stripe"
ReserveAt(n) ==
  LET f == ReserveShares[(n \div Len(Splits)) + 1]
      how == Splits[(n % Len(Splits)) + 1]
  IN  IF Striping THEN _split(f, how, inst.host, caps0)
      ELSE _split(f, how, caps["host"], caps["cxl"])
Candidate(place, mode, dr, hr) ==
  LET plan == PlanOf(place.caps, dr, hr)
  IN  [est |-> StepTime(inst.cost, Context(place.split, place.caps, kv_mean, plan,
                                           dr, hr, mode)),
       tier |-> GroupTier(group), dr |-> dr, hr |-> hr, plan |-> plan,
       dev |-> caps0, mode |-> mode, level |-> GroupLevel(group), place |-> place]
TryReserve ==
  /\ pc = "reserve"
  /\ turn < Turns
  /\ LET dr == ReserveAt(turn)[1]  hr == ReserveAt(turn)[2]
         place == IF Striping THEN _kv_place(inst, caps0, kv_mean, "stripe", dr, hr)
                  ELSE [split |-> kv_split, caps |-> caps]
     IN  /\ kv_split' = place.split /\ caps' = place.caps
         /\ IF <<dr, hr>> \in seen
            THEN UNCHANGED <<seen, cands>>
            ELSE /\ seen' = seen \cup {<<dr, hr>>}
                 /\ cands' = cands \o [m \in DOMAIN Modes |->
                                       Candidate(place, Modes[m], dr, hr)]
  /\ turn' = turn + 1
  /\ UNCHANGED <<inst, sweep, pc, settings, caps0, kv_mean, group, toTime, best,
                 room, answers>>

NextGroup ==
  /\ pc = "reserve"
  /\ turn = Turns
  /\ group' = group + 1
  /\ pc' = "group"
  /\ UNCHANGED <<inst, sweep, settings, caps0, kv_mean, kv_split, caps, turn, seen,
                 cands, toTime, best, room, answers>>

\* Sorted by estimate, ties in the order found; the first few of each group are
\* the finalists.  The mutant takes the first few of all.
Before(a, b) == cands[a].est < cands[b].est \/ (cands[a].est = cands[b].est /\ a < b)
SameGroup(a, b) == /\ cands[a].dev = cands[b].dev /\ cands[a].tier = cands[b].tier
                   /\ cands[a].level = cands[b].level
ShortGlobally(c) ==
  Cardinality({d \in DOMAIN cands : Before(d, c)}) < Finalists
Shortlisted(c) ==
  Cardinality({d \in DOMAIN cands : SameGroup(d, c) /\ Before(d, c)}) < Finalists
Shortlist ==
  /\ pc = "group"
  /\ group = Groups
  /\ toTime' = {c \in DOMAIN cands : Shortlisted(c)}
  /\ pc' = "time"
  /\ UNCHANGED <<inst, sweep, settings, caps0, kv_mean, kv_split, caps, group, turn,
                 seen, cands, best, room, answers>>

\* _decode_time places the cache again for the finalist; the shared split and
\* capacities keep what the last group left in them.
Timed(c) ==
  LET mean  == KvMean(inst, c.level)
      place == _kv_place(inst, c.dev, mean, c.tier, c.dr, c.hr)
      under == Context(place.split, place.caps, mean, c.plan, c.dr, c.hr, c.mode)
  IN  [time |-> DecodeTime(inst.cost, under), cand |-> c, under |-> under,
       settings |-> settings]
\* Of equal estimates those of a group come together, in the order found, the groups
\* in that of their best.
BestOfGroup(c) ==
  CHOOSE b \in DOMAIN cands :
    SameGroup(b, c) /\ \A d \in DOMAIN cands : SameGroup(d, c) /\ d # b => Before(b, d)
TimedBefore(a, b) ==
  \/ cands[a].est < cands[b].est
  \/ /\ cands[a].est = cands[b].est
     /\ IF SameGroup(a, b) THEN a < b ELSE Before(BestOfGroup(a), BestOfGroup(b))
\* The first of the least times wins.  The mutant keeps the last finalist.
LastWins(t) == TRUE
Better(t) == best = << >> \/ t.time < best.time
TimeFinalist ==
  /\ pc = "time"
  /\ \E i \in toTime :
       /\ \A j \in toTime \ {i} : TimedBefore(i, j)
       /\ caps0' = cands[i].dev
       /\ kv_mean' = KvMean(inst, cands[i].level)
       /\ best' = IF Better(Timed(cands[i])) THEN Timed(cands[i]) ELSE best
       /\ toTime' = toTime \ {i}
  /\ UNCHANGED <<inst, sweep, pc, settings, kv_split, caps, group, turn, seen, cands,
                 room, answers>>

\* The winner's device size, reservation and cache placement, and the served
\* device's settings, back in force.  The mutant leaves the reservation of the
\* finalist timed last.
MeanOfLast(b) == kv_mean
MeanOf(b) == KvMean(inst, b.level)
Establish ==
  /\ pc = "time"
  /\ toTime = {}
  /\ LET b == best.cand
         mean == MeanOf(b)
         place == _kv_place(inst, b.dev, mean, b.tier, b.dr, b.hr)
     IN  /\ caps0' = b.dev /\ kv_mean' = mean
         /\ kv_split' = place.split /\ caps' = place.caps
         /\ room' = _kv_headroom(place.split, place.caps, b.plan, b.dr, b.hr)
  /\ settings' = "served"
  /\ pc' = "decode"
  /\ UNCHANGED <<inst, sweep, group, turn, seen, cands, toTime, best, answers>>

\* The decode loop has run with these; the sweep goes on to its next device, in
\* a process of its own.
Decode ==
  /\ pc = "decode"
  /\ answers' = Append(answers, best.time)
  /\ IF sweep < Len(inst.devices)
     THEN sweep' = sweep + 1 /\ pc' = "begin"
     ELSE sweep' = sweep /\ pc' = "done"
  /\ UNCHANGED <<inst, settings, caps0, kv_mean, kv_split, caps, group, turn, seen,
                 cands, toTime, best, room>>

Next ==
  \/ Begin \/ OpenGroup \/ TryReserve \/ NextGroup
  \/ Shortlist \/ TimeFinalist \/ Establish \/ Decode

Spec == Init /\ [][Next]_vars
-----------------------------------------------------------------------------
\* The decode loop runs the configuration the winner was timed with: the split,
\* the capacities and the reservation it reads are those of the winner, not of
\* the candidates tried after it, and the served device's settings are back
\* (tiersched.py:929-942: "_kv_split and _caps are read by _kv_time and by the
\* decode loop").  The winner was in turn timed with the placement it was
\* estimated with.
DecodesAsTimed ==
  pc = "decode" =>
    /\ settings = "served"
    /\ best.under = Context(kv_split, caps, kv_mean, best.cand.plan, best.cand.dr,
                            best.cand.hr, best.cand.mode)
    /\ best.under.room = room
    /\ best.cand.place = [split |-> kv_split, caps |-> caps]
    /\ best.cand.dev = caps0

\* The inductive invariant behind it: a candidate and the winner so far carry the
\* placement their own device, tier, level and reserve give, whatever the shared
\* variables hold, and a search that ends has a winner.
PlaceOf(c) == _kv_place(inst, c.dev, KvMean(inst, c.level), c.tier, c.dr, c.hr)
UnderOf(c) == Context(PlaceOf(c).split, PlaceOf(c).caps, KvMean(inst, c.level), c.plan,
                      c.dr, c.hr, c.mode)
GroupPlaced ==
  /\ caps0 = GroupDev(group) /\ kv_mean = KvMean(inst, GroupLevel(group))
  /\ ~Striping => [split |-> kv_split, caps |-> caps]
                    = _kv_place(inst, caps0, kv_mean, GroupTier(group), 0, 0)

CandsPlaced ==
  /\ cands = [c \in 1 .. Len(cands) |-> cands[c]] /\ Len(cands) \in Nat
  /\ \A c \in DOMAIN cands : cands[c].place = PlaceOf(cands[c]) /\ cands[c].est \in Nat
BestPlaced ==
  best # << >> => best.cand.place = PlaceOf(best.cand) /\ best.under = UnderOf(best.cand)
FindsSome ==
  /\ pc = "reserve" => (turn > 0 => seen # {}) /\ (seen # {} => cands # << >>)
  /\ pc \in {"reserve", "group"} /\ group > 0 => cands # << >>
  /\ pc = "time" => best # << >> \/ toTime # {}

SearchInv ==
  /\ inst \in Platforms /\ group \in Nat /\ turn \in Nat
  /\ toTime \subseteq DOMAIN cands
  /\ pc # "time" => toTime = {}
  /\ pc = "reserve" => GroupPlaced
  /\ CandsPlaced /\ BestPlaced /\ FindsSome
  /\ DecodesAsTimed

\* No finalist was faster than the winner, and every (device, KV tier, level)
\* group had its best estimate timed (tiersched.py:870-879: "a global top-N could
\* drop a whole group").
WinnerIsLeast ==
  pc = "decode" =>
    \A c \in DOMAIN cands :
      /\ Shortlisted(c) => best.time <= Timed(cands[c]).time
      /\ \E d \in DOMAIN cands : SameGroup(c, d) /\ cands[d].est <= cands[c].est
                              /\ best.time <= Timed(cands[d]).time

\* In decode, no tier is promised more than it has: the cache, the weights, the
\* staging reserve and the room the cache may still grow into fit the served
\* device together (tiersched.py:886-895: headroom is "not counting the staging
\* reserve, which the cache may not use").
Reserved(t) == CASE t = "gpu" -> 0 [] t = "host" -> best.cand.hr
                 [] t = "cxl" -> best.cand.dr
Cached(t) == (kv_mean * kv_split.of[t]) \div Larger(1, kv_split.total)
PlanFits ==
  pc = "decode" =>
    \A t \in Dram :
      Cached(t) + best.cand.plan[t] + Reserved(t)
        + (IF t = LastTier(kv_split) THEN room ELSE 0) <= Size(inst, Device)[t]

\* "a larger device's candidates include every smaller device's plan and decode
\* time cannot get worse with more capacity" (tiersched.py:832-837), for sweeps
\* over the standard sizes.
MoreDeviceNoWorse ==
  \A a, b \in DOMAIN answers : inst.devices[a] <= inst.devices[b] => answers[b] <= answers[a]
=============================================================================
