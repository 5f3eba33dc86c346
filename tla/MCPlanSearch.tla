---------------------------- MODULE MCPlanSearch ----------------------------
(* Sweeps over two standard device sizes and one above them.  The two cost *)
(* operators only have to tell plans apart and to rank some of them        *)
(* differently: sums of the context's parts, weighted by the seed.         *)
EXTENDS PlanSearch

MCSizes  == <<4, 6>>
MCShares == <<0, 1, 2>>
ModeNumber(m) == CASE m = "spread" -> 1 [] m = "contig" -> 0 [] m = "stripe" -> 2

NandBytes(x) == x.plan["nand"] + (x.mean * x.split.of["nand"]) \div Larger(1, x.split.total)
MCStepTime(seed, x) ==
  8 * NandBytes(x) + ((seed * (x.dr + 2 * x.hr + 3 * x.split.of["host"] + x.mean)
                       + (seed + 1) * ModeNumber(x.mode)) % 11)
MCDecodeTime(seed, x) ==
  6 * NandBytes(x) + ((seed * (3 * x.dr + x.hr + x.split.of["cxl"] + 2 * x.mean)
                       + (seed + 2) * ModeNumber(x.mode) + x.room) % 13)

Platform(g, h, w, kv, default, seed) ==
  [gpu |-> g, host |-> h, devices |-> <<4, 6, 9>>, weights |-> w, table |-> 1,
   kvPerToken |-> kv, prefill |-> 1, tokens |-> 2, planDefault |-> default,
   cost |-> seed]
MCPlatforms ==
  {Platform(g, h, w, kv, d, s) : g \in {0, 3}, h \in {2, 5}, w \in {5, 12},
                                 kv \in {1, 3}, d \in BOOLEAN, s \in {1, 4, 7}}
=============================================================================
