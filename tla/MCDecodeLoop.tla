---------------------------- MODULE MCDecodeLoop ----------------------------
(***************************************************************************)
(* DecodeLoop with two threads looking two layers ahead, on every list of  *)
(* five layers of the kinds below, two tokens, and a device cache for two  *)
(* small layers or three; on four layers without the warmup, so that       *)
(* prefetches fill the cache; and on three with the default, no cache.     *)
(***************************************************************************)
EXTENDS DecodeLoop

Layer(tier, bytes, score, nandTime, fast, slow, rx, kv) ==
  [tier |-> tier, bytes |-> bytes, score |-> score, nandTime |-> nandTime,
   prefill |-> [s \in BOOLEAN |-> IF s THEN fast ELSE slow],
   time |-> [s \in BOOLEAN |-> IF s THEN fast ELSE slow], rx |-> rx, kv |-> kv, hostKv |-> kv + 1]

\* An attention layer in NAND, a small and a large MLP in NAND, and attention in
\* device DRAM and in host DRAM.
Kinds == {Layer("nand", 1, 20, 2, 1, 2, 1, 3), Layer("nand", 1, 3, 2, 1, 2, 2, 0),
          Layer("nand", 2, 6, 4, 2, 4, 4, 0), Layer("dram", 1, 20, 2, 1, 1, 1, 1),
          Layer("host", 1, 20, 2, 2, 2, 1, 1)}

MCPlans ==
  [layers : [1 .. 5 -> Kinds], cap : {2, 3}, reserve : {4}, warmup : {TRUE}]
    \cup [layers : [1 .. 4 -> Kinds], cap : {2, 3}, reserve : {4}, warmup : {FALSE}]
    \cup [layers : [1 .. 3 -> Kinds], cap : {0}, reserve : {2}, warmup : {TRUE}]
=============================================================================
