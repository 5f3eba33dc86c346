--------------------------- MODULE MCDynamicCache ---------------------------
(* Up to four sub-layers of one or two units, every capacity up to one short *)
(* of all of them, lookahead from none to past a whole step, both policies.  *)
EXTENDS DynamicCache, FiniteSets

MCSizes == UNION {[0 .. (m - 1) -> 1 .. 2] : m \in 0 .. 4}

MCInstances ==
  {[n_dev |-> Cardinality(DOMAIN b), bytes |-> b, cache_cap |-> c, depth |-> w, policy |-> pol] :
     b \in MCSizes, c \in 0 .. 7, w \in {0, 1, 2, 3, 5}, pol \in {"belady", "lru"}}
=============================================================================
