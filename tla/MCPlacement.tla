----------------------------- MODULE MCPlacement -----------------------------
(* A model of two to four decoder blocks between its embedding table, final   *)
(* norm and output head; block b's MLP is as sparse as its depth makes it.    *)
EXTENDS Placement, SequencesExt

Layer(type, bytes, kv, read, sparsity) ==
  [type |-> type, bytes |-> bytes, kv |-> kv, read |-> read, sparsity |-> sparsity]

MlpSparsity(b, n) == IF n = 2 THEN (IF b = 1 THEN 13 ELSE 95)
                     ELSE (CASE b = 1 -> 13 [] b = 2 -> 60 [] b = 3 -> 73 [] b = 4 -> 95)

Model(n, attn, mlp) ==
  <<Layer("embedding", 2, 0, 1, 0)>>
  \o FlattenSeq([b \in 1 .. n |-> <<Layer("attention", attn, 2, attn, 5),
                                    Layer("mlp", mlp, 0, mlp, MlpSparsity(b, n))>>])
  \o <<Layer("norm", 1, 0, 1, 0), Layer("output", 2, 0, 2, 0)>>

MCInstances ==
  {[layers |-> m, caps |-> <<g, h, c>>, order |-> o, mode |-> md] :
     m \in {Model(2, 1, 2), Model(3, 2, 3), Model(4, 1, 2)}, g \in {0, 3}, h \in 0 .. 6,
     c \in {0, 2, 5, 7}, o \in {"semantic", "sequential", "size-desc"},
     md \in {"spread", "contig", "stripe"}}
=============================================================================
