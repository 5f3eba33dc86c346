----------------------------- MODULE MCBaselines ----------------------------
(* Two small models on platforms where each tier may be empty, tight or    *)
(* ample, with every setting a policy reads.                               *)
EXTENDS Baselines

Layer(kind, bytes, read, kv, hot) ==
  [kind |-> kind, bytes |-> bytes, read |-> read, kv |-> kv, hot |-> hot]
Small == << Layer("Embedding", 3, 1, 0, FALSE), Layer("Attention", 1, 1, 1, FALSE),
            Layer("MLP", 3, 3, 0, FALSE), Layer("Attention", 1, 1, 0, TRUE),
            Layer("MLP", 2, 2, 0, TRUE) >>
Mixed == << Layer("Embedding", 2, 1, 0, FALSE), Layer("Attention", 2, 2, 1, TRUE),
            Layer("MLP", 2, 2, 0, FALSE), Layer("Attention", 1, 1, 1, FALSE),
            Layer("MLP", 3, 3, 0, FALSE) >>
Models == {Small, Mixed}

Caps == [gpu : {0, 3, 14}, host : {1, 5}, cxl : {1, 4, 9}]

Base(p, c, m, l) ==
  [policy |-> p, cap |-> c, layers |-> m, prefill |-> 2, tokens |-> 4, level |-> l,
   slots |-> 1, hostStaging |-> 0, ssd |-> 20, kvTier |-> "cxl", active |-> 0]
MCRuns ==
  {Base(p, c, m, l) : p \in {"flexgen", "lia", "aimpod"}, c \in Caps, m \in Models,
                      l \in {1, 2}}
  \cup {[Base("itme", c, m, l) EXCEPT !.slots = s, !.hostStaging = h, !.ssd = d] :
          c \in Caps, m \in Models, l \in {1, 2}, s \in {1, 2}, h \in {0, 1},
          d \in {6, 20}}
  \cup {[Base("dynamic", c, m, l) EXCEPT !.kvTier = k] :
          c \in Caps, m \in Models, l \in {1, 2}, k \in {"host", "cxl"}}
  \cup {[Base("llmflash", c, m, l) EXCEPT !.active = a] :
          c \in Caps, m \in Models, l \in {1, 2}, a \in {0, 3, 5}}
MCLookahead == 4
=============================================================================
