-------------------------------- MODULE Order --------------------------------
(***************************************************************************)
(* Python's sorted() over layer indices: by a key, and layers of one key   *)
(* in the model's order, because the sort is stable.                       *)
(***************************************************************************)
EXTENDS Integers, FiniteSets

SortsBefore(i, set, key) == {j \in set : key[j] < key[i] \/ (key[j] = key[i] /\ j < i)}
Sorted(set, key) ==
  [n \in 1 .. Cardinality(set) |-> CHOOSE i \in set : Cardinality(SortsBefore(i, set, key)) = n - 1]
=============================================================================
