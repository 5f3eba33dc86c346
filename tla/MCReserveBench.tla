--------------------------- MODULE MCReserveBench ---------------------------
(***************************************************************************)
(* ReserveBench with two to four layers, every split of the budget into    *)
(* staging and resident layers, depths 0 to 4, one warm-up step and one    *)
(* timed one, two chunks per layer and two threads.                        *)
(***************************************************************************)
EXTENDS ReserveBench

MCBenches ==
  {b \in [layers : 2 .. 4, budget : 0 .. 3, reserved : 0 .. 3, depth : {0, 1, 4}, steps : {1}] :
     b.budget < b.layers /\ b.reserved <= b.budget}
=============================================================================
