----------------------------- MODULE MCBusBook -----------------------------
(***************************************************************************)
(* BusBook on a short time line: every request from Times and Durations,   *)
(* in every order, until a booked stretch runs past Horizon.               *)
(***************************************************************************)
EXTENDS BusBook

MCTimes == 0 .. 7
MCDurations == 0 .. 3
=============================================================================
