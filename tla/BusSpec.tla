------------------------------ MODULE BusSpec ------------------------------
(***************************************************************************)
(* What a bus promises its callers, whatever it stores: a request for dur  *)
(* slots no earlier than t is answered with the first idle stretch that    *)
(* holds it, and exactly those slots become busy.  BusBook implements it.  *)
(***************************************************************************)
EXTENDS BusTime

CONSTANTS Times,      \* when a request may ask to start
          Durations,  \* how long a transfer may be
          Horizon     \* no request is made once a later slot than this is busy

VARIABLES busy,       \* the slots in which the bus carries something
          asked,      \* a request is waiting for its answer
          req,        \* its arguments, [t, dur]
          start       \* the last answer

busVars == <<busy, asked, req, start>>

Init == busy = {} /\ asked = FALSE /\ req = [t |-> 0, dur |-> 0] /\ start = 0

Request ==
  /\ ~asked
  /\ \A x \in busy : x < Horizon
  /\ \E t \in Times, d \in Durations : req' = [t |-> t, dur |-> d]
  /\ asked' = TRUE
  /\ UNCHANGED <<busy, start>>

Answer ==
  /\ asked
  /\ IsFirstFit(busy, req.t, req.dur, start')
  /\ busy' = busy \cup Slots(start', req.dur)
  /\ asked' = FALSE
  /\ UNCHANGED req

Next == Request \/ Answer

Spec == Init /\ [][Next]_busVars
=============================================================================
