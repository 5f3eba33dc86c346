------------------------------ MODULE BusTime ------------------------------
(***************************************************************************)
(* Time on one bus of the timing engine.  The program keeps time as        *)
(* seconds; here it is a natural number of equal slots, slot x standing    *)
(* for the stretch [x, x+1), and a set of slots says when a bus is busy.   *)
(***************************************************************************)
EXTENDS Integers

\* Of two times, the later.
Later(x, y) == IF x >= y THEN x ELSE y

\* The slots a transfer of length d that starts at s occupies.
Slots(s, d) == s .. (s + d - 1)

\* The bus is idle for the whole of a transfer of length d started at s.
Fits(busy, s, d) == Slots(s, d) \cap busy = {}

\* s starts "the earliest idle stretch starting at or after t" (pipeline.py:91)
\* that is long enough for d.
IsFirstFit(busy, t, d, s) ==
  /\ s >= t
  /\ Fits(busy, s, d)
  /\ \A x \in t .. (s - 1) : ~Fits(busy, x, d)
=============================================================================
