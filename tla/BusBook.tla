------------------------------ MODULE BusBook ------------------------------
(***************************************************************************)
(* class _Bus of pipeline.py: the booked stretches of one bus, kept as a   *)
(* sorted list of disjoint intervals.  book(t, dur) is modelled step by    *)
(* step: the bisection, each turn of its scan, and the insertion with the  *)
(* two merges that end it.                                                 *)
(***************************************************************************)
EXTENDS BusTime, Sequences, SequencesExt

CONSTANTS Times,      \* when a request may ask to start
          Durations,  \* how long a transfer may be
          Horizon     \* bound: no request once the last interval ends later

ASSUME BusConstants ==
  /\ Times \subseteq Nat
  /\ Durations \subseteq Nat
  /\ Horizon \in Nat

VARIABLES iv,            \* self.iv, a sequence of [start, end]
          book_pc,       \* "idle", or where book() stands: "locate", "scan"
          req,           \* the caller's arguments [t, dur], which the caller keeps
          book_t,        \* book()'s locals t and k; book_k is the code's k
          book_k,        \* plus one
          book_start     \* what the last call returned

bookVars == <<iv, book_pc, req, book_t, book_k, book_start>>

\* The 1-based position bisect_right(iv, (x, inf)) gives the last interval
\* that starts at x or before; 0 when there is none.
BisectsAt(x, p) ==
  /\ p \in 0 .. Len(iv)
  /\ \A i \in 1 .. p : iv[i].start <= x
  /\ \A i \in (p + 1) .. Len(iv) : iv[i].start > x

\* An interval that still runs at t pushes t to its end.  The mutant forgets it.
PushedByNone(p) == book_t
PushedBy(p) == IF p >= 1 /\ iv[p].end > book_t THEN iv[p].end ELSE book_t

\* The gap before interval k is too short.
GapTooShort == book_k <= Len(iv) /\ iv[book_k].start < book_t + req.dur

\* Interval p takes in its right neighbour.
Glue(s, p) == RemoveAt([s EXCEPT ![p].end = s[p + 1].end], p + 1)

\* "Merge with neighbours it touches": the interval inserted at p is glued to
\* the next one, then to the one before.  The mutant leaves a backlog in pieces.
MergeRight(s, p) ==
  IF p + 1 <= Len(s) /\ s[p + 1].start = s[p].end THEN Glue(s, p) ELSE s

MergeLeftNever(s, p) == s
MergeLeft(s, p) ==
  IF p > 1 /\ s[p - 1].end = s[p].start THEN Glue(s, p - 1) ELSE s

\* The interval of this request.
Booked == [start |-> book_t, end |-> book_t + req.dur]
-----------------------------------------------------------------------------
BookInit ==
  /\ iv = <<>>
  /\ book_pc = "idle"
  /\ req = [t |-> 0, dur |-> 0]
  /\ book_t = 0 /\ book_k = 1 /\ book_start = 0

\* A call of book(t, dur).
Request ==
  /\ book_pc = "idle"
  /\ \A i \in 1 .. Len(iv) : iv[i].end <= Horizon
  /\ \E x \in Times, d \in Durations :
        /\ req' = [t |-> x, dur |-> d]
        /\ book_t' = x
  /\ book_pc' = "locate"
  /\ UNCHANGED <<iv, book_k, book_start>>

\* "if dur <= 0: return t"
BookNothing ==
  /\ book_pc = "locate"
  /\ req.dur <= 0
  /\ book_start' = book_t
  /\ book_pc' = "idle"
  /\ UNCHANGED <<iv, req, book_t, book_k>>

\* The bisection and the interval it finds.
Locate ==
  /\ book_pc = "locate"
  /\ req.dur > 0
  /\ \E p \in 0 .. Len(iv) :
        /\ BisectsAt(book_t, p)
        /\ book_t' = PushedBy(p)
        /\ book_k' = p + 1
  /\ book_pc' = "scan"
  /\ UNCHANGED <<iv, req, book_start>>

\* One turn of the while loop.
Scan ==
  /\ book_pc = "scan"
  /\ GapTooShort
  /\ book_t' = Later(book_t, iv[book_k].end)
  /\ book_k' = book_k + 1
  /\ UNCHANGED <<iv, book_pc, req, book_start>>

\* The loop ends: insert, merge, return.
Insert ==
  /\ book_pc = "scan"
  /\ ~GapTooShort
  /\ iv' = MergeLeft(MergeRight(InsertAt(iv, book_k, Booked), book_k), book_k)
  /\ book_start' = book_t
  /\ book_pc' = "idle"
  /\ UNCHANGED <<req, book_t, book_k>>

BookNext == Request \/ BookNothing \/ Locate \/ Scan \/ Insert

BookSpec == BookInit /\ [][BookNext]_bookVars
-----------------------------------------------------------------------------
Interval == [start : Nat, end : Nat]

BookTypeOK ==
  /\ iv \in Seq(Interval)
  /\ book_pc \in {"idle", "locate", "scan"}
  /\ req \in [t : Nat, dur : Nat]
  /\ book_t \in Nat
  /\ book_k \in 1 .. (Len(iv) + 1)
  /\ book_start \in Nat

\* Intervals in order, none empty, some idle time between any two.
SeparatedList(s) ==
  /\ \A i \in 1 .. Len(s) : s[i].start < s[i].end
  /\ \A i, j \in 1 .. Len(s) : i < j => s[i].end < s[j].start

\* "sorted and disjoint" (pipeline.py:85): nothing is ever booked over something
\* else, and touching neighbours were merged "so a backlog stays one interval".
Separated == SeparatedList(iv)

\* Where the scan stands: intervals before k end by t, and no start between the
\* caller's t and the current one would have fitted.
Overlaps(i, s) == iv[i].start < s + req.dur /\ s < iv[i].end

ScanPoint ==
  book_pc = "scan" =>
    /\ req.dur > 0
    /\ book_t >= req.t
    /\ \A i \in 1 .. (book_k - 1) : iv[i].end <= book_t
    /\ \A s \in req.t .. (book_t - 1) : \E i \in 1 .. Len(iv) : Overlaps(i, s)

LocatePoint == book_pc = "locate" => book_t = req.t

BookInv == BookTypeOK /\ Separated /\ LocatePoint /\ ScanPoint
-----------------------------------------------------------------------------
\* The slots a list covers.
Covered(s) == UNION {s[i].start .. (s[i].end - 1) : i \in 1 .. Len(s)}

Abs == INSTANCE BusSpec WITH busy <- Covered(iv), asked <- (book_pc # "idle"),
                             start <- book_start

\* The list, the bisection and the scan give every caller the first idle
\* stretch that holds its transfer and book exactly that: book()'s docstring.
EarliestIdleStretch == Abs!Spec
=============================================================================
