------------------------------ MODULE MCHarness ------------------------------
(* Two workers; on the first platform a baseline and a tuned run of each    *)
(* kind in one row, and a second row whose cells may drift or print nothing.*)
EXTENDS Harness

CONSTANTS w1, w2

C(id, kind, row, rewritten, anchored, selfrun) ==
  [id |-> id, sim |-> kind, kind |-> kind, row |-> row, point |-> row \div 30,
   rewritten |-> rewritten, anchored |-> anchored, selfrun |-> selfrun]
Full(n, ok)  == <<C(n, "base", n, TRUE, TRUE, TRUE), C(n + 1, "base", n, TRUE, ok, FALSE),
                  C(n + 2, "dyn", n, FALSE, TRUE, FALSE), C(n + 3, "sem", n, TRUE, TRUE, FALSE)>>
Replay(n)    == <<C(n, "base", n, TRUE, TRUE, TRUE), C(n + 1, "sem", n, TRUE, TRUE, FALSE),
                  C(n + 5, "base", n + 5, TRUE, TRUE, TRUE), C(n + 6, "sem", n + 5, TRUE, TRUE, FALSE)>>

\* A pair is one point of one row; two pairs of Replay are two rows of one point.
Pair(n, ok)  == <<C(n, "base", n, TRUE, TRUE, TRUE), C(n + 1, "sem", n, FALSE, ok, FALSE)>>

S(mode, first, second, third, asked) ==
  [mode |-> mode, cells |-> <<first, second, third>>, asked |-> asked, whole |-> {1, Len(asked)}]
MCSweeps ==
  {S("equal", Full(1, TRUE), Full(21, TRUE), << >>, <<1, 2>>),
   S("equal", Full(1, FALSE), Full(21, TRUE), << >>, <<1, 2>>),
   S("equal", Full(1, TRUE), Full(41, TRUE), << >>, <<2>>),
   S("replay", Replay(1), Replay(21), << >>, <<1, 2>>),
   S("replay", Replay(1), Replay(36), << >>, <<2>>),
   S("sensitivity", Pair(1, TRUE), Pair(21, TRUE), Pair(61, TRUE), <<1, 2, 3>>),
   S("sensitivity", Pair(1, TRUE), Pair(21, TRUE), Pair(61, FALSE), <<1, 2, 3>>),
   S("sensitivity", Replay(36), Pair(41, TRUE), << >>, <<1, 2>>)}

\* No file, or one with rows some of which the sweeps make again.
OldRow == [base |-> 10, dyn |-> 10, sem |-> 10]
MCEarlier == {[p \in Platforms |-> [r \in held |-> OldRow]] : held \in {{}, {0, 1, 21}}}

Spread(sim)  == CASE sim = "base" -> 0 [] sim = "dyn" -> 2 [] sim = "sem" -> 4

\* Cells 41 to 46 print nothing; elsewhere the number depends on both files.
MCAnswer(sim, files, lv) ==
  IF files.settings \in 41..46 THEN 0
  ELSE 1 + ((7 * files.settings + 5 * files.script + 3 * lv + Spread(sim)) % 9)
=============================================================================
