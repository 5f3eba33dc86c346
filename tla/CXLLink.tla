------------------------------ MODULE CXLLink ------------------------------
(***************************************************************************)
(* class CXLLink of cxl_link.py: a full-duplex link with a read lane (Rx)  *)
(* and a write lane (Tx), each a queue that serves one transfer at a time. *)
(* A link is a record of its attributes; a transfer is given by how long   *)
(* its bytes take on a lane.                                               *)
(***************************************************************************)
EXTENDS Integers

CONSTANT TxnOverhead    \* txn_overhead, charged once per transfer

ASSUME LinkConstants == TxnOverhead \in Nat

LaterOf(x, y) == IF x >= y THEN x ELSE y

LinkType == [rx_busy_until : Nat, tx_busy_until : Nat,
             rx_busy_total : Nat, tx_busy_total : Nat, t_end : Nat]

FreshLink == [rx_busy_until |-> 0, tx_busy_until |-> 0,
              rx_busy_total |-> 0, tx_busy_total |-> 0, t_end |-> 0]

\* What reset() leaves.  The mutant keeps the totals of the step before.
ResetQueuesOnly(link) == [link EXCEPT !.rx_busy_until = 0, !.tx_busy_until = 0, !.t_end = 0]
Reset(link) == FreshLink

RxEnd(link, now, dur) == LaterOf(now, link.rx_busy_until) + TxnOverhead + dur
TxEnd(link, now, dur) == LaterOf(now, link.tx_busy_until) + TxnOverhead + dur

schedule_read(link, now, dur) ==
  [link EXCEPT !.rx_busy_until = RxEnd(link, now, dur),
               !.rx_busy_total = @ + dur,
               !.t_end = LaterOf(@, RxEnd(link, now, dur))]

schedule_write_background(link, now, dur) ==
  [link EXCEPT !.tx_busy_until = TxEnd(link, now, dur),
               !.tx_busy_total = @ + dur,
               !.t_end = LaterOf(@, TxEnd(link, now, dur))]

\* What schedule_write_background returns: how far past the deadline the write
\* ends.  The mutant measures from the end of the queue before it.
SlipOfQueue(link, now, dur, deadline) == LaterOf(0, link.tx_busy_until + dur - deadline)
WriteSlip(link, now, dur, deadline) == LaterOf(0, TxEnd(link, now, dur) - deadline)

\* Neither lane is ever busy for longer than the time that has passed, so a
\* utilization read from the totals is a share.
WithinElapsed(link) ==
  /\ link.rx_busy_total <= link.rx_busy_until /\ link.rx_busy_until <= link.t_end
  /\ link.tx_busy_total <= link.tx_busy_until /\ link.tx_busy_until <= link.t_end
=============================================================================
