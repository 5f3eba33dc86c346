---------------------------- MODULE ReserveBench ----------------------------
(***************************************************************************)
(* run() of hardware/reserve_bench.py, the program's own measurement of    *)
(* prefetching on a GPU server.  Three actors share the staging slots: the *)
(* main thread issues reads ahead, waits for the next layer's and queues   *)
(* GPU work; a pool of threads reads layer files chunk by chunk into the   *)
(* slots; one GPU stream copies each layer to one of two GPU buffers and   *)
(* multiplies by it.  A short read fails its future, and run() with it.    *)
(***************************************************************************)
EXTENDS Integers, Sequences, SequencesExt, FiniteSets, Functions

CONSTANTS
  Benches,   \* arguments [layers, budget, reserved, depth, steps]: budget and
             \* reserved share of it in whole layers
  Chunks,    \* read requests per layer
  Threads,   \* threads in Reader.pool
  MayFail    \* whether a read may come up short

BenchType == [layers : Nat \ {0}, budget : Nat, reserved : Nat, depth : Nat, steps : Nat]

ASSUME BenchConstants ==
  /\ Benches \subseteq BenchType
  /\ \A b \in Benches : b.budget < b.layers /\ b.reserved <= b.budget
  /\ Chunks \in Nat \ {0} /\ Threads \in Nat \ {0}
  /\ MayFail \in BOOLEAN

VARIABLES
  bench,     \* the arguments of this run()
  pc,        \* main thread: "issue", "pop", "wait", "queue", "sync", "step",
             \* "drain", "done", "raised"
  pos,       \* step * n + i, the position being decoded
  free,      \* the free list of staging slots
  inflight,  \* position -> slot, for every read issued ahead
  cur,       \* the slot being consumed, NoSlot between layers
  tasks,     \* chunk reads the pool has not started, oldest first
  reading,   \* chunk reads a thread is at
  failed,    \* chunk reads that came up short
  stage,     \* what each chunk of each slot holds: a layer, or Garbage
  stream,    \* GPU work not done yet, in order
  gpu_w,     \* the layer in each GPU weight buffer, or Garbage
  used       \* the weights every matmul used so far, in order

vars == <<bench, pc, pos, free, inflight, cur, tasks, reading, failed, stage,
          stream, gpu_w, used>>

NoSlot == 0
Garbage == -1
Resident == -2       \* the source of a copy that reads a resident layer
-----------------------------------------------------------------------------
n == bench.layers
Slots == IF bench.reserved >= 1 THEN bench.reserved ELSE 1
ResidentLayers == IF bench.budget >= Slots THEN bench.budget - Slots ELSE 0

\* k of m positions, evenly spaced: int(x * m/k + m/k/2) for each x below k.
spread(m, k) ==
  {LET at == ((2 * x + 1) * m) \div (2 * k) IN IF at < m THEN at ELSE m - 1 : x \in 0 .. (k - 1)}
nvme == spread(n, n - ResidentLayers)

\* Reads cross the end of a step.
LayerAt(q) == q % n
OnNvme(q) == LayerAt(q) \in nvme
End == (bench.steps + 1) * n

\* What issue(upto, p_now) still has to take: the slow layers ahead not in flight.
\* It takes them in position order, as long as there is a free slot.  The mutant
\* takes the farthest one first.
Wanted(upto, now) == {q \in now .. upto : OnNvme(q) /\ q \notin DOMAIN inflight}
Farthest(q, ahead) == \A y \in ahead : y <= q
Nearest(q, ahead) == \A y \in ahead : q <= y

Task(q, s, c) == [pos |-> q, slot |-> s, chunk |-> c]
ReadsOf(q, s) == [c \in 1 .. Chunks |-> Task(q, s, c)]

\* The reads issued for position q that have not returned.
Pending(q) == {x \in ToSet(tasks) \cup reading : x.pos = q}

\* f.result() over the futures of q in order: all return, or one raises first.
AllLanded(q) == Pending(q) = {} /\ \A x \in failed : x.pos # q
SomeRaises(q) == \E x \in failed : x.pos = q /\ \A y \in Pending(q) : y.chunk > x.chunk

\* What a copy out of a slot brings to the GPU.
Content(s) == IF \A c \in 1 .. Chunks : stage[s][c] = stage[s][1] THEN stage[s][1] ELSE Garbage

\* The slot is reusable once copied: the main thread waits for the stream.  The
\* mutant frees it as soon as the copy is queued.
CopiedAtOnce == TRUE
Copied == stream = <<>>

\* The free list with the consumed slot back.  The mutant leaks the slot.
FreedNever == free
Freed == Append(free, cur)

\* The drain after the last step waits for reads nobody will consume.  The
\* mutant skips the wait.
DrainedAtOnce(q) == TRUE
Drained(q) == AllLanded(q)

\* A thread takes the oldest request when one is free.
PoolHasThread == Cardinality(reading) < Threads
-----------------------------------------------------------------------------
Init ==
  /\ bench \in Benches
  /\ pc = "issue" /\ pos = 0
  /\ free = [s \in 1 .. Slots |-> s]
  /\ inflight = <<>> /\ cur = NoSlot
  /\ tasks = <<>> /\ reading = {} /\ failed = {}
  /\ stage = [s \in 1 .. Slots |-> [c \in 1 .. Chunks |-> Garbage]]
  /\ stream = <<>> /\ gpu_w = [b \in 0 .. 1 |-> Garbage] /\ used = <<>>

\* One round of the loop of issue(p + depth, p): a read the pool may start at
\* once.  Layers that are resident or in flight are skipped.
IssueRead ==
  /\ pc = "issue" /\ free # <<>>
  /\ \E q \in Wanted(pos + bench.depth, pos) :
       /\ Nearest(q, Wanted(pos + bench.depth, pos))
       /\ inflight' = [r \in DOMAIN inflight \cup {q} |->
                         IF r = q THEN Head(free) ELSE inflight[r]]
       /\ tasks' = tasks \o ReadsOf(q, Head(free))
  /\ free' = Tail(free)
  /\ UNCHANGED <<bench, pc, pos, cur, reading, failed, stage, stream, gpu_w, used>>

\* The loop has run to its end, or returns for want of a slot.
IssueReturn ==
  /\ pc = "issue"
  /\ Wanted(pos + bench.depth, pos) = {} \/ free = <<>>
  /\ pc' = "pop"
  /\ UNCHANGED <<bench, pos, free, inflight, cur, tasks, reading, failed, stage, stream,
                 gpu_w, used>>

\* inflight.pop(p) for a slow layer; a resident one goes straight to the GPU.
Pop ==
  /\ pc = "pop" /\ OnNvme(pos)
  /\ pos \in DOMAIN inflight
  /\ cur' = inflight[pos]
  /\ inflight' = Restrict(inflight, DOMAIN inflight \ {pos})
  /\ pc' = "wait"
  /\ UNCHANGED <<bench, pos, free, tasks, reading, failed, stage, stream, gpu_w, used>>

UseResident ==
  /\ pc = "pop" /\ ~OnNvme(pos)
  /\ pc' = "queue"
  /\ UNCHANGED <<bench, pos, free, inflight, cur, tasks, reading, failed, stage, stream,
                 gpu_w, used>>

\* Every future of the layer has returned.
Arrived ==
  /\ pc = "wait" /\ AllLanded(pos)
  /\ pc' = "queue"
  /\ UNCHANGED <<bench, pos, free, inflight, cur, tasks, reading, failed, stage, stream,
                 gpu_w, used>>

\* f.result() raises, here or in the drain, and run() is abandoned.
Raise ==
  /\ \/ pc = "wait" /\ SomeRaises(pos)
     \/ pc = "drain" /\ \E q \in DOMAIN inflight :
                             Nearest(q, DOMAIN inflight) /\ SomeRaises(q)
  /\ pc' = "raised"
  /\ UNCHANGED <<bench, pos, free, inflight, cur, tasks, reading, failed, stage, stream,
                 gpu_w, used>>

\* The copy and the matmul are queued on the stream; neither blocks.
QueueGpuWork ==
  /\ pc = "queue"
  /\ LET buffer == LayerAt(pos) % 2
         src    == IF OnNvme(pos) THEN cur ELSE Resident
     IN  stream' = stream \o <<[op |-> "copy", src |-> src, w |-> buffer, layer |-> LayerAt(pos)],
                               [op |-> "matmul", src |-> src, w |-> buffer, layer |-> LayerAt(pos)]>>
  /\ pc' = IF OnNvme(pos) THEN "sync" ELSE "step"
  /\ UNCHANGED <<bench, pos, free, inflight, cur, tasks, reading, failed, stage, gpu_w, used>>

\* "slot reusable once copied"
FreeSlot ==
  /\ pc = "sync" /\ Copied
  /\ free' = Freed
  /\ cur' = NoSlot
  /\ pc' = "step"
  /\ UNCHANGED <<bench, pos, inflight, tasks, reading, failed, stage, stream, gpu_w, used>>

\* The next position; a step ends, and is timed, once the GPU is idle.
Advance ==
  /\ pc = "step"
  /\ LayerAt(pos) = n - 1 => stream = <<>>
  /\ pos' = pos + 1
  /\ pc' = IF pos + 1 = End THEN "drain" ELSE "issue"
  /\ UNCHANGED <<bench, free, inflight, cur, tasks, reading, failed, stage, stream, gpu_w, used>>

\* A read issued beyond the last step is awaited and its slot given back, in the
\* order the reads were issued, which is that of their positions.
Drain ==
  /\ pc = "drain"
  /\ \E q \in DOMAIN inflight :
       /\ Nearest(q, DOMAIN inflight) /\ Drained(q)
       /\ free' = Append(free, inflight[q])
       /\ inflight' = Restrict(inflight, DOMAIN inflight \ {q})
  /\ UNCHANGED <<bench, pc, pos, cur, tasks, reading, failed, stage, stream, gpu_w, used>>

Return ==
  /\ pc = "drain" /\ DOMAIN inflight = {}
  /\ pc' = "done"
  /\ UNCHANGED <<bench, pos, free, inflight, cur, tasks, reading, failed, stage, stream,
                 gpu_w, used>>

\* A pool thread takes the oldest chunk; from now on its bytes arrive.
StartRead ==
  /\ tasks # <<>> /\ PoolHasThread
  /\ reading' = reading \cup {Head(tasks)}
  /\ tasks' = Tail(tasks)
  /\ stage' = [stage EXCEPT ![Head(tasks).slot][Head(tasks).chunk] = Garbage]
  /\ UNCHANGED <<bench, pc, pos, free, inflight, cur, failed, stream, gpu_w, used>>

FinishRead(x) ==
  /\ x \in reading
  /\ reading' = reading \ {x}
  /\ stage' = [stage EXCEPT ![x.slot][x.chunk] = LayerAt(x.pos)]
  /\ UNCHANGED <<bench, pc, pos, free, inflight, cur, tasks, failed, stream, gpu_w, used>>

\* preadv returns less than it was asked for: the chunk's assertion fails.
ShortRead(x) ==
  /\ x \in reading /\ MayFail
  /\ reading' = reading \ {x}
  /\ failed' = failed \cup {x}
  /\ UNCHANGED <<bench, pc, pos, free, inflight, cur, tasks, stage, stream, gpu_w, used>>

\* The stream runs its work in order.
GpuCopy ==
  /\ stream # <<>> /\ Head(stream).op = "copy"
  /\ gpu_w' = [gpu_w EXCEPT ![Head(stream).w] =
                 IF Head(stream).src = Resident THEN Head(stream).layer
                 ELSE Content(Head(stream).src)]
  /\ stream' = Tail(stream)
  /\ UNCHANGED <<bench, pc, pos, free, inflight, cur, tasks, reading, failed, stage, used>>

GpuMatmul ==
  /\ stream # <<>> /\ Head(stream).op = "matmul"
  /\ used' = Append(used, gpu_w[Head(stream).w])
  /\ stream' = Tail(stream)
  /\ UNCHANGED <<bench, pc, pos, free, inflight, cur, tasks, reading, failed, stage, gpu_w>>

Main == \/ IssueRead \/ IssueReturn \/ Pop \/ UseResident \/ Arrived \/ Raise
        \/ QueueGpuWork \/ FreeSlot \/ Advance \/ Drain \/ Return
Pool == StartRead \/ \E x \in reading : FinishRead(x) \/ ShortRead(x)
Gpu  == GpuCopy \/ GpuMatmul

\* run() has returned, or has been abandoned and its pool and stream are idle.
Ended == pc \in {"done", "raised"} /\ tasks = <<>> /\ reading = {} /\ stream = <<>>

Next == Main \/ Pool \/ Gpu \/ (Ended /\ UNCHANGED vars)

\* The interpreter runs the main thread, the operating system the pool's threads,
\* and the device its stream, whenever they have something to do.
Spec == Init /\ [][Next]_vars /\ WF_vars(Main) /\ WF_vars(Pool) /\ WF_vars(Gpu)
-----------------------------------------------------------------------------
TypeOK ==
  /\ bench \in Benches
  /\ pc \in {"issue", "pop", "wait", "queue", "sync", "step", "drain", "done", "raised"}
  /\ pos \in 0 .. End /\ (pc \in {"drain", "done"} => pos = End)
  /\ free \in Seq(1 .. Slots)
  /\ DOMAIN inflight \subseteq Nat /\ \A q \in DOMAIN inflight : inflight[q] \in 1 .. Slots
  /\ cur \in 0 .. Slots
  /\ \A x \in ToSet(tasks) \cup reading \cup failed :
        x.pos \in Nat /\ x.slot \in 1 .. Slots /\ x.chunk \in 1 .. Chunks
  /\ stage \in [1 .. Slots -> [1 .. Chunks -> {Garbage} \cup 0 .. (n - 1)]]
  /\ gpu_w \in [0 .. 1 -> {Garbage} \cup 0 .. (n - 1)]

\* Every matmul multiplies by the whole of the layer whose turn it is, whatever
\* order the pool's reads and the stream's copies run in.
RightWeights == \A x \in 1 .. Len(used) : used[x] = LayerAt(x - 1)

\* "inflight.pop(p)": the layer needed next has always been issued, even with one
\* slot and a depth of 0, so the pop never raises KeyError.
NextIsStaged == pc = "pop" /\ OnNvme(pos) => pos \in DOMAIN inflight

\* Every slot is free, in flight for one position, or being consumed, once; and
\* the pool only ever reads into a slot held for the position it reads.  (The run
\* checks TypeOK with it.)
SlotsAccounted ==
  /\ TypeOK
  /\ Len(free) + Cardinality(DOMAIN inflight) + (IF cur = NoSlot THEN 0 ELSE 1) = Slots
  /\ ToSet(free) \cup Range(inflight) \cup ({cur} \ {NoSlot}) = 1 .. Slots
  /\ \A x \in ToSet(tasks) \cup reading :
       IF x.pos \in DOMAIN inflight THEN x.slot = inflight[x.pos]
       ELSE x.pos = pos /\ x.slot = cur

\* When run() returns, no read is left that could land in a buffer the next run
\* gives to a resident layer, and no copy that would read it.
QuietAtReturn == pc = "done" => tasks = <<>> /\ reading = {} /\ stream = <<>>

\* run() returns or raises: the pool always frees what the main thread waits for.
Returns == <>(pc \in {"done", "raised"})
=============================================================================
