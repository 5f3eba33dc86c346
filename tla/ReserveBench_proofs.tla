------------------------ MODULE ReserveBench_proofs -------------------------
(***************************************************************************)
(* For every benchmark, number of chunks and number of threads: no staging *)
(* slot is lost or held twice, the layer needed next has been issued, every *)
(* matmul uses the weights of its own layer, and run() returns with no read *)
(* or copy under way.                                                      *)
(***************************************************************************)
EXTENDS ReserveBench, SequenceTheorems, FiniteSetTheorems, TLAPS

ReadType == [pos : Nat, slot : 1 .. Slots, chunk : 1 .. Chunks]
WorkType == [op : {"copy", "matmul"}, src : {Resident} \cup 1 .. Slots, w : 0 .. 1,
             layer : 0 .. (n - 1)]
Layers == {Garbage} \cup 0 .. (n - 1)

\* The main thread is past inflight.pop for pos, and past queueing its GPU work.
Popped == pc \in {"wait", "queue", "sync", "step"}
Queued == IF pc \in {"sync", "step"} THEN pos + 1 ELSE pos

Typed ==
  /\ bench \in Benches
  /\ pc \in {"issue", "pop", "wait", "queue", "sync", "step", "drain", "done", "raised"}
  /\ free \in Seq(1 .. Slots)
  /\ DOMAIN inflight \subseteq Nat /\ IsFiniteSet(DOMAIN inflight)
  /\ inflight \in [DOMAIN inflight -> 1 .. Slots]
  /\ tasks \in Seq(ReadType) /\ reading \subseteq ReadType /\ failed \subseteq ReadType
  /\ stage \in [1 .. Slots -> [1 .. Chunks -> Layers]]
  /\ stream \in Seq(WorkType)
  /\ gpu_w \in [0 .. 1 -> Layers]
  /\ used \in Seq(Layers)

\* Where the main thread is, and whether it holds a slot there.
AtPosition ==
  /\ pos \in 0 .. End
  /\ pc \in {"drain", "done"} => pos = End
  /\ pc \notin {"drain", "done", "raised"} => pos < End
  /\ cur \in 0 .. Slots
  /\ pc \in {"issue", "pop", "step", "drain", "done"} => cur = NoSlot
  /\ pc \in {"wait", "sync"} => OnNvme(pos)
  /\ pc \in {"wait", "queue", "sync"} => (OnNvme(pos) <=> cur # NoSlot)

\* A slot is held once.
HeldOnce ==
  /\ \A i, j \in 1 .. Len(free) : free[i] = free[j] => i = j
  /\ \A q, r \in DOMAIN inflight : inflight[q] = inflight[r] => q = r
  /\ \A i \in 1 .. Len(free) : \A q \in DOMAIN inflight : free[i] # inflight[q]
  /\ \A i \in 1 .. Len(free) : free[i] # cur
  /\ \A q \in DOMAIN inflight : inflight[q] # cur

\* No slot is lost.
HeldCount == Len(free) + Cardinality(DOMAIN inflight) + (IF cur = NoSlot THEN 0 ELSE 1)
IsHeld(s) ==
  \/ s = cur
  \/ \E i \in 1 .. Len(free) : free[i] = s
  \/ \E q \in DOMAIN inflight : inflight[q] = s
NoneLost == HeldCount = Slots /\ \A s \in 1 .. Slots : IsHeld(s)

\* Reads are issued in position order: what is in flight is the slow layers from
\* the next one up to some position, without a gap.
InOrder ==
  /\ \A q \in DOMAIN inflight : OnNvme(q)
  /\ pc # "raised" => \A q \in DOMAIN inflight : q >= pos /\ (Popped => q > pos)
  /\ pc \notin {"drain", "done", "raised"} =>
       \A q \in DOMAIN inflight : \A r \in pos .. q :
         OnNvme(r) /\ (Popped => r > pos) => r \in DOMAIN inflight
  /\ pc = "pop" /\ OnNvme(pos) => pos \in DOMAIN inflight
  /\ pc = "done" => DOMAIN inflight = {}

\* The chunk reads issued that have not returned.
Reads == ToSet(tasks) \cup reading

\* The pool reads only into a slot held for the position it reads.
ReadsHeld ==
  \A x \in Reads :
    IF x.pos \in DOMAIN inflight THEN x.slot = inflight[x.pos]
    ELSE pc \in {"wait", "raised"} /\ x.pos = pos /\ x.slot = cur

\* Chunk c of slot s holds the layer of position q, or is being read or has failed.
Landed(q, s, c) ==
  \/ stage[s][c] = LayerAt(q)
  \/ \E x \in Reads \cup failed : x.pos = q /\ x.chunk = c

Staged ==
  /\ \A q \in DOMAIN inflight : \A c \in 1 .. Chunks : Landed(q, inflight[q], c)
  /\ pc = "wait" => \A c \in 1 .. Chunks : Landed(pos, cur, c)
  /\ pc \in {"queue", "sync"} /\ OnNvme(pos) =>
       \A c \in 1 .. Chunks : stage[cur][c] = LayerAt(pos)

\* Operation k of the stream: positions queue a copy and a matmul each.
Done == 2 * Queued - Len(stream)
PosOf(k) == (k - 1) \div 2
IsWork(x, k) ==
  /\ x.op = IF k % 2 = 1 THEN "copy" ELSE "matmul"
  /\ x.w = LayerAt(PosOf(k)) % 2
  /\ x.layer = LayerAt(PosOf(k))
  /\ x.src # Resident => pc = "sync" /\ PosOf(k) = pos /\ x.src = cur

\* What is left on the stream is the last operations queued, in order; a copy done
\* before its matmul left the layer in the buffer the matmul reads.
StreamInOrder == \A i \in 1 .. Len(stream) : IsWork(stream[i], Done + i)
OnStream ==
  /\ Done \in Nat /\ StreamInOrder
  /\ Done % 2 = 1 => gpu_w[LayerAt(Done \div 2) % 2] = LayerAt(Done \div 2)
  /\ pc \in {"drain", "done"} => stream = <<>>
  /\ Len(used) = Done \div 2
  /\ \A i \in 1 .. Len(used) : used[i] = LayerAt(i - 1)

IInv ==
  /\ Typed /\ AtPosition /\ HeldOnce /\ NoneLost /\ InOrder
  /\ ReadsHeld /\ Staged /\ OnStream
-----------------------------------------------------------------------------
(* Arithmetic of positions, and what follows from the arguments alone.     *)

LEMMA ModRange ==
  ASSUME NEW q \in Nat, NEW m \in Nat \ {0}
  PROVE  q % m \in 0 .. (m - 1)
  OBVIOUS

\* The last position is the last layer's.
LEMMA LastOfStep ==
  ASSUME NEW m \in Nat \ {0}, NEW k \in Nat, NEW q \in Nat, q + 1 = (k + 1) * m
  PROVE  q % m = m - 1
<1> DEFINE d == q \div m
           r == q % m
<1>1. d \in Int /\ r \in 0 .. (m - 1) /\ q = m * d + r
  OBVIOUS
<1> HIDE DEF d, r
<1>2. m * (k + 1) = m * d + r + 1
  BY <1>1
<1>3. d \leq k
  <2>1. SUFFICES ASSUME d \geq k + 1 PROVE FALSE
    BY <1>1
  <2>2. m * d \geq m * (k + 1)
    BY <1>1, <2>1
  <2> QED
    BY <1>1, <1>2, <2>2
<1>4. d \geq k
  <2>1. SUFFICES ASSUME d + 1 \leq k PROVE FALSE
    BY <1>1
  <2>2. m * (d + 1) \leq m * k
    BY <1>1, <2>1
  <2>3. m * (d + 1) = m * d + m /\ m * (k + 1) = m * k + m
    BY <1>1
  <2> QED
    BY <1>1, <1>2, <2>2, <2>3
<1>5. r = m - 1
  <2>1. d = k
    BY <1>1, <1>3, <1>4
  <2>2. m * (k + 1) = m * k + m
    OBVIOUS
  <2> QED
    BY <1>1, <1>2, <2>1, <2>2
<1> QED
  BY <1>5 DEF r

LEMMA Arguments ==
  ASSUME bench \in Benches
  PROVE  /\ n \in Nat \ {0} /\ Slots \in Nat \ {0} /\ bench.depth \in Nat
         /\ bench.steps \in Nat /\ End \in Nat
         /\ \A q \in Nat : LayerAt(q) \in 0 .. (n - 1)
         /\ Chunks \in Nat \ {0}
<1>1. bench \in BenchType /\ Chunks \in Nat \ {0}
  BY BenchConstants
<1>2. n \in Nat \ {0} /\ Slots \in Nat \ {0} /\ bench.depth \in Nat /\ bench.steps \in Nat
  BY <1>1 DEF BenchType, n, Slots
<1>3. End \in Nat
  BY <1>2 DEF End
<1>4. \A q \in Nat : LayerAt(q) \in 0 .. (n - 1)
  BY <1>2, ModRange DEF LayerAt
<1> QED
  BY <1>1, <1>2, <1>3, <1>4

LEMMA SameBench ==
  ASSUME UNCHANGED bench
  PROVE  /\ n' = n /\ Slots' = Slots /\ End' = End /\ nvme' = nvme
         /\ \A q : LayerAt(q)' = LayerAt(q) /\ (OnNvme(q)' <=> OnNvme(q))
         /\ ReadType' = ReadType /\ WorkType' = WorkType /\ Layers' = Layers
<1>1. n' = n
  BY DEF n
<1>2. Slots' = Slots
  BY DEF Slots
<1>3. nvme' = nvme
  BY <1>1, <1>2 DEF nvme, ResidentLayers
<1>4. \A q : LayerAt(q)' = LayerAt(q)
  BY <1>1, SMTT(60) DEF LayerAt
<1> QED
  BY <1>1, <1>2, <1>3, <1>4 DEF End, OnNvme, ReadType, WorkType, Layers

LEMMA NoBenchChange == [Next]_vars => UNCHANGED bench
  BY DEF Next, Main, Pool, Gpu, IssueRead, IssueReturn, Pop, UseResident, Arrived, Raise,
         QueueGpuWork, FreeSlot, Advance, Drain, Return, StartRead, FinishRead, ShortRead,
         GpuCopy, GpuMatmul, vars

-----------------------------------------------------------------------------
(* The type of the state.                                                  *)

LEMMA FiniteFunctionIsSeq ==
  ASSUME NEW S, NEW m \in Nat, NEW f \in [1 .. m -> S]
  PROVE  f \in Seq(S)
  BY SeqDef

LEMMA ConcatTwo ==
  ASSUME NEW S, NEW s \in Seq(S), NEW a \in S, NEW b \in S
  PROVE  /\ Len(s \o <<a, b>>) = Len(s) + 2
         /\ \A i \in 1 .. Len(s) : (s \o <<a, b>>)[i] = s[i]
         /\ (s \o <<a, b>>)[Len(s) + 1] = a
         /\ (s \o <<a, b>>)[Len(s) + 2] = b
  OBVIOUS

LEMMA WorkQueued ==
  ASSUME Typed, AtPosition, pc = "queue",
         NEW o \in {"copy", "matmul"}
  PROVE  [op |-> o, src |-> IF OnNvme(pos) THEN cur ELSE Resident, w |-> LayerAt(pos) % 2,
          layer |-> LayerAt(pos)] \in WorkType
<1>1. LayerAt(pos) \in 0 .. (n - 1) /\ n \in Nat \ {0} /\ pos \in Nat /\ Slots \in Nat
  BY Arguments, SMTT(60) DEF Typed, AtPosition
<1>2. LayerAt(pos) % 2 \in 0 .. 1
  BY <1>1
<1>3. OnNvme(pos) => cur \in 1 .. Slots
  BY <1>1 DEF AtPosition, NoSlot
<1> QED
  BY <1>1, <1>2, <1>3 DEF WorkType

LEMMA TypedInit == Init => Typed
<1> SUFFICES ASSUME Init PROVE Typed
  OBVIOUS
<1>1. bench \in Benches /\ Slots \in Nat \ {0} /\ n \in Nat \ {0} /\ Chunks \in Nat \ {0}
  BY Arguments DEF Init
<1>2. free \in Seq(1 .. Slots)
  BY <1>1 DEF Init
<1>3. DOMAIN inflight = {} /\ IsFiniteSet(DOMAIN inflight)
  BY FS_EmptySet DEF Init
<1>4. inflight \in [DOMAIN inflight -> 1 .. Slots]
  BY <1>3 DEF Init
<1>5. stage \in [1 .. Slots -> [1 .. Chunks -> Layers]]
  BY <1>1 DEF Init, Layers
<1>6. gpu_w \in [0 .. 1 -> Layers]
  BY <1>1 DEF Init, Layers
<1> QED
  BY <1>1, <1>2, <1>3, <1>4, <1>5, <1>6 DEF Typed, Init

LEMMA TypedKept == Typed /\ AtPosition /\ [Next]_vars => Typed'
<1> SUFFICES ASSUME Typed, AtPosition, [Next]_vars PROVE Typed'
  OBVIOUS
<1>1. /\ UNCHANGED bench /\ Slots' = Slots /\ ReadType' = ReadType /\ WorkType' = WorkType
      /\ Layers' = Layers
  BY NoBenchChange, SameBench
<1>2. /\ n \in Nat \ {0} /\ Slots \in Nat \ {0} /\ Chunks \in Nat \ {0} /\ bench.depth \in Nat
      /\ pos \in Nat /\ \A q \in Nat : LayerAt(q) \in 0 .. (n - 1)
  BY Arguments DEF Typed, AtPosition
<1> USE <1>1 DEF Typed
<1>3. CASE IssueRead
  <2>1. free # <<>> /\ Head(free) \in 1 .. Slots /\ free' = Tail(free)
        /\ free' \in Seq(1 .. Slots)
    <3>1. free # <<>> /\ free' = Tail(free) /\ free \in Seq(1 .. Slots)
      BY <1>3 DEF IssueRead
    <3> QED
      BY <3>1, <1>1, HeadTailProperties
  <2>2. PICK q \in Wanted(pos + bench.depth, pos) :
          /\ inflight' = [r \in DOMAIN inflight \cup {q} |->
                            IF r = q THEN Head(free) ELSE inflight[r]]
          /\ tasks' = tasks \o ReadsOf(q, Head(free))
    BY <1>3 DEF IssueRead
  <2>3. q \in Nat
    BY <1>2, <2>2 DEF Wanted
  <2>4. DOMAIN inflight' \subseteq Nat /\ IsFiniteSet(DOMAIN inflight')
    BY <2>2, <2>3, FS_AddElement
  <2>5. inflight' \in [DOMAIN inflight' -> 1 .. Slots]
    BY <2>1, <2>2
  <2>6. ReadsOf(q, Head(free)) \in Seq(ReadType)
    <3>1. \A c \in 1 .. Chunks : Task(q, Head(free), c) \in ReadType
      BY <2>1, <2>3 DEF Task, ReadType
    <3>2. ReadsOf(q, Head(free)) \in [1 .. Chunks -> ReadType]
      <4> HIDE DEF Typed
      <4> QED
        BY <3>1, Zenon DEF ReadsOf
    <3> QED
      BY <1>2, <3>2, FiniteFunctionIsSeq
  <2>7. tasks' \in Seq(ReadType)
    BY <2>2, <2>6
  <2> QED
    BY <1>3, <2>1, <2>4, <2>5, <2>7 DEF IssueRead
<1>4. CASE Pop \/ Drain
  <2>1. PICK q \in DOMAIN inflight : inflight' = Restrict(inflight, DOMAIN inflight \ {q})
    BY <1>4 DEF Pop, Drain
  <2>2. DOMAIN inflight' = DOMAIN inflight \ {q}
    BY <2>1 DEF Restrict
  <2>3. IsFiniteSet(DOMAIN inflight')
    BY <2>2, FS_RemoveElement
  <2>4. inflight' \in [DOMAIN inflight' -> 1 .. Slots]
    BY <2>1, <2>2 DEF Restrict
  <2>5. free' \in Seq(1 .. Slots)
    <3>1. CASE Pop
      BY <3>1 DEF Pop
    <3>2. CASE Drain
      BY <3>2 DEF Drain
    <3> QED
      BY <1>4, <3>1, <3>2
  <2> QED
    BY <1>4, <2>2, <2>3, <2>4, <2>5 DEF Pop, Drain
<1>5. CASE QueueGpuWork
  <2> DEFINE work(o) == [op |-> o, src |-> IF OnNvme(pos) THEN cur ELSE Resident,
                         w |-> LayerAt(pos) % 2, layer |-> LayerAt(pos)]
  <2>1. work("copy") \in WorkType /\ work("matmul") \in WorkType
    BY <1>5, WorkQueued DEF QueueGpuWork
  <2>2. stream' = stream \o <<work("copy"), work("matmul")>>
    BY <1>5 DEF QueueGpuWork
  <2> HIDE DEF work
  <2>3. stream' \in Seq(WorkType)
    BY <2>1, <2>2
  <2> QED
    BY <1>5, <2>3 DEF QueueGpuWork
<1>6. CASE FreeSlot
  <2>1. cur \in 1 .. Slots
    BY <1>2, <1>6, SMTT(60) DEF FreeSlot, AtPosition, NoSlot
  <2>2. free' \in Seq(1 .. Slots)
    BY <1>6, <2>1 DEF FreeSlot, Freed
  <2> QED
    BY <1>6, <2>2 DEF FreeSlot
<1>7. CASE StartRead
  <2>1. tasks # <<>> /\ Head(tasks) \in ReadType /\ tasks' \in Seq(ReadType)
    BY <1>7 DEF StartRead
  <2>2. reading' \subseteq ReadType
    BY <1>7, <2>1 DEF StartRead
  <2>3. Head(tasks).slot \in 1 .. Slots /\ Head(tasks).chunk \in 1 .. Chunks
    BY <2>1 DEF ReadType
  <2>4. stage' \in [1 .. Slots -> [1 .. Chunks -> Layers]]
    BY <1>7, <2>3 DEF StartRead, Layers
  <2> QED
    BY <1>7, <2>1, <2>2, <2>4 DEF StartRead
<1>8. ASSUME NEW x \in reading, FinishRead(x) PROVE Typed'
  <2>1. x.slot \in 1 .. Slots /\ x.chunk \in 1 .. Chunks /\ LayerAt(x.pos) \in Layers
    BY <1>2 DEF ReadType, Layers
  <2>2. stage' \in [1 .. Slots -> [1 .. Chunks -> Layers]]
    BY <1>8, <2>1 DEF FinishRead
  <2> QED
    BY <1>8, <2>2 DEF FinishRead
<1>9. ASSUME NEW x \in reading, ShortRead(x) PROVE Typed'
  BY <1>9 DEF ShortRead
<1>10. CASE GpuCopy
  <2>1. stream' \in Seq(WorkType) /\ Head(stream) \in WorkType
    BY <1>10 DEF GpuCopy
  <2>2. /\ Head(stream).w \in 0 .. 1
        /\ Head(stream).src # Resident => Head(stream).src \in 1 .. Slots
        /\ Head(stream).layer \in Layers
    BY <2>1 DEF WorkType, Layers
  <2>3. \A s \in 1 .. Slots : Content(s) \in Layers
    <3>1. \A s \in 1 .. Slots : stage[s][1] \in Layers
      <4>1. 1 \in 1 .. Chunks
        BY <1>2
      <4> QED
        BY <4>1
    <3> QED
      BY <3>1, Zenon DEF Content, Layers
  <2>4. gpu_w' \in [0 .. 1 -> Layers]
    BY <1>10, <2>2, <2>3 DEF GpuCopy
  <2> QED
    BY <1>10, <2>1, <2>4, SMTT(60) DEF GpuCopy
<1>11. CASE GpuMatmul
  <2>1. stream' \in Seq(WorkType) /\ Head(stream) \in WorkType
    BY <1>11 DEF GpuMatmul
  <2>2. gpu_w[Head(stream).w] \in Layers
    BY <2>1 DEF WorkType
  <2>3. used' \in Seq(Layers)
    BY <1>11, <2>2 DEF GpuMatmul
  <2> QED
    BY <1>11, <2>1, <2>3 DEF GpuMatmul
<1>12. CASE IssueReturn \/ UseResident \/ Arrived \/ Raise \/ Advance \/ Return
  BY <1>12 DEF IssueReturn, UseResident, Arrived, Raise, Advance, Return
<1>13. CASE UNCHANGED vars
  BY <1>13 DEF vars
<1> QED
  BY <1>3, <1>4, <1>5, <1>6, <1>7, <1>8, <1>9, <1>10, <1>11, <1>12, <1>13
     DEF Next, Main, Pool, Gpu

-----------------------------------------------------------------------------
(* What the steps that move slots do, in terms of who holds them.          *)

\* A read of position q is issued into the first free slot.
Issues(q) ==
  /\ q \in Nat /\ q >= pos /\ OnNvme(q) /\ q \notin DOMAIN inflight
  /\ \A r \in pos .. q : OnNvme(r) => r = q \/ r \in DOMAIN inflight
  /\ DOMAIN inflight' = DOMAIN inflight \cup {q}
  /\ inflight'[q] = free[1]
  /\ \A r \in DOMAIN inflight : inflight'[r] = inflight[r]
  /\ Len(free) \in Nat \ {0} /\ Len(free') = Len(free) - 1
  /\ \A i \in 1 .. Len(free') : free'[i] = free[i + 1]
  /\ ToSet(tasks') = ToSet(tasks) \cup {Task(q, free[1], c) : c \in 1 .. Chunks}

\* Position q is no longer in flight.
Leaves(q) ==
  /\ q \in DOMAIN inflight
  /\ DOMAIN inflight' = DOMAIN inflight \ {q}
  /\ \A r \in DOMAIN inflight' : inflight'[r] = inflight[r]

\* A slot is given back at the end of the free list.
GivesBack(s) ==
  /\ Len(free') = Len(free) + 1 /\ Len(free) \in Nat
  /\ \A i \in 1 .. Len(free) : free'[i] = free[i]
  /\ free'[Len(free) + 1] = s

LEMMA IssueReadIssues ==
  ASSUME Typed, AtPosition, IssueRead
  PROVE  \E q : Issues(q)
<1>1. PICK q \in Wanted(pos + bench.depth, pos) :
        /\ Nearest(q, Wanted(pos + bench.depth, pos))
        /\ inflight' = [r \in DOMAIN inflight \cup {q} |->
                          IF r = q THEN Head(free) ELSE inflight[r]]
        /\ tasks' = tasks \o ReadsOf(q, Head(free))
  BY DEF IssueRead
<1>2. pos \in Nat /\ bench.depth \in Nat /\ Chunks \in Nat \ {0} /\ Slots \in Nat \ {0}
  BY Arguments DEF Typed, AtPosition
<1>3. /\ q \in Nat /\ q >= pos /\ q =< pos + bench.depth
      /\ OnNvme(q) /\ q \notin DOMAIN inflight
  BY <1>1, <1>2 DEF Wanted
<1>4. ASSUME NEW r \in pos .. q, OnNvme(r), r \notin DOMAIN inflight PROVE r = q
  <2>1. r \in Wanted(pos + bench.depth, pos)
    BY <1>2, <1>3, <1>4 DEF Wanted
  <2> QED
    BY <1>1, <1>2, <1>3, <2>1 DEF Nearest
<1>5. free \in Seq(1 .. Slots) /\ free # <<>> /\ free' = Tail(free)
  BY DEF Typed, IssueRead
<1>6. /\ Len(free) \in Nat \ {0} /\ Len(free') = Len(free) - 1 /\ Head(free) = free[1]
      /\ \A i \in 1 .. Len(free') : free'[i] = free[i + 1]
  BY <1>5, HeadTailProperties, EmptySeq
<1>7. ToSet(tasks') = ToSet(tasks) \cup {Task(q, free[1], c) : c \in 1 .. Chunks}
  <2> DEFINE reads == ReadsOf(q, Head(free))
  <2>1. reads \in [1 .. Chunks -> ReadType]
    <3>1. Head(free) \in 1 .. Slots
      BY <1>5, HeadTailProperties
    <3>2. \A c \in 1 .. Chunks : Task(q, Head(free), c) \in ReadType
      BY <1>3, <3>1 DEF Task, ReadType
    <3> QED
      BY <3>2, Zenon DEF ReadsOf
  <2>2. reads \in Seq(ReadType) /\ Len(reads) = Chunks
    BY <1>2, <2>1, FiniteFunctionIsSeq
  <2>3. \A c \in 1 .. Chunks : reads[c] = Task(q, free[1], c)
    BY <1>6 DEF ReadsOf
  <2>4. tasks \in Seq(ReadType) /\ tasks' = tasks \o reads
    BY <1>1 DEF Typed
  <2> HIDE DEF reads
  <2>5. /\ Len(tasks) \in Nat
        /\ DOMAIN tasks = 1 .. Len(tasks) /\ DOMAIN tasks' = 1 .. (Len(tasks) + Chunks)
        /\ \A i \in 1 .. Len(tasks) : tasks'[i] = tasks[i]
        /\ \A c \in 1 .. Chunks : tasks'[Len(tasks) + c] = reads[c]
    <3>1. Len(tasks) \in Nat /\ DOMAIN tasks = 1 .. Len(tasks)
      BY <2>4, LenProperties
    <3>2. /\ tasks' \in Seq(ReadType) /\ Len(tasks') = Len(tasks) + Chunks
          /\ \A i \in 1 .. (Len(tasks) + Chunks) :
                tasks'[i] = IF i <= Len(tasks) THEN tasks[i] ELSE reads[i - Len(tasks)]
      BY <2>2, <2>4, ConcatProperties, Zenon
    <3>3. DOMAIN tasks' = 1 .. (Len(tasks) + Chunks)
      BY <3>2, LenProperties
    <3>4. \A i \in 1 .. Len(tasks) : tasks'[i] = tasks[i]
      BY <1>2, <3>1, <3>2
    <3>5. ASSUME NEW c \in 1 .. Chunks PROVE tasks'[Len(tasks) + c] = reads[c]
      <4>1. /\ Len(tasks) + c \in 1 .. (Len(tasks) + Chunks)
            /\ ~(Len(tasks) + c <= Len(tasks)) /\ (Len(tasks) + c) - Len(tasks) = c
        BY <1>2, <3>1
      <4> QED
        BY <3>2, <4>1
    <3> QED
      BY <3>1, <3>3, <3>4, <3>5
  <2>6. ASSUME NEW x \in ToSet(tasks')
        PROVE  x \in ToSet(tasks) \cup {Task(q, free[1], c) : c \in 1 .. Chunks}
    <3>1. PICK i \in DOMAIN tasks' : x = tasks'[i]
      BY <2>6 DEF ToSet
    <3>2. CASE i \in 1 .. Len(tasks)
      BY <2>5, <3>1, <3>2 DEF ToSet
    <3>3. CASE i \notin 1 .. Len(tasks)
      <4>1. i - Len(tasks) \in 1 .. Chunks /\ i = Len(tasks) + (i - Len(tasks))
        BY <1>2, <2>5, <3>1, <3>3
      <4> QED
        BY <2>3, <2>5, <3>1, <4>1
    <3> QED
      BY <3>2, <3>3
  <2>7. ToSet(tasks) \subseteq ToSet(tasks')
    <3>1. DOMAIN tasks \subseteq DOMAIN tasks' /\ \A i \in DOMAIN tasks : tasks'[i] = tasks[i]
      BY <1>2, <2>5
    <3> QED
      BY <3>1 DEF ToSet
  <2>8. ASSUME NEW c \in 1 .. Chunks PROVE Task(q, free[1], c) \in ToSet(tasks')
    <3>1. Len(tasks) + c \in DOMAIN tasks'
      BY <1>2, <2>5
    <3> QED
      BY <2>3, <2>5, <3>1 DEF ToSet
  <2> QED
    BY <2>6, <2>7, <2>8
<1>8. /\ DOMAIN inflight' = DOMAIN inflight \cup {q}
      /\ inflight'[q] = free[1]
      /\ \A r \in DOMAIN inflight : inflight'[r] = inflight[r]
  BY <1>1, <1>3, <1>6
<1> QED
  BY <1>3, <1>4, <1>6, <1>7, <1>8 DEF Issues

LEMMA PopLeaves ==
  ASSUME Pop
  PROVE  Leaves(pos) /\ cur' = inflight[pos]
  BY DEF Pop, Leaves, Restrict

LEMMA FreeSlotGivesBack ==
  ASSUME Typed, AtPosition, FreeSlot
  PROVE  GivesBack(cur) /\ cur \in 1 .. Slots
<1>1. cur \in 1 .. Slots /\ free \in Seq(1 .. Slots) /\ free' = Append(free, cur)
  BY Arguments, SMTT(60) DEF Typed, AtPosition, FreeSlot, Freed, NoSlot
<1> QED
  BY <1>1, AppendProperties, LenProperties DEF GivesBack

LEMMA DrainGivesBack ==
  ASSUME Typed, Drain
  PROVE  \E q : Leaves(q) /\ GivesBack(inflight[q])
<1>1. PICK q \in DOMAIN inflight :
        /\ free' = Append(free, inflight[q])
        /\ inflight' = Restrict(inflight, DOMAIN inflight \ {q})
  BY DEF Drain
<1>2. inflight[q] \in 1 .. Slots /\ free \in Seq(1 .. Slots)
  BY <1>1 DEF Typed
<1>3. GivesBack(inflight[q])
  BY <1>1, <1>2, AppendProperties, LenProperties DEF GivesBack
<1>4. Leaves(q)
  BY <1>1 DEF Leaves, Restrict
<1> QED
  BY <1>3, <1>4

-----------------------------------------------------------------------------
(* The main thread's place, and who holds the slots.                       *)

LEMMA AtPositionKept == Typed /\ AtPosition /\ HeldOnce /\ InOrder /\ [Next]_vars => AtPosition'
<1> SUFFICES ASSUME Typed, AtPosition, HeldOnce, InOrder, [Next]_vars PROVE AtPosition'
  OBVIOUS
<1>1. /\ Slots' = Slots /\ End' = End /\ (\A q : OnNvme(q)' <=> OnNvme(q))
      /\ Slots \in Nat /\ End \in Nat /\ pos \in Nat
  BY NoBenchChange, SameBench, Arguments DEF Typed, AtPosition
<1> USE <1>1 DEF AtPosition, NoSlot
<1>2. CASE Pop
  <2>1. cur' \in 1 .. Slots
    BY <1>2 DEF Pop, Typed
  <2> QED
    BY <1>2, <2>1 DEF Pop
<1>3. CASE IssueRead \/ IssueReturn \/ UseResident \/ Arrived
  BY <1>3 DEF IssueRead, IssueReturn, UseResident, Arrived
<1>4. CASE Raise \/ QueueGpuWork
  BY <1>4 DEF Raise, QueueGpuWork
<1>5. CASE FreeSlot \/ Advance
  BY <1>5 DEF FreeSlot, Advance
<1>6. CASE Drain \/ Return
  BY <1>6 DEF Drain, Return
<1>7. CASE Pool \/ Gpu
  BY <1>7 DEF Pool, Gpu, StartRead, FinishRead, ShortRead, GpuCopy, GpuMatmul
<1>8. CASE UNCHANGED vars
  BY <1>8 DEF vars
<1> QED
  BY <1>2, <1>3, <1>4, <1>5, <1>6, <1>7, <1>8 DEF Next, Main

\* The steps that move no slot: no free list, no in-flight read and no consumed
\* slot changes.
SlotsStay == UNCHANGED <<free, inflight, cur>>

LEMMA OtherStepsMoveNoSlot ==
  ASSUME [Next]_vars, ~IssueRead, ~Pop, ~FreeSlot, ~Drain
  PROVE  SlotsStay
  BY DEF Next, Main, Pool, Gpu, IssueReturn, UseResident, Arrived, Raise, QueueGpuWork,
         Advance, Return, StartRead, FinishRead, ShortRead, GpuCopy, GpuMatmul, vars, SlotsStay

LEMMA HeldOnceKept == Typed /\ AtPosition /\ HeldOnce /\ [Next]_vars => HeldOnce'
<1> SUFFICES ASSUME Typed, AtPosition, HeldOnce, [Next]_vars PROVE HeldOnce'
  OBVIOUS
<1> USE DEF HeldOnce
<1>1. CASE IssueRead
  <2>1. PICK q : Issues(q)
    BY <1>1, IssueReadIssues
  <2>2. cur' = cur
    BY <1>1 DEF IssueRead
  <2>3. \A i \in 1 .. Len(free') : i + 1 \in 1 .. Len(free) /\ free'[i] = free[i + 1]
                                   /\ free'[i] # free[1]
    BY <2>1 DEF Issues
  <2>4. 1 \in 1 .. Len(free)
    BY <2>1 DEF Issues
  <2> QED
    BY <2>1, <2>2, <2>3, <2>4, SMTT(60) DEF Issues
<1>2. CASE Pop
  <2>1. Leaves(pos) /\ cur' = inflight[pos] /\ free' = free
    BY <1>2, PopLeaves DEF Pop
  <2> QED
    BY <2>1 DEF Leaves
<1>3. CASE FreeSlot
  <2>1. GivesBack(cur) /\ cur \in 1 .. Slots /\ cur' = 0 /\ inflight' = inflight
    BY <1>3, FreeSlotGivesBack DEF FreeSlot, NoSlot
  <2>2. \A i \in 1 .. Len(free') :
          IF i \in 1 .. Len(free) THEN free'[i] = free[i]
          ELSE i = Len(free) + 1 /\ free'[i] = cur
    BY <2>1 DEF GivesBack
  <2>3. /\ free' \in Seq(1 .. Slots) /\ \A i \in 1 .. Len(free') : free'[i] # 0
        /\ \A q \in DOMAIN inflight : inflight[q] # 0
    <3>1. Typed' /\ Slots' = Slots
      BY TypedKept, NoBenchChange, SameBench
    <3>2. free' \in Seq(1 .. Slots) /\ Slots \in Nat
      BY <3>1, Arguments DEF Typed
    <3>3. \A i \in 1 .. Len(free') : free'[i] \in 1 .. Slots
      BY <3>2, ElementOfSeq
    <3> QED
      BY <3>2, <3>3, SMTT(60) DEF Typed
  <2> QED
    BY <2>1, <2>2, <2>3, SMTT(60)
<1>4. CASE Drain
  <2>1. PICK q : Leaves(q) /\ GivesBack(inflight[q])
    BY <1>4, DrainGivesBack
  <2>2. cur' = cur
    BY <1>4 DEF Drain
  <2>3. \A i \in 1 .. Len(free') :
          IF i \in 1 .. Len(free) THEN free'[i] = free[i]
          ELSE i = Len(free) + 1 /\ free'[i] = inflight[q]
    BY <2>1 DEF GivesBack
  <2> QED
    BY <2>1, <2>2, <2>3, SMTT(60) DEF Leaves
<1>5. CASE ~IssueRead /\ ~Pop /\ ~FreeSlot /\ ~Drain
  BY <1>5, OtherStepsMoveNoSlot DEF SlotsStay
<1> QED
  BY <1>1, <1>2, <1>3, <1>4, <1>5

LEMMA HeldCountKept == Typed /\ AtPosition /\ [Next]_vars => HeldCount' = HeldCount
<1> SUFFICES ASSUME Typed, AtPosition, [Next]_vars PROVE HeldCount' = HeldCount
  OBVIOUS
<1>1. /\ IsFiniteSet(DOMAIN inflight) /\ Cardinality(DOMAIN inflight) \in Nat
      /\ Len(free) \in Nat /\ \A q \in DOMAIN inflight : inflight[q] # 0
  BY FS_CardinalityType, LenProperties, Arguments, SMTT(60) DEF Typed
<1>2. CASE IssueRead
  <2>1. PICK q : Issues(q)
    BY <1>2, IssueReadIssues
  <2>2. cur' = cur
    BY <1>2 DEF IssueRead
  <2>3. DOMAIN inflight' = DOMAIN inflight \cup {q} /\ q \notin DOMAIN inflight
    BY <2>1 DEF Issues
  <2>4. Cardinality(DOMAIN inflight') = Cardinality(DOMAIN inflight) + 1
    BY <1>1, <2>3, FS_AddElement
  <2>5. Len(free') = Len(free) - 1
    BY <2>1 DEF Issues
  <2> QED
    BY <1>1, <2>2, <2>4, <2>5 DEF HeldCount
<1>3. CASE Pop
  <2>1. Leaves(pos) /\ cur' = inflight[pos] /\ free' = free /\ cur = 0
    BY <1>3, PopLeaves DEF Pop, AtPosition, NoSlot
  <2>2. DOMAIN inflight' = DOMAIN inflight \ {pos} /\ pos \in DOMAIN inflight /\ cur' # 0
    BY <1>1, <2>1 DEF Leaves
  <2>3. Cardinality(DOMAIN inflight') = Cardinality(DOMAIN inflight) - 1
    BY <1>1, <2>2, FS_RemoveElement
  <2> QED
    BY <1>1, <2>1, <2>2, <2>3 DEF HeldCount, NoSlot
<1>4. CASE FreeSlot
  <2>1. GivesBack(cur) /\ cur \in 1 .. Slots /\ cur' = 0 /\ inflight' = inflight
    BY <1>4, FreeSlotGivesBack DEF FreeSlot, NoSlot
  <2>2. Len(free') = Len(free) + 1 /\ cur # 0
    BY <2>1 DEF GivesBack
  <2> QED
    BY <1>1, <2>1, <2>2 DEF HeldCount, NoSlot
<1>5. CASE Drain
  <2>1. PICK q : Leaves(q) /\ GivesBack(inflight[q])
    BY <1>5, DrainGivesBack
  <2>2. cur' = cur /\ Len(free') = Len(free) + 1
    BY <1>5, <2>1 DEF Drain, GivesBack
  <2>3. DOMAIN inflight' = DOMAIN inflight \ {q} /\ q \in DOMAIN inflight
    BY <2>1 DEF Leaves
  <2>4. Cardinality(DOMAIN inflight') = Cardinality(DOMAIN inflight) - 1
    BY <1>1, <2>3, FS_RemoveElement
  <2> QED
    BY <1>1, <2>2, <2>4 DEF HeldCount
<1>6. CASE ~IssueRead /\ ~Pop /\ ~FreeSlot /\ ~Drain
  BY <1>6, OtherStepsMoveNoSlot DEF SlotsStay, HeldCount
<1> QED
  BY <1>2, <1>3, <1>4, <1>5, <1>6

LEMMA StillHeld ==
  ASSUME Typed, AtPosition, [Next]_vars, NEW s \in 1 .. Slots, IsHeld(s)
  PROVE  IsHeld(s)'
<1>1. CASE IssueRead
  <2>1. PICK q : Issues(q)
    BY <1>1, IssueReadIssues
  <2>2. CASE s = cur
    BY <1>1, <2>2 DEF IssueRead, IsHeld
  <2>3. CASE \E r \in DOMAIN inflight : inflight[r] = s
    BY <2>1, <2>3 DEF Issues, IsHeld
  <2>4. CASE free[1] = s
    BY <2>1, <2>4 DEF Issues, IsHeld
  <2>5. CASE \E i \in 1 .. Len(free) : free[i] = s /\ i # 1
    <3>1. PICK i \in 1 .. Len(free) : free[i] = s /\ i # 1
      BY <2>5
    <3>2. i - 1 \in 1 .. Len(free') /\ free'[i - 1] = free[(i - 1) + 1]
      BY <2>1, <3>1 DEF Issues
    <3>3. free'[i - 1] = s
      BY <3>1, <3>2
    <3> QED
      BY <3>2, <3>3 DEF IsHeld
  <2> QED
    BY <2>2, <2>3, <2>4, <2>5 DEF IsHeld
<1>2. CASE Pop
  <2>1. Leaves(pos) /\ cur' = inflight[pos] /\ free' = free /\ cur = 0
    BY <1>2, PopLeaves DEF Pop, AtPosition, NoSlot
  <2> QED
    BY <2>1 DEF Leaves, IsHeld
<1>3. CASE FreeSlot \/ Drain
  <2>1. \/ GivesBack(cur) /\ inflight' = inflight
        \/ cur' = cur /\ \E q : Leaves(q) /\ GivesBack(inflight[q])
    BY <1>3, FreeSlotGivesBack, DrainGivesBack DEF FreeSlot, Drain
  <2>2. /\ \A i \in 1 .. Len(free) : i \in 1 .. Len(free') /\ free'[i] = free[i]
        /\ Len(free) + 1 \in 1 .. Len(free')
    BY <2>1 DEF GivesBack
  <2>3. CASE \E i \in 1 .. Len(free) : free[i] = s
    BY <2>2, <2>3 DEF IsHeld
  <2>4. CASE GivesBack(cur) /\ inflight' = inflight
    BY <2>2, <2>3, <2>4 DEF IsHeld, GivesBack
  <2>5. CASE cur' = cur /\ \E q : Leaves(q) /\ GivesBack(inflight[q])
    BY <2>2, <2>3, <2>5 DEF IsHeld, GivesBack, Leaves
  <2> QED
    BY <2>1, <2>4, <2>5
<1>4. CASE ~IssueRead /\ ~Pop /\ ~FreeSlot /\ ~Drain
  BY <1>4, OtherStepsMoveNoSlot DEF SlotsStay, IsHeld
<1> QED
  BY <1>1, <1>2, <1>3, <1>4

LEMMA NoneLostKept == Typed /\ AtPosition /\ NoneLost /\ [Next]_vars => NoneLost'
<1> SUFFICES ASSUME Typed, AtPosition, NoneLost, [Next]_vars PROVE NoneLost'
  OBVIOUS
<1>1. Slots' = Slots
  BY NoBenchChange, SameBench
<1>2. \A s \in 1 .. Slots : IsHeld(s)'
  BY StillHeld DEF NoneLost
<1> QED
  BY <1>1, <1>2, HeldCountKept DEF NoneLost

LEMMA InOrderKept ==
  Typed /\ AtPosition /\ NoneLost /\ InOrder /\ [Next]_vars => InOrder'
<1> SUFFICES ASSUME Typed, AtPosition, NoneLost, InOrder, [Next]_vars PROVE InOrder'
  OBVIOUS
<1>1. /\ \A q : OnNvme(q)' <=> OnNvme(q)
      /\ pos \in Nat /\ DOMAIN inflight \subseteq Nat /\ Slots \in Nat \ {0}
      /\ bench.depth \in Nat
  BY NoBenchChange, SameBench, Arguments, SMTT(60) DEF Typed, AtPosition
<1> USE <1>1 DEF InOrder, Popped
<1>2. CASE IssueRead
  <2>1. PICK q : Issues(q)
    BY <1>2, IssueReadIssues
  <2>2. pc = "issue" /\ pc' = pc /\ pos' = pos
    BY <1>2 DEF IssueRead
  <2>3. /\ q \in Nat /\ q >= pos /\ OnNvme(q)
        /\ \A r \in pos .. q : OnNvme(r) => r = q \/ r \in DOMAIN inflight
        /\ DOMAIN inflight' = DOMAIN inflight \cup {q}
    BY <2>1 DEF Issues
  <2> QED
    BY <2>2, <2>3
<1>3. CASE IssueReturn
  <2>1. pc = "issue" /\ pc' = "pop" /\ UNCHANGED <<pos, inflight>> /\ cur = 0
        /\ (Wanted(pos + bench.depth, pos) = {} \/ free = <<>>)
    BY <1>3 DEF IssueReturn, AtPosition, NoSlot
  <2>2. ASSUME OnNvme(pos) PROVE pos \in DOMAIN inflight
    <3>1. CASE Wanted(pos + bench.depth, pos) = {}
      BY <2>2, <3>1 DEF Wanted
    <3>2. CASE free = <<>>
      <4>1. IsHeld(1) /\ 1 \in 1 .. Slots
        BY DEF NoneLost
      <4>2. PICK q \in DOMAIN inflight : inflight[q] = 1
        BY <2>1, <3>2, <4>1 DEF IsHeld
      <4>3. q >= pos /\ pos \in pos .. q
        BY <2>1, <4>2
      <4> QED
        BY <2>1, <2>2, <4>2, <4>3
    <3> QED
      BY <2>1, <3>1, <3>2
  <2> QED
    BY <2>1, <2>2
<1>4. CASE Pop
  <2>1. Leaves(pos) /\ pc = "pop" /\ pc' = "wait" /\ pos' = pos
    BY <1>4, PopLeaves DEF Pop
  <2>2. DOMAIN inflight' = DOMAIN inflight \ {pos}
    BY <2>1 DEF Leaves
  <2> QED
    BY <2>1, <2>2
<1>5. CASE UseResident
  BY <1>5 DEF UseResident
<1>6. CASE Arrived \/ Raise \/ QueueGpuWork \/ FreeSlot
  BY <1>6 DEF Arrived, Raise, QueueGpuWork, FreeSlot
<1>7. CASE Advance
  <2>1. pc = "step" /\ pc' \in {"issue", "drain"} /\ pos' = pos + 1 /\ inflight' = inflight
    BY <1>7 DEF Advance
  <2> QED
    BY <2>1
<1>8. CASE Drain
  <2>1. PICK q : Leaves(q)
    BY <1>8, DrainGivesBack
  <2>2. pc = "drain" /\ pc' = pc /\ pos' = pos /\ DOMAIN inflight' \subseteq DOMAIN inflight
    BY <1>8, <2>1 DEF Drain, Leaves
  <2> QED
    BY <2>2
<1>9. CASE Return
  BY <1>9 DEF Return
<1>10. CASE Pool \/ Gpu \/ UNCHANGED vars
  BY <1>10 DEF Pool, Gpu, StartRead, FinishRead, ShortRead, GpuCopy, GpuMatmul, vars
<1> QED
  BY <1>2, <1>3, <1>4, <1>5, <1>6, <1>7, <1>8, <1>9, <1>10 DEF Next, Main

-----------------------------------------------------------------------------
(* What the pool reads, and what its reads leave in the slots.             *)

\* How the chunk reads under way change.
LEMMA StartReadMoves ==
  ASSUME Typed, StartRead
  PROVE  /\ Reads' = Reads
         /\ Head(tasks) \in Reads /\ Head(tasks) \in ReadType
         /\ stage' = [stage EXCEPT ![Head(tasks).slot][Head(tasks).chunk] = Garbage]
<1>1. /\ tasks \in Seq(ReadType) /\ tasks # <<>> /\ tasks' = Tail(tasks)
      /\ reading' = reading \cup {Head(tasks)}
  BY DEF Typed, StartRead
<1>2. /\ Len(tasks) \in Nat \ {0} /\ DOMAIN tasks = 1 .. Len(tasks) /\ Head(tasks) = tasks[1]
      /\ Head(tasks) \in ReadType
      /\ DOMAIN tasks' = 1 .. (Len(tasks) - 1)
      /\ \A i \in 1 .. (Len(tasks) - 1) : tasks'[i] = tasks[i + 1]
  BY <1>1, HeadTailProperties, LenProperties, EmptySeq
<1>3. Head(tasks) \in ToSet(tasks)
  BY <1>2 DEF ToSet
<1>4. \A x \in ToSet(tasks') : x \in ToSet(tasks)
  <2>1. \A i \in DOMAIN tasks' : i + 1 \in DOMAIN tasks /\ tasks'[i] = tasks[i + 1]
    BY <1>2
  <2> QED
    BY <2>1 DEF ToSet
<1>5. \A x \in ToSet(tasks) : x = Head(tasks) \/ x \in ToSet(tasks')
  <2>1. \A i \in DOMAIN tasks : i = 1 \/ (i - 1 \in DOMAIN tasks' /\ tasks'[i - 1] = tasks[i])
    BY <1>2
  <2> QED
    BY <1>2, <2>1 DEF ToSet
<1>6. Reads' = Reads
  BY <1>1, <1>3, <1>4, <1>5 DEF Reads
<1> QED
  BY <1>2, <1>3, <1>6 DEF Reads, StartRead

LEMMA ReadsTyped ==
  ASSUME Typed
  PROVE  Reads \subseteq ReadType
<1>1. \A i \in DOMAIN tasks : tasks[i] \in ReadType
  BY LenProperties, ElementOfSeq DEF Typed
<1> QED
  BY <1>1 DEF Typed, Reads, ToSet

LEMMA IssueReadReads ==
  ASSUME Typed, IssueRead, NEW q, Issues(q)
  PROVE  Reads' = Reads \cup {Task(q, free[1], c) : c \in 1 .. Chunks}
<1>1. reading' = reading
  BY DEF IssueRead
<1> QED
  BY <1>1 DEF Issues, Reads

LEMMA ReadsHeldKept ==
  Typed /\ AtPosition /\ InOrder /\ ReadsHeld /\ [Next]_vars => ReadsHeld'
<1> SUFFICES ASSUME Typed, AtPosition, InOrder, ReadsHeld, [Next]_vars PROVE ReadsHeld'
  OBVIOUS
<1> USE DEF ReadsHeld
<1>1. CASE IssueRead
  <2>1. PICK q : Issues(q)
    BY <1>1, IssueReadIssues
  <2>2. pc = "issue"
    BY <1>1 DEF IssueRead
  <2>3. ASSUME NEW x \in Reads'
        PROVE  x.pos \in DOMAIN inflight' /\ x.slot = inflight'[x.pos]
    <3>1. CASE x \in Reads
      <4>1. x.pos \in DOMAIN inflight /\ x.slot = inflight[x.pos]
        BY <2>2, <3>1
      <4> QED
        BY <2>1, <4>1 DEF Issues
    <3>2. CASE x \notin Reads
      <4>1. PICK c \in 1 .. Chunks : x = Task(q, free[1], c)
        BY <1>1, <2>1, <2>3, <3>2, IssueReadReads
      <4>2. x.pos = q /\ x.slot = free[1]
        BY <4>1 DEF Task
      <4> QED
        BY <2>1, <4>2 DEF Issues
    <3> QED
      BY <3>1, <3>2
  <2> QED
    BY <2>3
<1>2. CASE Pop
  <2>1. /\ Leaves(pos) /\ cur' = inflight[pos] /\ pos' = pos
        /\ pc = "pop" /\ pc' = "wait" /\ UNCHANGED <<tasks, reading>>
    BY <1>2, PopLeaves DEF Pop
  <2>2. Reads' = Reads
    BY <2>1 DEF Reads
  <2> QED
    BY <2>1, <2>2 DEF Leaves
<1>3. CASE Arrived
  <2>1. /\ AllLanded(pos) /\ pc = "wait"
        /\ UNCHANGED <<tasks, reading, inflight, pos, cur>>
    BY <1>3 DEF Arrived
  <2>2. \A x \in Reads : x.pos # pos
    BY <2>1 DEF AllLanded, Pending, Reads
  <2> QED
    BY <2>1, <2>2 DEF Reads
<1>4. CASE Drain
  <2>1. PICK q \in DOMAIN inflight :
          /\ AllLanded(q)
          /\ inflight' = Restrict(inflight, DOMAIN inflight \ {q})
    BY <1>4 DEF Drain, Drained
  <2>2. /\ pc = "drain" /\ pc' = pc /\ UNCHANGED <<pos, cur, tasks, reading>>
    BY <1>4 DEF Drain
  <2>3. \A x \in Reads : x.pos # q
    BY <2>1 DEF AllLanded, Pending, Reads
  <2>4. Reads' = Reads
    BY <2>2 DEF Reads
  <2>5. DOMAIN inflight' = DOMAIN inflight \ {q}
        /\ \A r \in DOMAIN inflight' : inflight'[r] = inflight[r]
    BY <2>1 DEF Restrict
  <2> QED
    BY <2>2, <2>3, <2>4, <2>5
<1>5. CASE StartRead
  <2>1. Reads' = Reads /\ UNCHANGED <<pc, pos, cur, inflight>>
    BY <1>5, StartReadMoves DEF StartRead
  <2> QED
    BY <2>1
<1>6. CASE \E x \in reading : FinishRead(x) \/ ShortRead(x)
  <2>1. Reads' \subseteq Reads /\ UNCHANGED <<pc, pos, cur, inflight>>
    BY <1>6 DEF FinishRead, ShortRead, Reads
  <2> QED
    BY <2>1
<1>7. CASE IssueReturn \/ UseResident \/ QueueGpuWork \/ FreeSlot \/ Advance \/ Return
  <2>1. Reads' = Reads /\ inflight' = inflight /\ pc \notin {"wait", "raised"}
    BY <1>7 DEF IssueReturn, UseResident, QueueGpuWork, FreeSlot, Advance, Return, Reads
  <2> QED
    BY <2>1
<1>8. CASE Raise \/ Gpu \/ UNCHANGED vars
  <2>1. Reads' = Reads /\ UNCHANGED <<inflight, pos, cur>> /\ (pc' = "raised" \/ pc' = pc)
    BY <1>8 DEF Raise, Gpu, GpuCopy, GpuMatmul, vars, Reads
  <2> QED
    BY <2>1
<1> QED
  BY <1>1, <1>2, <1>3, <1>4, <1>5, <1>6, <1>7, <1>8 DEF Next, Main, Pool

\* Whoever holds the slot a read is for, the read is for that position.
LEMMA ReadOwner ==
  ASSUME Typed, AtPosition, HeldOnce, ReadsHeld, NEW x \in Reads
  PROVE  /\ \A q \in DOMAIN inflight : inflight[q] = x.slot <=> q = x.pos
         /\ pc = "wait" /\ cur = x.slot => x.pos = pos
         /\ pc \in {"queue", "sync"} => cur # x.slot
  BY DEF HeldOnce, ReadsHeld

LEMMA LandedKept ==
  ASSUME UNCHANGED <<bench, stage>>, Reads \cup failed \subseteq Reads' \cup failed',
         NEW q, NEW s, NEW c, Landed(q, s, c)
  PROVE  Landed(q, s, c)'
<1>1. LayerAt(q)' = LayerAt(q)
  BY SameBench
<1> QED
  BY <1>1 DEF Landed

\* Steps that change no slot's content and only add reads.
LEMMA StagedKept ==
  ASSUME Staged, UNCHANGED <<bench, stage, inflight, pos, cur>>,
         Reads \cup failed \subseteq Reads' \cup failed',
         pc' = "wait" => pc = "wait",
         pc' \in {"queue", "sync"} /\ OnNvme(pos) => pc \in {"queue", "sync"}
  PROVE  Staged'
<1>1. /\ \A q : LayerAt(q)' = LayerAt(q) /\ (OnNvme(q)' <=> OnNvme(q))
      /\ \A q, s, c : Landed(q, s, c) => Landed(q, s, c)'
  BY SameBench, LandedKept
<1>2. \A q \in DOMAIN inflight : \A c \in 1 .. Chunks : Landed(q, inflight[q], c)'
  BY <1>1 DEF Staged
<1>3. pc = "wait" => \A c \in 1 .. Chunks : Landed(pos, cur, c)'
  BY <1>1 DEF Staged
<1> QED
  BY <1>1, <1>2, <1>3 DEF Staged, Landed

LEMMA StagedInductive ==
  Typed /\ AtPosition /\ HeldOnce /\ InOrder /\ ReadsHeld /\ Staged /\ [Next]_vars => Staged'
<1> SUFFICES ASSUME Typed, AtPosition, HeldOnce, InOrder, ReadsHeld, Staged, [Next]_vars
             PROVE  Staged'
  OBVIOUS
<1>1. /\ UNCHANGED bench /\ \A q : LayerAt(q)' = LayerAt(q) /\ (OnNvme(q)' <=> OnNvme(q))
      /\ Slots \in Nat
  BY NoBenchChange, SameBench, Arguments DEF Typed
<1>2. CASE IssueRead
  <2>1. PICK q : Issues(q)
    BY <1>2, IssueReadIssues
  <2>2. pc = "issue" /\ pc' = pc /\ UNCHANGED <<stage, failed>>
    BY <1>2 DEF IssueRead
  <2>3. Reads' = Reads \cup {Task(q, free[1], c) : c \in 1 .. Chunks}
    BY <1>2, <2>1, IssueReadReads
  <2>4. ASSUME NEW r \in DOMAIN inflight', NEW c \in 1 .. Chunks
        PROVE  Landed(r, inflight[r], c)' \/ (r = q /\ \E x \in Reads' : x.pos = q /\ x.chunk = c)
    <3>1. CASE r = q
      <4>1. Task(q, free[1], c).pos = q /\ Task(q, free[1], c).chunk = c
        BY DEF Task
      <4> QED
        BY <2>3, <3>1, <4>1
    <3>2. CASE r # q
      <4>1. r \in DOMAIN inflight /\ inflight'[r] = inflight[r]
        BY <2>1, <2>4, <3>2 DEF Issues
      <4>2. Landed(r, inflight[r], c)
        BY <4>1 DEF Staged
      <4> QED
        BY <1>1, <2>2, <2>3, <4>1, <4>2 DEF Landed
    <3> QED
      BY <3>1, <3>2
  <2> QED
    BY <2>2, <2>4 DEF Staged, Landed
<1>3. CASE Pop
  <2>1. /\ Leaves(pos) /\ cur' = inflight[pos] /\ pc' = "wait"
        /\ UNCHANGED <<pos, stage, tasks, reading, failed>>
    BY <1>3, PopLeaves DEF Pop
  <2>2. Reads' = Reads
    BY <2>1 DEF Reads
  <2> QED
    BY <1>1, <2>1, <2>2 DEF Staged, Landed, Leaves
<1>4. CASE Arrived
  <2>1. /\ AllLanded(pos) /\ pc = "wait" /\ pc' = "queue"
        /\ UNCHANGED <<pos, cur, inflight, stage, tasks, reading, failed>>
    BY <1>4 DEF Arrived
  <2>2. Reads' = Reads
    BY <2>1 DEF Reads
  <2>3. \A x \in Reads \cup failed : x.pos # pos
    BY <2>1 DEF AllLanded, Pending, Reads
  <2>4. \A c \in 1 .. Chunks : stage[cur][c] = LayerAt(pos)
    BY <2>1, <2>3 DEF Staged, Landed
  <2>5. \A q \in DOMAIN inflight : \A c \in 1 .. Chunks : Landed(q, inflight[q], c)
    BY DEF Staged
  <2> QED
    BY <1>1, <2>1, <2>2, <2>4, <2>5 DEF Staged, Landed
<1>5. CASE Drain
  <2>1. PICK q : Leaves(q)
    BY <1>5, DrainGivesBack
  <2>2. pc = "drain" /\ pc' = pc /\ UNCHANGED <<stage, tasks, reading, failed>>
    BY <1>5 DEF Drain
  <2>3. Reads' = Reads
    BY <2>2 DEF Reads
  <2> QED
    BY <1>1, <2>1, <2>2, <2>3 DEF Staged, Landed, Leaves
<1>6. CASE StartRead
  <2> DEFINE x == Head(tasks)
  <2>1. /\ Reads' = Reads /\ x \in Reads /\ x \in ReadType
        /\ stage' = [stage EXCEPT ![x.slot][x.chunk] = Garbage]
        /\ UNCHANGED <<pc, pos, cur, inflight, failed>>
    BY <1>6, StartReadMoves DEF StartRead
  <2> HIDE DEF x
  <2>2. \A s \in 1 .. Slots : \A c \in 1 .. Chunks :
          stage'[s][c] = stage[s][c] \/ (s = x.slot /\ c = x.chunk)
    BY <2>1 DEF Typed, ReadType
  <2>3. /\ \A q \in DOMAIN inflight : inflight[q] = x.slot => q = x.pos
        /\ pc = "wait" /\ cur = x.slot => x.pos = pos
        /\ pc \in {"queue", "sync"} => cur # x.slot
    BY <2>1, ReadOwner
  <2>4. ASSUME NEW q \in DOMAIN inflight, NEW c \in 1 .. Chunks
        PROVE  Landed(q, inflight[q], c)'
    <3>1. Landed(q, inflight[q], c) /\ inflight[q] \in 1 .. Slots
      BY DEF Staged, Typed
    <3> QED
      BY <1>1, <2>1, <2>2, <2>3, <3>1 DEF Landed
  <2>5. ASSUME pc = "wait", NEW c \in 1 .. Chunks PROVE Landed(pos, cur, c)'
    <3>1. Landed(pos, cur, c) /\ cur \in 1 .. Slots
      BY <1>1, <2>5 DEF Staged, AtPosition, NoSlot
    <3> QED
      BY <1>1, <2>1, <2>2, <2>3, <2>5, <3>1 DEF Landed
  <2>6. ASSUME pc \in {"queue", "sync"}, OnNvme(pos), NEW c \in 1 .. Chunks
        PROVE  stage'[cur][c] = LayerAt(pos)
    <3>1. cur \in 1 .. Slots
      BY <1>1, <2>6 DEF AtPosition, NoSlot
    <3> QED
      BY <2>2, <2>3, <2>6, <3>1 DEF Staged
  <2> QED
    BY <1>1, <2>1, <2>4, <2>5, <2>6 DEF Staged
<1>7. ASSUME NEW x \in reading, FinishRead(x) PROVE Staged'
  <2>1. /\ x \in Reads /\ x \in ReadType /\ Reads \subseteq Reads' \cup {x}
        /\ stage' = [stage EXCEPT ![x.slot][x.chunk] = LayerAt(x.pos)]
        /\ UNCHANGED <<pc, pos, cur, inflight, failed>>
    BY <1>7 DEF FinishRead, Reads, Typed
  <2>2. \A s \in 1 .. Slots : \A c \in 1 .. Chunks :
          stage'[s][c] = IF s = x.slot /\ c = x.chunk THEN LayerAt(x.pos) ELSE stage[s][c]
    BY <2>1 DEF Typed, ReadType
  <2>3. /\ \A q \in DOMAIN inflight : inflight[q] = x.slot <=> q = x.pos
        /\ pc = "wait" /\ cur = x.slot => x.pos = pos
        /\ pc \in {"queue", "sync"} => cur # x.slot
    BY <2>1, ReadOwner
  <2>4. ASSUME NEW q \in DOMAIN inflight, NEW c \in 1 .. Chunks
        PROVE  Landed(q, inflight[q], c)'
    <3>1. Landed(q, inflight[q], c) /\ inflight[q] \in 1 .. Slots
      BY DEF Staged, Typed
    <3> QED
      BY <1>1, <2>1, <2>2, <2>3, <3>1 DEF Landed
  <2>5. ASSUME pc = "wait", NEW c \in 1 .. Chunks PROVE Landed(pos, cur, c)'
    <3>1. Landed(pos, cur, c) /\ cur \in 1 .. Slots
      BY <1>1, <2>5 DEF Staged, AtPosition, NoSlot
    <3>2. x.pos = pos => x.slot = cur
      <4>1. pos \in Nat
        BY Arguments DEF Typed, AtPosition
      <4>2. pos \notin DOMAIN inflight
        BY <2>5, <4>1 DEF InOrder, Popped
      <4> QED
        BY <2>1, <4>2 DEF ReadsHeld
    <3> QED
      BY <1>1, <2>1, <2>2, <2>3, <2>5, <3>1, <3>2 DEF Landed
  <2>6. ASSUME pc \in {"queue", "sync"}, OnNvme(pos), NEW c \in 1 .. Chunks
        PROVE  stage'[cur][c] = LayerAt(pos)
    <3>1. cur \in 1 .. Slots
      BY <1>1, <2>6 DEF AtPosition, NoSlot
    <3> QED
      BY <2>2, <2>3, <2>6, <3>1 DEF Staged
  <2> QED
    BY <1>1, <2>1, <2>4, <2>5, <2>6 DEF Staged
<1>8. ASSUME NEW x \in reading, ShortRead(x) PROVE Staged'
  <2>1. /\ Reads \cup failed \subseteq Reads' \cup failed'
        /\ UNCHANGED <<pc, pos, cur, inflight, stage>>
    BY <1>8 DEF ShortRead, Reads
  <2> QED
    BY <1>1, <2>1, StagedKept
<1>9. CASE FreeSlot \/ Advance
  <2>1. /\ pc' \in {"step", "issue", "drain"} /\ Reads' = Reads
        /\ UNCHANGED <<inflight, stage, failed>>
    BY <1>9 DEF FreeSlot, Advance, Reads
  <2> QED
    BY <1>1, <2>1 DEF Staged, Landed
<1>10. CASE IssueReturn \/ UseResident \/ Raise \/ QueueGpuWork \/ Return
  <2>1. /\ Reads' = Reads /\ UNCHANGED <<pos, cur, inflight, stage, failed>>
        /\ pc' # "wait"
        /\ pc' \in {"queue", "sync"} /\ OnNvme(pos) => pc \in {"queue", "sync"}
    BY <1>10 DEF IssueReturn, UseResident, Raise, QueueGpuWork, Return, Reads
  <2> QED
    BY <1>1, <2>1, StagedKept
<1>11. CASE Gpu \/ UNCHANGED vars
  <2>1. Reads' = Reads /\ UNCHANGED <<pc, pos, cur, inflight, stage, failed>>
    BY <1>11 DEF Gpu, GpuCopy, GpuMatmul, vars, Reads
  <2> QED
    BY <1>1, <2>1, StagedKept
<1> QED
  BY <1>2, <1>3, <1>4, <1>5, <1>6, <1>7, <1>8, <1>9, <1>10, <1>11 DEF Next, Main, Pool

-----------------------------------------------------------------------------
(* What the GPU stream still has to do, and what its matmuls used.         *)

LEMMA StreamTyped ==
  ASSUME Typed, AtPosition
  PROVE  /\ Len(stream) \in Nat /\ Len(used) \in Nat /\ pos \in Nat /\ Queued \in Nat
         /\ \A i \in 1 .. Len(stream) : stream[i] \in WorkType
         /\ n \in Nat \ {0} /\ \A q \in Nat : LayerAt(q) \in 0 .. (n - 1)
  BY LenProperties, ElementOfSeq, Arguments, SMTT(60) DEF Typed, AtPosition, Queued

\* Steps that leave the stream, the buffers and what was queued as they are.
LEMMA OnStreamKept ==
  ASSUME OnStream, Queued' = Queued,
         UNCHANGED <<bench, stream, gpu_w, used>>,
         pc = "sync" => UNCHANGED <<pc, pos, cur>>,
         pc' \in {"drain", "done"} => stream = <<>>
  PROVE  OnStream'
<1>1. Done' = Done /\ \A q : LayerAt(q)' = LayerAt(q)
  BY SameBench DEF Done
<1>2. StreamInOrder'
  BY <1>1 DEF OnStream, StreamInOrder, IsWork
<1>3. Done \in Nat /\ (Done % 2 = 1 => gpu_w[LayerAt(Done \div 2) % 2] = LayerAt(Done \div 2))
  BY DEF OnStream
<1>4. (Done % 2 = 1 => gpu_w[LayerAt(Done \div 2) % 2] = LayerAt(Done \div 2))'
  BY <1>1, <1>3
<1>5. /\ Len(used)' = (Done \div 2)'
      /\ \A i \in 1 .. Len(used)' : used'[i] = LayerAt(i - 1)'
  BY <1>1 DEF OnStream
<1> QED
  BY <1>1, <1>2, <1>3, <1>4, <1>5 DEF OnStream

\* Head and tail of the stream, for the two GPU steps.
LEMMA StreamAdvances ==
  ASSUME Typed, AtPosition, OnStream, UNCHANGED <<bench, pc, pos, cur>>,
         stream # <<>>, stream' = Tail(stream)
  PROVE  /\ Done \in Nat /\ Done' = Done + 1 /\ stream' \in Seq(WorkType)
         /\ Head(stream) \in WorkType /\ IsWork(Head(stream), Done + 1)
         /\ StreamInOrder'
<1>1. /\ stream \in Seq(WorkType) /\ Len(stream) \in Nat \ {0} /\ Head(stream) = stream[1]
      /\ Head(stream) \in WorkType /\ stream' \in Seq(WorkType)
      /\ Len(stream') = Len(stream) - 1
      /\ \A i \in 1 .. Len(stream') : stream'[i] = stream[i + 1]
  BY HeadTailProperties, LenProperties, EmptySeq DEF Typed
<1>2. Queued \in Nat /\ Queued' = Queued /\ \A q : LayerAt(q)' = LayerAt(q)
  BY StreamTyped, SameBench DEF Queued
<1>3. Done \in Nat /\ Done' = Done + 1
  BY <1>1, <1>2 DEF Done, OnStream
<1>4. IsWork(Head(stream), Done + 1)
  BY <1>1 DEF OnStream, StreamInOrder
<1>5. ASSUME NEW i \in 1 .. Len(stream') PROVE IsWork(stream'[i], Done' + i)
  <2>1. i + 1 \in 1 .. Len(stream) /\ stream'[i] = stream[i + 1]
    BY <1>1
  <2>2. IsWork(stream[i + 1], Done + (i + 1)) /\ Done + (i + 1) = (Done + 1) + i
    BY <1>3, <2>1 DEF OnStream, StreamInOrder
  <2> QED
    BY <1>3, <2>1, <2>2
<1>6. StreamInOrder'
  BY <1>2, <1>5 DEF StreamInOrder, IsWork
<1> QED
  BY <1>1, <1>3, <1>4, <1>6

LEMMA CopyKeepsOnStream ==
  ASSUME Typed, AtPosition, Staged, OnStream, GpuCopy
  PROVE  OnStream'
<1>1. /\ UNCHANGED <<bench, pc, pos, cur, used>> /\ stream # <<>> /\ stream' = Tail(stream)
      /\ Head(stream).op = "copy" /\ (\A q : LayerAt(q)' = LayerAt(q))
  BY SameBench DEF GpuCopy
<1>2. /\ Done \in Nat /\ Done' = Done + 1
      /\ Head(stream) \in WorkType /\ IsWork(Head(stream), Done + 1)
      /\ StreamInOrder'
  BY <1>1, StreamAdvances
<1> DEFINE p == Done \div 2
<1>3. (Done + 1) % 2 = 1
  BY <1>1, <1>2, Zenon DEF IsWork
<1>4. PosOf(Done + 1) = p /\ Done' \div 2 = p /\ Done' % 2 = 1 /\ p \in Nat
  BY <1>2, <1>3 DEF PosOf
<1>5. /\ Head(stream).w = LayerAt(p) % 2 /\ Head(stream).layer = LayerAt(p)
      /\ Head(stream).src # Resident => pc = "sync" /\ p = pos /\ Head(stream).src = cur
  BY <1>2, <1>4 DEF IsWork
<1>6. Head(stream).w \in 0 .. 1
  BY <1>2 DEF WorkType
<1>7. ASSUME Head(stream).src # Resident PROVE Content(Head(stream).src) = LayerAt(p)
  <2>1. pc = "sync" /\ OnNvme(pos) /\ p = pos /\ Head(stream).src = cur /\ 1 \in 1 .. Chunks
    BY <1>5, <1>7, BenchConstants DEF AtPosition
  <2>2. \A c \in 1 .. Chunks : stage[cur][c] = LayerAt(pos)
    BY <2>1 DEF Staged
  <2> QED
    BY <2>1, <2>2, Zenon DEF Content
<1>8. gpu_w'[LayerAt(p) % 2] = LayerAt(p)
  BY <1>5, <1>6, <1>7 DEF GpuCopy, Typed
<1> HIDE DEF p
<1>9. (Done % 2 = 1 => gpu_w[LayerAt(Done \div 2) % 2] = LayerAt(Done \div 2))'
  BY <1>1, <1>4, <1>8
<1>10. pc \notin {"drain", "done"} /\ Len(used) = Done' \div 2
  BY <1>1, <1>4 DEF OnStream, p
<1> QED
  BY <1>1, <1>2, <1>9, <1>10 DEF OnStream

LEMMA MatmulKeepsOnStream ==
  ASSUME Typed, AtPosition, OnStream, GpuMatmul
  PROVE  OnStream'
<1>1. /\ UNCHANGED <<bench, pc, pos, cur, gpu_w>> /\ stream # <<>> /\ stream' = Tail(stream)
      /\ Head(stream).op = "matmul" /\ (\A q : LayerAt(q)' = LayerAt(q))
      /\ used' = Append(used, gpu_w[Head(stream).w])
  BY SameBench DEF GpuMatmul
<1>2. /\ Done \in Nat /\ Done' = Done + 1
      /\ Head(stream) \in WorkType /\ IsWork(Head(stream), Done + 1)
      /\ StreamInOrder'
  BY <1>1, StreamAdvances
<1> DEFINE p == Done \div 2
<1>3. (Done + 1) % 2 # 1
  BY <1>1, <1>2, Zenon DEF IsWork
<1>4. /\ PosOf(Done + 1) = p /\ Done' \div 2 = p + 1 /\ Done' % 2 # 1 /\ Done % 2 = 1
      /\ p \in Nat
  BY <1>2, <1>3 DEF PosOf
<1>5. Head(stream).w = LayerAt(p) % 2 /\ Head(stream).w \in 0 .. 1
  BY <1>2, <1>4 DEF IsWork, WorkType
<1>6. gpu_w[Head(stream).w] = LayerAt(p) /\ Len(used) = p
  BY <1>4, <1>5 DEF OnStream
<1> HIDE DEF p
<1>7. /\ Len(used') = p + 1 /\ \A i \in 1 .. p : used'[i] = used[i]
      /\ used'[p + 1] = LayerAt(p)
  <2>1. used \in Seq(Layers) /\ gpu_w[Head(stream).w] \in Layers
    BY <1>5 DEF Typed
  <2> QED
    BY <1>1, <1>6, <2>1, AppendProperties
<1>8. \A i \in 1 .. p + 1 : used'[i] = LayerAt(i - 1)
  <2>1. \A i \in 1 .. p : used[i] = LayerAt(i - 1)
    BY <1>6 DEF OnStream
  <2>2. (p + 1) - 1 = p
    BY <1>4
  <2>3. \A i \in 1 .. p + 1 : i \in 1 .. p \/ i = p + 1
    BY <1>4
  <2> QED
    BY <1>7, <2>1, <2>2, <2>3
<1>9. \A i \in 1 .. Len(used)' : used'[i] = LayerAt(i - 1)'
  BY <1>1, <1>7, <1>8
<1>10. Len(used)' = (Done \div 2)' /\ (Done % 2)' # 1
  BY <1>4, <1>7
<1>11. pc \notin {"drain", "done"}
  BY <1>1 DEF OnStream
<1> QED
  BY <1>1, <1>2, <1>9, <1>10, <1>11, SMTT(60) DEF OnStream

LEMMA QueueKeepsOnStream ==
  ASSUME Typed, AtPosition, OnStream, QueueGpuWork
  PROVE  OnStream'
<1> DEFINE work(o) == [op |-> o, src |-> IF OnNvme(pos) THEN cur ELSE Resident,
                       w |-> LayerAt(pos) % 2, layer |-> LayerAt(pos)]
           two == <<work("copy"), work("matmul")>>
<1>1. /\ UNCHANGED <<bench, pos, cur, gpu_w, used>> /\ pc = "queue"
      /\ pc' = (IF OnNvme(pos) THEN "sync" ELSE "step")
      /\ stream' = stream \o two
      /\ \A q : LayerAt(q)' = LayerAt(q)
  BY SameBench DEF QueueGpuWork
<1>2. Len(stream) \in Nat /\ pos \in Nat /\ stream \in Seq(WorkType)
  BY StreamTyped DEF Typed
<1>3. Queued = pos /\ Queued' = pos + 1
  BY <1>1 DEF Queued
<1>4. /\ Len(stream') = Len(stream) + 2
      /\ \A i \in 1 .. Len(stream) : stream'[i] = stream[i]
      /\ stream'[Len(stream) + 1] = work("copy")
      /\ stream'[Len(stream) + 2] = work("matmul")
  <2>1. work("copy") \in WorkType /\ work("matmul") \in WorkType
    BY <1>1, WorkQueued
  <2> HIDE DEF work
  <2> QED
    BY <1>1, <1>2, <2>1, ConcatTwo
<1>5. Done \in Nat /\ Done' = Done /\ Done + Len(stream) = 2 * pos
  BY <1>2, <1>3, <1>4 DEF OnStream, Done
<1>6. ASSUME NEW k \in {2 * pos + 1, 2 * pos + 2} PROVE PosOf(k) = pos
  BY <1>2 DEF PosOf
<1>7. ASSUME NEW o \in {"copy", "matmul"}
      PROVE  /\ work(o).op = o /\ work(o).w = LayerAt(pos) % 2 /\ work(o).layer = LayerAt(pos)
             /\ work(o).src # Resident => OnNvme(pos) /\ work(o).src = cur
  OBVIOUS
<1> HIDE DEF work
<1>8. ASSUME NEW i \in 1 .. Len(stream')
      PROVE  LET x == stream'[i]
                 k == Done' + i
             IN  /\ x.op = IF k % 2 = 1 THEN "copy" ELSE "matmul"
                 /\ x.w = LayerAt(PosOf(k)) % 2
                 /\ x.layer = LayerAt(PosOf(k))
                 /\ x.src # Resident => pc' = "sync" /\ PosOf(k) = pos /\ x.src = cur
  <2>1. CASE i \in 1 .. Len(stream)
    <3>1. IsWork(stream[i], Done + i)
      BY <2>1 DEF OnStream, StreamInOrder
    <3> QED
      BY <1>1, <1>4, <1>5, <2>1, <3>1 DEF IsWork
  <2>2. CASE i = Len(stream) + 1
    <3>1. Done' + i = 2 * pos + 1 /\ (2 * pos + 1) % 2 = 1
      BY <1>2, <1>5, <2>2
    <3> QED
      BY <1>1, <1>4, <1>6, <1>7, <2>2, <3>1
  <2>3. CASE i = Len(stream) + 2
    <3>1. Done' + i = 2 * pos + 2 /\ (2 * pos + 2) % 2 = 0
      BY <1>2, <1>5, <2>3
    <3> QED
      BY <1>1, <1>4, <1>6, <1>7, <2>3, <3>1
  <2> QED
    BY <1>2, <1>4, <2>1, <2>2, <2>3
<1>9. StreamInOrder'
  BY <1>1, <1>8 DEF StreamInOrder, IsWork
<1>10. (Done % 2 = 1 => gpu_w[LayerAt(Done \div 2) % 2] = LayerAt(Done \div 2))'
  BY <1>1, <1>5 DEF OnStream
<1>11. /\ Len(used)' = (Done \div 2)'
       /\ \A i \in 1 .. Len(used)' : used'[i] = LayerAt(i - 1)'
  BY <1>1, <1>5 DEF OnStream
<1> QED
  BY <1>1, <1>5, <1>9, <1>10, <1>11 DEF OnStream

LEMMA OnStreamInductive ==
  Typed /\ AtPosition /\ Staged /\ OnStream /\ [Next]_vars => OnStream'
<1> SUFFICES ASSUME Typed, AtPosition, Staged, OnStream, [Next]_vars PROVE OnStream'
  OBVIOUS
<1>1. UNCHANGED bench /\ pos \in Nat
  BY NoBenchChange, StreamTyped
<1>2. CASE QueueGpuWork
  BY <1>2, QueueKeepsOnStream
<1>3. CASE GpuCopy
  BY <1>3, CopyKeepsOnStream
<1>4. CASE GpuMatmul
  BY <1>4, MatmulKeepsOnStream
<1>5. CASE FreeSlot
  <2>1. /\ stream = <<>> /\ pc = "sync" /\ pc' = "step"
        /\ UNCHANGED <<bench, pos, stream, gpu_w, used>>
    BY <1>5 DEF FreeSlot, Copied
  <2>2. Done' = Done /\ Queued' = Queued /\ \A q : LayerAt(q)' = LayerAt(q)
    BY <2>1, SameBench DEF Done, Queued
  <2>3. StreamInOrder'
    BY <2>1 DEF StreamInOrder
  <2>4. (Done % 2 = 1 => gpu_w[LayerAt(Done \div 2) % 2] = LayerAt(Done \div 2))'
    BY <2>1, <2>2 DEF OnStream
  <2>5. /\ Len(used)' = (Done \div 2)'
        /\ \A i \in 1 .. Len(used)' : used'[i] = LayerAt(i - 1)'
    BY <2>1, <2>2 DEF OnStream
  <2> QED
    BY <2>1, <2>2, <2>3, <2>4, <2>5 DEF OnStream
<1>6. CASE Advance
  <2>1. /\ pc = "step" /\ pos' = pos + 1 /\ UNCHANGED <<bench, stream, gpu_w, used>>
        /\ pc' = (IF pos + 1 = End THEN "drain" ELSE "issue")
        /\ LayerAt(pos) = n - 1 => stream = <<>>
    BY <1>6 DEF Advance
  <2>2. Queued' = Queued
    BY <2>1 DEF Queued
  <2>3. pos + 1 = End => LayerAt(pos) = n - 1
    <3>1. n \in Nat \ {0} /\ bench.steps \in Nat
      BY Arguments DEF Typed
    <3> QED
      BY <1>1, <3>1, LastOfStep DEF End, LayerAt
  <2> QED
    BY <2>1, <2>2, <2>3, OnStreamKept
<1>7. CASE IssueRead \/ IssueReturn \/ Pop \/ UseResident \/ Arrived
  <2>1. /\ Queued' = Queued /\ UNCHANGED <<bench, stream, gpu_w, used>>
        /\ pc \notin {"sync", "drain", "done"} /\ pc' \notin {"drain", "done"}
    BY <1>7 DEF IssueRead, IssueReturn, Pop, UseResident, Arrived, Queued
  <2> QED
    BY <2>1, OnStreamKept
<1>8. CASE Raise \/ Drain \/ Return
  <2>1. /\ Queued' = Queued /\ UNCHANGED <<bench, stream, gpu_w, used>>
        /\ pc # "sync" /\ (pc' \in {"drain", "done"} => pc = "drain")
    BY <1>8 DEF Raise, Drain, Return, Queued
  <2> QED
    BY <2>1, OnStreamKept DEF OnStream
<1>9. CASE Pool \/ UNCHANGED vars
  <2>1. UNCHANGED <<bench, pc, pos, cur, stream, gpu_w, used>>
    BY <1>9 DEF Pool, StartRead, FinishRead, ShortRead, vars
  <2>2. Queued' = Queued
    BY <2>1 DEF Queued
  <2> QED
    BY <2>1, <2>2, OnStreamKept DEF OnStream
<1> QED
  BY <1>2, <1>3, <1>4, <1>5, <1>6, <1>7, <1>8, <1>9 DEF Next, Main, Gpu

-----------------------------------------------------------------------------
(* The theorems.                                                           *)

LEMMA IInvInit == Init => IInv
<1> SUFFICES ASSUME Init PROVE IInv
  OBVIOUS
<1>1. Typed
  BY TypedInit
<1>2. Slots \in Nat \ {0} /\ n \in Nat \ {0} /\ bench.steps \in Nat
  BY <1>1, Arguments DEF Typed
<1>3. AtPosition
  <2>1. End \in Nat /\ End >= 1
    <3>1. (bench.steps + 1) * n >= 1
      BY <1>2
    <3> QED
      BY <1>1, <3>1, Arguments DEF Typed, End
  <2> QED
    BY <1>2, <2>1 DEF Init, AtPosition, NoSlot
<1>4. DOMAIN inflight = {} /\ Len(free) = Slots /\ \A i \in 1 .. Slots : free[i] = i
  BY <1>2 DEF Init
<1>5. HeldOnce
  BY <1>2, <1>4 DEF Init, HeldOnce, NoSlot
<1>6. NoneLost
  <2>1. Cardinality(DOMAIN inflight) = 0
    BY <1>4, FS_EmptySet
  <2>2. cur = NoSlot
    BY DEF Init
  <2> QED
    BY <1>2, <1>4, <2>1, <2>2 DEF NoneLost, HeldCount, IsHeld
<1>7. InOrder
  BY <1>4 DEF Init, InOrder, Popped
<1>8. ReadsHeld
  BY DEF Init, ReadsHeld, Reads, ToSet
<1>9. Staged
  BY <1>4 DEF Init, Staged
<1>10. OnStream
  <2>1. Len(stream) = 0 /\ Len(used) = 0 /\ Queued = 0
    BY DEF Init, Queued
  <2>2. Done = 0
    BY <2>1 DEF Done
  <2> QED
    BY <2>1, <2>2 DEF Init, OnStream, StreamInOrder
<1> QED
  BY <1>1, <1>3, <1>5, <1>6, <1>7, <1>8, <1>9, <1>10 DEF IInv

LEMMA IInvKept == IInv /\ [Next]_vars => IInv'
  BY TypedKept, AtPositionKept, HeldOnceKept, NoneLostKept, InOrderKept, ReadsHeldKept,
     StagedInductive, OnStreamInductive DEF IInv

\* The inductive invariant: who holds each slot, what each slot and the stream hold.
THEOREM BenchInvariant == Spec => []IInv
  BY IInvInit, IInvKept, PTL DEF Spec

\* "inflight.pop(p)" (reserve_bench.py:159) never raises KeyError: whatever the
\* budget, the share reserved for staging and the depth, the layer needed next has
\* been issued.
THEOREM NextAlwaysStaged == Spec => []NextIsStaged
<1>1. IInv => NextIsStaged
  BY DEF IInv, InOrder, NextIsStaged
<1> QED
  BY <1>1, BenchInvariant, PTL

\* The free list, the reads in flight and the slot being consumed share the staging
\* slots out, each once, and the pool reads only into a slot held for it
\* (reserve_bench.py:148-149, 159, 170, 177).
THEOREM SlotsNeverLost == Spec => []SlotsAccounted
<1>1. IInv => SlotsAccounted
  <2> SUFFICES ASSUME IInv PROVE SlotsAccounted
    OBVIOUS
  <2>1. Typed /\ AtPosition /\ NoneLost /\ ReadsHeld
    BY DEF IInv
  <2>2. Reads \cup failed \subseteq ReadType
    BY <2>1, ReadsTyped DEF Typed
  <2>3. TypeOK
    <3>1. \A x \in ToSet(tasks) \cup reading \cup failed :
            x.pos \in Nat /\ x.slot \in 1 .. Slots /\ x.chunk \in 1 .. Chunks
      BY <2>2 DEF Reads, ReadType
    <3> QED
      BY <2>1, <3>1 DEF TypeOK, Typed, AtPosition, Layers
  <2>4. HeldCount = Slots
    BY <2>1 DEF NoneLost
  <2>5. ToSet(free) \cup Range(inflight) \cup ({cur} \ {NoSlot}) = 1 .. Slots
    <3>1. /\ free \in Seq(1 .. Slots) /\ DOMAIN free = 1 .. Len(free)
          /\ \A i \in 1 .. Len(free) : free[i] \in 1 .. Slots
      BY <2>1, LenProperties, ElementOfSeq DEF Typed
    <3>2. Slots \in Nat /\ cur \in 0 .. Slots
      BY <2>1, Arguments DEF Typed, AtPosition
    <3>3. ASSUME NEW s \in ToSet(free) \cup Range(inflight) \cup ({cur} \ {NoSlot})
          PROVE  s \in 1 .. Slots
      BY <2>1, <3>1, <3>2 DEF ToSet, Range, Typed, NoSlot
    <3>4. ASSUME NEW s \in 1 .. Slots
          PROVE  s \in ToSet(free) \cup Range(inflight) \cup ({cur} \ {NoSlot})
      <4>1. IsHeld(s) /\ s # NoSlot
        BY <2>1, <3>2 DEF NoneLost, NoSlot
      <4> QED
        BY <3>1, <4>1 DEF IsHeld, ToSet, Range
    <3> QED
      BY <3>3, <3>4
  <2>6. \A x \in ToSet(tasks) \cup reading :
          IF x.pos \in DOMAIN inflight THEN x.slot = inflight[x.pos]
          ELSE x.pos = pos /\ x.slot = cur
    BY <2>1 DEF ReadsHeld, Reads
  <2> QED
    BY <2>3, <2>4, <2>5, <2>6 DEF SlotsAccounted, HeldCount
<1> QED
  BY <1>1, BenchInvariant, PTL

\* Every matmul multiplies by the whole of the layer whose turn it is: a slot is
\* reused only once copied (reserve_bench.py:166-170), and read only once its reads
\* have returned (160-161), for any number of chunks and threads.
THEOREM WeightsAreRight == Spec => []RightWeights
<1>1. IInv => RightWeights
  BY DEF IInv, OnStream, RightWeights
<1> QED
  BY <1>1, BenchInvariant, PTL

\* When run() returns no read is pending and no GPU work is queued, so the next
\* run() may reuse every pinned buffer (reserve_bench.py:174-178).
THEOREM ReturnIsQuiet == Spec => []QuietAtReturn
<1>1. IInv => QuietAtReturn
  <2> SUFFICES ASSUME IInv, pc = "done"
               PROVE  tasks = <<>> /\ reading = {} /\ stream = <<>>
    BY DEF QuietAtReturn
  <2>1. DOMAIN inflight = {} /\ stream = <<>>
    BY DEF IInv, InOrder, OnStream
  <2>2. Reads = {}
    BY <2>1 DEF IInv, ReadsHeld
  <2>3. tasks = <<>>
    <3>1. DOMAIN tasks = 1 .. Len(tasks) /\ Len(tasks) \in Nat /\ tasks \in Seq(ReadType)
      BY LenProperties DEF IInv, Typed
    <3>2. DOMAIN tasks = {}
      BY <2>2 DEF Reads, ToSet
    <3>3. Len(tasks) = 0
      BY <3>1, <3>2
    <3> QED
      BY <3>1, <3>3, EmptySeq
  <2> QED
    BY <2>1, <2>2, <2>3 DEF Reads
<1> QED
  BY <1>1, BenchInvariant, PTL
=============================================================================
