--------------------------- MODULE Harness_proofs ---------------------------
(***************************************************************************)
(* For every list of cells, number of workers and simulators: a job's      *)
(* result is its own cell's, and every row shown or written is that of an  *)
(* undisturbed sweep or one the file held, whatever order the workers run  *)
(* in and whatever earlier runs left in the file.                          *)
(***************************************************************************)
EXTENDS Harness, SequenceTheorems, TLAPS

-----------------------------------------------------------------------------
(* What the tables depend on.                                              *)

LEMMA SameTables ==
  ASSUME UNCHANGED sweep
  PROVE  /\ \A p : TrueTable(p)' = TrueTable(p)
         /\ \A c : Truth(c)' = Truth(c)
         /\ \A n : SavedAfter(n)' = SavedAfter(n)
<1>1. \A c : Truth(c)' = Truth(c)
  BY DEF Truth, FilesFor, Levels, BestUpTo
<1>2. \A n : SavedAfter(n)' = SavedAfter(n)
  BY DEF SavedAfter
<1>3. \A p : TrueTable(p)' = TrueTable(p)
  BY <1>1 DEF TrueTable, Table, Scored, Shown, Answered, BestOf, Kinds
<1> QED
  BY <1>1, <1>2, <1>3

\* What a platform's table must be is settled by the sweep and the file found.
LEMMA TableAfterSame ==
  ASSUME UNCHANGED <<sweep, found>>
  PROVE  \A p : TableAfter(p)' = TableAfter(p)
  BY SameTables DEF TableAfter, KeptRows

LEMMA TablesAfterSame ==
  ASSUME UNCHANGED <<sweep, found>>
  PROVE  \A turns : TablesAfter(turns)' = TablesAfter(turns)
  BY TableAfterSame DEF TablesAfter

\* The table of a complete sweep, entered over what the file held or over the table
\* that an earlier turn of the same platform left, is what the platform's must be.
LEMMA EnteredIsAfter ==
  ASSUME NEW p \in Platforms, NEW old, old = found[p] \/ old = TableAfter(p)
  PROVE  Entered(old, TrueTable(p)) = TableAfter(p)
<1> DEFINE t == TrueTable(p)
           kept == KeptRows(p)
<1>1. t = [r \in DOMAIN t |-> t[r]]
  BY DEF TrueTable, Table
<1> HIDE DEF t
<1>2. TableAfter(p) = [r \in kept \cup DOMAIN t |-> IF r \in kept THEN found[p][r] ELSE t[r]]
  BY DEF TableAfter, t
<1>3. CASE sweep.mode = "equal"
  <2>1. kept = DOMAIN found[p] \ DOMAIN t
    BY <1>3 DEF KeptRows, t
  <2>2. Entered(old, t)
          = [r \in DOMAIN old \cup DOMAIN t |-> IF r \in DOMAIN t THEN t[r] ELSE old[r]]
    BY <1>3 DEF Entered, Updated
  <2>3. DOMAIN old \cup DOMAIN t = kept \cup DOMAIN t
    BY <1>2, <2>1
  <2>4. \A r \in kept : old[r] = found[p][r]
    BY <1>2, <2>1
  <2> HIDE DEF kept
  <2>5. \A r \in kept \cup DOMAIN t : r \in DOMAIN t <=> ~(r \in kept)
    BY <2>1
  <2> QED
    BY <1>2, <2>2, <2>3, <2>4, <2>5 DEF t
<1>4. CASE sweep.mode # "equal"
  <2>1. kept = {}
    BY <1>4 DEF KeptRows
  <2> QED
    BY <1>1, <1>2, <1>4, <2>1 DEF Entered, t
<1> QED
  BY <1>3, <1>4

\* A step that ends no platform and writes nothing leaves the tables as they are.
LEMMA TablesKept ==
  ASSUME TablesAreTrue, UNCHANGED <<sweep, found, rows, disk, turn>>,
         (pc \notin {"write", "end"} /\ pc' \notin {"write", "end"}) \/ pc' = pc
  PROVE  TablesAreTrue'
<1>1. Done' = Done
  BY DEF Done
<1>2. Saved' = Saved
  BY SameTables DEF Saved
<1>3. TablesAfter(Done)' = TablesAfter(Done) /\ TablesAfter(Saved)' = TablesAfter(Saved)
  BY <1>1, <1>2, TableAfterSame DEF TablesAfter
<1> QED
  BY <1>3 DEF TablesAreTrue

-----------------------------------------------------------------------------
(* What a worker's step leaves alone.                                      *)

\* Nothing but worker w's own variables, and its job's outcome, changes.
Only(w) ==
  /\ UNCHANGED <<pc, turn, collected, rows, disk, sweep, found, repo>>
  /\ PerWorker(at)' /\ PerWorker(job)' /\ PerWorker(level)' /\ PerWorker(read)'
  /\ PerWorker(fastest)' /\ PerWorker(error)' /\ PerWorker(dirs)'
  /\ \A v \in Workers \ {w} :
       /\ at'[v] = at[v] /\ job'[v] = job[v] /\ level'[v] = level[v] /\ read'[v] = read[v]
       /\ fastest'[v] = fastest[v] /\ error'[v] = error[v] /\ dirs'[v] = dirs[v]

\* A worker that keeps its variables and whose job keeps running keeps its part of
\* the invariant.
LEMMA OtherWorker ==
  ASSUME NEW v \in Workers, WorkerInv(v), UNCHANGED <<sweep, turn>>,
         at'[v] = at[v], job'[v] = job[v], level'[v] = level[v], read'[v] = read[v],
         fastest'[v] = fastest[v], error'[v] = error[v], dirs'[v] = dirs[v],
         at[v] # "idle" => job[v] \in DOMAIN outcome' /\ outcome'[job[v]].state = "running"
  PROVE  WorkerInv(v)'
<1>1. Cell(v)' = Cell(v)
  BY DEF Cell, Cells, Platform
<1> QED
  BY <1>1 DEF WorkerInv, FilesFor, Levels, BestUpTo, Truth

\* A step that touches one worker and no outcome.
LEMMA OneWorker ==
  ASSUME HInv, NEW w \in Workers, Only(w), outcome' = outcome,
         at[w] # "idle", at'[w] # "idle", job'[w] = job[w], WorkerInv(w)'
  PROVE  HInv'
<1> USE DEF HInv
<1>1. ASSUME NEW v \in Workers PROVE WorkerInv(v)'
  <2>1. CASE v = w
    BY <2>1
  <2>2. CASE v # w
    <3>1. /\ WorkerInv(v) /\ UNCHANGED <<sweep, turn>>
          /\ at'[v] = at[v] /\ job'[v] = job[v] /\ level'[v] = level[v] /\ read'[v] = read[v]
          /\ fastest'[v] = fastest[v] /\ error'[v] = error[v] /\ dirs'[v] = dirs[v]
      BY <2>2 DEF Only, WorkersInv
    <3>2. at[v] # "idle" => job[v] \in DOMAIN outcome' /\ outcome'[job[v]].state = "running"
      BY <3>1 DEF WorkerInv
    <3> QED
      BY <3>1, <3>2, OtherWorker
  <2> QED
    BY <2>1, <2>2
<1>2. WorkersInv'
  BY <1>1 DEF WorkersInv, Only
<1>3. ScriptInv' /\ OwnResult' /\ TablesAreTrue'
  <2>1. UNCHANGED <<pc, turn, collected, rows, disk, sweep, found, repo, outcome>>
    BY DEF Only
  <2>2. Cells' = Cells
    BY <2>1 DEF Cells, Platform
  <2>3. OwnResult'
    BY <2>1, <2>2 DEF OwnResult, Truth, FilesFor, Levels, BestUpTo
  <2>4. ScriptInv'
    BY <2>1, <2>2, SameTables DEF ScriptInv
  <2>5. TablesAreTrue'
    BY <2>1, TablesKept
  <2> QED
    BY <2>3, <2>4, <2>5
<1> QED
  BY <1>2, <1>3

\* The cell a worker is on while the platform and its job stay.
LEMMA SameCell ==
  ASSUME NEW w \in Workers, UNCHANGED <<sweep, turn>>, job'[w] = job[w]
  PROVE  /\ Cell(w)' = Cell(w) /\ FilesFor(Cell(w))' = FilesFor(Cell(w))
         /\ Levels(Cell(w))' = Levels(Cell(w)) /\ Truth(Cell(w))' = Truth(Cell(w))
         /\ \A n : BestUpTo(Cell(w), FilesFor(Cell(w)), n)' = BestUpTo(Cell(w)', FilesFor(Cell(w)), n')
         /\ Levels(Cell(w)) \in {1, 2}
  BY DEF Cell, Cells, Platform, FilesFor, Levels, Truth, BestUpTo
-----------------------------------------------------------------------------
(* The steps of a worker on its cell.                                      *)

LEMMA CopyKeeps ==
  ASSUME HInv, NEW w \in Workers, CopyFiles(w)
  PROVE  HInv'
<1>1. WorkersInv /\ WorkerInv(w) /\ repo = NoFiles
  BY DEF HInv, WorkersInv, ScriptInv
<1>2. /\ at[w] = "copy" /\ at' = [at EXCEPT ![w] = "patch"]
      /\ dirs' = [dirs EXCEPT ![w] = repo]
      /\ UNCHANGED <<job, level, read, fastest, error, outcome>>
      /\ UNCHANGED <<pc, turn, collected, rows, disk, sweep, found, repo>>
  BY DEF CopyFiles, DirOf, fixed
<1>3. Only(w)
  BY <1>1, <1>2 DEF Only, WorkersInv, PerWorker
<1>4. at'[w] = "patch" /\ dirs'[w] = NoFiles
  BY <1>1, <1>2 DEF WorkersInv, PerWorker
<1>5. WorkerInv(w)'
  BY <1>1, <1>2, <1>4 DEF WorkerInv
<1> QED
  BY <1>2, <1>3, <1>4, <1>5, OneWorker

LEMMA PatchKeeps ==
  ASSUME HInv, NEW w \in Workers, Patch(w)
  PROVE  HInv'
<1>1. WorkersInv /\ WorkerInv(w)
  BY DEF HInv, WorkersInv
<1>2. /\ at[w] = "patch" /\ at' = [at EXCEPT ![w] = "rewrite"]
      /\ dirs' = [dirs EXCEPT ![w].settings = Cell(w).id]
      /\ UNCHANGED <<job, level, read, fastest, error, outcome>>
      /\ UNCHANGED <<pc, turn, collected, rows, disk, sweep, found, repo>>
  BY DEF Patch, DirOf, fixed
<1>3. Only(w)
  BY <1>1, <1>2 DEF Only, WorkersInv, PerWorker
<1>4. Cell(w)' = Cell(w)
  BY <1>2, SameCell
<1>5. at'[w] = "rewrite" /\ dirs'[w] = [settings |-> Cell(w).id, script |-> 0]
  <2>1. dirs[w] = [settings |-> 0, script |-> 0]
    BY <1>1, <1>2 DEF WorkerInv, NoFiles
  <2>2. dirs'[w] = [dirs[w] EXCEPT !.settings = Cell(w).id]
    BY <1>1, <1>2 DEF WorkersInv, PerWorker
  <2> QED
    BY <1>1, <1>2, <2>1, <2>2 DEF WorkersInv, PerWorker
<1>6. WorkerInv(w)'
  BY <1>1, <1>2, <1>4, <1>5 DEF WorkerInv
<1> QED
  BY <1>2, <1>3, <1>5, <1>6, OneWorker

LEMMA RewriteKeeps ==
  ASSUME HInv, NEW w \in Workers, Rewrite(w) \/ RewriteTiers(w)
  PROVE  HInv'
<1>1. WorkersInv /\ WorkerInv(w)
  BY DEF HInv, WorkersInv
<1>2. /\ at[w] = "rewrite"
      /\ UNCHANGED <<job, level, read, fastest, outcome>>
      /\ UNCHANGED <<pc, turn, collected, rows, disk, sweep, found, repo>>
      /\ \/ /\ dirs' = [dirs EXCEPT ![w].script = IF Cell(w).rewritten THEN Cell(w).id ELSE @]
            /\ at' = [at EXCEPT ![w] = "start"] /\ error' = error
         \/ /\ at' = [at EXCEPT ![w] = "clean"]
            /\ error' = [error EXCEPT ![w] = TRUE] /\ dirs' = dirs
  BY DEF Rewrite, RewriteTiers, Rewritten, DirOf, fixed
<1>3. Only(w)
  BY <1>1, <1>2 DEF Only, WorkersInv, PerWorker
<1>4. /\ Cell(w)' = Cell(w) /\ FilesFor(Cell(w))' = FilesFor(Cell(w))
      /\ Levels(Cell(w))' = Levels(Cell(w)) /\ Levels(Cell(w)) \in {1, 2}
  BY <1>2, SameCell
<1>5. dirs[w] = [settings |-> Cell(w).id, script |-> 0] /\ level[w] = 1 /\ fastest[w] = 0
  BY <1>1, <1>2 DEF WorkerInv
<1>6. CASE /\ dirs' = [dirs EXCEPT ![w].script = IF Cell(w).rewritten THEN Cell(w).id ELSE @]
           /\ at' = [at EXCEPT ![w] = "start"] /\ error' = error
  <2>1. at'[w] = "start" /\ dirs'[w] = FilesFor(Cell(w))
    <3>1. dirs'[w] = [dirs[w] EXCEPT !.script = IF Cell(w).rewritten THEN Cell(w).id ELSE @]
      BY <1>1, <1>6 DEF WorkersInv, PerWorker
    <3> QED
      BY <1>1, <1>5, <1>6, <3>1 DEF FilesFor, WorkersInv, PerWorker
  <2>2. BestUpTo(Cell(w), FilesFor(Cell(w)), 0) = 0 /\ level[w] - 1 = 0
    BY <1>5 DEF BestUpTo
  <2>3. (BestUpTo(Cell(w), FilesFor(Cell(w)), level[w] - 1))' = 0
    BY <1>2, <1>4, <2>2 DEF BestUpTo
  <2>4. WorkerInv(w)'
    BY <1>1, <1>2, <1>4, <1>5, <1>6, <2>1, <2>3 DEF WorkerInv
  <2> QED
    BY <1>2, <1>3, <2>1, <2>4, OneWorker
<1>7. CASE /\ at' = [at EXCEPT ![w] = "clean"]
           /\ error' = [error EXCEPT ![w] = TRUE] /\ dirs' = dirs
  <2>1. at'[w] = "clean" /\ error'[w] = TRUE
    BY <1>1, <1>7 DEF WorkersInv, PerWorker
  <2>2. WorkerInv(w)'
    BY <1>1, <1>2, <2>1 DEF WorkerInv
  <2> QED
    BY <1>2, <1>3, <2>1, <2>2, OneWorker
<1> QED
  BY <1>2, <1>6, <1>7

LEMMA StartKeeps ==
  ASSUME HInv, NEW w \in Workers, StartLevel(w)
  PROVE  HInv'
<1>1. WorkersInv /\ WorkerInv(w)
  BY DEF HInv, WorkersInv
<1>2. /\ at[w] = "start" /\ at' = [at EXCEPT ![w] = "run"]
      /\ read' = [read EXCEPT ![w] = dirs[w]]
      /\ UNCHANGED <<job, level, fastest, error, dirs, outcome>>
      /\ UNCHANGED <<pc, turn, collected, rows, disk, sweep, found, repo>>
  BY DEF StartLevel, DirOf, fixed
<1>3. Only(w)
  BY <1>1, <1>2 DEF Only, WorkersInv, PerWorker
<1>4. /\ Cell(w)' = Cell(w) /\ FilesFor(Cell(w))' = FilesFor(Cell(w))
      /\ Levels(Cell(w))' = Levels(Cell(w))
      /\ BestUpTo(Cell(w), FilesFor(Cell(w)), level[w] - 1)'
           = BestUpTo(Cell(w), FilesFor(Cell(w)), level[w] - 1)
  BY <1>2, SameCell DEF BestUpTo
<1>5. at'[w] = "run" /\ read'[w] = dirs[w]
  BY <1>1, <1>2 DEF WorkersInv, PerWorker
<1>6. WorkerInv(w)'
  BY <1>1, <1>2, <1>4, <1>5 DEF WorkerInv
<1> QED
  BY <1>2, <1>3, <1>5, <1>6, OneWorker

\* One level more: the best so far is that of one level more.
LEMMA OneMoreLevel ==
  ASSUME NEW c, NEW files, NEW n \in {1, 2}
  PROVE  Larger(BestUpTo(c, files, n - 1), Answer(c.sim, files, n)) = BestUpTo(c, files, n)
  BY DEF BestUpTo

LEMMA EndKeeps ==
  ASSUME HInv, NEW w \in Workers, EndLevel(w)
  PROVE  HInv'
<1> DEFINE best == Larger(fastest[w], Answer(Cell(w).sim, read[w], level[w]))
<1>1. WorkersInv /\ WorkerInv(w)
  BY DEF HInv, WorkersInv
<1>2. /\ at[w] = "run"
      /\ fastest' = [fastest EXCEPT ![w] = best]
      /\ UNCHANGED <<job, read, error, dirs, outcome>>
      /\ UNCHANGED <<pc, turn, collected, rows, disk, sweep, found, repo>>
      /\ \/ /\ level[w] < Levels(Cell(w))
            /\ level' = [level EXCEPT ![w] = level[w] + 1] /\ at' = [at EXCEPT ![w] = "start"]
         \/ /\ ~(level[w] < Levels(Cell(w)))
            /\ at' = [at EXCEPT ![w] = "clean"] /\ level' = level
  BY DEF EndLevel, fixed
<1>3. Only(w)
  BY <1>1, <1>2 DEF Only, WorkersInv, PerWorker
<1>4. /\ Cell(w)' = Cell(w) /\ FilesFor(Cell(w))' = FilesFor(Cell(w))
      /\ Levels(Cell(w))' = Levels(Cell(w)) /\ Truth(Cell(w))' = Truth(Cell(w))
      /\ Levels(Cell(w)) \in {1, 2}
  BY <1>2, SameCell
<1>5. /\ level[w] \in {1, 2} /\ level[w] <= Levels(Cell(w))
      /\ read[w] = FilesFor(Cell(w)) /\ dirs[w] = FilesFor(Cell(w)) /\ ~error[w]
      /\ fastest[w] = BestUpTo(Cell(w), FilesFor(Cell(w)), level[w] - 1)
  BY <1>1, <1>2, <1>4 DEF WorkerInv
<1>6. best = BestUpTo(Cell(w), FilesFor(Cell(w)), level[w])
  BY <1>5, OneMoreLevel
<1> HIDE DEF best
<1>7. fastest'[w] = BestUpTo(Cell(w), FilesFor(Cell(w)), level[w])
  BY <1>1, <1>2, <1>6 DEF WorkersInv, PerWorker
<1>8. CASE /\ level[w] < Levels(Cell(w))
           /\ level' = [level EXCEPT ![w] = level[w] + 1] /\ at' = [at EXCEPT ![w] = "start"]
  <2>1. at'[w] = "start" /\ level'[w] = level[w] + 1
    BY <1>1, <1>8 DEF WorkersInv, PerWorker
  <2>2. level'[w] \in 1 .. Levels(Cell(w)) /\ level'[w] - 1 = level[w]
    BY <2>1, <1>4, <1>5, <1>8
  <2>3. BestUpTo(Cell(w), FilesFor(Cell(w)), level[w] - 1)'
          = BestUpTo(Cell(w), FilesFor(Cell(w)), level[w])
    BY <1>4, <2>2 DEF BestUpTo
  <2>4. WorkerInv(w)'
    BY <1>1, <1>2, <1>4, <1>5, <1>7, <2>1, <2>2, <2>3 DEF WorkerInv
  <2> QED
    BY <1>2, <1>3, <2>1, <2>4, OneWorker
<1>9. CASE /\ ~(level[w] < Levels(Cell(w)))
           /\ at' = [at EXCEPT ![w] = "clean"] /\ level' = level
  <2>1. at'[w] = "clean"
    BY <1>1, <1>9 DEF WorkersInv, PerWorker
  <2>2. level[w] = Levels(Cell(w))
    BY <1>4, <1>5, <1>9
  <2>3. fastest'[w] = Truth(Cell(w))
    BY <1>7, <2>2 DEF Truth
  <2>4. WorkerInv(w)'
    BY <1>1, <1>2, <1>4, <2>1, <2>3 DEF WorkerInv
  <2> QED
    BY <1>2, <1>3, <2>1, <2>4, OneWorker
<1> QED
  BY <1>2, <1>8, <1>9

LEMMA TimeOutKeeps ==
  ASSUME HInv, NEW w \in Workers, TimeOut(w)
  PROVE  HInv'
<1>1. WorkersInv /\ WorkerInv(w)
  BY DEF HInv, WorkersInv
<1>2. /\ at[w] \in {"start", "run"} /\ at' = [at EXCEPT ![w] = "clean"]
      /\ fastest' = [fastest EXCEPT ![w] = 0] /\ error' = [error EXCEPT ![w] = TRUE]
      /\ UNCHANGED <<job, level, read, dirs, outcome>>
      /\ UNCHANGED <<pc, turn, collected, rows, disk, sweep, found, repo>>
  BY DEF TimeOut, TimeLimit, Raised, fixed
<1>3. Only(w)
  BY <1>1, <1>2 DEF Only, WorkersInv, PerWorker
<1>4. at'[w] = "clean" /\ error'[w] = TRUE
  BY <1>1, <1>2 DEF WorkersInv, PerWorker
<1>5. WorkerInv(w)'
  BY <1>1, <1>2, <1>4 DEF WorkerInv
<1> QED
  BY <1>2, <1>3, <1>4, <1>5, OneWorker
-----------------------------------------------------------------------------
(* The steps that begin and end a cell.                                    *)

\* What such a step does to the script's part of the invariant.
LEMMA OutcomeStep ==
  ASSUME HInv, NEW w \in Workers, Only(w), NEW j \in DOMAIN outcome, NEW o,
         outcome' = [outcome EXCEPT ![j] = o], o = [state |-> o.state, tps |-> o.tps],
         outcome[j].state # "value",
         o.state = "value" => o.tps = Truth(Cells[j]),
         WorkerInv(w)',
         \A v \in Workers \ {w} : at[v] # "idle" => job[v] # j,
         \A v \in Workers \ {w} :
           at[v] # "idle" /\ at'[w] # "idle" => job[v] # job'[w]
  PROVE  HInv'
<1> USE DEF HInv
<1>1. /\ UNCHANGED <<pc, turn, collected, rows, disk, sweep, found, repo>>
      /\ DOMAIN outcome' = DOMAIN outcome /\ outcome'[j] = o
      /\ \A i \in DOMAIN outcome \ {j} : outcome'[i] = outcome[i]
  BY DEF Only
<1>2. Cells' = Cells
  BY <1>1 DEF Cells, Platform
<1>3. ASSUME NEW v \in Workers PROVE WorkerInv(v)'
  <2>1. CASE v = w
    BY <2>1
  <2>2. CASE v # w
    <3>1. /\ WorkerInv(v) /\ UNCHANGED <<sweep, turn>>
          /\ at'[v] = at[v] /\ job'[v] = job[v] /\ level'[v] = level[v] /\ read'[v] = read[v]
          /\ fastest'[v] = fastest[v] /\ error'[v] = error[v] /\ dirs'[v] = dirs[v]
      BY <2>2 DEF Only, WorkersInv
    <3>2. at[v] # "idle" => job[v] \in DOMAIN outcome' /\ outcome'[job[v]].state = "running"
      BY <3>1, <1>1, <2>2 DEF WorkerInv
    <3> QED
      BY <3>1, <3>2, OtherWorker
  <2> QED
    BY <2>1, <2>2
<1>4. WorkersInv'
  BY <1>3 DEF WorkersInv, Only
<1>5. outcome # << >> /\ outcome' # << >>
  BY <1>1
<1>6. ScriptInv'
  <2>1. outcome' = [i \in DOMAIN outcome' |->
                      [state |-> outcome'[i].state, tps |-> outcome'[i].tps]]
    <3> DEFINE Plain(r) == r = [state |-> r.state, tps |-> r.tps]
    <3>1. PICK f : f = outcome'
      OBVIOUS
    <3>2. \A i \in DOMAIN outcome : Plain(outcome[i])
      <4>1. outcome = [i \in DOMAIN outcome |->
                         [state |-> outcome[i].state, tps |-> outcome[i].tps]]
        BY DEF ScriptInv
      <4> QED
        BY <4>1
    <3>3. Plain(o)
      OBVIOUS
    <3>4. f = [i \in DOMAIN f |-> f[i]] /\ DOMAIN f = DOMAIN outcome
      BY <3>1
    <3>5. \A i \in DOMAIN f : Plain(f[i])
      <4> HIDE DEF Plain
      <4> QED
        BY <1>1, <3>1, <3>2, <3>3, <3>4
    <3>6. f = [i \in DOMAIN f |-> [state |-> f[i].state, tps |-> f[i].tps]]
      BY <3>4, <3>5
    <3> QED
      BY <3>1, <3>6, Zenon
  <2>2. \A i \in collected' : i \in DOMAIN outcome' /\ outcome'[i].state = "value"
    BY <1>1 DEF ScriptInv
  <2>3. /\ sweep' \in Sweeps /\ repo' = NoFiles /\ turn' \in DOMAIN sweep'.asked
        /\ pc' \in {"submit", "collect", "drain", "write", "end", "failed"}
        /\ pc' # "submit" /\ pc' # "write" /\ pc' # "end"
    BY <1>1, <1>5 DEF ScriptInv
  <2>4. /\ outcome' # << >> => DOMAIN outcome' = DOMAIN Cells'
        /\ pc' = "collect" => DOMAIN outcome' = DOMAIN Cells'
    BY <1>1, <1>2, <1>5, Zenon DEF ScriptInv
  <2> QED
    BY <2>1, <2>2, <2>3, <2>4 DEF ScriptInv
<1>7. OwnResult'
  <2> SUFFICES ASSUME NEW i \in DOMAIN outcome, outcome'[i].state = "value"
               PROVE  outcome'[i].tps = Truth(Cells[i])
    BY <1>1, <1>2 DEF OwnResult, Truth, FilesFor, Levels, BestUpTo
  <2>1. CASE i = j
    BY <2>1, <1>1
  <2>2. CASE i # j
    BY <2>2, <1>1 DEF OwnResult
  <2> QED
    BY <2>1, <2>2
<1>8. TablesAreTrue'
  BY <1>1, TablesKept
<1> QED
  BY <1>4, <1>6, <1>7, <1>8

LEMMA TakeKeeps ==
  ASSUME HInv, NEW w \in Workers, Take(w)
  PROVE  HInv'
<1>1. WorkersInv /\ WorkerInv(w)
  BY DEF HInv, WorkersInv
<1>2. PICK i \in Pending :
        /\ job' = [job EXCEPT ![w] = i]
        /\ outcome' = [outcome EXCEPT ![i].state = "running"]
  BY DEF Take
<1>3. /\ at[w] = "idle" /\ at' = [at EXCEPT ![w] = "copy"]
      /\ UNCHANGED <<level, read, fastest, error, dirs>>
      /\ UNCHANGED <<pc, turn, collected, rows, disk, sweep, found, repo>>
  BY DEF Take, fixed
<1> DEFINE o == [outcome[i] EXCEPT !.state = "running"]
<1>4. i \in DOMAIN outcome /\ outcome[i].state = "pending"
  BY DEF Pending
<1>5. o = [state |-> "running", tps |-> outcome[i].tps]
  BY <1>4 DEF HInv, ScriptInv
<1>6. outcome' = [outcome EXCEPT ![i] = o]
  BY <1>2
<1>7. Only(w) /\ at'[w] = "copy" /\ job'[w] = i
  BY <1>1, <1>2, <1>3 DEF Only, WorkersInv, PerWorker
<1>8. outcome'[i] = o /\ DOMAIN outcome' = DOMAIN outcome
  BY <1>4, <1>6
<1> HIDE DEF o
<1>9. o.state = "running" /\ o = [state |-> o.state, tps |-> o.tps]
  BY <1>5
<1>10. WorkerInv(w)'
  BY <1>1, <1>3, <1>4, <1>7, <1>8, <1>9 DEF WorkerInv
<1>11. \A v \in Workers \ {w} : at[v] # "idle" => job[v] # i
  BY <1>1, <1>4 DEF WorkersInv, WorkerInv
<1> QED
  BY <1>4, <1>6, <1>7, <1>9, <1>10, <1>11, OutcomeStep

LEMMA CleanUpKeeps ==
  ASSUME HInv, NEW w \in Workers, CleanUp(w)
  PROVE  HInv'
<1> DEFINE j == job[w]
           o == [state |-> IF error[w] THEN "raised" ELSE "value", tps |-> fastest[w]]
<1>1. WorkersInv /\ WorkerInv(w)
  BY DEF HInv, WorkersInv
<1>2. /\ at[w] = "clean" /\ at' = [at EXCEPT ![w] = "idle"]
      /\ outcome' = [outcome EXCEPT ![j] = o]
      /\ dirs' = [dirs EXCEPT ![w] = NoFiles]
      /\ job' = [job EXCEPT ![w] = 1] /\ level' = [level EXCEPT ![w] = 1]
      /\ read' = [read EXCEPT ![w] = NoFiles]
      /\ fastest' = [fastest EXCEPT ![w] = 0] /\ error' = [error EXCEPT ![w] = FALSE]
      /\ UNCHANGED <<pc, turn, collected, rows, disk, sweep, found, repo>>
  BY DEF CleanUp, DirOf, fixed
<1>3. Only(w)
  BY <1>1, <1>2 DEF Only, WorkersInv, PerWorker
<1>4. j \in DOMAIN outcome /\ outcome[j].state = "running" /\ Cell(w) = Cells[j]
  BY <1>1, <1>2 DEF WorkerInv, Cell
<1>5. o.state = "value" => o.tps = Truth(Cells[j])
  BY <1>1, <1>2, <1>4 DEF WorkerInv
<1>6. /\ at'[w] = "idle" /\ level'[w] = 1 /\ fastest'[w] = 0 /\ error'[w] = FALSE
  BY <1>1, <1>2 DEF WorkersInv, PerWorker
<1>7. WorkerInv(w)'
  BY <1>6 DEF WorkerInv
<1>8. \A v \in Workers \ {w} : at[v] # "idle" => job[v] # j
  BY <1>1, <1>2 DEF WorkersInv
<1>9. o = [state |-> o.state, tps |-> o.tps]
  OBVIOUS
<1> HIDE DEF o, j
<1> QED
  BY <1>2, <1>3, <1>4, <1>5, <1>6, <1>7, <1>8, <1>9, OutcomeStep
-----------------------------------------------------------------------------
(* The steps of the script.                                                *)

\* The script leaves the workers alone, and what it is asked for.
LEMMA MainFrame ==
  ASSUME Main
  PROVE  UNCHANGED <<workers, sweep, found, repo>>
  BY DEF Main, Submit, Collect, CollectException, Drain, Tabulate, Write, fixed

\* While the platform stays and running jobs keep running, so do the workers.
LEMMA WorkersKept ==
  ASSUME WorkersInv, UNCHANGED <<workers, sweep>>,
         \A w \in Workers : at[w] # "idle" =>
           turn' = turn /\ job[w] \in DOMAIN outcome' /\ outcome'[job[w]].state = "running"
  PROVE  WorkersInv'
<1>1. UNCHANGED <<at, job, level, read, fastest, error, dirs>>
  BY DEF workers
<1>2. ASSUME NEW w \in Workers PROVE WorkerInv(w)'
  <2>1. WorkerInv(w)
    BY DEF WorkersInv
  <2>2. CASE at[w] = "idle"
    BY <1>1, <2>1, <2>2 DEF WorkerInv
  <2>3. CASE at[w] # "idle"
    BY <1>1, <2>1, <2>3, OtherWorker
  <2> QED
    BY <2>2, <2>3
<1> QED
  BY <1>1, <1>2 DEF WorkersInv, PerWorker

\* No worker is on a cell when there are no jobs, or when every result is taken.
LEMMA AllIdle ==
  ASSUME WorkersInv, ScriptInv,
         outcome = << >> \/ collected = DOMAIN outcome
  PROVE  \A w \in Workers : at[w] = "idle"
<1> SUFFICES ASSUME NEW w \in Workers, at[w] # "idle" PROVE FALSE
  OBVIOUS
<1>1. job[w] \in DOMAIN outcome /\ outcome[job[w]].state = "running"
  BY DEF WorkersInv, WorkerInv
<1>2. outcome # << >>
  <2>1. \A x : x \notin DOMAIN << >>
    OBVIOUS
  <2> QED
    BY <1>1, <2>1
<1>3. job[w] \in collected
  BY <1>1, <1>2
<1>4. outcome[job[w]].state = "value"
  BY <1>3 DEF ScriptInv
<1> QED
  BY <1>1, <1>4

\* What the asked-for platforms are.
LEMMA AskedPlatforms ==
  ASSUME ScriptInv
  PROVE  /\ sweep.asked \in Seq(Platforms) /\ Platform \in Platforms
         /\ Len(sweep.asked) \in Nat /\ DOMAIN sweep.asked = 1 .. Len(sweep.asked)
         /\ turn \in 1 .. Len(sweep.asked)
<1>1. sweep \in SweepType
  BY HarnessConstants DEF ScriptInv
<1>2. sweep.asked \in Seq(Platforms)
  BY <1>1 DEF SweepType
<1> QED
  BY <1>2, LenProperties, ElementOfSeq DEF ScriptInv, Platform

LEMMA SubmitKeeps ==
  ASSUME HInv, Submit
  PROVE  HInv'
<1> USE DEF HInv
<1>1. /\ pc = "submit" /\ pc' = "collect" /\ collected' = {}
      /\ outcome' = [i \in DOMAIN Cells |-> [state |-> "pending", tps |-> 0]]
      /\ UNCHANGED <<turn, rows, disk, sweep, found, repo, workers>>
  BY DEF Submit, fixed
<1>2. WorkersInv'
  BY <1>1, AllIdle, WorkersKept DEF ScriptInv
<1>3. Cells' = Cells
  BY <1>1 DEF Cells, Platform
<1>4. ScriptInv' /\ OwnResult'
  BY <1>1, <1>3 DEF ScriptInv, OwnResult
<1>5. TablesAreTrue'
  BY <1>1, TablesKept
<1> QED
  BY <1>2, <1>4, <1>5

LEMMA CollectKeeps ==
  ASSUME HInv, Collect \/ Drain
  PROVE  HInv'
<1> USE DEF HInv
<1>1. /\ UNCHANGED <<turn, outcome, rows, disk, sweep, found, repo, workers>>
      /\ pc \in {"collect", "drain"} /\ pc' \in {"collect", "drain", "failed"}
      /\ (pc' = "collect" => pc = "collect")
      /\ \A i \in collected' \ collected : i \in DOMAIN outcome /\ outcome[i].state = "value"
  BY DEF Collect, Drain, fixed
<1>2. WorkersInv'
  <2>1. \A w \in Workers : at[w] # "idle" =>
          job[w] \in DOMAIN outcome' /\ outcome'[job[w]].state = "running"
    BY <1>1 DEF WorkersInv, WorkerInv
  <2> QED
    BY <1>1, <2>1, WorkersKept
<1>3. Cells' = Cells
  BY <1>1 DEF Cells, Platform
<1>4. ScriptInv' /\ OwnResult'
  BY <1>1, <1>3, SameTables DEF ScriptInv, OwnResult
<1>5. TablesAreTrue'
  BY <1>1, TablesKept
<1> QED
  BY <1>2, <1>4, <1>5

\* Cancelling what no worker has touches no result and no running job.
LEMMA ExceptionKeeps ==
  ASSUME HInv, CollectException
  PROVE  HInv'
<1> USE DEF HInv
<1>1. /\ UNCHANGED <<turn, collected, rows, disk, sweep, found, repo, workers>>
      /\ pc = "collect" /\ pc' = "drain"
  BY DEF CollectException, fixed
<1>2. PICK kept \in {{}, {i \in Pending : \A k \in Pending : i <= k}} :
        outcome' = [i \in DOMAIN outcome |->
                      IF sweep.mode = "equal" /\ i \in Pending \ kept
                      THEN [outcome[i] EXCEPT !.state = "cancelled"] ELSE outcome[i]]
  BY DEF CollectException
<1>3. /\ DOMAIN outcome' = DOMAIN outcome
      /\ \A i \in DOMAIN outcome :
           \/ outcome'[i] = outcome[i]
           \/ /\ outcome[i].state = "pending"
              /\ outcome'[i] = [outcome[i] EXCEPT !.state = "cancelled"]
  BY <1>2 DEF Pending
<1>4. ASSUME NEW i \in DOMAIN outcome
      PROVE  /\ outcome'[i] = outcome[i] \/ (outcome[i].state = "pending"
                                               /\ outcome'[i].state = "cancelled")
             /\ outcome'[i] = [state |-> outcome'[i].state, tps |-> outcome'[i].tps]
  <2>1. outcome[i] = [state |-> outcome[i].state, tps |-> outcome[i].tps]
    BY DEF ScriptInv
  <2>2. CASE outcome'[i] = outcome[i]
    BY <2>1, <2>2
  <2>3. CASE /\ outcome[i].state = "pending"
             /\ outcome'[i] = [outcome[i] EXCEPT !.state = "cancelled"]
    <3>1. outcome'[i] = [state |-> "cancelled", tps |-> outcome[i].tps]
      BY <2>1, <2>3
    <3> QED
      BY <2>3, <3>1
  <2> QED
    BY <1>3, <2>2, <2>3
<1>5. WorkersInv'
  <2>1. ASSUME NEW w \in Workers, at[w] # "idle"
        PROVE  job[w] \in DOMAIN outcome' /\ outcome'[job[w]].state = "running"
    <3>1. job[w] \in DOMAIN outcome /\ outcome[job[w]].state = "running"
      BY <2>1 DEF WorkersInv, WorkerInv
    <3>2. outcome'[job[w]] = outcome[job[w]]
      BY <1>4, <3>1
    <3> QED
      BY <1>3, <3>1, <3>2
  <2> QED
    BY <1>1, <2>1, WorkersKept
<1>6. Cells' = Cells
  BY <1>1 DEF Cells, Platform
<1>7. OwnResult'
  BY <1>1, <1>3, <1>4, <1>6, SameTables DEF OwnResult
<1>8. ScriptInv'
  <2>1. outcome' = [i \in DOMAIN outcome' |->
                      [state |-> outcome'[i].state, tps |-> outcome'[i].tps]]
    <3>1. outcome' = [i \in DOMAIN outcome' |-> outcome'[i]]
      BY <1>2
    <3> QED
      BY <1>3, <1>4, <3>1
  <2>2. DOMAIN outcome' = DOMAIN Cells
    BY <1>1, <1>3 DEF ScriptInv
  <2>3. \A i \in collected' : i \in DOMAIN outcome' /\ outcome'[i].state = "value"
    BY <1>1, <1>3, <1>4 DEF ScriptInv
  <2> QED
    BY <1>1, <1>6, <2>1, <2>2, <2>3 DEF ScriptInv
<1>9. TablesAreTrue'
  BY <1>1, TablesKept
<1> QED
  BY <1>5, <1>7, <1>8, <1>9

\* Going on to the next platform, from a state in which this one's table is done.
LEMMA NextTurnFacts ==
  ASSUME ScriptInv, NextTurn, UNCHANGED sweep
  PROVE  /\ turn' \in DOMAIN sweep.asked
         /\ \/ turn' = turn + 1 /\ pc' = "submit"
            \/ turn' = turn /\ pc' = "end"
<1>1. /\ Len(sweep.asked) \in Nat /\ DOMAIN sweep.asked = 1 .. Len(sweep.asked)
      /\ turn \in 1 .. Len(sweep.asked)
  BY AskedPlatforms
<1> QED
  BY <1>1 DEF NextTurn

\* Platforms done and saved after such a step: this one is done, and saved if the
\* file was written with it.
LEMMA TurnsAfter ==
  ASSUME ScriptInv, NextTurn, UNCHANGED sweep, pc # "end"
  PROVE  /\ Done' = {n \in DOMAIN sweep.asked : n <= turn}
         /\ Saved' = {n \in DOMAIN sweep.asked : \E m \in DOMAIN sweep.asked :
                         n <= m /\ SavedAfter(m) /\ m <= turn}
<1>1. /\ DOMAIN sweep.asked \subseteq Nat /\ turn \in Nat
      /\ \A n \in DOMAIN sweep.asked : n \in Nat
  BY AskedPlatforms
<1>2. \/ turn' = turn + 1 /\ pc' = "submit"
      \/ turn' = turn /\ pc' = "end"
  BY NextTurnFacts
<1>3. \A n \in DOMAIN sweep.asked :
        (n < turn' \/ (n = turn' /\ pc' \in {"write", "end"})) <=> n <= turn
  BY <1>1, <1>2
<1>4. \A n \in DOMAIN sweep.asked :
        (n < turn' \/ (n = turn' /\ pc' = "end")) <=> n <= turn
  BY <1>1, <1>2
<1>5. Done' = {n \in DOMAIN sweep.asked : n <= turn}
  BY <1>3 DEF Done
<1>6. Saved' = {n \in DOMAIN sweep.asked : \E m \in DOMAIN sweep.asked :
                  n <= m /\ SavedAfter(m) /\ m <= turn}
  BY <1>4, SameTables DEF Saved
<1> QED
  BY <1>5, <1>6

\* The table of results that are all the cells' own is the true one.
LEMMA TabulateKeeps ==
  ASSUME HInv, Tabulate
  PROVE  HInv'
<1> USE DEF HInv
<1> DEFINE t == Table(Platform, [i \in DOMAIN outcome |-> outcome[i].tps])
<1>1. /\ pc = "collect" /\ collected = DOMAIN outcome
      /\ outcome' = << >> /\ collected' = {}
      /\ UNCHANGED <<disk, sweep, found, repo, workers>>
      /\ \/ pc' = "failed" /\ UNCHANGED <<turn, rows>>
         \/ /\ rows' = [rows EXCEPT ![Platform] = Entered(@, t)]
            /\ \/ SavedAfter(turn) /\ pc' = "write" /\ turn' = turn
               \/ ~SavedAfter(turn) /\ NextTurn
  BY DEF Tabulate, fixed
<1>2. WorkersInv'
  BY <1>1, AllIdle, WorkersKept
<1>3. /\ Platform \in Platforms /\ turn \in Nat /\ turn \in DOMAIN sweep.asked
      /\ Platform = sweep.asked[turn] /\ DOMAIN sweep.asked \subseteq Nat
  BY AskedPlatforms DEF Platform
<1>4. t = TrueTable(Platform)
  <2>1. DOMAIN outcome = DOMAIN Cells /\ Cells = sweep.cells[Platform]
    BY <1>1 DEF ScriptInv, Cells
  <2>2. \A i \in DOMAIN outcome : outcome[i].tps = Truth(Cells[i])
    BY <1>1 DEF ScriptInv, OwnResult
  <2>3. [i \in DOMAIN outcome |-> outcome[i].tps]
          = [i \in DOMAIN sweep.cells[Platform] |-> Truth(sweep.cells[Platform][i])]
    BY <2>1, <2>2
  <2> QED
    BY <2>3 DEF TrueTable
<1> HIDE DEF t
<1>5. OwnResult'
  BY <1>1 DEF OwnResult
<1>6. CASE pc' = "failed" /\ UNCHANGED <<turn, rows>>
  <2>1. ScriptInv'
    BY <1>1, <1>6 DEF ScriptInv
  <2>2. TablesAreTrue'
    BY <1>1, <1>6, TablesKept
  <2> QED
    BY <1>2, <1>5, <2>1, <2>2
<1>7. CASE /\ rows' = [rows EXCEPT ![Platform] = Entered(@, t)]
           /\ \/ SavedAfter(turn) /\ pc' = "write" /\ turn' = turn
              \/ ~SavedAfter(turn) /\ NextTurn
  <2>1. rows' = TablesAfter({n \in DOMAIN sweep.asked : n <= turn})
    <3>1. Done = {n \in DOMAIN sweep.asked : n < turn}
      BY <1>1 DEF Done
    <3>2. rows = TablesAfter({n \in DOMAIN sweep.asked : n < turn})
      BY <3>1 DEF TablesAreTrue
    <3>3. \A n \in DOMAIN sweep.asked : n <= turn <=> n < turn \/ n = turn
      BY <1>3
    <3>4. ASSUME NEW p \in Platforms, p # Platform
          PROVE  (\E n \in {m \in DOMAIN sweep.asked : m <= turn} : sweep.asked[n] = p)
                   <=> \E n \in {m \in DOMAIN sweep.asked : m < turn} : sweep.asked[n] = p
      BY <1>3, <3>3, <3>4
    <3>5. \E n \in {m \in DOMAIN sweep.asked : m <= turn} : sweep.asked[n] = Platform
      BY <1>3, <3>3
    <3>6. rows[Platform] = found[Platform] \/ rows[Platform] = TableAfter(Platform)
      BY <1>3, <3>2 DEF TablesAfter
    <3>7. Entered(rows[Platform], t) = TableAfter(Platform)
      BY <1>3, <1>4, <3>6, EnteredIsAfter
    <3>8. rows' = [rows EXCEPT ![Platform] = TableAfter(Platform)]
      BY <1>7, <3>7
    <3> HIDE DEF HInv
    <3> QED
      BY <1>3, <3>2, <3>4, <3>5, <3>8 DEF TablesAfter
  <2>2. CASE SavedAfter(turn) /\ pc' = "write" /\ turn' = turn
    <3>1. ScriptInv'
      BY <1>1, <2>2, SameTables DEF ScriptInv
    <3>2. Done' = {n \in DOMAIN sweep.asked : n <= turn}
      BY <1>1, <1>3, <2>2 DEF Done
    <3>3. Saved' = Saved
      BY <1>1, <2>2, SameTables DEF Saved
    <3>4. TablesAreTrue'
      BY <1>1, <2>1, <3>2, <3>3, TableAfterSame DEF TablesAreTrue, TablesAfter
    <3> QED
      BY <1>2, <1>5, <3>1, <3>4
  <2>3. CASE ~SavedAfter(turn) /\ NextTurn
    <3>1. ScriptInv'
      BY <1>1, <2>3, NextTurnFacts DEF ScriptInv
    <3>2. /\ Done' = {n \in DOMAIN sweep.asked : n <= turn}
          /\ Saved' = {n \in DOMAIN sweep.asked : \E m \in DOMAIN sweep.asked :
                          n <= m /\ SavedAfter(m) /\ m <= turn}
      BY <1>1, <2>3, TurnsAfter
    <3>3. \A m \in DOMAIN sweep.asked : SavedAfter(m) /\ m <= turn <=> SavedAfter(m) /\ m < turn
      BY <1>3, <2>3
    <3>4. Saved' = Saved
      BY <1>1, <3>2, <3>3 DEF Saved
    <3>5. TablesAreTrue'
      BY <1>1, <2>1, <3>2, <3>4, TableAfterSame DEF TablesAreTrue, TablesAfter
    <3> QED
      BY <1>2, <1>5, <3>1, <3>5
  <2> QED
    BY <1>7, <2>2, <2>3
<1> QED
  BY <1>1, <1>6, <1>7

LEMMA WriteKeeps ==
  ASSUME HInv, Write
  PROVE  HInv'
<1> USE DEF HInv
<1>1. /\ pc = "write" /\ disk' = rows /\ NextTurn
      /\ UNCHANGED <<outcome, collected, rows, sweep, found, repo, workers>>
  BY DEF Write, fixed
<1>2. WorkersInv'
  BY <1>1, AllIdle, WorkersKept DEF ScriptInv
<1>3. ScriptInv' /\ OwnResult'
  BY <1>1, NextTurnFacts DEF ScriptInv, OwnResult
<1>4. turn \in Nat /\ turn \in DOMAIN sweep.asked /\ DOMAIN sweep.asked \subseteq Nat
      /\ SavedAfter(turn)
  BY <1>1, AskedPlatforms DEF ScriptInv
<1>5. Done = {n \in DOMAIN sweep.asked : n <= turn}
  BY <1>1, <1>4 DEF Done
<1>6. /\ Done' = {n \in DOMAIN sweep.asked : n <= turn}
      /\ Saved' = {n \in DOMAIN sweep.asked : \E m \in DOMAIN sweep.asked :
                      n <= m /\ SavedAfter(m) /\ m <= turn}
  BY <1>1, TurnsAfter
<1>7. \A n \in DOMAIN sweep.asked :
        (\E m \in DOMAIN sweep.asked : n <= m /\ SavedAfter(m) /\ m <= turn) <=> n <= turn
  BY <1>4
<1>8. Done' = Done /\ Saved' = Done
  BY <1>5, <1>6, <1>7
<1>9. TablesAreTrue'
  BY <1>1, <1>8, TableAfterSame DEF TablesAreTrue, TablesAfter
<1> QED
  BY <1>2, <1>3, <1>9
-----------------------------------------------------------------------------
(* The theorems.                                                           *)

LEMMA InitHInv ==
  ASSUME Init
  PROVE  HInv
<1>1. /\ sweep \in Sweeps /\ pc = "submit" /\ turn = 1 /\ outcome = << >> /\ collected = {}
      /\ rows = found /\ disk = found /\ repo = NoFiles
      /\ found \in Earlier
      /\ at = [w \in Workers |-> "idle"] /\ job = [w \in Workers |-> 1]
      /\ level = [w \in Workers |-> 1] /\ read = [w \in Workers |-> NoFiles]
      /\ fastest = [w \in Workers |-> 0] /\ error = [w \in Workers |-> FALSE]
      /\ dirs = [w \in Workers |-> NoFiles]
  BY DEF Init
<1>2. WorkersInv
  BY <1>1 DEF WorkersInv, WorkerInv, PerWorker
<1>3. turn \in DOMAIN sweep.asked
  <2>1. sweep.asked \in Seq(Platforms) /\ sweep.asked # << >>
    BY <1>1, HarnessConstants DEF SweepType
  <2> QED
    BY <1>1, <2>1, LenProperties, EmptySeq
<1>4. ScriptInv /\ OwnResult
  BY <1>1, <1>3 DEF ScriptInv, OwnResult
<1>5. \A n \in DOMAIN sweep.asked : ~(n < turn)
  <2>1. sweep.asked \in Seq(Platforms)
    BY <1>1, HarnessConstants DEF SweepType
  <2> QED
    BY <1>1, <2>1, LenProperties
<1>6. TablesAreTrue
  <2>1. Done = {} /\ Saved = {}
    BY <1>1, <1>5 DEF Done, Saved
  <2>2. TablesAfter({}) = found
    BY <1>1, HarnessConstants DEF TablesAfter
  <2> QED
    BY <1>1, <2>1, <2>2 DEF TablesAreTrue
<1> QED
  BY <1>2, <1>4, <1>6 DEF HInv

LEMMA NextHInv ==
  ASSUME HInv, [Next]_vars
  PROVE  HInv'
<1>1. CASE Main
  BY <1>1, SubmitKeeps, CollectKeeps, ExceptionKeeps, TabulateKeeps, WriteKeeps DEF Main
<1>2. ASSUME NEW w \in Workers, Work(w) PROVE HInv'
  BY <1>2, TakeKeeps, CopyKeeps, PatchKeeps, RewriteKeeps, StartKeeps, TimeOutKeeps,
     CleanUpKeeps DEF Work
<1>3. ASSUME NEW w \in Workers, EndLevel(w) PROVE HInv'
  BY <1>3, EndKeeps
<1>4. CASE UNCHANGED vars
  <2>1. UNCHANGED <<pc, turn, outcome, collected, rows, disk, sweep, found, repo, workers>>
    BY <1>4 DEF vars, fixed
  <2>2. WorkersInv'
    <3>1. \A w \in Workers : at[w] # "idle" =>
            job[w] \in DOMAIN outcome' /\ outcome'[job[w]].state = "running"
      BY <2>1 DEF HInv, WorkersInv, WorkerInv
    <3> QED
      BY <2>1, <3>1, WorkersKept DEF HInv
  <2>3. Cells' = Cells
    BY <2>1 DEF Cells, Platform
  <2>4. TablesAreTrue'
    BY <2>1, TablesKept DEF HInv
  <2> QED
    BY <2>1, <2>2, <2>3, <2>4, SameTables DEF HInv, ScriptInv, OwnResult
<1> QED
  BY <1>1, <1>2, <1>3, <1>4 DEF Next

\* The invariant of the script, its workers and their directories.
THEOREM HarnessInvariant == Spec => []HInv
  BY InitHInv, NextHInv, PTL DEF Spec

\* A job's result is what its own cell prints, at the faster of its levels, in
\* whatever order the workers run.
THEOREM ResultsAreOwn == Spec => []OwnResult
  BY HarnessInvariant, PTL DEF HInv

\* Whatever the file held: a table has the rows of a complete, undisturbed sweep, the
\* equal-footing table also the other rows found there, or it is as found; and the
\* file holds the tables of the sweeps it was saved after, and no other.
THEOREM TablesTrue == Spec => []TablesAreTrue
  BY HarnessInvariant, PTL DEF HInv
=============================================================================
