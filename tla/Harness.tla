------------------------------- MODULE Harness -------------------------------
(***************************************************************************)
(* The sweeps that run cells concurrently: the equal-footing table of      *)
(* run_paper_tables.py (a process pool, results taken in job order), its   *)
(* ShareGPT replay (a thread pool, results taken as they come) and the     *)
(* sweeps of sensitivity.py (a process pool each, results as they come,    *)
(* and the file saved after every sweep).  A worker copies the simulators  *)
(* into a temporary directory, patches the copy for its cell, runs it      *)
(* under a time limit, reads off the throughput and removes the directory. *)
(* A baseline runs itself once per KV reservation level and prints its     *)
(* faster run (kv_reserve_level).                                          *)
(*                                                                         *)
(* A file is the number of the cell it was patched for, 0 as in the        *)
(* repository.  A throughput is a number, 0 when none was printed.         *)
(***************************************************************************)
EXTENDS Integers, Sequences, FiniteSets, FiniteSetsExt

CONSTANTS
  Workers,          \* threads or processes of the pool
  Sweeps,           \* the sweeps the script may be asked for
  Earlier,          \* the tables, by platform, a file of earlier runs may hold
  Answer(_, _, _)   \* throughput of a script, files and reservation level

\* CPU-only, with the GPU; or the sweeps of sensitivity.py, one of which is made
\* of two ("mismatch", saved as a whole).
Platforms == 1 .. 3
CellType ==
  [id : Nat \ {0}, sim : STRING, kind : {"base", "dyn", "sem"}, row : Nat \ {0},
   point : Nat, rewritten : BOOLEAN, anchored : BOOLEAN, selfrun : BOOLEAN]
\* whole: the turns at which a sweep of sensitivity.py is complete.
SweepType ==
  [mode : {"equal", "replay", "sensitivity"}, cells : [Platforms -> Seq(CellType)],
   asked : Seq(Platforms), whole : SUBSET Nat]
Files  == [settings : Nat, script : Nat]
NoFiles == [settings |-> 0, script |-> 0]       \* an empty directory
States == {"pending", "running", "value", "raised", "cancelled"}

ASSUME HarnessConstants ==
  /\ Sweeps \subseteq SweepType
  /\ \A s \in Sweeps : s.asked # << >> /\ Len(s.asked) \in s.whole
  /\ \A f \in Earlier : f = [p \in Platforms |-> f[p]]

VARIABLES
  sweep,      \* what is run, fixed
  pc,         \* the script: "submit", "collect", "drain", "write", "end", "failed"
  turn,       \* position in sweep.asked
  outcome,    \* of every job of this platform: [state, tps]
  collected,  \* jobs whose result the script has taken
  rows,       \* the tables, by platform
  found,      \* the tables the file held when the script started
  disk,       \* the tables in equal_footing.json, or in sensitivity.json
  repo,       \* the repository's files
  at,         \* each worker: "idle", "copy", "patch", "rewrite", "start", "run", "clean"
  job,        \* ... the job it is on
  level,      \* ... the reservation level being run
  read,       \* ... the files that run has read
  fastest,    \* ... the best throughput of the levels run
  error,      \* ... whether an exception is on its way out
  dirs        \* the files in each worker's temporary directory

fixed   == <<sweep, found, repo>>
workers == <<at, job, level, read, fastest, error, dirs>>
vars == <<pc, turn, outcome, collected, rows, disk, fixed, workers>>

Platform == sweep.asked[turn]
Cells    == sweep.cells[Platform]
Cell(w)  == Cells[job[w]]
Larger(x, y) == IF x >= y THEN x ELSE y

\* tempfile makes a new directory for each cell.  In the mutant they all run in
\* one.
SharedDir(w) == CHOOSE d \in Workers : TRUE
DirOf(w) == w
-----------------------------------------------------------------------------
\* The files a cell asks for, and the levels it is run at.
FilesFor(c) == [settings |-> c.id, script |-> IF c.rewritten THEN c.id ELSE 0]
Levels(c) == IF c.selfrun THEN 2 ELSE 1
BestUpTo(c, files, n) ==
  CASE n = 0 -> 0
    [] n = 1 -> Larger(0, Answer(c.sim, files, 1))
    [] n = 2 -> Larger(Larger(0, Answer(c.sim, files, 1)), Answer(c.sim, files, 2))
Truth(c) == BestUpTo(c, FilesFor(c), Levels(c))

\* The table of platform p when job i answered tps[i]: the best of each kind in
\* each row.  A replayed prompt is scored only if both sides answered.
Kinds == IF sweep.mode = "equal" THEN {"base", "dyn", "sem"} ELSE {"base", "sem"}
BestOf(cells, tps, row, kind) ==
  Max({0} \cup {tps[i] : i \in {j \in DOMAIN cells :
                                  cells[j].row = row /\ cells[j].kind = kind}})
Scored(cells, tps, row) ==
  sweep.mode = "replay" => \A k \in Kinds : BestOf(cells, tps, row, k) > 0

\* In sensitivity.py a row needs every cell's answer, or it is None (all zeros).
Answered(cells, tps, row) ==
  \A i \in DOMAIN cells : cells[i].row = row => tps[i] > 0
Shown(cells, tps, row) == sweep.mode = "sensitivity" => Answered(cells, tps, row)

Table(p, tps) ==
  LET cells == sweep.cells[p]
  IN  [r \in {x \in {cells[i].row : i \in DOMAIN cells} : Scored(cells, tps, x)} |->
         [k \in Kinds |-> IF Shown(cells, tps, r) THEN BestOf(cells, tps, r, k) ELSE 0]]

\* Ratios against a baseline at 0, the median of no prompt, or the least speedup
\* of a point without a row raise.
Points(cells) == {cells[i].point : i \in DOMAIN cells}
NoRow(cells, t, point) ==
  \A i \in DOMAIN cells : cells[i].point = point => t[cells[i].row]["base"] = 0
TableRaises(p, t) ==
  CASE sweep.mode = "equal" -> \E r \in DOMAIN t : t[r]["base"] = 0 \/ t[r]["dyn"] = 0
    [] sweep.mode = "replay" -> DOMAIN t = {}
    [] sweep.mode = "sensitivity" ->
         \E point \in Points(sweep.cells[p]) : NoRow(sweep.cells[p], t, point)

\* When the file is saved: once, never, or after each whole sweep.
SavedAfter(n) ==
  CASE sweep.mode = "equal" -> n = Len(sweep.asked)
    [] sweep.mode = "replay" -> FALSE
    [] sweep.mode = "sensitivity" -> n \in sweep.whole
-----------------------------------------------------------------------------
Init ==
  /\ sweep \in Sweeps
  /\ pc = "submit" /\ turn = 1 /\ outcome = << >> /\ collected = {}
  /\ found \in Earlier
  /\ rows = found /\ disk = found
  /\ repo = NoFiles
  /\ at = [w \in Workers |-> "idle"] /\ job = [w \in Workers |-> 1]
  /\ level = [w \in Workers |-> 1] /\ read = [w \in Workers |-> NoFiles]
  /\ fastest = [w \in Workers |-> 0] /\ error = [w \in Workers |-> FALSE]
  /\ dirs = [w \in Workers |-> NoFiles]

Submit ==
  /\ pc = "submit"
  /\ outcome' = [i \in DOMAIN Cells |-> [state |-> "pending", tps |-> 0]]
  /\ collected' = {}
  /\ pc' = "collect"
  /\ UNCHANGED <<turn, rows, disk, fixed, workers>>

\* ex.map hands results over in job order, as_completed in any.
Takable(i) ==
  /\ i \in DOMAIN outcome \ collected
  /\ sweep.mode = "equal" => \A k \in DOMAIN outcome \ collected : i <= k
Collect ==
  /\ pc = "collect"
  /\ \E i \in DOMAIN outcome :
       /\ Takable(i) /\ outcome[i].state = "value"
       /\ collected' = collected \cup {i}
  /\ UNCHANGED <<pc, turn, outcome, rows, disk, fixed, workers>>

\* An exception in a job is raised where its result is taken.  ex.map cancels
\* what is not yet handed to a worker (one job may be queued ahead); either
\* pool is then left only when its last job has ended.
Pending == {i \in DOMAIN outcome : outcome[i].state = "pending"}
CollectException ==
  /\ pc = "collect"
  /\ \E i \in DOMAIN outcome : Takable(i) /\ outcome[i].state = "raised"
  /\ \E kept \in {{}, {i \in Pending : \A k \in Pending : i <= k}} :
       outcome' = [i \in DOMAIN outcome |->
                     IF sweep.mode = "equal" /\ i \in Pending \ kept
                     THEN [outcome[i] EXCEPT !.state = "cancelled"] ELSE outcome[i]]
  /\ pc' = "drain"
  /\ UNCHANGED <<turn, collected, rows, disk, fixed, workers>>

PoolEmpty == \A i \in DOMAIN outcome : outcome[i].state \notin {"pending", "running"}
Drain ==
  /\ pc = "drain" /\ PoolEmpty
  /\ pc' = "failed"
  /\ UNCHANGED <<turn, outcome, collected, rows, disk, fixed, workers>>

\* The script goes on to the next platform, or ends.
NextTurn ==
  LET last == turn = Len(sweep.asked)
  IN  /\ turn' = IF last THEN turn ELSE turn + 1
      /\ pc' = IF last THEN "end" ELSE "submit"

\* rows.update(t): the rows of t, and those of the file that t does not make.  A
\* sweep of sensitivity.py takes the place of its old table, data[n] = t.
Updated(old, t) ==
  [r \in DOMAIN old \cup DOMAIN t |-> IF r \in DOMAIN t THEN t[r] ELSE old[r]]
Entered(old, t) == IF sweep.mode = "equal" THEN Updated(old, t) ELSE t

\* The platform's table, from the results taken; then the file, if now it is saved.
Tabulate ==
  /\ pc = "collect" /\ collected = DOMAIN outcome
  /\ LET t == Table(Platform, [i \in DOMAIN outcome |-> outcome[i].tps])
     IN  /\ outcome' = << >> /\ collected' = {}
         /\ IF TableRaises(Platform, t)
            THEN pc' = "failed" /\ UNCHANGED <<turn, rows>>
            ELSE /\ rows' = [rows EXCEPT ![Platform] = Entered(@, t)]
                 /\ IF SavedAfter(turn) THEN pc' = "write" /\ UNCHANGED turn ELSE NextTurn
  /\ UNCHANGED <<disk, fixed, workers>>

Write ==
  /\ pc = "write"
  /\ disk' = rows
  /\ NextTurn
  /\ UNCHANGED <<outcome, collected, rows, fixed, workers>>
-----------------------------------------------------------------------------
\* The pool's queue is first in, first out.
Take(w) ==
  /\ at[w] = "idle"
  /\ \E i \in Pending :
       /\ \A k \in Pending : i <= k
       /\ job' = [job EXCEPT ![w] = i]
       /\ outcome' = [outcome EXCEPT ![i].state = "running"]
  /\ at' = [at EXCEPT ![w] = "copy"]
  /\ UNCHANGED <<pc, turn, collected, rows, disk, fixed, level, read, fastest, error, dirs>>

CopyFiles(w) ==
  /\ at[w] = "copy"
  /\ dirs' = [dirs EXCEPT ![DirOf(w)] = repo]
  /\ at' = [at EXCEPT ![w] = "patch"]
  /\ UNCHANGED <<pc, turn, outcome, collected, rows, disk, fixed, job, level, read,
                 fastest, error>>

\* patch: the settings are written before the anchors are asserted.
Patch(w) ==
  /\ at[w] = "patch"
  /\ dirs' = [dirs EXCEPT ![DirOf(w)].settings = Cell(w).id]
  /\ at' = [at EXCEPT ![w] = "rewrite"]
  /\ UNCHANGED <<pc, turn, outcome, collected, rows, disk, fixed, job, level, read,
                 fastest, error>>

\* The simulator's own rewrites, or in sensitivity.py those of tiers.py; one whose
\* anchor has drifted is an error.
Rewritten(w) ==
  /\ at[w] = "rewrite"
  /\ IF Cell(w).anchored
     THEN /\ dirs' = [dirs EXCEPT ![DirOf(w)].script =
                        IF Cell(w).rewritten THEN Cell(w).id ELSE @]
          /\ at' = [at EXCEPT ![w] = "start"] /\ UNCHANGED error
     ELSE /\ at' = [at EXCEPT ![w] = "clean"]
          /\ error' = [error EXCEPT ![w] = TRUE] /\ UNCHANGED dirs
  /\ UNCHANGED <<pc, turn, outcome, collected, rows, disk, fixed, job, level, read,
                 fastest>>
Rewrite(w) == sweep.mode # "sensitivity" /\ Rewritten(w)
RewriteTiers(w) == sweep.mode = "sensitivity" /\ Rewritten(w)

\* The run of one level starts in the directory, and reads the files there.
StartLevel(w) ==
  /\ at[w] = "start"
  /\ read' = [read EXCEPT ![w] = dirs[DirOf(w)]]
  /\ at' = [at EXCEPT ![w] = "run"]
  /\ UNCHANGED <<pc, turn, outcome, collected, rows, disk, fixed, job, level, fastest,
                 error, dirs>>

\* It ends: the other level, or the faster of the two is what the cell prints.
EndLevel(w) ==
  /\ at[w] = "run"
  /\ fastest' = [fastest EXCEPT ![w] = Larger(@, Answer(Cell(w).sim, read[w], level[w]))]
  /\ IF level[w] < Levels(Cell(w))
     THEN level' = [level EXCEPT ![w] = @ + 1] /\ at' = [at EXCEPT ![w] = "start"]
     ELSE at' = [at EXCEPT ![w] = "clean"] /\ UNCHANGED level
  /\ UNCHANGED <<pc, turn, outcome, collected, rows, disk, fixed, job, read, error, dirs>>

\* 900 s for the cell, 1800 in sensitivity.py: the process is killed and
\* TimeoutExpired raised.  The first mutant takes it as a cell that printed nothing;
\* the second has no limit.
ExpiresQuietly(w) == FALSE
Raised(w) == TRUE
NoLimit(w) == FALSE
TimeLimit(w) == at[w] \in {"start", "run"}
TimeOut(w) ==
  /\ TimeLimit(w)
  /\ at' = [at EXCEPT ![w] = "clean"]
  /\ fastest' = [fastest EXCEPT ![w] = 0]
  /\ error' = [error EXCEPT ![w] = Raised(w)]
  /\ UNCHANGED <<pc, turn, outcome, collected, rows, disk, fixed, job, level, read, dirs>>

\* The directory is removed whichever way the cell ends; the worker's variables
\* are those of the next call.
CleanUp(w) ==
  /\ at[w] = "clean"
  /\ dirs' = [dirs EXCEPT ![DirOf(w)] = NoFiles]
  /\ outcome' = [outcome EXCEPT ![job[w]] =
                   [state |-> IF error[w] THEN "raised" ELSE "value",
                    tps |-> fastest[w]]]
  /\ at' = [at EXCEPT ![w] = "idle"]
  /\ job' = [job EXCEPT ![w] = 1] /\ level' = [level EXCEPT ![w] = 1]
  /\ read' = [read EXCEPT ![w] = NoFiles]
  /\ fastest' = [fastest EXCEPT ![w] = 0] /\ error' = [error EXCEPT ![w] = FALSE]
  /\ UNCHANGED <<pc, turn, collected, rows, disk, fixed>>

Work(w) ==
  \/ Take(w) \/ CopyFiles(w) \/ Patch(w) \/ Rewrite(w)
  \/ RewriteTiers(w) \/ StartLevel(w) \/ TimeOut(w) \/ CleanUp(w)

Main ==
  \/ Submit \/ Collect \/ CollectException \/ Drain \/ Tabulate \/ Write

Next ==
  \/ Main
  \/ \E w \in Workers : Work(w)
  \/ \E w \in Workers : EndLevel(w)

\* The script and its workers go on, and the time limit runs out; a simulator
\* need not end by itself.
Fairness == WF_vars(Main) /\ \A w \in Workers : WF_vars(Work(w))
Spec == Init /\ [][Next]_vars /\ Fairness
-----------------------------------------------------------------------------
\* A job's result is what its own cell prints, at the faster of its levels, in
\* whatever order the workers run: "Each cell runs in a temporary directory
\* holding a private copy of the simulator" (run_paper_tables.py:9-11).
OwnResult ==
  \A i \in DOMAIN outcome :
    outcome[i].state = "value" => outcome[i].tps = Truth(Cells[i])

\* A sweep's rows are those of a complete, undisturbed sweep: a cell that timed out
\* or drifted costs the run, never a wrong row.  Every other row is what the file
\* held: the equal-footing table is merged into it row by row, so rows of another
\* grid stay, while a sweep of sensitivity.py leaves no row of its old table.  The
\* file changes once, when every platform asked for has its table
\* (run_paper_tables.py:625-630); that of sensitivity.py after every sweep
\* (sensitivity.py:190), so a failure loses only the sweep it is in.
TrueTable(p) == Table(p, [i \in DOMAIN sweep.cells[p] |-> Truth(sweep.cells[p][i])])
KeptRows(p) == IF sweep.mode = "equal" THEN DOMAIN found[p] \ DOMAIN TrueTable(p) ELSE {}
TableAfter(p) ==
  [r \in KeptRows(p) \cup DOMAIN TrueTable(p) |->
     IF r \in KeptRows(p) THEN found[p][r] ELSE TrueTable(p)[r]]
TablesAfter(turns) ==
  [p \in Platforms |-> IF \E n \in turns : sweep.asked[n] = p THEN TableAfter(p) ELSE found[p]]
Done ==
  {n \in DOMAIN sweep.asked : n < turn \/ (n = turn /\ pc \in {"write", "end"})}
Saved ==
  {n \in DOMAIN sweep.asked : \E m \in DOMAIN sweep.asked :
     n <= m /\ SavedAfter(m) /\ (m < turn \/ (m = turn /\ pc = "end"))}
TablesAreTrue == rows = TablesAfter(Done) /\ disk = TablesAfter(Saved)

\* The inductive invariant behind the two.  A worker on a cell is the only one, its
\* directory holds what it has written so far, and its best throughput is that of
\* the levels run so far;
WorkerInv(w) ==
  /\ at[w] \in {"idle", "copy", "patch", "rewrite", "start", "run", "clean"}
  /\ at[w] # "idle" => job[w] \in DOMAIN outcome /\ outcome[job[w]].state = "running"
  /\ at[w] \in {"idle", "copy", "patch", "rewrite"} => level[w] = 1 /\ fastest[w] = 0
  /\ error[w] \in BOOLEAN /\ (error[w] => at[w] = "clean")
  /\ at[w] = "patch" => dirs[w] = NoFiles
  /\ at[w] = "rewrite" => dirs[w] = [settings |-> Cell(w).id, script |-> 0]
  /\ at[w] \in {"start", "run"} =>
       /\ dirs[w] = FilesFor(Cell(w))
       /\ level[w] \in 1 .. Levels(Cell(w))
       /\ fastest[w] = BestUpTo(Cell(w), FilesFor(Cell(w)), level[w] - 1)
  /\ at[w] = "run" => read[w] = dirs[w]
  /\ at[w] = "clean" /\ ~error[w] => fastest[w] = Truth(Cell(w))

PerWorker(f) == f = [w \in Workers |-> f[w]]

WorkersInv ==
  /\ \A w \in Workers : WorkerInv(w)
  /\ \A v, w \in Workers :
       v # w /\ at[v] # "idle" /\ at[w] # "idle" => job[v] # job[w]
  /\ PerWorker(at) /\ PerWorker(job) /\ PerWorker(level) /\ PerWorker(read)
  /\ PerWorker(fastest) /\ PerWorker(error) /\ PerWorker(dirs)

\* and the script takes only results of its platform's cells.
ScriptInv ==
  /\ sweep \in Sweeps /\ repo = NoFiles /\ turn \in DOMAIN sweep.asked
  /\ pc \in {"submit", "collect", "drain", "write", "end", "failed"}
  /\ outcome = [i \in DOMAIN outcome |-> [state |-> outcome[i].state, tps |-> outcome[i].tps]]
  /\ pc \in {"submit", "write", "end"} => outcome = << >>
  /\ pc = "write" => SavedAfter(turn)
  /\ outcome # << >> => DOMAIN outcome = DOMAIN Cells
  /\ pc = "collect" => DOMAIN outcome = DOMAIN Cells
  /\ \A i \in collected : i \in DOMAIN outcome /\ outcome[i].state = "value"

HInv == WorkersInv /\ ScriptInv /\ OwnResult /\ TablesAreTrue

\* Whatever the simulators do, hang included, the script returns, with no
\* temporary directory left (the time limits of run_paper_tables.py:490 and
\* sensitivity.py:74).
Returns ==
  <>[](pc \in {"end", "failed"} /\ \A w \in Workers : dirs[w] = NoFiles)
=============================================================================
