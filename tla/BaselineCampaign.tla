-------------------------- MODULE BaselineCampaign --------------------------
(***************************************************************************)
(* The external-baseline campaign (run_external_baseline_campaign.py): the *)
(* matrices are dealt to the GPUs by size, one thread per GPU runs every   *)
(* baseline on every matrix of its shard as a child process with a time    *)
(* limit, and appends a row to the GPU's shard file after each.  When all  *)
(* threads have returned their rows, main writes combined.csv and then the *)
(* two summaries, and each file is empty from its opening to its writing.  *)
(*                                                                         *)
(* A shard file has a durable part and the part still in the writer's      *)
(* buffer.  The process may be killed at any time and the campaign be      *)
(* started again in the same directory; files, unlike rows in memory,      *)
(* survive.  The file has the name of the GPU: a GPU named twice has two   *)
(* workers that truncate one file and write it each at an offset of its    *)
(* own, a row in the place of a row.  The matrix ids are distinct.         *)
(***************************************************************************)
EXTENDS Integers, SequencesExt

CONSTANTS
  Plans,               \* what a command line may ask for: a matrix list,
                       \* matrices named by their order, the sequence of
                       \* the baselines, and the GPU of each worker;
                       \* bound: campaigns started with it
  FileSize,            \* [matrix -> bytes]
  Gpus,                \* the workers: positions in the list of GPUs
  MaxLosses            \* bound: matrix files that vanish

ASSUME CampaignAssumption ==
  /\ \A p \in Plans : /\ p.matrices \subseteq DOMAIN FileSize
                      /\ p.baselines \in Seq(STRING) /\ DOMAIN p.gpus = Gpus /\ p.runs \in Nat
  /\ DOMAIN FileSize \subseteq Nat /\ \A m \in DOMAIN FileSize : FileSize[m] \in Nat
  /\ Gpus = 1 .. Cardinality(Gpus) /\ Gpus # {}
  /\ MaxLosses \in Nat

VARIABLES
  plan,        \* of the command line
  main,        \* where main() is
  run,         \* campaigns started
  exists,      \* matrix files present
  sizes,       \* [matrix -> size by which it is sorted], as far as read
  dealt,       \* [worker -> shard of <<matrix, size then found>>]
  checked,     \* the matrix found to exist whose size is read next, or 0
  pc,          \* [worker -> where run_worker is]
  todo,        \* [worker -> matrices still to do]
  current,     \* [worker -> matrix being run]
  left,        \* [worker -> baselines still to run on it]
  rows,        \* [worker -> rows in memory]
  buffer,      \* [worker -> rows written to the csv but not flushed]
  shard,       \* [GPU -> the shard file: run that opened it, durable rows]
  logged,      \* [worker -> rows announced as DONE in the log file]
  waiting,     \* futures main has not taken yet
  all_rows,    \* sequence of the rows main has taken
  combined,    \* combined.csv: run that opened it, bag of rows
  summary,     \* summary.csv: run that opened it, [baseline -> rows that
               \* are ok], [baseline -> rows]
  matrix_summary \* matrix_summary.csv: run that opened it, [matrix ->
                 \* [baseline -> status]]

workerVars == <<pc, todo, current, left, rows, buffer, shard, logged>>
reports    == <<combined, summary, matrix_summary>>
dealing    == <<sizes, dealt, checked>>
mainVars   == <<main, run, dealing, waiting, all_rows, reports>>
files == <<plan, exists>>
vars == <<mainVars, files, workerVars>>

Matrices  == plan.matrices
Baselines == plan.baselines

\* The GPUs by name, and the one a worker was given.
Names    == Range(plan.gpus)
Gpu(g)   == plan.gpus[g]

-----------------------------------------------------------------------------
(* Sharding: the size of every matrix is read to sort the list, and once   *)
(* more when the matrix is dealt.  Either time it is first asked whether   *)
(* the file exists, and a file that has gone when its size is read raises. *)

\* Largest first, by name from the end where sizes are equal.
InOrder ==
  SetToSortSeq(Matrices, LAMBDA a, b : sizes[a] > sizes[b] \/ (sizes[a] = sizes[b] /\ a > b))

SumOf(s) == FoldSeq(LAMBDA n, sum : n + sum, 0, s)

Total(items) == FoldSeq(LAMBDA e, sum : e[2] + sum, 0, items)

\* Fault: the shard with the fewest matrices gets the next.
ShortestShard(shards) ==
  CHOOSE g \in Gpus : \A h \in Gpus :
    \/ Len(shards[g]) < Len(shards[h])
    \/ Len(shards[g]) = Len(shards[h]) /\ g <= h

\* The first of the shards with the smallest total.
LightestShard(shards) ==
  CHOOSE g \in Gpus : \A h \in Gpus :
    \/ Total(shards[g]) < Total(shards[h])
    \/ Total(shards[g]) = Total(shards[h]) /\ g <= h

\* The matrices whose turn it may be: in the order of the list, which may be
\* any, and then sorted.
Turns ==
  IF DOMAIN sizes # Matrices THEN Matrices \ DOMAIN sizes
  ELSE {InOrder[i] : i \in {SumOf([g \in Gpus |-> Len(dealt[g])]) + 1} \cap DOMAIN InOrder}

\* A size was read: the key of the sorting, or the load of a shard.
Take(m, size) ==
  IF m \notin DOMAIN sizes
  THEN sizes' = (m :> size) @@ sizes /\ UNCHANGED dealt
  ELSE /\ dealt' = [dealt EXCEPT ![LightestShard(dealt)] = Append(@, <<m, size>>)]
       /\ UNCHANGED sizes

\* A file that does not exist counts as empty.
CheckExists ==
  /\ main = "dealing" /\ checked = 0
  /\ \E m \in Turns :
       IF m \in exists THEN checked' = m /\ UNCHANGED <<sizes, dealt>>
       ELSE Take(m, 0) /\ UNCHANGED checked
  /\ UNCHANGED <<main, run, waiting, all_rows, reports, files, workerVars>>

\* stat() of the file found a moment ago; no worker has started when it raises.
Stat ==
  /\ main = "dealing" /\ checked # 0
  /\ IF checked \in exists THEN Take(checked, FileSize[checked]) /\ UNCHANGED main
     ELSE main' = "failed" /\ UNCHANGED <<sizes, dealt>>
  /\ checked' = 0
  /\ UNCHANGED <<run, waiting, all_rows, reports, files, workerVars>>

-----------------------------------------------------------------------------
Init ==
  /\ plan \in Plans
  /\ main = "new" /\ run = 0
  /\ exists = Matrices
  /\ sizes = <<>> /\ dealt = [g \in Gpus |-> <<>>] /\ checked = 0
  /\ pc = [g \in Gpus |-> "new"]
  /\ todo = [g \in Gpus |-> <<>>] /\ current = [g \in Gpus |-> 0]
  /\ left = [g \in Gpus |-> <<>>]
  /\ rows = [g \in Gpus |-> <<>>] /\ buffer = [g \in Gpus |-> <<>>]
  /\ shard = [f \in Names |-> [run |-> 0, rows |-> <<>>]]
  /\ logged = [g \in Gpus |-> {}]
  /\ waiting = {} /\ all_rows = <<>>
  /\ combined = [run |-> 0, rows |-> EmptyBag]
  /\ summary = [run |-> 0, ok |-> <<>>, total |-> <<>>]
  /\ matrix_summary = [run |-> 0, statuses |-> <<>>]

\* How often each row occurs.
BagOf(s) == [r \in Range(s) |-> Cardinality({i \in DOMAIN s : s[i] = r})]

Row(m, b, status) == [matrix |-> m, baseline |-> b, status |-> status, run |-> run]

\* What only the memory of a process holds.
Afresh ==
  /\ sizes' = <<>> /\ dealt' = [g \in Gpus |-> <<>>] /\ checked' = 0
  /\ pc' = [g \in Gpus |-> "new"]
  /\ todo' = [g \in Gpus |-> <<>>] /\ current' = [g \in Gpus |-> 0]
  /\ left' = [g \in Gpus |-> <<>>]
  /\ rows' = [g \in Gpus |-> <<>>] /\ buffer' = [g \in Gpus |-> <<>>]
  /\ waiting' = {} /\ all_rows' = <<>>

Start ==
  /\ main \in {"new", "done", "failed", "dead"} /\ run < plan.runs
  /\ main' = "dealing" /\ run' = run + 1
  /\ Afresh
  /\ UNCHANGED <<files, shard, logged, reports>>

AllDealt == main = "dealing" /\ checked = 0 /\ Turns = {}

\* One worker per GPU.  The sizes were balance_shards' own.
Submit ==
  /\ AllDealt
  /\ main' = "running"
  /\ todo' = [g \in Gpus |-> [i \in DOMAIN dealt[g] |-> dealt[g][i][1]]]
  /\ pc' = [g \in Gpus |-> "submitted"]
  /\ waiting' = Gpus
  /\ sizes' = <<>> /\ dealt' = [g \in Gpus |-> <<>>]
  /\ UNCHANGED <<run, checked, all_rows, reports, files, current, left, rows, buffer, shard, logged>>

-----------------------------------------------------------------------------
(* run_worker *)

\* The csv is emptied, then the log.
OpenCsv(g) ==
  /\ pc[g] = "submitted"
  /\ shard' = [shard EXCEPT ![Gpu(g)] = [run |-> run, rows |-> <<>>]]
  /\ pc' = [pc EXCEPT ![g] = "csv"]
  /\ UNCHANGED <<mainVars, files, todo, current, left, rows, buffer, logged>>

OpenLog(g) ==
  /\ pc[g] = "csv"
  /\ logged' = [logged EXCEPT ![g] = {}]
  /\ pc' = [pc EXCEPT ![g] = "idle"]
  /\ UNCHANGED <<mainVars, files, todo, current, left, rows, buffer, shard>>

\* Fault: one row stands for all baselines.
FirstMissingRow(m) == <<Row(m, Baselines[1], "missing_matrix")>>

MissingRows(m) == [i \in DOMAIN Baselines |-> Row(m, Baselines[i], "missing_matrix")]

\* A matrix that is not there gets its rows at once, and they stay in the
\* buffer; the baselines are run on one that is there.
NextMatrix(g) ==
  /\ pc[g] = "idle" /\ left[g] = <<>> /\ todo[g] # <<>>
  /\ todo' = [todo EXCEPT ![g] = Tail(@)]
  /\ LET m == Head(todo[g]) IN
     IF m \in exists
     THEN /\ current' = [current EXCEPT ![g] = m]
          /\ left' = [left EXCEPT ![g] = Baselines]
          /\ UNCHANGED <<rows, buffer>>
     ELSE /\ buffer' = [buffer EXCEPT ![g] = @ \o MissingRows(m)]
          /\ rows' = [rows EXCEPT ![g] = @ \o MissingRows(m)]
          /\ UNCHANGED <<current, left>>
  /\ UNCHANGED <<mainVars, files, pc, shard, logged>>

Launch(g) ==
  /\ pc[g] = "idle" /\ left[g] # <<>>
  /\ pc' = [pc EXCEPT ![g] = "child"]
  /\ UNCHANGED <<mainVars, files, todo, current, left, rows, buffer, shard, logged>>

\* What a hole in a file reads as.
Hole == [matrix |-> 0, baseline |-> "", status |-> "", run |-> 0]

\* Rows written at an offset: over what is there, or behind its end.
WrittenAt(content, offset, new) ==
  IF new = <<>> THEN content
  ELSE [i \in 1 .. Max({Len(content), offset + Len(new)}) |->
          IF i \in offset + 1 .. offset + Len(new) THEN new[i - offset]
          ELSE IF i \in DOMAIN content THEN content[i] ELSE Hole]

\* A worker's file descriptor stands behind the rows it flushed itself.
Flushed(g, new) ==
  [shard EXCEPT ![Gpu(g)].rows = WrittenAt(@, Len(rows[g]) - Len(buffer[g]), buffer[g] \o new)]

\* Leaving the with block, by the end or by an exception, flushes the csv.
Close(g, how) ==
  /\ shard' = Flushed(g, <<>>)
  /\ buffer' = [buffer EXCEPT ![g] = <<>>]
  /\ pc' = [pc EXCEPT ![g] = how]

\* The baseline's binary is not there.
LaunchFails(g) ==
  /\ pc[g] = "idle" /\ left[g] # <<>>
  /\ Close(g, "raised")
  /\ UNCHANGED <<mainVars, files, todo, current, left, rows, logged>>

\* Fault: the row stays in the buffer.
KeepInBuffer(g, row) ==
  /\ buffer' = [buffer EXCEPT ![g] = Append(@, row)]
  /\ UNCHANGED shard

\* writerow and flush.
WriteAndFlush(g, row) ==
  /\ shard' = Flushed(g, <<row>>)
  /\ buffer' = [buffer EXCEPT ![g] = <<>>]

Record(g, status) ==
  LET row == Row(current[g], Head(left[g]), status) IN
  /\ WriteAndFlush(g, row)
  /\ rows' = [rows EXCEPT ![g] = Append(@, row)]
  /\ pc' = [pc EXCEPT ![g] = "row"]
  /\ UNCHANGED <<mainVars, files, todo, current, left, logged>>

\* The child ends in time: its output can be parsed and it returned 0, or not.
ChildEnds(g) == pc[g] = "child" /\ \E status \in {"ok", "fail"} : Record(g, status)

\* The child's output is not text that can be decoded.
OutputUnreadable(g) ==
  /\ pc[g] = "child"
  /\ Close(g, "raised")
  /\ UNCHANGED <<mainVars, files, todo, current, left, rows, logged>>

\* Fault: no time limit.
TimeLimitOff(g) == FALSE

TimeLimit(g) == pc[g] = "child"

\* The child is killed: return code 124.
TimesOut(g) == TimeLimit(g) /\ Record(g, "fail")

LogDone(g) ==
  /\ pc[g] = "row"
  /\ logged' = [logged EXCEPT ![g] = @ \cup {Last(rows[g])}]
  /\ left' = [left EXCEPT ![g] = Tail(@)]
  /\ pc' = [pc EXCEPT ![g] = "idle"]
  /\ UNCHANGED <<mainVars, files, todo, current, rows, buffer, shard>>

WorkerReturns(g) ==
  /\ pc[g] = "idle" /\ left[g] = <<>> /\ todo[g] = <<>>
  /\ Close(g, "returned")
  /\ UNCHANGED <<mainVars, files, todo, current, left, rows, logged>>

-----------------------------------------------------------------------------
(* main *)

AllEnded == \A g \in Gpus : pc[g] \in {"returned", "raised"}

\* Fault: combined.csv is written as the workers return.
ExtendAndWrite(g) ==
  /\ all_rows' = all_rows \o rows[g]
  /\ combined' = [run |-> run, rows |-> BagOf(all_rows')]
  /\ UNCHANGED <<summary, matrix_summary>>

Extend(g) == all_rows' = all_rows \o rows[g] /\ UNCHANGED reports

\* as_completed yields a future; its exception leaves the loop.
Collect(g) ==
  /\ main = "running" /\ g \in waiting
  /\ \/ /\ pc[g] = "returned"
        /\ Extend(g)
        /\ waiting' = waiting \ {g}
        /\ main' = IF waiting = {g} THEN "collected" ELSE main
     \/ /\ pc[g] = "raised"
        /\ main' = "unwinding"
        /\ UNCHANGED <<all_rows, waiting, reports>>
  /\ UNCHANGED <<run, dealing, files, workerVars>>

\* The executor is shut down: the workers still running finish first.
Fail ==
  /\ main = "unwinding" /\ AllEnded
  /\ main' = "failed"
  /\ UNCHANGED <<run, dealing, waiting, all_rows, reports, files, workerVars>>

OpenCombined ==
  /\ main = "collected" /\ AllEnded
  /\ combined' = [run |-> run, rows |-> EmptyBag]
  /\ main' = "combining"
  /\ UNCHANGED <<summary, matrix_summary>>

WriteCombined ==
  /\ main = "combining"
  /\ combined' = [combined EXCEPT !.rows = BagOf(all_rows)]
  /\ main' = "combined"
  /\ UNCHANGED <<summary, matrix_summary>>

\* Rows of a baseline, and the baselines that have any.
by_baseline(b) == SelectSeq(all_rows, LAMBDA row : row.baseline = b)
baselines      == {row.baseline : row \in Range(all_rows)}

OpenSummary ==
  /\ main = "combined"
  /\ summary' = [run |-> run, ok |-> <<>>, total |-> <<>>]
  /\ main' = "summarising"
  /\ UNCHANGED <<combined, matrix_summary>>

\* write_summary, without the times.
WriteSummary ==
  /\ main = "summarising"
  /\ summary' =
       [run   |-> run,
        ok    |-> [b \in baselines |->
                     Len(SelectSeq(by_baseline(b), LAMBDA row : row.status = "ok"))],
        total |-> [b \in baselines |-> Len(by_baseline(b))]]
  /\ main' = "summarised"
  /\ UNCHANGED <<combined, matrix_summary>>

OpenMatrixSummary ==
  /\ main = "summarised"
  /\ matrix_summary' = [run |-> run, statuses |-> <<>>]
  /\ main' = "tabulating"
  /\ UNCHANGED <<combined, summary>>

\* write_matrix_summary: each matrix has the status of its last row of a
\* baseline, "missing" where it has none.
WriteMatrixSummary ==
  /\ main = "tabulating"
  /\ matrix_summary' =
       [matrix_summary EXCEPT !.statuses =
          [m \in {row.matrix : row \in Range(all_rows)} |->
             [b \in baselines |->
                LET mine == SelectSeq(by_baseline(b), LAMBDA row : row.matrix = m)
                IN  IF mine = <<>> THEN "missing" ELSE Last(mine).status]]]
  /\ main' = "done"
  /\ UNCHANGED <<combined, summary>>

Report ==
  /\ OpenCombined \/ WriteCombined \/ OpenSummary \/ WriteSummary
     \/ OpenMatrixSummary \/ WriteMatrixSummary
  /\ UNCHANGED <<run, dealing, waiting, all_rows, files, workerVars>>

-----------------------------------------------------------------------------
(* What happens to the process and the files. *)

Killed ==
  /\ main \notin {"new", "done", "failed", "dead"}
  /\ main' = "dead"
  /\ Afresh
  /\ UNCHANGED <<run, files, shard, logged, reports>>

FileVanishes ==
  /\ Cardinality(Matrices \ exists) < MaxLosses
  /\ \E m \in exists : exists' = exists \ {m}
  /\ UNCHANGED <<plan, mainVars, workerVars>>

Worker(g) ==
  \/ OpenCsv(g) \/ OpenLog(g) \/ NextMatrix(g) \/ Launch(g) \/ LaunchFails(g)
  \/ TimesOut(g) \/ LogDone(g) \/ WorkerReturns(g)

Main ==
  \/ CheckExists \/ Stat \/ Submit
  \/ \E g \in Gpus : Collect(g)
  \/ Fail \/ Report

Next ==
  \/ Start \/ Main \/ Killed \/ FileVanishes
  \/ \E g \in Gpus : Worker(g) \/ ChildEnds(g) \/ OutputUnreadable(g)

Spec == Init /\ [][Next]_vars

\* The scheduler runs every thread, and the time limit is enforced; nothing
\* is assumed of the children.
FairSpec == Spec /\ WF_vars(Main) /\ \A g \in Gpus : WF_vars(Worker(g))

-----------------------------------------------------------------------------
(* Properties. *)

\* A campaign that says it wrote its reports has in combined.csv one row for
\* each matrix of the list and each baseline, of this campaign, whether the
\* file was there, vanished or timed out, and also when workers shared a shard
\* file; both summaries are of the same rows.
CombinedComplete ==
  main = "done" =>
    /\ combined.run = run /\ summary.run = run /\ matrix_summary.run = run
    /\ BagCardinality(combined.rows) = Cardinality(Matrices) * Len(Baselines)
    /\ \A m \in Matrices, b \in Range(Baselines) :
         \E row \in BagToSet(combined.rows) :
           /\ row.matrix = m /\ row.baseline = b /\ row.run = run
           /\ row.status = matrix_summary.statuses[m][b]
    /\ \A b \in Range(Baselines) :
         /\ summary.total[b] = Cardinality(Matrices)
         /\ summary.ok[b] =
              Cardinality({m \in Matrices : matrix_summary.statuses[m][b] = "ok"})

\* However a campaign ends, by an exception of a worker or of main or killed
\* between two files, the reports in the directory can be told apart: a
\* campaign that failed has touched none of them, so that those of the one
\* before are whole, none is of a later campaign than the one written before
\* it, and a summary counts the rows of the combined.csv of its campaign.
ReportsAgree ==
  /\ main = "failed" => run \notin {combined.run, summary.run, matrix_summary.run}
  /\ matrix_summary.run <= summary.run /\ summary.run <= combined.run
  /\ summary.run = combined.run =>
       \A b \in DOMAIN summary.total :
         summary.total[b] =
           BagCardinality([row \in {r \in BagToSet(combined.rows) : r.baseline = b} |->
                             combined.rows[row]])
  /\ matrix_summary.run = combined.run =>
       \A m \in DOMAIN matrix_summary.statuses :
         \A b \in DOMAIN matrix_summary.statuses[m] :
           \E row \in BagToSet(combined.rows) :
             /\ row.matrix = m /\ row.baseline = b
             /\ row.status = matrix_summary.statuses[m][b]

\* No GPU has two workers.
GpusDistinct == IsInjective(plan.gpus)

\* A row announced as DONE in the log is in the shard file for good: neither
\* a kill nor an exception loses it.  The shard file of a worker that ended,
\* even by an exception, has the rows of the worker and no other.  Both need
\* the GPUs to be distinct.
DoneRowsDurable ==
  GpusDistinct =>
    \A g \in Gpus :
      /\ \A row \in logged[g] :
           row.run = shard[Gpu(g)].run => row \in Range(shard[Gpu(g)].rows)
      /\ pc[g] \in {"returned", "raised"} =>
           shard[Gpu(g)] = [run |-> run, rows |-> rows[g]]

\* The shards are a partition of the list, and a GPU's load exceeds no
\* other's by more than the last matrix it was dealt.
ShardsBalanced ==
  AllDealt =>
    /\ \A m \in Matrices : \E g \in Gpus : \E size \in {0, FileSize[m]} : <<m, size>> \in Range(dealt[g])
    /\ SumOf([g \in Gpus |-> Len(dealt[g])]) = Cardinality(Matrices)
    /\ \A g, h \in Gpus :
         dealt[g] # <<>> => Total(Front(dealt[g])) <= Total(dealt[h])

\* A campaign that is not killed comes to an end, whatever the children do.
CampaignEnds == main = "dealing" ~> main \in {"done", "failed", "dead"}
=============================================================================
