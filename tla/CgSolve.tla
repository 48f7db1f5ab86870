------------------------------ MODULE CgSolve ------------------------------
(***************************************************************************)
(* The conjugate-gradient benchmark (bench_cg_solve.cu): a matrix is read  *)
(* or generated, every operator variant drives one CG run whose TRUE       *)
(* residual is measured after each update of x, the curves are written,    *)
(* and then iterative refinement and flexible CG solve the same system     *)
(* with a low-precision inner CG.                                          *)
(*                                                                         *)
(* A relative residual is a magnitude: 0 (at most 1e-12), 1, 2, ..., or    *)
(* NaN for anything that is not a finite number.  A vector is "zero",      *)
(* "some" or "bad" (it holds an infinity or a NaN).  What the arithmetic   *)
(* yields is free, up to the rules those classes obey; the control around  *)
(* it is the program's.                                                    *)
(***************************************************************************)
EXTENDS Integers, Sequences, FiniteSets, SequencesExt, FiniteSetsExt

CONSTANTS
  Specs,        \* synthetic matrices: [kind, n, halfbw, shift]
  Weights,      \* random off-diagonal weights: [kind -> set of integers]
  One,          \* magnitude of 1.0, the residual of x = 0
  Largest,      \* bound: largest finite magnitude
  Margin,       \* what counts as an improvement (a factor of 1e-4)
  Tols,         \* kTols, falling
  Window,       \* iterations without improvement that are borne (200)
  MaxIter,      \* iterations of a curve
  KInner,       \* k_inner
  MaxOuter,     \* max_outer
  Jobs          \* the runs main makes: curves, then "ir" and "fcg"

NaN == 999
Finite == 0 .. Largest
Magnitudes == Finite \cup {NaN}
Vectors == {"zero", "some", "bad"}
Tol == Tols[Len(Tols)]           \* tol_ir = 1e-8 is the last of kTols

\* The factor of an improvement is a small one: from prev_best = 2.0, where a
\* curve starts, to a residual of 1.0 is an improvement.
ASSUME MagnitudesAssumption ==
  /\ One \in Nat \ {0} /\ Largest \in Nat /\ One <= Largest /\ Largest < NaN
  /\ Margin \in Nat /\ Margin < One
  /\ Tols \in Seq(1 .. One) /\ Tols # <<>>
  /\ \A i, j \in DOMAIN Tols : i < j => Tols[i] > Tols[j]
ASSUME BoundsAssumption ==
  /\ Window \in Nat /\ MaxIter \in Nat
  /\ KInner \in Nat \ {0} /\ MaxOuter \in Nat \ {0}
\* What the generators are asked for: the usage line promises a definite matrix
\* of a positive delta or sigma; the weights of a Laplacian are positive.
ASSUME SpecsAssumption ==
  /\ \A s \in Specs : /\ s.kind \in {"synth", "lapl"} /\ s.n \in Nat
                       /\ s.halfbw \in Int /\ s.shift \in Nat \ {0}
  /\ Weights.synth \subseteq Int /\ Weights.lapl \subseteq Nat \ {0}
ASSUME JobsAssumption == Jobs \in Seq({"curve", "ir", "fcg"}) /\ Jobs # <<>>

VARIABLES
  pc,
  csr,           \* the matrix on the host, until it is on the device
  job,           \* index of the run under way
  b,             \* right-hand side
  x,             \* true relative residual of the iterate x, as `exact` gives it
  p,             \* direction of the outer recurrence
  r,             \* norm of the residual vector the solver holds
  best, prev_best, since_improve,        \* of run_cg_curve
  d, q, j,       \* inner CG: correction, direction, iterations
  R,             \* CgResult or IrResult
  hist,          \* history: x after each update
  rows, exit     \* lines of both CSV files, exit code

iterate == <<x, p, r, hist>>
curveVars == <<best, prev_best, since_improve>>
innerVars == <<d, q, j>>
vars == <<pc, csr, job, b, iterate, curveVars, innerVars, R, rows, exit>>

-----------------------------------------------------------------------------
(* Synthetic matrices. *)

\* The pairs i < j inside the band.
Band(s) == {e \in (0 .. s.n - 1) \X (0 .. s.n - 1) :
              e[1] < e[2] /\ e[2] <= e[1] + s.halfbw}

\* The weights row i gets in its own turn of the loop, and as the other end
\* of a pair in the turns of rows before it.
Upper(s, w, i) == {<<e[2], w[e]>> : e \in {e \in Band(s) : e[1] = i}}
Lower(s, w, i) == {<<e[1], w[e]>> : e \in {e \in Band(s) : e[2] = i}}

\* Fault: only the upper triangle is stored.
UpperRow(s, w, i) == Upper(s, w, i)

\* The off-diagonal entries of a row: each random weight is mirrored.
OffDiagonal(s, w, i) == Upper(s, w, i) \cup Lower(s, w, i)

Abs(v) == IF v < 0 THEN -v ELSE v

SumOf(S)    == FoldSet(LAMBDA e, sum : e[2] + sum, 0, S)
AbsSumOf(S) == FoldSet(LAMBDA e, sum : Abs(e[2]) + sum, 0, S)

\* std::sort of entries in distinct columns: each has as many before it as
\* there are in smaller columns.
SortedRow(S) ==
  [k \in 1 .. Cardinality(S) |->
     CHOOSE e \in S : Cardinality({f \in S : f[1] < e[1]}) = k - 1]

\* Fault: a pair counts for one of its ends.
deg_of_first(s, w, i) == SumOf(Upper(s, w, i))

\* deg[i], to which a pair adds its weight beside storing it.
deg(s, w, i) == SumOf(Upper(s, w, i)) + SumOf(Lower(s, w, i))

\* absum is taken from the finished row, deg was counted on the way.
Diagonal(s, w, i) ==
  s.shift + (IF s.kind = "lapl" THEN deg(s, w, i) ELSE AbsSumOf(OffDiagonal(s, w, i)))

\* The weights of a Laplacian are stored negated.
RowOf(s, w, i) ==
  LET sign == IF s.kind = "lapl" THEN -1 ELSE 1
  IN  SortedRow({<<e[1], sign * e[2]>> : e \in OffDiagonal(s, w, i)}
                  \cup {<<i, Diagonal(s, w, i)>>})

Generated(s, w) == [square |-> TRUE, rows |-> [i \in 1 .. s.n |-> RowOf(s, w, i - 1)]]

NoMatrix == [square |-> TRUE, rows |-> <<>>]

-----------------------------------------------------------------------------
(* Numbers. *)

Lt(u, v) == u # NaN /\ v # NaN /\ u < v
Le(u, v) == u # NaN /\ v # NaN /\ u <= v

\* Fault: std::min with its arguments swapped.
StdMinSwapped(u, v) == IF Lt(u, v) THEN u ELSE v

\* std::min(u, v) is (v < u) ? v : u, and no comparison with NaN is true.
StdMin(u, v) == IF Lt(v, u) THEN v ELSE u

Improved(new, old) == new + Margin < old

\* !(pAp > 0.0) is a breakdown.  A zero direction has pAp = 0; nothing is
\* known of the others: the operator may be indefinite, or overflow.
MayAdvance(v) == v # "zero"

\* What an update of x along v leaves behind: once x holds something that is
\* not a number it keeps it, and an update along such a vector puts it there.
Updated(v) == IF x = NaN \/ v = "bad" THEN {NaN} ELSE Magnitudes

\* The vector a norm belongs to.
VectorOf(norm) == IF norm = NaN THEN "bad" ELSE IF norm = 0 THEN "zero" ELSE "some"

\* A norm relative to that of b; 0 / 0 is not a number.
Relative(norm) == IF b = "some" THEN norm ELSE NaN

-----------------------------------------------------------------------------
Kind == Jobs[job]

CurveResult == [spd_ok |-> TRUE, total_iters |-> 0, floor |-> One,
                iters_to_tol |-> [i \in DOMAIN Tols |-> -1]]
SolverResult == [outer |-> 0, inner_total |-> 0, reached |-> FALSE]

\* x = 0, r = p = b: every run starts on vectors of its own.
Fresh(k, rhs) ==
  /\ x' = (IF rhs = "some" THEN One ELSE IF rhs = "zero" THEN 0 ELSE NaN)
  /\ r' = (IF rhs = "some" THEN One ELSE IF rhs = "zero" THEN 0 ELSE NaN)
  /\ p' = rhs
  /\ hist' = <<>>
  /\ best' = One /\ prev_best' = 2 * One /\ since_improve' = 0
  /\ d' = "zero" /\ q' = rhs /\ j' = 0
  /\ R' = (IF k = "curve" THEN CurveResult ELSE SolverResult)
  /\ pc' = (CASE k = "curve" -> "curve" [] k = "ir" -> "outer" [] k = "fcg" -> "inner")

Init ==
  /\ pc = "start" /\ csr = NoMatrix /\ job = 1 /\ b = "zero"
  /\ x = One /\ p = "zero" /\ r = One /\ hist = <<>>
  /\ best = One /\ prev_best = 2 * One /\ since_improve = 0
  /\ d = "zero" /\ q = "zero" /\ j = 0
  /\ R = CurveResult
  /\ rows = [curves |-> 0, solvers |-> 0] /\ exit = -1

Exit(code) == pc' = "exit" /\ exit' = code

\* Usage; an exception that nobody catches (a file, a conversion); a CUDA,
\* cuSPARSE or cuBLAS call that fails.
Aborted == 134
Fails ==
  /\ pc \in {"start", "loaded", "curve", "outer", "inner"}
  /\ \E code \in (IF pc = "start" THEN {2} ELSE {1}) \cup {Aborted} : Exit(code)
  /\ UNCHANGED <<csr, job, b, iterate, curveVars, innerVars, R, rows>>

\* The matrix: synthetic, with random weights, or from a file.
Load ==
  /\ pc = "start"
  /\ \/ \E s \in Specs : \E w \in [Band(s) -> Weights[s.kind]] : csr' = Generated(s, w)
     \/ \E square \in BOOLEAN : csr' = [square |-> square, rows |-> <<>>]
  /\ pc' = "loaded"
  /\ UNCHANGED <<job, b, iterate, curveVars, innerVars, R, rows, exit>>

\* CG is not applicable: no failure.
NotSquare ==
  /\ pc = "loaded" /\ ~csr.square
  /\ Exit(0)
  /\ UNCHANGED <<csr, job, b, iterate, curveVars, innerVars, R, rows>>

\* Convert, build the codecs, b = A x_true; then the first run.
Prepare ==
  /\ pc = "loaded" /\ csr.square
  /\ csr' = NoMatrix
  /\ b' \in Vectors
  /\ Fresh(Jobs[1], b')
  /\ UNCHANGED <<job, rows, exit>>

-----------------------------------------------------------------------------
(* run_cg_curve. *)

\* Breakdown in the first step of an iteration: x stays as it is.
Breakdown ==
  /\ pc = "curve" /\ Len(hist) < MaxIter
  /\ R' = [R EXCEPT !.spd_ok = FALSE, !.total_iters = Len(hist), !.floor = best]
  /\ pc' = "done"
  /\ UNCHANGED <<csr, job, b, iterate, curveVars, innerVars, rows, exit>>

\* iters_to_tol after the residual t of iteration k.
Reached(itt, t, k) ==
  [i \in DOMAIN Tols |-> IF itt[i] < 0 /\ Le(t, Tols[i]) THEN k ELSE itt[i]]

\* Fault: progress is measured against the iteration before.
PrevBestAlways(new) == new

\* prev_best moves only with an improvement.
PrevBest(new) == IF Improved(new, prev_best) THEN new ELSE prev_best

\* The first test that stops the loop, if any does.
Converged(t, itt) == Le(t, 0) \/ itt[Len(Tols)] > 0

Plateaued(stale) == stale > Window

\* An iteration: update x and the recurrence, measure, then stop or turn the
\* direction.
Iterate ==
  /\ pc = "curve" /\ Len(hist) < MaxIter
  /\ MayAdvance(p)
  /\ \E t \in Updated(p) :
       LET k == Len(hist) + 1
           newBest == StdMin(best, t)
           itt == Reached(R.iters_to_tol, t, k)
           stale == IF Improved(newBest, prev_best) THEN 0 ELSE since_improve + 1
           stop == Converged(t, itt) \/ Plateaued(stale) \/ k = MaxIter
       IN  /\ x' = t /\ hist' = Append(hist, t)
           /\ best' = newBest /\ since_improve' = stale
           /\ prev_best' = PrevBest(newBest)
           /\ R' = [R EXCEPT !.total_iters = k, !.iters_to_tol = itt,
                             !.floor = IF stop THEN newBest ELSE @]
           /\ pc' = IF stop THEN "done" ELSE "curve"
  /\ p' \in IF p = "bad" THEN {"bad"} ELSE Vectors
  /\ UNCHANGED <<csr, job, b, r, innerVars, rows, exit>>

-----------------------------------------------------------------------------
(* The inner CG of both solvers: at most k_inner iterations on A d = rhs. *)

StartInner(rhs) == d' = "zero" /\ q' = rhs /\ j' = 0

InnerStep ==
  /\ pc = "inner" /\ j < KInner /\ MayAdvance(q)
  /\ d' \in IF d = "bad" \/ q = "bad" THEN {"bad"} ELSE {"some", "bad"}
  /\ q' \in IF q = "bad" THEN {"bad"} ELSE Vectors
  /\ j' = j + 1
  /\ R' = [R EXCEPT !.inner_total = @ + 1]
  /\ UNCHANGED <<pc, csr, job, b, iterate, curveVars, rows, exit>>

\* The bound is reached, or the direction breaks down (any direction may).
\* IR: x += d, and the residual is computed anew with the exact operator.
RefineX ==
  /\ pc = "inner" /\ Kind = "ir"
  /\ x' \in IF d = "zero" THEN {x} ELSE Updated(d)
  /\ r' = x'
  /\ hist' = Append(hist, x')
  /\ R' = [R EXCEPT !.outer = @ + 1]
  /\ pc' = "outer"
  /\ UNCHANGED <<csr, job, b, p, curveVars, innerVars, rows, exit>>

\* Flexible CG: the first direction is the preconditioned residual, a later
\* one adds beta times the one before (beta is clamped at 0, unless it is NaN).
TurnDirection ==
  /\ pc = "inner" /\ Kind = "fcg"
  /\ IF hist = <<>> THEN p' = d
     ELSE p' \in (IF "bad" \in {d, p} THEN {"bad"} ELSE Vectors)
  /\ pc' = "outer"
  /\ UNCHANGED <<csr, job, b, x, r, hist, curveVars, innerVars, R, rows, exit>>

-----------------------------------------------------------------------------
(* run_ir and run_fcg: the outer loop. *)

\* Fault: the verdict is that of the residual the recurrence updated.
RecurrenceRelres == Relative(r)

\* IR holds the true residual; FCG computes it once more at the end.
FinalRelres == IF Kind = "ir" THEN Relative(r) ELSE Relative(x)

Verdict == Le(FinalRelres, Tol)

EndRun == pc' = "done" /\ R' = [R EXCEPT !.reached = Verdict]

\* IR: the residual decides at the top of the loop.
RefineTest ==
  /\ pc = "outer" /\ Kind = "ir" /\ R.outer < MaxOuter
  /\ IF Lt(Relative(r), Tol)
     THEN EndRun /\ UNCHANGED innerVars
     ELSE pc' = "inner" /\ StartInner(VectorOf(r)) /\ UNCHANGED R
  /\ UNCHANGED <<csr, job, b, iterate, curveVars, rows, exit>>

LastOuter ==
  /\ pc = "outer" /\ R.outer = MaxOuter
  /\ EndRun
  /\ UNCHANGED <<csr, job, b, iterate, curveVars, innerVars, rows, exit>>

\* FCG: !(pAp > 0.0) ends the loop.
FlexibleBreakdown ==
  /\ pc = "outer" /\ Kind = "fcg" /\ R.outer < MaxOuter
  /\ EndRun
  /\ UNCHANGED <<csr, job, b, iterate, curveVars, innerVars, rows, exit>>

\* Fault: the iteration that converges is not counted.
OuterLeft == R.outer

\* break skips the increment of the loop; the code makes up for it.
OuterAtConvergence == R.outer + 1

\* FCG: x += a p; r_new comes from the recurrence and drifts from the truth.
FlexibleUpdate ==
  /\ pc = "outer" /\ Kind = "fcg" /\ R.outer < MaxOuter
  /\ MayAdvance(p)
  /\ x' \in Updated(p)
  /\ r' \in IF p = "bad" \/ r = NaN THEN {NaN} ELSE Magnitudes
  /\ hist' = Append(hist, x')
  /\ IF Lt(Relative(r'), Tol)
     THEN /\ R' = [R EXCEPT !.outer = OuterAtConvergence]
          /\ pc' = "converged"
          /\ UNCHANGED innerVars
     ELSE /\ R' = [R EXCEPT !.outer = @ + 1]
          /\ pc' = "inner" /\ StartInner(VectorOf(r'))
  /\ UNCHANGED <<csr, job, b, p, curveVars, rows, exit>>

FlexibleEnd ==
  /\ pc = "converged"
  /\ EndRun
  /\ UNCHANGED <<csr, job, b, iterate, curveVars, innerVars, rows, exit>>

-----------------------------------------------------------------------------
(* main: one run after the other, and two files. *)

CountOf(kinds) == Cardinality({i \in DOMAIN Jobs : Jobs[i] \in kinds})

\* The curves are written before the first solver runs.
CurvesComplete == Kind = "curve" /\ (job = Len(Jobs) \/ Jobs[job + 1] # "curve")
CurvesDue == CurvesComplete /\ rows.curves = 0

WriteCurves ==
  /\ pc = "done" /\ CurvesDue
  /\ \/ rows' = [rows EXCEPT !.curves = CountOf({"curve"})] /\ UNCHANGED <<pc, exit>>
     \/ Exit(1) /\ UNCHANGED rows
  /\ UNCHANGED <<csr, job, b, iterate, curveVars, innerVars, R>>

NextRun ==
  /\ pc = "done" /\ ~CurvesDue /\ job < Len(Jobs)
  /\ job' = job + 1
  /\ Fresh(Jobs[job + 1], b)
  /\ UNCHANGED <<csr, b, rows, exit>>

\* A second file that cannot be opened is left out without a word.
WriteSolvers ==
  /\ pc = "done" /\ ~CurvesDue /\ job = Len(Jobs)
  /\ \E n \in {0, CountOf({"ir", "fcg"})} : rows' = [rows EXCEPT !.solvers = n]
  /\ Exit(0)
  /\ UNCHANGED <<csr, job, b, iterate, curveVars, innerVars, R>>

Over == pc = "exit" /\ UNCHANGED vars

Next ==
  \/ Load \/ NotSquare \/ Prepare \/ Fails
  \/ Breakdown \/ Iterate
  \/ InnerStep \/ RefineX \/ TurnDirection
  \/ RefineTest \/ LastOuter \/ FlexibleBreakdown \/ FlexibleUpdate \/ FlexibleEnd
  \/ WriteCurves \/ NextRun \/ WriteSolvers \/ Over

Spec == Init /\ [][Next]_vars

-----------------------------------------------------------------------------
(* Properties. *)

Run(kinds) == pc = "done" /\ Kind \in kinds

\* The smallest true residual among the first n, 1.0 before the first.
BestOf(n) == Min({One} \cup ({hist[i] : i \in 1 .. n} \ {NaN}))

FirstWithin(tol) ==
  LET within == {k \in DOMAIN hist : Le(hist[k], tol)}
  IN  IF within = {} THEN -1 ELSE Min(within)

\* A curve reports what its true residuals were: the first iteration within
\* each tolerance although the residual may rise again, and the smallest
\* residual although some are not numbers; a breakdown changes neither.
CurveReportsHistory ==
  Run({"curve"}) =>
    /\ R.total_iters = Len(hist)
    /\ R.floor = BestOf(Len(hist))
    /\ \A i \in DOMAIN Tols : R.iters_to_tol[i] = FirstWithin(Tols[i])

\* A curve is cut short, without a breakdown and short of the last tolerance,
\* only if the whole window of iterations behind it brought no improvement;
\* residuals that creep down by less than the margin at a time do count
\* together.
PlateauMeansNoProgress ==
  Run({"curve"}) /\ R.spd_ok /\ R.total_iters < MaxIter /\ R.iters_to_tol[Len(Tols)] < 0 =>
    LET n == Len(hist) IN
    /\ n > Window + 1
    /\ ~Improved(BestOf(n), BestOf(n - Window - 1))

\* "OK" is said of the x that is returned: its true residual, whatever the
\* recurrence believed when it stopped; a system without a right-hand side,
\* whose relative residual is not a number, is never called solved.
VerdictIsOfSolution ==
  Run({"ir", "fcg"}) => (R.reached <=> b = "some" /\ Le(x, Tol))

\* The numbers reported are the work done: every update of x is an outer
\* iteration, the last one too, and the inner iterations stay within k_inner
\* for each preconditioned residual (FCG needs one more to begin with, and
\* none after the iteration that converged).
WorkCounted ==
  Run({"ir", "fcg"}) =>
    LET begin == IF Kind = "fcg" /\ ~Lt(Relative(r), Tol) THEN 1 ELSE 0 IN
    /\ R.outer = Len(hist) /\ R.outer <= MaxOuter
    /\ R.inner_total <= KInner * (Len(hist) + begin)

\* Symmetric, sorted without duplicates, and a diagonal that exceeds the rest
\* of its row.
IsDominant(m) ==
  LET n == Len(m.rows)
      entries(i) == ToSet(m.rows[i + 1])
      value(i, c) == SumOf({e \in entries(i) : e[1] = c})
  IN  \A i \in 0 .. n - 1 :
        /\ \A a, c \in DOMAIN m.rows[i + 1] :
             a < c => m.rows[i + 1][a][1] < m.rows[i + 1][c][1]
        /\ \A c \in 0 .. n - 1 : value(i, c) = value(c, i)
        /\ value(i, i) > AbsSumOf({e \in entries(i) : e[1] # i})

\* A generated matrix is a symmetric CSR matrix, sorted without duplicates,
\* whose diagonal exceeds the rest of its row: it is positive definite, so that
\* a breakdown tells about the operator or the arithmetic.
SyntheticIsPositiveDefinite == IsDominant(csr)
=============================================================================
