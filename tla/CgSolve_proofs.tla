--------------------------- MODULE CgSolve_proofs ---------------------------
(***************************************************************************)
(* What a curve and a solver report is right for every window, every       *)
(* number of iterations, every list of tolerances and every sequence of    *)
(* residuals, NaN among them.                                              *)
(*                                                                         *)
(* The inductive invariant has a part for each kind of run.  CurveInv says *)
(* that the three running values of run_cg_curve summarise the history so  *)
(* far, and that nothing since the last improvement was one.  SolverInv    *)
(* counts the work by where the solver stands, because inner iterations    *)
(* are charged before the outer iteration they belong to.                  *)
(*                                                                         *)
(* The generated matrices need sums over sets: FoldSet takes the elements  *)
(* in an order of its own, and SumSteps says that no order matters.        *)
(***************************************************************************)
EXTENDS CgSolve, PrefixSums_proofs

\* BestOf and FirstWithin of any history.
Measured(h, n) == {One} \cup ({h[i] : i \in 1 .. n} \ {NaN})
LeastOf(h, n) == Min(Measured(h, n))
Within(h, tol) == {k \in DOMAIN h : Le(h[k], tol)}
FirstOf(h, tol) == IF Within(h, tol) = {} THEN -1 ELSE Min(Within(h, tol))

ControlInv ==
  /\ pc \in {"start", "loaded", "curve", "outer", "inner", "converged", "done", "exit"}
  /\ job \in DOMAIN Jobs /\ (pc \in {"start", "loaded"} => job = 1)
  /\ b \in Vectors
  /\ x \in Magnitudes /\ hist \in Seq(Magnitudes)
  /\ pc = "curve" => Kind = "curve"
  /\ pc \in {"outer", "inner"} => Kind \in {"ir", "fcg"}
  /\ pc = "converged" => Kind = "fcg"

\* A curve under way or ended.
Curving == pc \in {"curve", "done"} /\ Kind = "curve"

CurveInv ==
  Curving =>
    LET n == Len(hist) IN
    /\ n <= MaxIter
    /\ best = LeastOf(hist, n) /\ prev_best \in Nat /\ since_improve \in 0 .. n
    /\ R \in [spd_ok : BOOLEAN, total_iters : Nat, floor : Nat, iters_to_tol : [DOMAIN Tols -> Int]]
    /\ R.total_iters = n
    /\ \A i \in DOMAIN Tols : R.iters_to_tol[i] = FirstOf(hist, Tols[i])
    /\ n = 0 => prev_best = 2 * One
    /\ n > 0 => /\ since_improve < n
                /\ prev_best = LeastOf(hist, n - since_improve)
                /\ ~Improved(best, prev_best) \/ since_improve = 0
    /\ pc = "done" =>
         /\ R.floor = best
         /\ R.spd_ok /\ n < MaxIter /\ R.iters_to_tol[Len(Tols)] < 0 => since_improve > Window

\* A solver under way or ended.
Solving == pc \in {"outer", "inner", "converged", "done"} /\ Kind \in {"ir", "fcg"}

\* What the inner iterations are charged to.
Charged ==
  CASE pc = "inner"                      -> KInner * Len(hist) + j
    [] pc = "outer" /\ Kind = "fcg"      -> KInner * (Len(hist) + 1)
    [] pc = "done" /\ Kind = "fcg" /\ ~Lt(Relative(r), Tol) -> KInner * (Len(hist) + 1)
    [] OTHER                             -> KInner * Len(hist)

SolverInv ==
  Solving =>
    /\ R \in [outer : Nat, inner_total : Nat, reached : BOOLEAN]
    /\ R.outer = Len(hist) /\ R.outer <= MaxOuter
    /\ j \in 0 .. KInner
    /\ R.inner_total <= Charged
    /\ Kind = "ir" => r = x
    /\ Kind = "ir" /\ pc = "inner" => R.outer < MaxOuter
    /\ Kind = "fcg" /\ pc \in {"outer", "inner"} => ~Lt(Relative(r), Tol)
    /\ pc = "converged" => Lt(Relative(r), Tol)
    /\ pc = "done" => (R.reached <=> b = "some" /\ Le(x, Tol))

IInv == ControlInv /\ CurveInv /\ SolverInv

-----------------------------------------------------------------------------
(* The history and its summaries. *)

\* Min picks the least element.
LEMMA MinIsLeast ==
  ASSUME NEW T, T \subseteq Nat, T # {}
  PROVE  Min(T) \in T /\ \A y \in T : Min(T) <= y
<1>1. \E m \in T : \A y \in T : m =< y
  BY LeastNatural
<1>. QED
  BY <1>1 DEF Min

LEMMA MinIs ==
  ASSUME NEW T, T \subseteq Nat, NEW m \in T, \A y \in T : m <= y
  PROVE  Min(T) = m
<1>1. Min(T) \in T /\ Min(T) <= m /\ m <= Min(T)
  BY MinIsLeast, T # {}
<1>2. Min(T) \in Nat /\ m \in Nat
  BY <1>1
<1>. QED
  BY <1>1, <1>2

\* What a history says about itself.
LEMMA TheConstants ==
  /\ One \in Nat /\ One > 0 /\ One < NaN /\ NaN \in Nat /\ One # NaN
  /\ Magnitudes \subseteq Nat /\ One \in Magnitudes /\ 0 \in Magnitudes /\ NaN \in Magnitudes
  /\ Margin \in Nat /\ Margin < One
  /\ Len(Tols) \in DOMAIN Tols /\ DOMAIN Tols = 1 .. Len(Tols)
  /\ \A i \in DOMAIN Tols : Tols[i] \in Nat /\ Tols[i] # NaN /\ Tols[i] > 0
<1>1. One \in Nat /\ One > 0 /\ One < NaN /\ NaN \in Nat
  BY MagnitudesAssumption DEF NaN
<1>2. /\ Magnitudes \subseteq Nat /\ One \in Magnitudes
      /\ 0 \in Magnitudes /\ NaN \in Magnitudes
  BY <1>1, MagnitudesAssumption DEF Finite, Magnitudes
<1>3. Len(Tols) \in DOMAIN Tols /\ DOMAIN Tols = 1 .. Len(Tols)
  BY MagnitudesAssumption
<1>4. \A i \in DOMAIN Tols : Tols[i] \in 1 .. One
  BY MagnitudesAssumption
<1>. QED
  BY <1>1, <1>2, <1>3, <1>4, MagnitudesAssumption

LEMMA BestIs ==
  ASSUME NEW h \in Seq(Magnitudes), NEW n \in 0 .. Len(h)
  PROVE  /\ Measured(h, n) \subseteq Nat
         /\ LeastOf(h, n) \in Measured(h, n)
         /\ \A m \in Measured(h, n) : LeastOf(h, n) <= m
         /\ LeastOf(h, n) \in Nat /\ LeastOf(h, n) <= One /\ LeastOf(h, n) # NaN
<1>0. \A i \in 1 .. n : h[i] \in Nat
  <2>1. \A i \in 1 .. n : i \in DOMAIN h
    OBVIOUS
  <2>2. \A i \in DOMAIN h : h[i] \in Magnitudes
    OBVIOUS
  <2>. QED
    BY <2>1, <2>2, TheConstants
<1>1. Measured(h, n) \subseteq Nat /\ One \in Measured(h, n)
  BY <1>0, TheConstants DEF Measured
<1>2. LeastOf(h, n) \in Measured(h, n) /\ \A m \in Measured(h, n) : LeastOf(h, n) <= m
  BY <1>1, MinIsLeast DEF LeastOf
<1>. QED
  BY <1>1, <1>2, TheConstants

\* A longer history has no worse a best.
LEMMA BestFalls ==
  ASSUME NEW h \in Seq(Magnitudes), NEW n \in 0 .. Len(h), NEW m \in 0 .. n
  PROVE  LeastOf(h, n) <= LeastOf(h, m)
<1>1. Measured(h, m) \subseteq Measured(h, n)
  BY DEF Measured
<1>2. LeastOf(h, m) \in Measured(h, m)
  BY BestIs, m \in 0 .. Len(h)
<1>. QED
  BY <1>1, <1>2, BestIs

\* std::min with the next residual is the best of the longer history, also
\* when that residual is not a number, and the earlier bests stay.
LEMMA BestAppended ==
  ASSUME NEW h \in Seq(Magnitudes), NEW t \in Magnitudes
  PROVE  /\ LeastOf(Append(h, t), Len(h) + 1) = StdMin(LeastOf(h, Len(h)), t)
         /\ \A n \in 0 .. Len(h) : LeastOf(Append(h, t), n) = LeastOf(h, n)
<1>. DEFINE g == Append(h, t)
            n == Len(h)
<1>0. /\ g \in Seq(Magnitudes) /\ Len(g) = n + 1 /\ n \in Nat
      /\ \A i \in 1 .. n : g[i] = h[i]
      /\ g[n + 1] = t
  OBVIOUS
<1>1. \A k \in 0 .. n : Measured(g, k) = Measured(h, k)
  <2>. TAKE k \in 0 .. n
  <2>1. \A i \in 1 .. k : g[i] = h[i]
    BY <1>0
  <2>2. {g[i] : i \in 1 .. k} = {h[i] : i \in 1 .. k}
    BY <2>1, Zenon
  <2>. QED
    BY <2>2, Zenon DEF Measured
<1>2. 1 .. n + 1 = (1 .. n) \cup {n + 1}
  BY <1>0
<1>3. Measured(g, n + 1) = Measured(g, n) \cup ({t} \ {NaN})
  <2>1. {g[i] : i \in 1 .. n + 1} = {g[i] : i \in 1 .. n} \cup {t}
    BY <1>0, <1>2
  <2>. QED
    BY <2>1 DEF Measured
<1>4. n \in 0 .. Len(h) /\ n + 1 \in 0 .. Len(g)
  BY <1>0
<1>5. Measured(g, n + 1) = Measured(h, n) \cup ({t} \ {NaN})
  BY <1>0, <1>1, <1>3
<1>. DEFINE old == LeastOf(h, n)
<1>6. /\ old \in Measured(h, n) /\ old \in Nat /\ old # NaN
      /\ \A m \in Measured(h, n) : old <= m /\ m \in Nat
  BY <1>4, BestIs
<1>7. StdMin(old, t) \in Measured(g, n + 1)
      /\ \A m \in Measured(g, n + 1) : StdMin(old, t) <= m
  <2>. t \in Nat
    BY TheConstants
  <2>1. CASE Lt(t, old)
    BY <1>5, <1>6, <2>1 DEF Lt, StdMin
  <2>2. CASE ~Lt(t, old)
    <3>1. StdMin(old, t) = old
      BY <2>2 DEF StdMin
    <3>2. t = NaN \/ old <= t
      BY <1>6, <2>2 DEF Lt
    <3>. QED
      BY <1>5, <1>6, <3>1, <3>2
  <2>. QED
    BY <2>1, <2>2
<1>8. LeastOf(g, n + 1) = StdMin(old, t)
  <2>1. Measured(g, n + 1) \subseteq Nat
    BY <1>0, <1>4, BestIs
  <2>. QED
    BY <1>7, <2>1, MinIs DEF LeastOf
<1>. QED
  BY <1>1, <1>8 DEF LeastOf

\* The iteration a tolerance was first reached at stays, and a tolerance not
\* reached so far is reached now or not at all.
LEMMA FirstAppended ==
  ASSUME NEW h \in Seq(Magnitudes), NEW t \in Magnitudes, NEW tol
  PROVE  /\ FirstOf(h, tol) \in Int
         /\ FirstOf(Append(h, t), tol) =
              IF FirstOf(h, tol) < 0 /\ Le(t, tol) THEN Len(h) + 1 ELSE FirstOf(h, tol)
<1>. DEFINE g == Append(h, t)
            n == Len(h)
<1>0. /\ n \in Nat /\ DOMAIN h = 1 .. n /\ DOMAIN g = 1 .. n + 1
      /\ \A i \in 1 .. n : g[i] = h[i]
      /\ g[n + 1] = t
  OBVIOUS
<1>1. Within(h, tol) \subseteq 1 .. n
  BY <1>0 DEF Within
<1>2. Within(g, tol) = Within(h, tol) \cup (IF Le(t, tol) THEN {n + 1} ELSE {})
  <2>1. 1 .. n + 1 = (1 .. n) \cup {n + 1}
    BY <1>0
  <2>. QED
    BY <1>0, <2>1 DEF Within
<1>3. CASE Within(h, tol) = {}
  <2>1. FirstOf(h, tol) = -1
    BY <1>3 DEF FirstOf
  <2>2. CASE Le(t, tol)
    <3>1. Within(g, tol) = {n + 1}
      BY <1>2, <1>3, <2>2
    <3>2. Min({n + 1}) = n + 1
      <4>1. {n + 1} \subseteq Nat /\ n + 1 \in {n + 1} /\ \A y \in {n + 1} : n + 1 <= y
        BY <1>0
      <4>. HIDE DEF n
      <4>. QED
        BY <4>1, MinIs
    <3>. QED
      BY <2>1, <2>2, <3>1, <3>2 DEF FirstOf
  <2>3. CASE ~Le(t, tol)
    <3>1. Within(g, tol) = {}
      BY <1>2, <1>3, <2>3
    <3>. QED
      BY <2>1, <2>3, <3>1 DEF FirstOf
  <2>. QED
    BY <2>2, <2>3
<1>4. CASE Within(h, tol) # {}
  <2>. DEFINE m == Min(Within(h, tol))
  <2>1. m \in Within(h, tol) /\ \A y \in Within(h, tol) : m <= y
    BY <1>0, <1>1, <1>4, MinIsLeast, Within(h, tol) \subseteq Nat
  <2>2. m \in 1 .. n
    BY <1>1, <2>1
  <2>3. Min(Within(g, tol)) = m
    <3>1. Within(g, tol) \subseteq Nat
      BY <1>0, <1>1, <1>2
    <3>2. m \in Within(g, tol) /\ \A y \in Within(g, tol) : m <= y
      BY <1>0, <1>1, <1>2, <2>1, <2>2
    <3>. QED
      BY <3>1, <3>2, MinIs, Zenon
  <2>4. FirstOf(h, tol) = m /\ FirstOf(g, tol) = m
    BY <1>2, <1>4, <2>3 DEF FirstOf
  <2>. QED
    BY <1>0, <2>2, <2>4
<1>. QED
  BY <1>3, <1>4

\* The work of one more outer iteration.
LEMMA OneMore ==
  ASSUME NEW n \in Nat
  PROVE  /\ KInner * n \in Nat /\ KInner * (n + 1) = KInner * n + KInner
         /\ KInner \in Nat
BY BoundsAssumption

-----------------------------------------------------------------------------
(* Where a run starts. *)

LEMMA NothingMeasured ==
  /\ <<>> \in Seq(Magnitudes) /\ Len(<<>>) = 0
  /\ LeastOf(<<>>, 0) = One
  /\ \A tol : FirstOf(<<>>, tol) = -1
<1>1. Measured(<<>>, 0) = {One}
  BY DEF Measured
<1>2. Min({One}) = One
  <2>1. {One} \subseteq Nat /\ One \in {One} /\ \A y \in {One} : One <= y
    BY TheConstants
  <2>. QED
    BY <2>1, MinIs
<1>3. \A tol : Within(<<>>, tol) = {}
  BY DEF Within
<1>. QED
  BY <1>1, <1>2, <1>3 DEF LeastOf, FirstOf

LEMMA KindIs ==
  ASSUME NEW i \in DOMAIN Jobs
  PROVE  Jobs[i] \in {"curve", "ir", "fcg"}
BY JobsAssumption

LEMMA InitInv == Init => IInv
<1>. SUFFICES ASSUME Init PROVE IInv
  OBVIOUS
<1>1. 1 \in DOMAIN Jobs
  BY JobsAssumption
<1>2. ControlInv
  BY <1>1, TheConstants, NothingMeasured DEF Init, ControlInv, Vectors
<1>. QED
  BY <1>2 DEF Init, IInv, CurveInv, Curving, SolverInv, Solving

\* A run on vectors of its own satisfies the invariant, whatever ran before.
LEMMA FreshInv ==
  ASSUME NEW k, NEW rhs \in Vectors, Fresh(k, rhs),
         job' \in DOMAIN Jobs, Jobs[job'] = k, b' = rhs
  PROVE  IInv'
<1>0. /\ k \in {"curve", "ir", "fcg"} /\ Kind' = k
      /\ (pc' = "curve" <=> k = "curve") /\ (pc' = "outer" <=> k = "ir")
      /\ (pc' = "inner" <=> k = "fcg") /\ pc' \in {"curve", "outer", "inner"}
  BY KindIs DEF Fresh, Kind
<1>1. x' \in Magnitudes /\ r' = x' /\ hist' = <<>> /\ j' = 0
  BY TheConstants DEF Fresh
<1>2. ControlInv'
  BY <1>0, <1>1, NothingMeasured DEF ControlInv
<1>3. CurveInv'
  <2>. SUFFICES ASSUME Curving' PROVE CurveInv'
    BY DEF CurveInv
  <2>1. k = "curve" /\ pc' = "curve"
    BY <1>0 DEF Curving
  <2>2. best' = One /\ prev_best' = 2 * One /\ since_improve' = 0 /\ R' = CurveResult
    BY <2>1 DEF Fresh
  <2>3. /\ CurveResult \in [spd_ok : BOOLEAN, total_iters : Nat, floor : Nat,
                            iters_to_tol : [DOMAIN Tols -> Int]]
        /\ CurveResult.total_iters = 0
        /\ \A i \in DOMAIN Tols : CurveResult.iters_to_tol[i] = -1
    BY TheConstants DEF CurveResult
  <2>4. MaxIter \in Nat
    BY BoundsAssumption
  <2>. QED
    BY <1>1, <2>1, <2>2, <2>3, <2>4, NothingMeasured, TheConstants DEF CurveInv
<1>4. SolverInv'
  <2>. SUFFICES ASSUME Solving' PROVE SolverInv'
    BY DEF SolverInv
  <2>1. k \in {"ir", "fcg"} /\ pc' \in {"outer", "inner"}
    BY <1>0 DEF Solving
  <2>2. R' = SolverResult
    BY <2>1 DEF Fresh
  <2>3. /\ SolverResult \in [outer : Nat, inner_total : Nat, reached : BOOLEAN]
        /\ SolverResult.outer = 0 /\ SolverResult.inner_total = 0
    BY DEF SolverResult
  <2>4. Charged' \in Nat
    <3>1. KInner * 0 \in Nat /\ KInner * 0 + 0 \in Nat
      BY OneMore, 0 \in Nat
    <3>. QED
      BY <1>0, <1>1, <2>1, <3>1, NothingMeasured DEF Charged
  <2>5. k = "fcg" => ~Lt(Relative(r), Tol)'
    <3>1. rhs = "some" => r' = One
      BY DEF Fresh
    <3>2. Tol \in 1 .. One
      BY MagnitudesAssumption DEF Tol
    <3>. QED
      BY <3>1, <3>2, TheConstants DEF Relative, Lt
  <2>6. KInner \in Nat \ {0} /\ MaxOuter \in Nat \ {0}
    BY BoundsAssumption
  <2>. QED
    BY <1>0, <1>1, <2>1, <2>2, <2>3, <2>4, <2>5, <2>6, NothingMeasured DEF SolverInv
<1>. QED
  BY <1>2, <1>3, <1>4 DEF IInv

-----------------------------------------------------------------------------
(* The steps of a curve. *)

LEMMA BreakdownInv ==
  ASSUME IInv, Breakdown
  PROVE  IInv'
<1>1. /\ Curving /\ Curving' /\ pc' = "done" /\ Kind' = Kind /\ Kind = "curve"
      /\ hist' = hist /\ best' = best /\ prev_best' = prev_best
      /\ since_improve' = since_improve
      /\ R' = [R EXCEPT !.spd_ok = FALSE, !.total_iters = Len(hist), !.floor = best]
  BY DEF IInv, ControlInv, Breakdown, Curving, Kind, iterate, curveVars
<1>2. ControlInv'
  BY <1>1 DEF IInv, ControlInv, Breakdown, iterate
<1>3. CurveInv'
  <2>1. best \in Nat /\ Len(hist) \in Nat
    BY <1>1, BestIs DEF IInv, ControlInv, CurveInv
  <2>2. R \in [spd_ok : BOOLEAN, total_iters : Nat, floor : Nat, iters_to_tol : [DOMAIN Tols -> Int]]
    BY <1>1 DEF IInv, CurveInv
  <2>3. /\ R' \in [spd_ok : BOOLEAN, total_iters : Nat, floor : Nat, iters_to_tol : [DOMAIN Tols -> Int]]
        /\ R'.total_iters = Len(hist) /\ R'.floor = best /\ R'.spd_ok = FALSE
        /\ R'.iters_to_tol = R.iters_to_tol
    BY <1>1, <2>1, <2>2
  <2>. QED
    BY <1>1, <2>3 DEF IInv, CurveInv
<1>4. SolverInv'
  BY <1>1 DEF SolverInv, Solving
<1>. QED
  BY <1>2, <1>3, <1>4 DEF IInv

\* An iteration: the running values summarise the longer history.
LEMMA IterateInv ==
  ASSUME IInv, Iterate
  PROVE  IInv'
<1>. DEFINE n == Len(hist)
            k == n + 1
<1>1. /\ Curving /\ Curving' /\ pc = "curve" /\ Kind' = Kind /\ Kind = "curve"
      /\ n < MaxIter /\ n \in Nat /\ MaxIter \in Nat
  BY BoundsAssumption DEF IInv, ControlInv, Iterate, Curving, Kind
<1>2. PICK t \in Updated(p) :
        LET newBest == StdMin(best, t)
            itt == Reached(R.iters_to_tol, t, k)
            stale == IF Improved(newBest, prev_best) THEN 0 ELSE since_improve + 1
            stop == Converged(t, itt) \/ Plateaued(stale) \/ k = MaxIter
        IN  /\ x' = t /\ hist' = Append(hist, t)
            /\ best' = newBest /\ since_improve' = stale
            /\ prev_best' = PrevBest(newBest)
            /\ R' = [R EXCEPT !.total_iters = k, !.iters_to_tol = itt,
                              !.floor = IF stop THEN newBest ELSE @]
            /\ pc' = IF stop THEN "done" ELSE "curve"
  BY Zenon DEF Iterate
<1>. DEFINE newBest == StdMin(best, t)
            itt == Reached(R.iters_to_tol, t, k)
            stale == IF Improved(newBest, prev_best) THEN 0 ELSE since_improve + 1
            stop == Converged(t, itt) \/ Plateaued(stale) \/ k = MaxIter
<1>3. /\ x' = t /\ hist' = Append(hist, t)
      /\ best' = newBest /\ since_improve' = stale
      /\ prev_best' = PrevBest(newBest)
      /\ R' = [R EXCEPT !.total_iters = k, !.iters_to_tol = itt,
                        !.floor = IF stop THEN newBest ELSE @]
      /\ pc' = IF stop THEN "done" ELSE "curve"
  BY <1>2
<1>4. t \in Magnitudes /\ hist \in Seq(Magnitudes) /\ hist' \in Seq(Magnitudes) /\ Len(hist') = k
  BY <1>3, TheConstants DEF Updated, IInv, ControlInv
<1>5. ControlInv'
  BY <1>1, <1>3, <1>4 DEF IInv, ControlInv, Iterate, Kind
<1>6. /\ best = LeastOf(hist, n) /\ prev_best \in Nat /\ since_improve \in 0 .. n
      /\ R \in [spd_ok : BOOLEAN, total_iters : Nat, floor : Nat, iters_to_tol : [DOMAIN Tols -> Int]]
      /\ \A i \in DOMAIN Tols : R.iters_to_tol[i] = FirstOf(hist, Tols[i])
      /\ n = 0 => prev_best = 2 * One
      /\ n > 0 => /\ since_improve < n
                  /\ prev_best = LeastOf(hist, n - since_improve)
  BY <1>1 DEF IInv, CurveInv
<1>7. newBest = LeastOf(hist', k) /\ \A m \in 0 .. n : LeastOf(hist', m) = LeastOf(hist, m)
  BY <1>3, <1>4, <1>6, BestAppended
<1>8. newBest \in Nat /\ newBest <= One
  BY <1>4, <1>7, BestIs, k \in 0 .. Len(hist')
<1>9. itt \in [DOMAIN Tols -> Int] /\ \A i \in DOMAIN Tols : itt[i] = FirstOf(hist', Tols[i])
  <2>1. ASSUME NEW i \in DOMAIN Tols
        PROVE  /\ (IF R.iters_to_tol[i] < 0 /\ Le(t, Tols[i]) THEN k ELSE R.iters_to_tol[i]) \in Int
               /\ (IF R.iters_to_tol[i] < 0 /\ Le(t, Tols[i]) THEN k ELSE R.iters_to_tol[i])
                    = FirstOf(hist', Tols[i])
    BY <1>1, <1>3, <1>4, <1>6, FirstAppended
  <2>. QED
    BY <2>1 DEF Reached
<1>10. stale \in Nat /\ stale < k /\ PrevBest(newBest) \in Nat
       /\ PrevBest(newBest) = LeastOf(hist', k - stale)
       /\ (~Improved(newBest, PrevBest(newBest)) \/ stale = 0)
  <2>1. CASE Improved(newBest, prev_best)
    BY <1>1, <1>7, <1>8, <2>1 DEF PrevBest
  <2>2. CASE ~Improved(newBest, prev_best)
    <3>1. n > 0
      <4>1. SUFFICES ASSUME n = 0 PROVE FALSE
        BY <1>1
      <4>2. prev_best = 2 * One
        BY <1>6, <4>1
      <4>. QED
        BY <1>8, <2>2, <4>2, TheConstants DEF Improved
    <3>2. k - (since_improve + 1) = n - since_improve /\ n - since_improve \in 0 .. n
      BY <1>1, <1>6
    <3>3. since_improve < n /\ prev_best = LeastOf(hist', n - since_improve)
      BY <1>6, <1>7, <3>1, <3>2
    <3>4. stale = since_improve + 1 /\ PrevBest(newBest) = prev_best
      BY <2>2 DEF PrevBest
    <3>. HIDE DEF newBest, stale
    <3>. QED
      BY <1>1, <1>6, <2>2, <3>2, <3>3, <3>4
  <2>. QED
    BY <2>1, <2>2
<1>11. /\ R' \in [spd_ok : BOOLEAN, total_iters : Nat, floor : Nat, iters_to_tol : [DOMAIN Tols -> Int]]
       /\ R'.total_iters = k /\ R'.iters_to_tol = itt
       /\ stop => R'.floor = newBest
  <2>. DEFINE fl == IF stop THEN newBest ELSE R.floor
  <2>1. R' = [R EXCEPT !.total_iters = k, !.iters_to_tol = itt, !.floor = fl]
    BY <1>3
  <2>2. fl \in Nat /\ k \in Nat /\ itt \in [DOMAIN Tols -> Int] /\ (stop => fl = newBest)
    BY <1>1, <1>6, <1>8, <1>9
  <2>3. R \in [spd_ok : BOOLEAN, total_iters : Nat, floor : Nat, iters_to_tol : [DOMAIN Tols -> Int]]
    BY <1>6
  <2>. HIDE DEF newBest, itt, stop, fl, k
  <2>. QED
    BY <2>1, <2>2, <2>3
<1>12. ASSUME stop, k < MaxIter, itt[Len(Tols)] < 0
       PROVE  stale > Window
  <2>1. Len(Tols) \in DOMAIN Tols /\ Tols[Len(Tols)] \in Nat /\ Tols[Len(Tols)] # NaN
    BY TheConstants
  <2>2. ~(Le(t, 0))
    <3>1. SUFFICES ASSUME Le(t, 0) PROVE FALSE
      OBVIOUS
    <3>2. Le(t, Tols[Len(Tols)])
      BY <1>4, <2>1, <3>1, TheConstants DEF Le
    <3>3. itt[Len(Tols)] = IF R.iters_to_tol[Len(Tols)] < 0 THEN k ELSE R.iters_to_tol[Len(Tols)]
      BY <2>1, <3>2 DEF Reached
    <3>4. R.iters_to_tol[Len(Tols)] \in Int
      BY <1>6, <2>1
    <3>. QED
      BY <1>1, <1>12, <3>3, <3>4
  <2>3. itt[Len(Tols)] \in Int
    BY <1>9, <2>1
  <2>4. ~Converged(t, itt)
    BY <1>12, <2>2, <2>3 DEF Converged
  <2>. QED
    BY <1>1, <1>12, <2>4 DEF Plateaued
<1>13. CurveInv'
  <2>. HIDE DEF newBest, itt, stale, stop
  <2>1. k <= MaxIter /\ k > 0 /\ k \in Nat
    BY <1>1
  <2>2. stale \in 0 .. k
    BY <1>10, <2>1
  <2>3. pc' = "done" => stop
    BY <1>3
  <2>. HIDE DEF k
  <2>. QED
    BY <1>3, <1>4, <1>7, <1>8, <1>9, <1>10, <1>11, <1>12, <2>1, <2>2, <2>3 DEF CurveInv
<1>14. SolverInv'
  BY <1>1 DEF SolverInv, Solving
<1>. QED
  BY <1>5, <1>13, <1>14 DEF IInv

-----------------------------------------------------------------------------
(* The steps of a solver. *)

\* Where no run is under way there is nothing to say of one.
LEMMA IdleInv ==
  ASSUME IInv, pc' = "exit" \/ (pc = "start" /\ pc' = "loaded"),
         UNCHANGED <<job, b, x, hist>>
  PROVE  IInv'
BY DEF IInv, ControlInv, CurveInv, Curving, SolverInv, Solving

\* A solver's run and its work so far, as every step of a solver finds them.
LEMMA SolverFacts ==
  ASSUME IInv, pc \in {"outer", "inner", "converged"}
  PROVE  /\ Solving /\ Kind \in {"ir", "fcg"}
         /\ R \in [outer : Nat, inner_total : Nat, reached : BOOLEAN]
         /\ R.outer = Len(hist) /\ R.outer <= MaxOuter
         /\ j \in 0 .. KInner /\ KInner \in Nat /\ MaxOuter \in Nat
         /\ Len(hist) \in Nat /\ hist \in Seq(Magnitudes)
         /\ KInner * Len(hist) \in Nat
         /\ KInner * (Len(hist) + 1) = KInner * Len(hist) + KInner
<1>1. Solving /\ Kind \in {"ir", "fcg"}
  BY DEF IInv, ControlInv, Solving
<1>2. hist \in Seq(Magnitudes) /\ Len(hist) \in Nat
  BY DEF IInv, ControlInv
<1>3. /\ R \in [outer : Nat, inner_total : Nat, reached : BOOLEAN]
      /\ R.outer = Len(hist) /\ R.outer <= MaxOuter /\ j \in 0 .. KInner
  BY <1>1 DEF IInv, SolverInv
<1>. QED
  BY <1>1, <1>2, <1>3, OneMore, BoundsAssumption

LEMMA InnerStepInv ==
  ASSUME IInv, InnerStep
  PROVE  IInv'
<1>1. /\ pc = "inner" /\ pc' = "inner" /\ Kind' = Kind /\ j < KInner /\ j' = j + 1
      /\ UNCHANGED <<job, b, x, r, hist>>
      /\ R' = [R EXCEPT !.inner_total = @ + 1]
  BY DEF InnerStep, Kind, iterate
<1>2. /\ R \in [outer : Nat, inner_total : Nat, reached : BOOLEAN]
      /\ R.outer = Len(hist) /\ R.outer <= MaxOuter
      /\ j \in 0 .. KInner /\ KInner \in Nat /\ Kind \in {"ir", "fcg"} /\ Solving
      /\ KInner * Len(hist) \in Nat
  BY <1>1, SolverFacts
<1>3. ControlInv' /\ CurveInv'
  BY <1>1, <1>2 DEF IInv, ControlInv, CurveInv, Curving
<1>4. SolverInv'
  <2>1. R.inner_total <= KInner * Len(hist) + j
    BY <1>1, <1>2 DEF IInv, SolverInv, Charged
  <2>2. /\ R' \in [outer : Nat, inner_total : Nat, reached : BOOLEAN]
        /\ R'.outer = R.outer /\ R'.inner_total = R.inner_total + 1
    BY <1>1, <1>2
  <2>3. Charged' = KInner * Len(hist) + (j + 1)
    BY <1>1 DEF Charged
  <2>4. R'.inner_total <= Charged'
    BY <1>2, <2>1, <2>2, <2>3
  <2>5. j' \in 0 .. KInner
    BY <1>1, <1>2
  <2>6. (Lt(Relative(r), Tol) <=> Lt(Relative(r), Tol)')
    BY <1>1 DEF Relative
  <2>. QED
    BY <1>1, <1>2, <2>2, <2>4, <2>5, <2>6 DEF IInv, SolverInv
<1>. QED
  BY <1>3, <1>4 DEF IInv

LEMMA RefineXInv ==
  ASSUME IInv, RefineX
  PROVE  IInv'
<1>1. /\ pc = "inner" /\ pc' = "outer" /\ Kind' = Kind /\ Kind = "ir"
      /\ UNCHANGED <<job, b, j>>
      /\ r' = x' /\ hist' = Append(hist, x')
      /\ R' = [R EXCEPT !.outer = @ + 1]
  BY DEF RefineX, Kind, innerVars
<1>2. x' \in Magnitudes
  BY TheConstants DEF RefineX, Updated, IInv, ControlInv
<1>3. /\ R \in [outer : Nat, inner_total : Nat, reached : BOOLEAN]
      /\ R.outer = Len(hist) /\ R.outer < MaxOuter
      /\ j \in 0 .. KInner /\ KInner \in Nat /\ MaxOuter \in Nat /\ Solving
      /\ hist \in Seq(Magnitudes) /\ Len(hist) \in Nat
      /\ KInner * Len(hist) \in Nat
      /\ KInner * (Len(hist) + 1) = KInner * Len(hist) + KInner
  BY <1>1, SolverFacts DEF IInv, SolverInv
<1>4. hist' \in Seq(Magnitudes) /\ Len(hist') = Len(hist) + 1
  BY <1>1, <1>2, <1>3
<1>5. ControlInv' /\ CurveInv'
  BY <1>1, <1>2, <1>4 DEF IInv, ControlInv, CurveInv, Curving
<1>6. SolverInv'
  <2>1. R.inner_total <= KInner * Len(hist) + j
    BY <1>1, <1>3 DEF IInv, SolverInv, Charged
  <2>2. /\ R' \in [outer : Nat, inner_total : Nat, reached : BOOLEAN]
        /\ R'.outer = R.outer + 1 /\ R'.inner_total = R.inner_total
    <3>1. R' = [R EXCEPT !.outer = R.outer + 1]
      BY <1>1
    <3>2. R \in [outer : Nat, inner_total : Nat, reached : BOOLEAN]
      BY <1>3
    <3>. QED
      BY <3>1, <3>2
  <2>3. Charged' = KInner * (Len(hist) + 1)
    BY <1>1, <1>4 DEF Charged
  <2>4. R'.inner_total <= Charged'
    BY <1>3, <2>1, <2>2, <2>3
  <2>5. R'.outer = Len(hist') /\ R'.outer <= MaxOuter
    BY <1>3, <1>4, <2>2
  <2>. QED
    BY <1>1, <1>3, <2>2, <2>4, <2>5 DEF SolverInv
<1>. QED
  BY <1>5, <1>6 DEF IInv

LEMMA TurnDirectionInv ==
  ASSUME IInv, TurnDirection
  PROVE  IInv'
<1>1. /\ pc = "inner" /\ pc' = "outer" /\ Kind' = Kind /\ Kind = "fcg"
      /\ UNCHANGED <<job, b, x, r, hist, j, R>>
  BY DEF TurnDirection, Kind, innerVars
<1>2. /\ R \in [outer : Nat, inner_total : Nat, reached : BOOLEAN]
      /\ j \in 0 .. KInner /\ KInner \in Nat /\ Solving
      /\ KInner * Len(hist) \in Nat
      /\ KInner * (Len(hist) + 1) = KInner * Len(hist) + KInner
  BY <1>1, SolverFacts
<1>3. ControlInv' /\ CurveInv'
  BY <1>1 DEF IInv, ControlInv, CurveInv, Curving
<1>4. SolverInv'
  <2>1. R.inner_total <= KInner * Len(hist) + j
    BY <1>1, <1>2 DEF IInv, SolverInv, Charged
  <2>2. Charged' = KInner * (Len(hist) + 1)
    BY <1>1 DEF Charged
  <2>3. R.inner_total <= Charged'
    BY <1>2, <2>1, <2>2
  <2>4. (Lt(Relative(r), Tol) <=> Lt(Relative(r), Tol)')
    BY <1>1 DEF Relative
  <2>. QED
    BY <1>1, <1>2, <2>3, <2>4 DEF IInv, SolverInv
<1>. QED
  BY <1>3, <1>4 DEF IInv

\* What the outer loop leaves with: a verdict of x, and no more work than was
\* charged before.
LEMMA EndRunInv ==
  ASSUME IInv, EndRun, pc \in {"outer", "converged"}, UNCHANGED <<job, b, x, r, hist, j>>
  PROVE  IInv'
<1>1. /\ pc' = "done" /\ Kind' = Kind /\ R' = [R EXCEPT !.reached = Verdict]
  BY DEF EndRun, Kind
<1>2. /\ R \in [outer : Nat, inner_total : Nat, reached : BOOLEAN]
      /\ R.outer = Len(hist) /\ R.outer <= MaxOuter
      /\ j \in 0 .. KInner /\ Solving /\ Kind \in {"ir", "fcg"}
      /\ KInner \in Nat /\ KInner * Len(hist) \in Nat
      /\ KInner * (Len(hist) + 1) = KInner * Len(hist) + KInner
  BY SolverFacts
<1>3. ControlInv' /\ CurveInv'
  BY <1>1, <1>2 DEF IInv, ControlInv, CurveInv, Curving
<1>4. SolverInv'
  <2>1. Verdict <=> b = "some" /\ Le(x, Tol)
    <3>1. Kind = "ir" => r = x
      BY <1>2 DEF IInv, SolverInv
    <3>2. FinalRelres = Relative(x)
      BY <3>1 DEF FinalRelres
    <3>. QED
      BY <3>2 DEF Verdict, Relative, Le
  <2>2. Verdict \in BOOLEAN
    BY DEF Verdict, Le
  <2>3. /\ R' \in [outer : Nat, inner_total : Nat, reached : BOOLEAN]
        /\ R'.outer = R.outer /\ R'.inner_total = R.inner_total
        /\ R'.reached = Verdict
    BY <1>1, <1>2, <2>2
  <2>4. (Lt(Relative(r), Tol) <=> Lt(Relative(r), Tol)')
    BY DEF Relative
  <2>5. R.inner_total <= Charged'
    <3>1. CASE Kind = "ir"
      <4>1. Charged = KInner * Len(hist) /\ Charged' = KInner * Len(hist)
        BY <1>1, <3>1 DEF Charged, IInv, ControlInv
      <4>. QED
        BY <1>2, <4>1 DEF IInv, SolverInv
    <3>2. CASE Kind = "fcg" /\ pc = "outer"
      <4>1. ~Lt(Relative(r), Tol)
        BY <1>2, <3>2 DEF IInv, SolverInv
      <4>2. Charged = KInner * (Len(hist) + 1) /\ Charged' = KInner * (Len(hist) + 1)
        BY <1>1, <2>4, <3>2, <4>1 DEF Charged
      <4>. QED
        BY <1>2, <4>2 DEF IInv, SolverInv
    <3>3. CASE Kind = "fcg" /\ pc = "converged"
      <4>1. Lt(Relative(r), Tol)
        BY <1>2, <3>3 DEF IInv, SolverInv
      <4>2. Charged = KInner * Len(hist) /\ Charged' = KInner * Len(hist)
        BY <1>1, <2>4, <3>3, <4>1 DEF Charged
      <4>. QED
        BY <1>2, <4>2 DEF IInv, SolverInv
    <3>. QED
      BY <1>2, <3>1, <3>2, <3>3
  <2>6. (b = "some" /\ Le(x, Tol))' <=> b = "some" /\ Le(x, Tol)
    BY DEF Le
  <2>7. Kind' = "ir" => r' = x'
    BY <1>1, <1>2 DEF IInv, SolverInv
  <2>. QED
    BY <1>1, <1>2, <2>1, <2>3, <2>5, <2>6, <2>7 DEF SolverInv
<1>. QED
  BY <1>3, <1>4 DEF IInv

LEMMA RefineTestInv ==
  ASSUME IInv, RefineTest
  PROVE  IInv'
<1>1. /\ pc = "outer" /\ Kind = "ir" /\ R.outer < MaxOuter
      /\ UNCHANGED <<job, b, x, r, hist>> /\ Kind' = Kind
  BY DEF RefineTest, iterate, Kind
<1>2. CASE Lt(Relative(r), Tol)
  BY <1>1, <1>2, EndRunInv DEF RefineTest, innerVars
<1>3. CASE ~Lt(Relative(r), Tol)
  <2>1. pc' = "inner" /\ j' = 0 /\ R' = R
    BY <1>3 DEF RefineTest, StartInner
  <2>2. ControlInv' /\ CurveInv'
    BY <1>1, <2>1 DEF IInv, ControlInv, CurveInv, Curving
  <2>3. /\ KInner \in Nat /\ KInner * Len(hist) \in Nat /\ Solving
    BY <1>1, SolverFacts
  <2>4. R.inner_total <= KInner * Len(hist)
    BY <1>1, <2>3 DEF IInv, SolverInv, Charged
  <2>5. Charged' = KInner * Len(hist) + 0
    BY <1>1, <2>1 DEF Charged
  <2>6. R'.inner_total <= Charged'
    BY <2>1, <2>3, <2>4, <2>5
  <2>7. SolverInv'
    BY <1>1, <2>1, <2>3, <2>6 DEF IInv, SolverInv
  <2>. QED
    BY <2>2, <2>7 DEF IInv
<1>. QED
  BY <1>2, <1>3

LEMMA FlexibleUpdateInv ==
  ASSUME IInv, FlexibleUpdate
  PROVE  IInv'
<1>. DEFINE n == Len(hist)
<1>1. /\ pc = "outer" /\ Kind = "fcg" /\ R.outer < MaxOuter
      /\ UNCHANGED <<job, b>> /\ Kind' = Kind
      /\ hist' = Append(hist, x')
  BY DEF FlexibleUpdate, Kind
<1>2. x' \in Magnitudes
  BY TheConstants DEF FlexibleUpdate, Updated
<1>3. /\ R \in [outer : Nat, inner_total : Nat, reached : BOOLEAN]
      /\ R.outer = n /\ j \in 0 .. KInner /\ KInner \in Nat /\ MaxOuter \in Nat /\ Solving
      /\ hist \in Seq(Magnitudes) /\ n \in Nat
      /\ KInner * (n + 1) \in Nat
  BY <1>1, SolverFacts
<1>4. hist' \in Seq(Magnitudes) /\ Len(hist') = n + 1
  BY <1>1, <1>2, <1>3
<1>5. R.inner_total <= KInner * (n + 1)
  BY <1>1, <1>3 DEF IInv, SolverInv, Charged
<1>6. /\ R' \in [outer : Nat, inner_total : Nat, reached : BOOLEAN]
      /\ R'.outer = n + 1 /\ R'.inner_total = R.inner_total
  <2>1. R' = [R EXCEPT !.outer = R.outer + 1]
    BY DEF FlexibleUpdate, OuterAtConvergence
  <2>. QED
    BY <1>3, <2>1
<1>7. Relative(r)' = Relative(r')
  BY <1>1 DEF Relative
<1>8. CASE Lt(Relative(r'), Tol)
  <2>1. pc' = "converged" /\ j' = j
    BY <1>8 DEF FlexibleUpdate, innerVars
  <2>2. ControlInv' /\ CurveInv'
    BY <1>1, <1>2, <1>4, <2>1 DEF IInv, ControlInv, CurveInv, Curving
  <2>3. Charged' = KInner * (n + 1)
    BY <1>4, <2>1 DEF Charged
  <2>4. SolverInv'
    BY <1>1, <1>3, <1>4, <1>5, <1>6, <1>7, <1>8, <2>1, <2>3 DEF SolverInv
  <2>. QED
    BY <2>2, <2>4 DEF IInv
<1>9. CASE ~Lt(Relative(r'), Tol)
  <2>1. pc' = "inner" /\ j' = 0
    BY <1>9 DEF FlexibleUpdate, StartInner
  <2>2. ControlInv' /\ CurveInv'
    BY <1>1, <1>2, <1>4, <2>1 DEF IInv, ControlInv, CurveInv, Curving
  <2>3. Charged' = KInner * (n + 1) + 0
    BY <1>4, <2>1 DEF Charged
  <2>4. R'.inner_total <= Charged'
    BY <1>3, <1>5, <1>6, <2>3
  <2>5. SolverInv'
    BY <1>1, <1>3, <1>4, <1>6, <1>7, <1>9, <2>1, <2>4 DEF SolverInv
  <2>. QED
    BY <2>2, <2>5 DEF IInv
<1>. QED
  BY <1>8, <1>9

-----------------------------------------------------------------------------
(* Every step. *)

\* An ended run is looked at, and what it reported stays.
LEMMA KeptInv ==
  ASSUME IInv, pc' = pc, UNCHANGED <<job, b, iterate, curveVars, innerVars, R>>
  PROVE  IInv'
BY DEF IInv, ControlInv, CurveInv, Curving, SolverInv, Solving, Charged, Kind,
       Relative, iterate, curveVars, innerVars

LEMMA StepInv == IInv /\ [Next]_vars => IInv'
<1>. SUFFICES ASSUME IInv, [Next]_vars PROVE IInv'
  OBVIOUS
<1>1. CASE Load
  BY <1>1, IdleInv DEF Load, iterate
<1>2. CASE NotSquare
  BY <1>2, IdleInv DEF NotSquare, Exit, iterate
<1>3. CASE Prepare
  <2>1. /\ b' \in Vectors /\ job' = 1 /\ 1 \in DOMAIN Jobs /\ Jobs[job'] = Jobs[1]
        /\ Fresh(Jobs[1], b')
    BY <1>3 DEF Prepare, IInv, ControlInv
  <2>. QED
    BY <2>1, FreshInv
<1>4. CASE Fails
  BY <1>4, IdleInv DEF Fails, Exit, iterate
<1>5. CASE Breakdown
  BY <1>5, BreakdownInv
<1>6. CASE Iterate
  BY <1>6, IterateInv
<1>7. CASE InnerStep
  BY <1>7, InnerStepInv
<1>8. CASE RefineX
  BY <1>8, RefineXInv
<1>9. CASE TurnDirection
  BY <1>9, TurnDirectionInv
<1>10. CASE RefineTest
  BY <1>10, RefineTestInv
<1>11. CASE LastOuter
  BY <1>11, EndRunInv DEF LastOuter, iterate, innerVars
<1>12. CASE FlexibleBreakdown
  BY <1>12, EndRunInv DEF FlexibleBreakdown, iterate, innerVars
<1>13. CASE FlexibleUpdate
  BY <1>13, FlexibleUpdateInv
<1>14. CASE FlexibleEnd
  BY <1>14, EndRunInv DEF FlexibleEnd, iterate, innerVars
<1>15. CASE WriteCurves
  <2>1. CASE pc' = pc
    BY <1>15, <2>1, KeptInv DEF WriteCurves
  <2>2. CASE pc' = "exit"
    BY <1>15, <2>2, IdleInv DEF WriteCurves, iterate
  <2>. QED
    BY <1>15, <2>1, <2>2 DEF WriteCurves, Exit
<1>16. CASE NextRun
  <2>1. job' = job + 1 /\ job' \in DOMAIN Jobs /\ b' = b /\ b \in Vectors
    BY <1>16, JobsAssumption DEF NextRun, IInv, ControlInv
  <2>2. Fresh(Jobs[job'], b)
    BY <1>16, <2>1 DEF NextRun
  <2>. QED
    BY <2>1, <2>2, FreshInv
<1>17. CASE WriteSolvers
  BY <1>17, IdleInv DEF WriteSolvers, Exit, iterate
<1>18. CASE Over \/ UNCHANGED vars
  BY <1>18, KeptInv DEF Over, vars
<1>. QED
  BY <1>1, <1>2, <1>3, <1>4, <1>5, <1>6, <1>7, <1>8, <1>9, <1>10, <1>11, <1>12, <1>13,
     <1>14, <1>15, <1>16, <1>17, <1>18 DEF Next

\* The inductive invariant, for every window, tolerance list, bound and list
\* of jobs.
THEOREM Inductive == Spec => []IInv
<1>. QED
  BY InitInv, StepInv, PTL DEF Spec

-----------------------------------------------------------------------------
(* What the reports say. *)

\* A curve reports the first iteration within each tolerance and the smallest
\* residual of its history, whatever came after them.
THEOREM CurvesReportHistory == Spec => []CurveReportsHistory
<1>1. IInv => CurveReportsHistory
  <2>. SUFFICES ASSUME IInv, pc = "done", Kind = "curve"
                PROVE  /\ R.total_iters = Len(hist)
                       /\ R.floor = BestOf(Len(hist))
                       /\ \A i \in DOMAIN Tols : R.iters_to_tol[i] = FirstWithin(Tols[i])
    BY DEF CurveReportsHistory, Run
  <2>1. BestOf(Len(hist)) = LeastOf(hist, Len(hist))
    BY DEF BestOf, LeastOf, Measured
  <2>2. \A i \in DOMAIN Tols : FirstWithin(Tols[i]) = FirstOf(hist, Tols[i])
    BY DEF FirstWithin, FirstOf, Within
  <2>. QED
    BY <2>1, <2>2 DEF IInv, CurveInv, Curving
<1>. QED
  BY <1>1, Inductive, PTL

\* A curve that was cut short had made no progress over the whole window.  The
\* best before the window is no smaller than prev_best was, since bests only
\* fall, and from prev_best there was no improvement.
THEOREM CutsAreStalls == Spec => []PlateauMeansNoProgress
<1>1. IInv => PlateauMeansNoProgress
  <2>. DEFINE n == Len(hist)
  <2>. SUFFICES ASSUME IInv, pc = "done", Kind = "curve", R.spd_ok,
                       R.total_iters < MaxIter, R.iters_to_tol[Len(Tols)] < 0
                PROVE  /\ n > Window + 1
                       /\ ~Improved(BestOf(n), BestOf(n - Window - 1))
    BY DEF PlateauMeansNoProgress, Run
  <2>1. /\ n \in Nat /\ hist \in Seq(Magnitudes) /\ Window \in Nat
        /\ best = LeastOf(hist, n) /\ since_improve \in 0 .. n
        /\ R.total_iters = n
        /\ n > 0 => /\ since_improve < n
                    /\ prev_best = LeastOf(hist, n - since_improve)
                    /\ ~Improved(best, prev_best) \/ since_improve = 0
        /\ R.spd_ok /\ n < MaxIter /\ R.iters_to_tol[Len(Tols)] < 0 => since_improve > Window
    BY BoundsAssumption DEF IInv, ControlInv, CurveInv, Curving
  <2>2. since_improve > Window /\ n > Window + 1
    BY <2>1
  <2>. DEFINE early == (n - Window) - 1
              late  == n - since_improve
  <2>3. early \in 0 .. n /\ late \in 0 .. early /\ n - Window - 1 = early
    BY <2>1, <2>2
  <2>4. prev_best = LeastOf(hist, late) /\ ~Improved(best, prev_best)
    BY <2>1, <2>2
  <2>5. LeastOf(hist, early) <= prev_best
    BY <2>1, <2>3, <2>4, BestFalls
  <2>6. best \in Nat /\ prev_best \in Nat /\ LeastOf(hist, early) \in Nat
    <3>1. n \in 0 .. Len(hist) /\ late \in 0 .. Len(hist) /\ early \in 0 .. Len(hist)
      BY <2>1, <2>3
    <3>. QED
      BY <2>1, <2>4, <3>1, BestIs
  <2>7. ~Improved(LeastOf(hist, n), LeastOf(hist, early))
    BY <2>1, <2>4, <2>5, <2>6, TheConstants DEF Improved
  <2>8. BestOf(n) = LeastOf(hist, n) /\ BestOf(early) = LeastOf(hist, early)
    BY DEF BestOf, LeastOf, Measured
  <2>. QED
    BY <2>2, <2>3, <2>7, <2>8
<1>. QED
  BY <1>1, Inductive, PTL

\* A system is called solved exactly when the x that is returned solves it.
THEOREM VerdictsHold == Spec => []VerdictIsOfSolution
<1>1. IInv => VerdictIsOfSolution
  BY DEF IInv, SolverInv, Solving, VerdictIsOfSolution, Run
<1>. QED
  BY <1>1, Inductive, PTL

\* The iterations reported are the updates made, within k_inner for each.
THEOREM WorkIsCounted == Spec => []WorkCounted
<1>1. IInv => WorkCounted
  <2>. SUFFICES ASSUME IInv, pc = "done", Kind \in {"ir", "fcg"} PROVE WorkCounted
    BY DEF WorkCounted, Run
  <2>1. /\ R.outer = Len(hist) /\ R.outer <= MaxOuter /\ R.inner_total <= Charged
        /\ Len(hist) \in Nat
    BY DEF IInv, ControlInv, SolverInv, Solving
  <2>2. Len(hist) + 0 = Len(hist)
    BY <2>1
  <2>. DEFINE begin == IF Kind = "fcg" /\ ~Lt(Relative(r), Tol) THEN 1 ELSE 0
  <2>3. Charged = KInner * (Len(hist) + begin)
    BY <2>2 DEF Charged
  <2>. QED
    BY <2>1, <2>3 DEF WorkCounted, Run
<1>. QED
  BY <1>1, Inductive, PTL

-----------------------------------------------------------------------------
(* Sums over finite sets, whose elements are taken in any order. *)

\* The element a sum takes next.
Picked(s) == CHOOSE u \in s : TRUE

\* F holds the sum of the numbers val gives to the elements of every subset of S.
SumsUp(F, S, val) ==
  F = [s \in SUBSET S |-> IF s = {} THEN 0 ELSE val[Picked(s)] + F[s \ {Picked(s)}]]

\* Such sums exist: what FoldSet takes for its result is one.
LEMMA SumsExist ==
  ASSUME NEW S, IsFiniteSet(S), NEW val
  PROVE  \E F : SumsUp(F, S, val)
<1>. DEFINE D(k) == {s \in SUBSET S : Cardinality(s) <= k}
            Upto(f, k) == /\ f = [s \in D(k) |-> f[s]]
                          /\ \A s \in D(k) : f[s] = IF s = {} THEN 0
                                                    ELSE val[Picked(s)] + f[s \ {Picked(s)}]
            T == {k \in Nat : ~ \E f : Upto(f, k)}
<1>1. \A s \in SUBSET S : IsFiniteSet(s) /\ Cardinality(s) \in Nat
  BY FS_Subset, FS_CardinalityType
<1>2. T = {}
  <2>1. SUFFICES ASSUME T # {} PROVE FALSE
    OBVIOUS
  <2>2. PICK k \in T : \A m \in T : k <= m
    <3>1. T \subseteq Nat
      OBVIOUS
    <3>. HIDE DEF T
    <3>. QED
      BY <2>1, <3>1, LeastNatural
  <2>3. k # 0
    <3>1. \A s \in D(0) : s = {}
      <4>1. SUFFICES ASSUME NEW s \in D(0) PROVE s = {}
        OBVIOUS
      <4>2. IsFiniteSet(s) /\ Cardinality(s) = 0
        BY <1>1
      <4>. QED
        BY <4>2, FS_EmptySet
    <3>2. Upto([s \in D(0) |-> 0], 0)
      BY <3>1
    <3>. HIDE DEF Upto
    <3>3. \E f : Upto(f, 0)
      BY <3>2, Zenon
    <3>. QED
      BY <2>2, <3>3
  <2>4. k - 1 \in Nat /\ k - 1 \notin T
    <3>1. k \in Nat
      BY <2>2
    <3>2. k - 1 \in Nat /\ k - 1 < k
      BY <2>3, <3>1
    <3>. HIDE DEF T
    <3>. QED
      BY <2>2, <3>1, <3>2
  <2>5. PICK f : Upto(f, k - 1)
    <3>. HIDE DEF Upto
    <3>. QED
      BY <2>4
  <2>. DEFINE g == [s \in D(k) |-> IF s = {} THEN 0 ELSE val[Picked(s)] + f[s \ {Picked(s)}]]
  <2>6. ASSUME NEW s \in D(k), s # {} PROVE g[s \ {Picked(s)}] = f[s \ {Picked(s)}]
    <3>. DEFINE t == s \ {Picked(s)}
    <3>1. Picked(s) \in s
      BY <2>6 DEF Picked
    <3>2. IsFiniteSet(s) /\ Cardinality(s) \in Nat /\ Cardinality(s) <= k
      BY <1>1
    <3>3. Cardinality(t) = Cardinality(s) - 1
      BY <3>1, <3>2, FS_RemoveElement
    <3>4. t \in SUBSET S /\ Cardinality(t) <= k - 1 /\ Cardinality(t) <= k
      BY <2>4, <3>2, <3>3
    <3>5. t \in D(k) /\ t \in D(k - 1)
      BY <3>4
    <3>. HIDE DEF t, D
    <3>6. g[t] = IF t = {} THEN 0 ELSE val[Picked(t)] + f[t \ {Picked(t)}]
      BY <3>5
    <3>7. f[t] = IF t = {} THEN 0 ELSE val[Picked(t)] + f[t \ {Picked(t)}]
      BY <2>5, <3>5
    <3>8. g[t] = f[t]
      BY <3>6, <3>7
    <3>. QED
      BY <3>8 DEF t
  <2>7. Upto(g, k)
    <3>1. g = [s \in D(k) |-> g[s]]
      BY Zenon
    <3>2. ASSUME NEW s \in D(k)
          PROVE  g[s] = IF s = {} THEN 0 ELSE val[Picked(s)] + g[s \ {Picked(s)}]
      <4>1. g[s] = IF s = {} THEN 0 ELSE val[Picked(s)] + f[s \ {Picked(s)}]
        BY Zenon
      <4>. HIDE DEF g, D
      <4>. QED
        BY <2>6, <4>1, Zenon
    <3>. HIDE DEF g, D
    <3>. QED
      BY <3>1, <3>2
  <2>8. \E h : Upto(h, k)
    BY <2>7, Zenon
  <2>. HIDE DEF Upto
  <2>. QED
    BY <2>2, <2>8
<1>. DEFINE n == Cardinality(S)
<1>3. n \in Nat /\ \A s \in SUBSET S : Cardinality(s) <= n
  BY FS_Subset, FS_CardinalityType
<1>4. D(n) = SUBSET S
  BY <1>3
<1>5. PICK F : Upto(F, n)
  <2>. HIDE DEF Upto, n
  <2>. QED
    BY <1>2, <1>3
<1>6. /\ F = [s \in SUBSET S |-> F[s]]
      /\ \A s \in SUBSET S : F[s] = IF s = {} THEN 0 ELSE val[Picked(s)] + F[s \ {Picked(s)}]
  <2>. HIDE DEF D
  <2>. QED
    BY <1>4, <1>5
<1>7. SumsUp(F, S, val)
  BY <1>6 DEF SumsUp
<1>. QED
  BY <1>7

\* A sum is that of any one element and of the others.
Adds(F, S, val) ==
  /\ F[{}] = 0
  /\ \A s \in SUBSET S : F[s] \in Int
  /\ \A s \in SUBSET S : \A u \in s : F[s] = val[u] + F[s \ {u}]

LEMMA SumSteps ==
  ASSUME NEW S, IsFiniteSet(S), NEW val, \A e \in S : val[e] \in Int,
         NEW F, SumsUp(F, S, val)
  PROVE  Adds(F, S, val)
<1>. DEFINE Steps(s) == F[s] \in Int /\ \A u \in s : F[s] = val[u] + F[s \ {u}]
            T == {k \in Nat : \E s \in SUBSET S : Cardinality(s) = k /\ ~Steps(s)}
<1>1. \A s \in SUBSET S : F[s] = IF s = {} THEN 0 ELSE val[Picked(s)] + F[s \ {Picked(s)}]
  BY DEF SumsUp
<1>2. F[{}] = 0
  BY <1>1
<1>3. \A s \in SUBSET S : IsFiniteSet(s) /\ Cardinality(s) \in Nat
  BY FS_Subset, FS_CardinalityType
<1>4. T = {}
  <2>1. SUFFICES ASSUME T # {} PROVE FALSE
    OBVIOUS
  <2>2. PICK k \in T : \A m \in T : k <= m
    <3>1. T \subseteq Nat
      OBVIOUS
    <3>. HIDE DEF T
    <3>. QED
      BY <2>1, <3>1, LeastNatural
  <2>3. PICK s \in SUBSET S : Cardinality(s) = k /\ ~Steps(s)
    BY <2>2
  <2>11. ASSUME NEW m \in Nat, m < k PROVE m \notin T
    <3>1. k \in Nat
      BY <2>2
    <3>. HIDE DEF T
    <3>. QED
      BY <2>2, <2>11, <3>1
  <2>4. ASSUME NEW u \in s PROVE Steps(s \ {u}) /\ s \ {u} \in SUBSET S
    <3>1. s \ {u} \in SUBSET S
      OBVIOUS
    <3>2. Cardinality(s \ {u}) = Cardinality(s) - 1
      BY <1>3, FS_RemoveElement
    <3>3. Cardinality(s \ {u}) \in Nat /\ Cardinality(s \ {u}) < k
      BY <1>3, <2>3, <3>1, <3>2
    <3>4. Cardinality(s \ {u}) \notin T
      BY <2>11, <3>3
    <3>. HIDE DEF Steps
    <3>. QED
      BY <3>1, <3>3, <3>4
  <2>5. s # {}
    BY <1>2, <2>3
  <2>. DEFINE y == Picked(s)
  <2>6. y \in s
    BY <2>5 DEF Picked
  <2>7. F[s] = val[y] + F[s \ {y}]
    BY <1>1, <2>5
  <2>. HIDE DEF y
  <2>8. F[s \ {y}] \in Int /\ val[y] \in Int
    BY <2>4, <2>6
  <2>9. F[s] \in Int
    BY <2>7, <2>8
  <2>10. ASSUME NEW u \in s PROVE F[s] = val[u] + F[s \ {u}]
    <3>1. CASE u = y
      BY <2>7, <3>1
    <3>2. CASE u # y
      <4>1. u \in s \ {y} /\ y \in s \ {u}
        BY <2>6, <3>2
      <4>2. F[s \ {y}] = val[u] + F[(s \ {y}) \ {u}]
        BY <2>4, <2>6, <4>1
      <4>3. F[s \ {u}] = val[y] + F[(s \ {u}) \ {y}]
        BY <2>4, <4>1
      <4>4. (s \ {u}) \ {y} = (s \ {y}) \ {u}
        OBVIOUS
      <4>5. (s \ {y}) \ {u} \in SUBSET S /\ F[(s \ {y}) \ {u}] \in Int
        <5>1. F[s \ {y}] \in Int /\ F[s \ {y}] = val[u] + F[(s \ {y}) \ {u}] /\ val[u] \in Int
          BY <2>8, <4>2
        <5>2. Cardinality((s \ {y}) \ {u}) \in Nat /\ Cardinality((s \ {y}) \ {u}) < k
          <6>1. Cardinality(s \ {y}) = k - 1 /\ IsFiniteSet(s \ {y})
            BY <1>3, <2>3, <2>6, FS_RemoveElement
          <6>2. Cardinality((s \ {y}) \ {u}) = Cardinality(s \ {y}) - 1
            BY <4>1, <6>1, FS_RemoveElement
          <6>3. Cardinality((s \ {y}) \ {u}) \in Nat /\ k \in Nat
            BY <1>3, <2>2
          <6>. QED
            BY <6>1, <6>2, <6>3
        <5>3. (s \ {y}) \ {u} \in SUBSET S
          OBVIOUS
        <5>4. Cardinality((s \ {y}) \ {u}) \notin T
          BY <2>11, <5>2
        <5>. QED
          BY <5>2, <5>3, <5>4
      <4>6. val[u] \in Int
        OBVIOUS
      <4>7. F[(s \ {u}) \ {y}] = F[(s \ {y}) \ {u}]
        BY <4>4
      <4>. QED
        BY <2>7, <2>8, <4>2, <4>3, <4>5, <4>6, <4>7
    <3>. QED
      BY <3>1, <3>2
  <2>. QED
    BY <2>3, <2>9, <2>10
<1>5. \A s \in SUBSET S : Steps(s)
  <2>1. SUFFICES ASSUME NEW s \in SUBSET S, ~Steps(s) PROVE FALSE
    OBVIOUS
  <2>2. Cardinality(s) \in T
    BY <1>3, <2>1
  <2>. QED
    BY <1>4, <2>2
<1>. QED
  BY <1>2, <1>5 DEF Adds

\* Sums of equal numbers over sets that correspond element by element are equal.
LEMMA SumsAgree ==
  ASSUME NEW S, IsFiniteSet(S), NEW T, IsFiniteSet(T),
         NEW vS, \A e \in S : vS[e] \in Int, NEW F, SumsUp(F, S, vS),
         NEW vT, \A e \in T : vT[e] \in Int, NEW G, SumsUp(G, T, vT),
         NEW g, \A u \in S : g[u] \in T /\ vT[g[u]] = vS[u],
         \A u, y \in S : g[u] = g[y] => u = y
  PROVE  F[S] = G[{g[u] : u \in S}]
<1>1. \A s \in SUBSET S : IsFiniteSet(s) /\ Cardinality(s) \in Nat
  BY FS_Subset, FS_CardinalityType
<1>2. /\ F[{}] = 0 /\ \A s \in SUBSET S : F[s] \in Int
      /\ \A s \in SUBSET S : \A u \in s : F[s] = vS[u] + F[s \ {u}]
  <2>1. Adds(F, S, vS)
    BY SumSteps, Zenon
  <2>. QED
    BY <2>1 DEF Adds
<1>3. /\ G[{}] = 0 /\ \A s \in SUBSET T : G[s] \in Int
      /\ \A s \in SUBSET T : \A u \in s : G[s] = vT[u] + G[s \ {u}]
  <2>1. Adds(G, T, vT)
    BY SumSteps, Zenon
  <2>. QED
    BY <2>1 DEF Adds
<1>. DEFINE Image(s) == {g[u] : u \in s}
            Bad == {k \in Nat : \E s \in SUBSET S : Cardinality(s) = k /\ F[s] # G[Image(s)]}
<1>4. Bad = {}
  <2>1. SUFFICES ASSUME Bad # {} PROVE FALSE
    OBVIOUS
  <2>2. PICK k \in Bad : \A m \in Bad : k <= m
    <3>1. Bad \subseteq Nat
      OBVIOUS
    <3>. HIDE DEF Bad
    <3>. QED
      BY <2>1, <3>1, LeastNatural
  <2>3. PICK s \in SUBSET S : Cardinality(s) = k /\ F[s] # G[Image(s)]
    BY <2>2
  <2>4. s # {}
    <3>1. Image({}) = {}
      OBVIOUS
    <3>. QED
      BY <1>2, <1>3, <2>3, <3>1
  <2>5. PICK u \in s : TRUE
    BY <2>4
  <2>. DEFINE t == s \ {u}
  <2>6. t \in SUBSET S /\ Cardinality(t) = Cardinality(s) - 1
    BY <1>1, FS_RemoveElement
  <2>7. F[t] = G[Image(t)]
    <3>1. Cardinality(t) \in Nat /\ Cardinality(t) < k
      BY <1>1, <2>3, <2>6
    <3>2. Cardinality(t) \notin Bad
      <4>1. k \in Nat
        BY <2>2
      <4>. HIDE DEF Bad, t
      <4>. QED
        BY <2>2, <3>1, <4>1
    <3>. HIDE DEF t, Image
    <3>. QED
      BY <2>6, <3>1, <3>2
  <2>8. Image(s) \in SUBSET T /\ g[u] \in Image(s)
    OBVIOUS
  <2>9. Image(s) \ {g[u]} = Image(t)
    OBVIOUS
  <2>. HIDE DEF Image
  <2>. HIDE DEF t
  <2>10. G[Image(s)] = vT[g[u]] + G[Image(t)]
    <3>1. G[Image(s)] = vT[g[u]] + G[Image(s) \ {g[u]}]
      BY <1>3, <2>8, Zenon
    <3>. QED
      BY <2>9, <3>1
  <2>11. F[s] = vS[u] + F[t]
    BY <1>2, Zenon DEF t
  <2>12. vT[g[u]] = vS[u]
    OBVIOUS
  <2>. QED
    BY <2>3, <2>7, <2>10, <2>11, <2>12
<1>5. Cardinality(S) \notin Bad /\ S \in SUBSET S /\ Cardinality(S) \in Nat
  BY <1>1, <1>4
<1>. QED
  BY <1>5

\* FoldSet's sums of the entries' values are such sums.
LEMMA SumOfIs ==
  ASSUME NEW S, IsFiniteSet(S)
  PROVE  \E F : SumsUp(F, S, [e \in S |-> e[2]]) /\ SumOf(S) = F[S]
<1>. DEFINE val == [e \in S |-> e[2]]
            Rec(f) == [s \in SUBSET S |-> IF s = {} THEN 0 ELSE Picked(s)[2] + f[s \ {Picked(s)}]]
            F == CHOOSE f : f = Rec(f)
<1>1. SumOf(S) = F[S]
  BY Zenon DEF SumOf, FoldSet, MapThenFoldSet, Picked
<1>2. ASSUME NEW f PROVE f = Rec(f) <=> SumsUp(f, S, val)
  <2>1. \A s \in SUBSET S : s # {} => val[Picked(s)] = Picked(s)[2]
    BY DEF Picked
  <2>2. Rec(f) = [s \in SUBSET S |-> IF s = {} THEN 0 ELSE val[Picked(s)] + f[s \ {Picked(s)}]]
    <3>. HIDE DEF val
    <3>. QED
      BY <2>1
  <2>. HIDE DEF val, Rec
  <2>. QED
    BY <2>2 DEF SumsUp
<1>3. \E f : SumsUp(f, S, val)
  <2>. HIDE DEF val
  <2>. QED
    BY SumsExist
<1>4. SumsUp(F, S, val)
  <2>. HIDE DEF Rec, val
  <2>. QED
    BY <1>2, <1>3, Zenon
<1>. HIDE DEF F
<1>. QED
  BY <1>1, <1>4

LEMMA AbsSumOfIs ==
  ASSUME NEW S, IsFiniteSet(S)
  PROVE  \E F : SumsUp(F, S, [e \in S |-> Abs(e[2])]) /\ AbsSumOf(S) = F[S]
<1>. DEFINE val == [e \in S |-> Abs(e[2])]
            Rec(f) == [s \in SUBSET S |->
                         IF s = {} THEN 0 ELSE Abs(Picked(s)[2]) + f[s \ {Picked(s)}]]
            F == CHOOSE f : f = Rec(f)
<1>1. AbsSumOf(S) = F[S]
  BY Zenon DEF AbsSumOf, FoldSet, MapThenFoldSet, Picked
<1>2. ASSUME NEW f PROVE f = Rec(f) <=> SumsUp(f, S, val)
  <2>1. \A s \in SUBSET S : s # {} => val[Picked(s)] = Abs(Picked(s)[2])
    BY DEF Picked
  <2>2. Rec(f) = [s \in SUBSET S |-> IF s = {} THEN 0 ELSE val[Picked(s)] + f[s \ {Picked(s)}]]
    <3>. HIDE DEF val
    <3>. QED
      BY <2>1
  <2>. HIDE DEF val, Rec
  <2>. QED
    BY <2>2 DEF SumsUp
<1>3. \E f : SumsUp(f, S, val)
  <2>. HIDE DEF val
  <2>. QED
    BY SumsExist
<1>4. SumsUp(F, S, val)
  <2>. HIDE DEF Rec, val
  <2>. QED
    BY <1>2, <1>3, Zenon
<1>. HIDE DEF F
<1>. QED
  BY <1>1, <1>4

\* The sum of no entry, and of one.
LEMMA SumOfOne ==
  /\ SumOf({}) = 0
  /\ \A e : e[2] \in Int => SumOf({e}) = e[2]
<1>1. SumOf({}) = 0
  <2>1. IsFiniteSet({})
    BY FS_EmptySet
  <2>2. PICK F : SumsUp(F, {}, [e \in {} |-> e[2]]) /\ SumOf({}) = F[{}]
    BY <2>1, SumOfIs
  <2>. QED
    BY <2>2 DEF SumsUp
<1>2. ASSUME NEW e, e[2] \in Int PROVE SumOf({e}) = e[2]
  <2>. DEFINE S == {e}
              val == [u \in S |-> u[2]]
  <2>1. IsFiniteSet(S)
    BY FS_Singleton
  <2>2. PICK F : SumsUp(F, S, val) /\ SumOf(S) = F[S]
    <3>. HIDE DEF S
    <3>. QED
      BY <2>1, SumOfIs
  <2>3. \A u \in S : val[u] \in Int
    BY <1>2
  <2>4. val[e] = e[2] /\ e \in S /\ S \ {e} = {} /\ S \in SUBSET S
    OBVIOUS
  <2>. HIDE DEF S, val
  <2>5. Adds(F, S, val)
    BY <2>1, <2>2, <2>3, SumSteps, Zenon
  <2>6. F[S] = val[e] + F[S \ {e}] /\ F[{}] = 0
    BY <2>4, <2>5 DEF Adds
  <2>7. SumOf(S) = e[2]
    BY <1>2, <2>2, <2>4, <2>6
  <2>. QED
    BY <2>7 DEF S
<1>. QED
  BY <1>1, <1>2

\* A sum of absolute values is a number; turning the signs of the values does
\* not change it.
LEMMA AbsSums ==
  ASSUME NEW S, IsFiniteSet(S), \A e \in S : e = <<e[1], e[2]>> /\ e[2] \in Int,
         NEW sign \in {-1, 1}
  PROVE  /\ AbsSumOf(S) \in Int
         /\ IsFiniteSet({<<e[1], sign * e[2]>> : e \in S})
         /\ AbsSumOf({<<e[1], sign * e[2]>> : e \in S}) = AbsSumOf(S)
<1>. DEFINE T == {<<e[1], sign * e[2]>> : e \in S}
            g == [e \in S |-> <<e[1], sign * e[2]>>]
            vS == [e \in S |-> Abs(e[2])]
            vT == [e \in T |-> Abs(e[2])]
<1>1. PICK F : SumsUp(F, S, vS) /\ AbsSumOf(S) = F[S]
  BY AbsSumOfIs, Zenon
<1>2. \A e \in S : vS[e] \in Int
  BY DEF Abs
<1>3. \A u \in S : g[u] \in T /\ g[u][1] = u[1] /\ g[u][2] = sign * u[2]
  OBVIOUS
<1>4. \A u, y \in S : g[u] = g[y] => u = y
  <2>1. SUFFICES ASSUME NEW u \in S, NEW y \in S, g[u] = g[y] PROVE u = y
    OBVIOUS
  <2>2. u[1] = y[1] /\ sign * u[2] = sign * y[2]
    BY <1>3, <2>1
  <2>3. u[2] = y[2]
    <3>1. u[2] \in Int /\ y[2] \in Int
      OBVIOUS
    <3>2. CASE sign = 1
      BY <2>2, <3>1, <3>2
    <3>3. CASE sign = -1
      BY <2>2, <3>1, <3>3
    <3>. QED
      BY <3>2, <3>3
  <2>. QED
    BY <2>2, <2>3
<1>5. IsFiniteSet(T)
  <2>1. T = {g[e] : e \in S} /\ DOMAIN g = S
    OBVIOUS
  <2>. HIDE DEF T, g
  <2>. QED
    BY <1>4, <2>1, OneToOne
<1>6. PICK G : SumsUp(G, T, vT) /\ AbsSumOf(T) = G[T]
  <2>. HIDE DEF T
  <2>. QED
    BY <1>5, AbsSumOfIs, Zenon
<1>7. \A u \in S : vT[g[u]] = vS[u]
  <2>1. SUFFICES ASSUME NEW u \in S PROVE Abs(sign * u[2]) = Abs(u[2])
    BY <1>3
  <2>2. u[2] \in Int
    OBVIOUS
  <2>3. CASE sign = 1
    BY <2>2, <2>3
  <2>4. CASE sign = -1
    BY <2>2, <2>4 DEF Abs
  <2>. QED
    BY <2>3, <2>4
<1>8. \A t \in T : vT[t] \in Int
  <2>1. SUFFICES ASSUME NEW u \in S PROVE vT[g[u]] \in Int
    OBVIOUS
  <2>. QED
    BY <1>2, <1>7
<1>9. T = {g[u] : u \in S}
  OBVIOUS
<1>10. \A u \in S : g[u] \in T /\ vT[g[u]] = vS[u]
  BY <1>3, <1>7
<1>. HIDE DEF T, g, vS, vT
<1>11. F[S] = G[T]
  <2>1. F[S] = G[{g[u] : u \in S}]
    BY <1>1, <1>2, <1>4, <1>5, <1>6, <1>8, <1>10, SumsAgree
  <2>. QED
    BY <1>9, <2>1
<1>12. F[S] \in Int
  <2>1. Adds(F, S, vS)
    BY <1>1, <1>2, SumSteps, Zenon
  <2>. QED
    BY <2>1 DEF Adds
<1>. QED
  BY <1>1, <1>5, <1>6, <1>11, <1>12 DEF T

\* Numbers of two sets without a common element are summed set by set.
LEMMA PartsAdd ==
  ASSUME NEW A, IsFiniteSet(A), NEW B, IsFiniteSet(B), A \cap B = {},
         \A e \in A : e[2] \in Nat, \A e \in B : e[2] \in Nat
  PROVE  AbsSumOf(A \cup B) = SumOf(A) + SumOf(B)
<1>. DEFINE S == A \cup B
            vS == [e \in S |-> Abs(e[2])]
            vA == [e \in A |-> e[2]]
            vB == [e \in B |-> e[2]]
            id == [e \in A |-> e]
<1>1. IsFiniteSet(S)
  BY FS_Union
<1>2. /\ \A e \in S : vS[e] = e[2] /\ vS[e] \in Int
      /\ \A e \in A : e \in S /\ vA[e] = e[2] /\ vA[e] \in Int
      /\ \A e \in B : e \in S /\ vB[e] = e[2] /\ vB[e] \in Int
  BY DEF Abs
<1>3. PICK F : SumsUp(F, S, vS) /\ AbsSumOf(S) = F[S]
  <2>. HIDE DEF S
  <2>. QED
    BY <1>1, AbsSumOfIs, Zenon
<1>4. PICK G : SumsUp(G, A, vA) /\ SumOf(A) = G[A]
  BY SumOfIs, Zenon
<1>5. PICK H : SumsUp(H, B, vB) /\ SumOf(B) = H[B]
  BY SumOfIs, Zenon
<1>6. id = [e \in A |-> e] /\ {id[e] : e \in A} = A /\ \A e \in A : id[e] = e
  OBVIOUS
<1>7. A \subseteq S /\ B \subseteq S /\ S = A \cup B
  OBVIOUS
<1>. HIDE DEF S, vS, vA, vB, id
<1>8. G[A] = F[A]
  <2>1. \A u \in A : id[u] \in S /\ vS[id[u]] = vA[u]
    BY <1>2, <1>6
  <2>2. \A u, y \in A : id[u] = id[y] => u = y
    BY <1>6
  <2>3. (\A e \in A : vA[e] \in Int) /\ (\A e \in S : vS[e] \in Int)
    BY <1>2
  <2>4. SumsUp(G, A, vA) /\ SumsUp(F, S, vS)
    BY <1>3, <1>4
  <2>5. G[A] = F[{id[u] : u \in A}]
    BY <1>1, <2>1, <2>2, <2>3, <2>4, SumsAgree
  <2>. QED
    BY <1>6, <2>5
<1>9. Adds(F, S, vS) /\ Adds(H, B, vB)
  <2>1. Adds(F, S, vS)
    BY <1>1, <1>2, <1>3, SumSteps, Zenon
  <2>2. Adds(H, B, vB)
    BY <1>2, <1>5, SumSteps, Zenon
  <2>. QED
    BY <2>1, <2>2
<1>10. \A t \in SUBSET B : IsFiniteSet(t) /\ Cardinality(t) \in Nat
  BY FS_Subset, FS_CardinalityType
<1>. DEFINE Bad == {k \in Nat : \E t \in SUBSET B : Cardinality(t) = k /\ F[A \cup t] # F[A] + H[t]}
<1>11. Bad = {}
  <2>1. SUFFICES ASSUME Bad # {} PROVE FALSE
    OBVIOUS
  <2>2. PICK k \in Bad : \A l \in Bad : k <= l
    <3>1. Bad \subseteq Nat
      OBVIOUS
    <3>. HIDE DEF Bad
    <3>. QED
      BY <2>1, <3>1, LeastNatural
  <2>3. PICK t \in SUBSET B : Cardinality(t) = k /\ F[A \cup t] # F[A] + H[t]
    BY <2>2
  <2>4. t # {}
    <3>1. F[A] \in Int /\ H[{}] = 0
      BY <1>7, <1>9 DEF Adds
    <3>2. A \cup {} = A /\ F[A] + 0 = F[A]
      BY <3>1
    <3>3. F[A \cup {}] = F[A] + H[{}]
      BY <3>1, <3>2
    <3>. QED
      BY <2>3, <3>3, Zenon
  <2>5. PICK u \in t : TRUE
    BY <2>4
  <2>. DEFINE rest == t \ {u}
  <2>6. rest \in SUBSET B /\ Cardinality(rest) = Cardinality(t) - 1 /\ IsFiniteSet(t)
    BY <1>10, FS_RemoveElement
  <2>7. F[A \cup rest] = F[A] + H[rest]
    <3>1. Cardinality(rest) \in Nat /\ Cardinality(rest) < k
      BY <1>10, <2>3, <2>6
    <3>2. Cardinality(rest) \notin Bad
      <4>1. k \in Nat
        BY <2>2
      <4>. HIDE DEF Bad, rest
      <4>. QED
        BY <2>2, <3>1, <4>1
    <3>. HIDE DEF rest
    <3>. QED
      BY <2>6, <3>1, <3>2
  <2>8. u \in B /\ u \notin A /\ u \in S
    BY <1>7
  <2>9. (A \cup t) \ {u} = A \cup rest /\ A \cup t \in SUBSET S /\ A \cup rest \in SUBSET S
    BY <1>7, <2>8
  <2>10. F[A \cup t] = vS[u] + F[A \cup rest]
    BY <1>9, <2>9 DEF Adds
  <2>11. H[t] = vB[u] + H[rest] /\ H[rest] \in Int
    BY <1>9, <2>6 DEF Adds
  <2>12. vS[u] = vB[u] /\ vB[u] \in Int /\ F[A] \in Int
    BY <1>2, <1>7, <1>9, <2>8 DEF Adds
  <2>. HIDE DEF rest
  <2>. QED
    BY <2>3, <2>7, <2>10, <2>11, <2>12
<1>12. F[A \cup B] = F[A] + H[B]
  <2>1. Cardinality(B) \notin Bad /\ B \in SUBSET B /\ Cardinality(B) \in Nat
    BY <1>10, <1>11
  <2>. QED
    BY <2>1
<1>. QED
  BY <1>3, <1>4, <1>5, <1>7, <1>8, <1>12

-----------------------------------------------------------------------------
(* The generated rows. *)

\* Entries in distinct columns are sorted by their columns, and none is lost.
LEMMA SortedRowIs ==
  ASSUME NEW S, IsFiniteSet(S), \A e \in S : e[1] \in Int,
         \A e, f \in S : e[1] = f[1] => e = f
  PROVE  /\ ToSet(SortedRow(S)) = S
         /\ \A a, c \in DOMAIN SortedRow(S) : a < c => SortedRow(S)[a][1] < SortedRow(S)[c][1]
<1>. DEFINE col == [e \in S |-> e[1]]
            C == {col[e] : e \in S}
            rank(e) == Cardinality({f \in S : f[1] < e[1]})
            n == Cardinality(S)
            sorted == SortedRow(S)
<1>1. IsFiniteSet(C) /\ Cardinality(C) = n /\ C \subseteq Int
  <2>1. \A u, y \in S : col[u] = col[y] => u = y
    OBVIOUS
  <2>2. C \subseteq Int
    OBVIOUS
  <2>3. DOMAIN col = S
    OBVIOUS
  <2>. HIDE DEF col
  <2>. QED
    BY <2>1, <2>2, <2>3, OneToOne
<1>2. ASSUME NEW e \in S PROVE rank(e) = Below(C, e[1])
  <2>. DEFINE L == {f \in S : f[1] < e[1]}
              h == [f \in L |-> f[1]]
  <2>1. L \in SUBSET S
    OBVIOUS
  <2>2. IsFiniteSet(L)
    BY <2>1, FS_Subset
  <2>3. {h[f] : f \in L} = {c \in C : c < e[1]}
    OBVIOUS
  <2>4. DOMAIN h = L /\ \A u, y \in L : h[u] = h[y] => u = y
    OBVIOUS
  <2>. HIDE DEF L, h, C
  <2>5. Cardinality({h[f] : f \in L}) = Cardinality(L)
    BY <2>2, <2>4, OneToOne
  <2>. QED
    BY <2>3, <2>5 DEF Below, L
<1>3. /\ n \in Nat
      /\ \A c \in C : Below(C, c) \in 0 .. n - 1
      /\ \A c, v \in C : c < v => Below(C, c) < Below(C, v)
      /\ \A k \in 0 .. n - 1 : \E c \in C : Below(C, c) = k
  <2>. HIDE DEF C, n
  <2>. QED
    BY <1>1, Ranks
<1>4. \A e \in S : e[1] \in C /\ e[1] \in Int
  OBVIOUS
<1>5. \A c \in C : \E e \in S : e[1] = c
  OBVIOUS
<1>6. DOMAIN sorted = 1 .. n /\ \A k \in 1 .. n : sorted[k] = CHOOSE e \in S : rank(e) = k - 1
  BY DEF SortedRow
<1>. HIDE DEF C, n, rank, sorted
<1>7. ASSUME NEW k \in 1 .. n PROVE sorted[k] \in S /\ rank(sorted[k]) = k - 1
  <2>1. k - 1 \in 0 .. n - 1
    BY <1>3
  <2>2. PICK c \in C : Below(C, c) = k - 1
    BY <1>3, <2>1
  <2>3. \E e \in S : rank(e) = k - 1
    BY <1>2, <1>5, <2>2
  <2>. QED
    BY <1>6, <2>3
<1>8. ASSUME NEW e \in S, NEW f \in S, rank(e) = rank(f) PROVE e = f
  <2>1. Below(C, e[1]) = Below(C, f[1]) /\ Below(C, e[1]) \in Int
    BY <1>2, <1>3, <1>4, <1>8
  <2>2. ~(e[1] < f[1]) /\ ~(f[1] < e[1])
    BY <1>3, <1>4, <2>1
  <2>3. e[1] = f[1]
    BY <1>4, <2>2
  <2>. QED
    BY <2>3
<1>9. ToSet(sorted) = S
  <2>1. \A k \in DOMAIN sorted : sorted[k] \in S
    BY <1>6, <1>7
  <2>2. ASSUME NEW e \in S PROVE \E k \in DOMAIN sorted : sorted[k] = e
    <3>1. rank(e) \in 0 .. n - 1
      BY <1>2, <1>3, <1>4
    <3>2. rank(e) + 1 \in 1 .. n /\ (rank(e) + 1) - 1 = rank(e)
      BY <1>3, <3>1
    <3>3. sorted[rank(e) + 1] \in S /\ rank(sorted[rank(e) + 1]) = rank(e)
      BY <1>7, <3>2
    <3>4. sorted[rank(e) + 1] = e
      BY <1>8, <3>3
    <3>. QED
      BY <1>6, <3>2, <3>4
  <2>. QED
    BY <2>1, <2>2 DEF ToSet
<1>10. ASSUME NEW a \in DOMAIN sorted, NEW c \in DOMAIN sorted, a < c PROVE sorted[a][1] < sorted[c][1]
  <2>1. /\ a \in 1 .. n /\ c \in 1 .. n
        /\ sorted[a] \in S /\ rank(sorted[a]) = a - 1 /\ sorted[c] \in S /\ rank(sorted[c]) = c - 1
    BY <1>6, <1>7
  <2>2. Below(C, sorted[a][1]) = a - 1 /\ Below(C, sorted[c][1]) = c - 1
    BY <1>2, <2>1
  <2>3. sorted[a][1] \in C /\ sorted[c][1] \in C /\ sorted[a][1] \in Int /\ sorted[c][1] \in Int
    BY <1>4, <2>1
  <2>4. ~(sorted[c][1] < sorted[a][1])
    <3>1. ~(c - 1 < a - 1)
      BY <1>3, <1>10, <2>1
    <3>. QED
      BY <1>3, <2>2, <2>3, <3>1
  <2>5. sorted[c][1] # sorted[a][1]
    BY <1>3, <1>10, <2>1, <2>2
  <2>. QED
    BY <2>3, <2>4, <2>5
<1>. QED
  BY <1>9, <1>10 DEF sorted

\* The columns beside the diagonal in which a row has an entry, the pair whose
\* weight it holds, and the entry.
Pair(i, c) == IF i < c THEN <<i, c>> ELSE <<c, i>>
Beside(s, i) == {c \in 0 .. s.n - 1 : c # i /\ Pair(i, c) \in Band(s)}
Sign(s) == IF s.kind = "lapl" THEN -1 ELSE 1

\* The weights of a row are those of the pairs it is in.
LEMMA OffDiagonalIs ==
  ASSUME NEW s \in Specs, NEW w \in [Band(s) -> Weights[s.kind]], NEW i \in 0 .. s.n - 1
  PROVE  /\ OffDiagonal(s, w, i) = {<<c, w[Pair(i, c)]>> : c \in Beside(s, i)}
         /\ IsFiniteSet(Beside(s, i)) /\ IsFiniteSet(OffDiagonal(s, w, i))
         /\ \A c \in Beside(s, i) : c \in Int /\ c # i /\ w[Pair(i, c)] \in Int
<1>. DEFINE off == OffDiagonal(s, w, i)
            B == Beside(s, i)
            g == [c \in B |-> <<c, w[Pair(i, c)]>>]
<1>1. s.n \in Nat /\ s.halfbw \in Int /\ Weights[s.kind] \subseteq Int
  BY SpecsAssumption
<1>2. \A e \in Band(s) : /\ e = <<e[1], e[2]>> /\ e[1] \in 0 .. s.n - 1 /\ e[2] \in 0 .. s.n - 1
                         /\ e[1] < e[2]
  BY DEF Band
<1>3. ASSUME NEW e \in off PROVE \E c \in B : e = <<c, w[Pair(i, c)]>>
  <2>1. CASE \E z \in Band(s) : z[1] = i /\ e = <<z[2], w[z]>>
    <3>1. PICK z \in Band(s) : z[1] = i /\ e = <<z[2], w[z]>>
      BY <2>1
    <3>2. z[2] \in 0 .. s.n - 1 /\ z[2] # i /\ Pair(i, z[2]) = z
      BY <1>1, <1>2, <3>1 DEF Pair
    <3>3. z[2] \in B
      BY <3>2 DEF Beside
    <3>. QED
      BY <3>1, <3>2, <3>3
  <2>2. CASE \E z \in Band(s) : z[2] = i /\ e = <<z[1], w[z]>>
    <3>1. PICK z \in Band(s) : z[2] = i /\ e = <<z[1], w[z]>>
      BY <2>2
    <3>2. z[1] \in 0 .. s.n - 1 /\ z[1] # i /\ Pair(i, z[1]) = z
      BY <1>1, <1>2, <3>1 DEF Pair
    <3>3. z[1] \in B
      BY <3>2 DEF Beside
    <3>. QED
      BY <3>1, <3>2, <3>3
  <2>. QED
    BY <2>1, <2>2 DEF OffDiagonal, Upper, Lower
<1>4. ASSUME NEW c \in B PROVE <<c, w[Pair(i, c)]>> \in off
  <2>1. c \in 0 .. s.n - 1 /\ c # i /\ Pair(i, c) \in Band(s)
    BY DEF Beside
  <2>. DEFINE z == Pair(i, c)
  <2>2. \/ z[1] = i /\ z[2] = c
        \/ z[2] = i /\ z[1] = c
    BY DEF Pair
  <2>. HIDE DEF z
  <2>3. z \in Band(s)
    BY <2>1 DEF z
  <2>4. CASE z[1] = i /\ z[2] = c
    <3>1. z \in {e \in Band(s) : e[1] = i}
      BY <2>3, <2>4
    <3>2. <<z[2], w[z]>> \in off
      BY <3>1 DEF OffDiagonal, Upper, Lower
    <3>. QED
      BY <2>4, <3>2 DEF z
  <2>5. CASE z[2] = i /\ z[1] = c
    <3>1. z \in {e \in Band(s) : e[2] = i}
      BY <2>3, <2>5
    <3>2. <<z[1], w[z]>> \in off
      BY <3>1 DEF OffDiagonal, Upper, Lower
    <3>. QED
      BY <2>5, <3>2 DEF z
  <2>. QED
    BY <2>2, <2>4, <2>5
<1>5. off = {<<c, w[Pair(i, c)]>> : c \in B}
  <2>. HIDE DEF off, B
  <2>. QED
    BY <1>3, <1>4
<1>6. IsFiniteSet(B)
  <2>1. IsFiniteSet(0 .. s.n - 1)
    BY <1>1, FS_Interval
  <2>2. B \subseteq 0 .. s.n - 1
    BY DEF Beside
  <2>. HIDE DEF B
  <2>. QED
    BY <2>1, <2>2, FS_Subset
<1>7. IsFiniteSet(off)
  <2>1. DOMAIN g = B /\ \A c, v \in B : g[c] = g[v] => c = v
    <3>. HIDE DEF B
    <3>. QED
      OBVIOUS
  <2>2. off = {g[c] : c \in B}
    <3>. HIDE DEF B, off
    <3>. QED
      BY <1>5
  <2>. HIDE DEF g, B, off
  <2>. QED
    BY <1>6, <2>1, <2>2, OneToOne
<1>8. ASSUME NEW c \in B PROVE c \in Int /\ c # i /\ w[Pair(i, c)] \in Int
  <2>1. c \in 0 .. s.n - 1 /\ c # i /\ Pair(i, c) \in Band(s)
    BY DEF Beside
  <2>2. w[Pair(i, c)] \in Weights[s.kind]
    BY <2>1
  <2>. QED
    BY <1>1, <2>1, <2>2
<1>. QED
  BY <1>5, <1>6, <1>7, <1>8

\* Both ends count a positive weight, and the degree of a row is the sum of
\* what it holds.
LEMMA DiagonalIs ==
  ASSUME NEW s \in Specs, NEW w \in [Band(s) -> Weights[s.kind]], NEW i \in 0 .. s.n - 1
  PROVE  Diagonal(s, w, i) = s.shift + AbsSumOf(OffDiagonal(s, w, i))
<1>. DEFINE A == Upper(s, w, i)
            B == Lower(s, w, i)
<1>1. CASE s.kind # "lapl"
  BY <1>1 DEF Diagonal
<1>2. CASE s.kind = "lapl"
  <2>1. \A e \in Band(s) : w[e] \in Nat /\ e[1] \in Int /\ e[2] \in Int /\ e[1] < e[2]
    BY <1>2, SpecsAssumption DEF Band
  <2>2. \A e \in A : e[2] \in Nat /\ i < e[1]
    BY <2>1 DEF Upper
  <2>3. \A e \in B : e[2] \in Nat /\ e[1] \in Int /\ e[1] < i
    BY <2>1 DEF Lower
  <2>4. A \cap B = {}
    <3>1. \A e \in A : e[1] \in Int
      BY <2>1 DEF Upper
    <3>2. i \in Int
      BY SpecsAssumption
    <3>. HIDE DEF A, B
    <3>. QED
      BY <2>2, <2>3, <3>1, <3>2
  <2>5. OffDiagonal(s, w, i) = A \cup B
    BY DEF OffDiagonal
  <2>6. IsFiniteSet(A) /\ IsFiniteSet(B)
    <3>1. IsFiniteSet(A \cup B)
      BY <2>5, OffDiagonalIs
    <3>. HIDE DEF A, B
    <3>2. A \subseteq A \cup B /\ B \subseteq A \cup B
      OBVIOUS
    <3>. QED
      BY <3>1, <3>2, FS_Subset
  <2>7. deg(s, w, i) = SumOf(A) + SumOf(B)
    BY DEF deg
  <2>. HIDE DEF A, B
  <2>8. AbsSumOf(A \cup B) = SumOf(A) + SumOf(B)
    BY <2>2, <2>3, <2>4, <2>6, PartsAdd
  <2>. QED
    BY <1>2, <2>5, <2>7, <2>8 DEF Diagonal
<1>. QED
  BY <1>1, <1>2

\* A generated row holds its weights, with their sign, and the diagonal.
LEMMA RowHolds ==
  ASSUME NEW s \in Specs, NEW w \in [Band(s) -> Weights[s.kind]], NEW i \in 0 .. s.n - 1
  PROVE  LET off == OffDiagonal(s, w, i)
             row == RowOf(s, w, i)
             beside == {<<c, Sign(s) * w[Pair(i, c)]>> : c \in Beside(s, i)}
         IN  /\ ToSet(row) = beside \cup {<<i, AbsSumOf(off) + s.shift>>}
             /\ \A a, c \in DOMAIN row : a < c => row[a][1] < row[c][1]
             /\ AbsSumOf(off) \in Int /\ AbsSumOf(beside) = AbsSumOf(off)
<1>. DEFINE off == OffDiagonal(s, w, i)
            B == Beside(s, i)
            row == RowOf(s, w, i)
            diag == AbsSumOf(off) + s.shift
            beside == {<<c, Sign(s) * w[Pair(i, c)]>> : c \in B}
            signed == {<<e[1], Sign(s) * e[2]>> : e \in off}
            all == beside \cup {<<i, diag>>}
<1>1. /\ off = {<<c, w[Pair(i, c)]>> : c \in B} /\ IsFiniteSet(off)
      /\ \A c \in B : c \in Int /\ c # i /\ w[Pair(i, c)] \in Int
  BY OffDiagonalIs
<1>. HIDE DEF B, off
<1>2. signed = beside
  <2>1. ASSUME NEW u PROVE u \in signed <=> u \in beside
    <3>1. u \in signed <=> \E e \in off : u = <<e[1], Sign(s) * e[2]>>
      OBVIOUS
    <3>2. u \in beside <=> \E c \in B : u = <<c, Sign(s) * w[Pair(i, c)]>>
      OBVIOUS
    <3>. HIDE DEF signed, beside
    <3>3. ASSUME NEW c \in B
          PROVE  \E e \in off : <<e[1], Sign(s) * e[2]>> = <<c, Sign(s) * w[Pair(i, c)]>>
      <4>. DEFINE e == <<c, w[Pair(i, c)]>>
      <4>1. e \in off /\ e[1] = c /\ e[2] = w[Pair(i, c)]
        BY <1>1
      <4>. HIDE DEF e
      <4>. QED
        BY <4>1
    <3>4. ASSUME NEW e \in off
          PROVE  \E c \in B : <<e[1], Sign(s) * e[2]>> = <<c, Sign(s) * w[Pair(i, c)]>>
      <4>1. PICK c \in B : e = <<c, w[Pair(i, c)]>>
        BY <1>1
      <4>2. e[1] = c /\ e[2] = w[Pair(i, c)]
        BY <4>1
      <4>. QED
        BY <4>2
    <3>5. u \in signed => u \in beside
      BY <3>1, <3>2, <3>4, Zenon
    <3>6. u \in beside => u \in signed
      BY <3>1, <3>2, <3>3, Zenon
    <3>. QED
      BY <3>5, <3>6
  <2>. HIDE DEF signed, beside
  <2>. QED
    BY <2>1
<1>3. Sign(s) \in {-1, 1}
  BY DEF Sign
<1>4. /\ AbsSumOf(off) \in Int /\ IsFiniteSet(signed) /\ AbsSumOf(signed) = AbsSumOf(off)
  <2>1. \A e \in off : e = <<e[1], e[2]>> /\ e[2] \in Int
    BY <1>1
  <2>. QED
    BY <1>1, <1>3, <2>1, AbsSums
<1>5. row = SortedRow(all)
  <2>1. Diagonal(s, w, i) = diag
    <3>1. s.shift \in Int
      BY SpecsAssumption
    <3>. QED
      BY <1>4, <3>1, DiagonalIs DEF off
  <2>2. row = SortedRow(signed \cup {<<i, Diagonal(s, w, i)>>})
    BY Zenon DEF RowOf, Sign, off
  <2>. HIDE DEF signed, beside, row, diag
  <2>. QED
    BY <1>2, <2>1, <2>2
<1>6. IsFiniteSet(all)
  <2>. HIDE DEF signed, beside, diag
  <2>. QED
    BY <1>2, <1>4, FS_AddElement
<1>7. \A e \in all : e = <<i, diag>> \/ \E c \in B : e = <<c, Sign(s) * w[Pair(i, c)]>>
  OBVIOUS
<1>8. \A e \in all : e[1] \in Int
  <2>1. i \in Int
    BY SpecsAssumption
  <2>. HIDE DEF all, diag
  <2>. QED
    BY <1>1, <1>7, <2>1
<1>9. \A e, f \in all : e[1] = f[1] => e = f
  <2>. HIDE DEF all, diag
  <2>. QED
    BY <1>1, <1>7
<1>. HIDE DEF all, row
<1>10. /\ ToSet(row) = all
       /\ \A a, c \in DOMAIN row : a < c => row[a][1] < row[c][1]
  BY <1>5, <1>6, <1>8, <1>9, SortedRowIs
<1>. QED
  BY <1>2, <1>4, <1>10 DEF all, row, off, B

\* Every generated matrix is symmetric, sorted and dominated by its diagonal.
LEMMA GeneratedIsDominant ==
  ASSUME NEW s \in Specs, NEW w \in [Band(s) -> Weights[s.kind]]
  PROVE  IsDominant(Generated(s, w))
<1>. DEFINE m == Generated(s, w)
            I == 0 .. s.n - 1
            E(i) == ToSet(m.rows[i + 1])
            beside(i) == {<<c, Sign(s) * w[Pair(i, c)]>> : c \in Beside(s, i)}
            sum(i) == AbsSumOf(OffDiagonal(s, w, i))
            At(i, c) == {e \in E(i) : e[1] = c}
<1>1. s.n \in Nat /\ s.shift \in Nat \ {0}
  BY SpecsAssumption
<1>2. Len(m.rows) = s.n /\ \A i \in I : m.rows[i + 1] = RowOf(s, w, i)
  <2>. DEFINE made == [i \in 1 .. s.n |-> RowOf(s, w, i - 1)]
  <2>1. m.rows = made
    BY DEF Generated
  <2>2. Len(made) = s.n
    <3>. DEFINE V == {made[k] : k \in 1 .. s.n}
    <3>1. made \in [1 .. s.n -> V]
      OBVIOUS
    <3>. HIDE DEF made, V
    <3>. QED
      BY <1>1, <3>1
  <2>3. ASSUME NEW i \in I PROVE made[i + 1] = RowOf(s, w, i)
    <3>1. i + 1 \in 1 .. s.n /\ (i + 1) - 1 = i
      BY <1>1
    <3>. QED
      BY <3>1
  <2>. HIDE DEF made
  <2>. QED
    BY <2>1, <2>2, <2>3
<1>3. ASSUME NEW i \in I
      PROVE  /\ E(i) = beside(i) \cup {<<i, sum(i) + s.shift>>}
             /\ \A a, c \in DOMAIN m.rows[i + 1] : a < c => m.rows[i + 1][a][1] < m.rows[i + 1][c][1]
             /\ sum(i) \in Int /\ AbsSumOf(beside(i)) = sum(i)
  <2>. HIDE DEF m
  <2>. QED
    BY <1>2, RowHolds
<1>4. ASSUME NEW i \in I, NEW c \in Beside(s, i)
      PROVE  c \in I /\ c # i /\ w[Pair(i, c)] \in Int /\ i \in Beside(s, c)
             /\ Pair(c, i) = Pair(i, c)
  <2>1. c \in I /\ c # i /\ Pair(i, c) \in Band(s)
    BY DEF Beside
  <2>2. w[Pair(i, c)] \in Int
    BY OffDiagonalIs
  <2>3. Pair(c, i) = Pair(i, c)
    BY <1>1, <2>1 DEF Pair
  <2>. QED
    BY <2>1, <2>2, <2>3 DEF Beside
<1>. HIDE DEF m, sum, E
<1>5. ASSUME NEW i \in I, NEW c \in I, c \in Beside(s, i)
      PROVE  SumOf(At(i, c)) = Sign(s) * w[Pair(i, c)]
  <2>. DEFINE e == <<c, Sign(s) * w[Pair(i, c)]>>
  <2>1. c # i /\ w[Pair(i, c)] \in Int
    BY <1>4, <1>5
  <2>2. At(i, c) = {e}
    <3>1. e \in beside(i) /\ e[1] = c
      BY <1>5
    <3>2. \A u \in beside(i) : u[1] = c => u = e
      OBVIOUS
    <3>. HIDE DEF beside, e
    <3>. QED
      BY <1>3, <2>1, <3>1, <3>2
  <2>3. e[2] \in Int /\ e[2] = Sign(s) * w[Pair(i, c)]
    BY <2>1 DEF Sign
  <2>. HIDE DEF e
  <2>. QED
    BY <2>2, <2>3, SumOfOne
<1>6. ASSUME NEW i \in I, NEW c \in I, c # i, c \notin Beside(s, i)
      PROVE  SumOf(At(i, c)) = 0
  <2>1. At(i, c) = {}
    <3>1. \A u \in beside(i) : u[1] # c
      BY <1>6
    <3>. HIDE DEF beside
    <3>. QED
      BY <1>3, <1>6, <3>1
  <2>. QED
    BY <2>1, SumOfOne
<1>7. ASSUME NEW i \in I, NEW c \in I PROVE SumOf(At(i, c)) = SumOf(At(c, i))
  <2>. HIDE DEF At
  <2>1. CASE c = i
    BY <2>1
  <2>2. CASE c # i /\ c \in Beside(s, i)
    <3>1. i \in Beside(s, c) /\ Pair(c, i) = Pair(i, c)
      BY <1>4, <2>2
    <3>2. SumOf(At(i, c)) = Sign(s) * w[Pair(i, c)]
      BY <1>5, <2>2
    <3>3. SumOf(At(c, i)) = Sign(s) * w[Pair(c, i)]
      BY <1>5, <3>1
    <3>. QED
      BY <3>1, <3>2, <3>3
  <2>3. CASE c # i /\ c \notin Beside(s, i)
    <3>1. i \notin Beside(s, c)
      BY <1>4, <2>3
    <3>2. SumOf(At(i, c)) = 0
      BY <1>6, <2>3
    <3>3. SumOf(At(c, i)) = 0
      BY <1>6, <2>3, <3>1
    <3>. QED
      BY <3>2, <3>3
  <2>. QED
    BY <2>1, <2>2, <2>3
<1>8. ASSUME NEW i \in I
      PROVE  SumOf(At(i, i)) > AbsSumOf({e \in E(i) : e[1] # i})
  <2>. DEFINE v == <<i, sum(i) + s.shift>>
  <2>1. \A u \in beside(i) : u[1] # i
    BY <1>4
  <2>2. v[1] = i /\ v[2] = sum(i) + s.shift
    OBVIOUS
  <2>3. E(i) = beside(i) \cup {v}
    BY <1>3
  <2>. HIDE DEF v, beside
  <2>4. At(i, i) = {v} /\ {e \in E(i) : e[1] # i} = beside(i)
    BY <2>1, <2>2, <2>3
  <2>5. sum(i) \in Int /\ AbsSumOf(beside(i)) = sum(i)
    BY <1>3
  <2>6. SumOf({v}) = v[2]
    BY <1>1, <2>2, <2>5, SumOfOne
  <2>. HIDE DEF At
  <2>7. SumOf(At(i, i)) = sum(i) + s.shift
    BY <2>2, <2>4, <2>6
  <2>8. AbsSumOf({e \in E(i) : e[1] # i}) = sum(i)
    BY <2>4, <2>5
  <2>. QED
    BY <1>1, <2>5, <2>7, <2>8
<1>9. /\ \A i \in 0 .. Len(m.rows) - 1 :
           /\ \A a, c \in DOMAIN m.rows[i + 1] : a < c => m.rows[i + 1][a][1] < m.rows[i + 1][c][1]
           /\ \A c \in 0 .. Len(m.rows) - 1 : SumOf(At(i, c)) = SumOf(At(c, i))
           /\ SumOf(At(i, i)) > AbsSumOf({e \in E(i) : e[1] # i})
  BY <1>2, <1>3, <1>7, <1>8
<1>10. IsDominant(m)
  BY <1>9, Zenon DEF IsDominant, E
<1>. QED
  BY <1>10 DEF m

-----------------------------------------------------------------------------
(* The matrices the runs are made on. *)

\* A matrix without rows is dominant; the rest is the generators' work.
LEMMA EmptyIsDominant ==
  ASSUME NEW m, m.rows = <<>>
  PROVE  IsDominant(m)
<1>1. 0 .. Len(m.rows) - 1 = {}
  OBVIOUS
<1>. QED
  BY <1>1, Zenon DEF IsDominant

\* Whatever is asked of make_synthetic_spd and make_synthetic_laplacian_spd with
\* a positive shift, and whatever weights are drawn, the matrix is symmetric,
\* its rows are sorted without duplicates, and each diagonal entry exceeds the
\* sum of the absolute values beside it.
THEOREM GeneratedIsDefinite == Spec => []SyntheticIsPositiveDefinite
<1>1. Init => SyntheticIsPositiveDefinite
  BY EmptyIsDominant DEF Init, NoMatrix, SyntheticIsPositiveDefinite
<1>2. ASSUME SyntheticIsPositiveDefinite, [Next]_vars PROVE SyntheticIsPositiveDefinite'
  <2>1. IsDominant(csr)
    BY <1>2 DEF SyntheticIsPositiveDefinite
  <2>2. CASE Load
    <3>1. CASE \E s \in Specs : \E w \in [Band(s) -> Weights[s.kind]] : csr' = Generated(s, w)
      <4>1. IsDominant(csr')
        BY <3>1, GeneratedIsDominant
      <4>. QED
        BY <4>1 DEF SyntheticIsPositiveDefinite
    <3>2. CASE \E square \in BOOLEAN : csr' = [square |-> square, rows |-> <<>>]
      <4>1. csr'.rows = <<>>
        BY <3>2
      <4>2. IsDominant(csr')
        BY <4>1, EmptyIsDominant
      <4>. QED
        BY <4>2 DEF SyntheticIsPositiveDefinite
    <3>. QED
      BY <2>2, <3>1, <3>2 DEF Load
  <2>3. CASE Prepare
    <3>1. csr'.rows = <<>>
      BY <2>3 DEF Prepare, NoMatrix
    <3>2. IsDominant(csr')
      BY <3>1, EmptyIsDominant
    <3>. QED
      BY <3>2 DEF SyntheticIsPositiveDefinite
  <2>4. CASE UNCHANGED csr
    BY <2>1, <2>4 DEF SyntheticIsPositiveDefinite
  <2>5. \/ Load \/ Prepare \/ UNCHANGED csr
    BY <1>2 DEF Next, vars, NotSquare, Fails, Breakdown, Iterate, InnerStep, RefineX,
         TurnDirection, RefineTest, LastOuter, FlexibleBreakdown, FlexibleUpdate,
         FlexibleEnd, WriteCurves, NextRun, WriteSolvers, Over
  <2>. QED
    BY <2>2, <2>3, <2>4, <2>5
<1>. QED
  BY <1>1, <1>2, PTL DEF Spec
=============================================================================
