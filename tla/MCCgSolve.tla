----------------------------- MODULE MCCgSolve -----------------------------
(***************************************************************************)
(* CgSolve with two curves, then iterative refinement and flexible CG.  A  *)
(* window of one iteration stands for 200, and six magnitudes for the      *)
(* residuals: 1 and 2 are tolerances, 4 is 1.0, 5 is beyond it; adjacent   *)
(* ones are closer than the margin of an improvement.                      *)
(***************************************************************************)
EXTENDS CgSolve

MCTols == <<2, 1>>
MCJobs == <<"curve", "curve", "ir", "fcg">>

MCSpecs ==
  {[kind |-> "synth", n |-> n, halfbw |-> h, shift |-> 1] : n \in 1 .. 3, h \in 0 .. 2}
    \cup {[kind |-> "lapl", n |-> n, halfbw |-> h, shift |-> 1] : n \in 2 .. 4, h \in 1 .. 3}

MCWeights == [synth |-> {-2, 0, 1}, lapl |-> {1, 2}]
=============================================================================
