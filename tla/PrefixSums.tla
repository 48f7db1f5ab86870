----------------------------- MODULE PrefixSums -----------------------------
(***************************************************************************)
(* The integer helpers every stage of the code leans on: the rounded-up    *)
(* division that counts blocks and chunks, and the prefix sums that turn   *)
(* per-row counts into row pointers.                                       *)
(***************************************************************************)
EXTENDS Integers

ceil_div(value, divisor) == (value + divisor - 1) \div divisor

Smaller(a, b) == IF a <= b THEN a ELSE b

\* PrefixSum(count, n)[i] is the sum of count[0] .. count[i - 1].
PrefixSum(count, n) ==
  LET sum[i \in 0 .. n] == IF i = 0 THEN 0 ELSE sum[i - 1] + count[i - 1]
  IN  sum
=============================================================================
