---------------------------- MODULE MCFlagLbSpmv ----------------------------
(***************************************************************************)
(* FlagLbSpmv on every matrix of up to MCRows rows whose block rows hold   *)
(* up to MCBlocks blocks in all; block b stores 1 + b % 2 values.          *)
(***************************************************************************)
EXTENDS FlagLbSpmv

CONSTANTS MCRows, MCBlocks

\* The row pointers of n block rows over b blocks.
RowPtrs(n, b) ==
  {p \in [0 .. n -> 0 .. b] :
     p[0] = 0 /\ p[n] = b /\ \A i \in 0 .. n - 1 : p[i] <= p[i + 1]}

MCMatrices ==
  UNION {
    UNION {
      LET n == ceil_div(r, kSpmv8x4BlockRows) IN
      {[rows |-> r, num_block_rows |-> n, num_blocks |-> b, block_row_ptr |-> p,
        nnz |-> b + b \div 2,
        block_val_ptr |-> [i \in 0 .. b |-> i + i \div 2]] : p \in RowPtrs(n, b)}
      : b \in 0 .. MCBlocks }
    : r \in 0 .. MCRows }
=============================================================================
