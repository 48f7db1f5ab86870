---------------------------- MODULE MCHybridSpmv ----------------------------
(***************************************************************************)
(* HybridSpmv on splits of a matrix with MCRows rows: every distribution   *)
(* of up to MCBlocks blocks over the block rows, with the residual lengths *)
(* below and outliers in the first and the last row that has blocks.       *)
(***************************************************************************)
EXTENDS HybridSpmv

CONSTANTS MCRows, MCBlocks

\* No residual, short rows, one long row among short ones, long rows only.
MCLengths ==
  {[r \in 0 .. MCRows - 1 |-> 0],
   [r \in 0 .. MCRows - 1 |-> 1 + (r % 2)],
   [r \in 0 .. MCRows - 1 |-> IF r = 1 THEN 3 ELSE 1],
   [r \in 0 .. MCRows - 1 |-> IF r = 1 THEN 0 ELSE 3]}

MCNumBlockRows == ceil_div(MCRows, kSpmv8x4BlockRows)

RowPtrs(b) ==
  {p \in [0 .. MCNumBlockRows -> 0 .. b] :
     /\ p[0] = 0 /\ p[MCNumBlockRows] = b
     /\ \A i \in 0 .. MCNumBlockRows - 1 : p[i] <= p[i + 1]}

OutlierRows(p) ==
  LET rows == {r \in 0 .. MCRows - 1 : p[BlockRowOf(r)] < p[BlockRowOf(r) + 1]}
  IN  IF rows = {} THEN << >>
      ELSE [i \in 0 .. 1 |-> IF i = 0 THEN CHOOSE r \in rows : \A q \in rows : r <= q
                                      ELSE CHOOSE r \in rows : \A q \in rows : r >= q]

MCSplits ==
  UNION {
    {[rows |-> MCRows, num_block_rows |-> MCNumBlockRows, num_blocks |-> b,
      block_row_ptr |-> p, nnz |-> b + b \div 2,
      block_val_ptr |-> [i \in 0 .. b |-> i + i \div 2],
      residual_row_ptr |-> PrefixSum(len, MCRows),
      outliers |-> IF b = 0 THEN 0 ELSE 2, outlier_rows |-> OutlierRows(p)] :
      p \in RowPtrs(b), len \in MCLengths}
    : b \in 0 .. MCBlocks }
=============================================================================
