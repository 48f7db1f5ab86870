----------------------------- MODULE BitBsr8x4 ------------------------------
(***************************************************************************)
(* What the 8x4 BitBSR operators share: the matrix they traverse and the   *)
(* two ways a warp writes its sum to a row of y.  A sum is a set of        *)
(* contributions, the value of y[row] the bag of those added into it.      *)
(***************************************************************************)
EXTENDS PrefixSums

CONSTANT kSpmv8x4BlockRows   \* matrix rows in a block row

ASSUME BlockRowsAssumption == kSpmv8x4BlockRows \in Nat \ {0}

(***************************************************************************)
(* A matrix that BitBsrMatrix::validate accepts: the block rows cover the  *)
(* rows, the row pointers start at zero and do not decrease, and           *)
(* block_val_ptr[b] is the number of values stored before block b.         *)
(***************************************************************************)
IsBitBsr(m) ==
  /\ m.rows \in Nat
  /\ m.num_block_rows = ceil_div(m.rows, kSpmv8x4BlockRows)
  /\ m.num_blocks \in Nat
  /\ m.block_row_ptr \in [0 .. m.num_block_rows -> 0 .. m.num_blocks]
  /\ m.block_row_ptr[0] = 0
  /\ m.block_row_ptr[m.num_block_rows] = m.num_blocks
  /\ \A br \in 0 .. m.num_block_rows - 1 :
       m.block_row_ptr[br] <= m.block_row_ptr[br + 1]
  /\ m.nnz \in Nat
  /\ m.block_val_ptr \in [0 .. m.num_blocks -> 0 .. m.nnz]

BlockRowOf(row) == row \div kSpmv8x4BlockRows

AtomicAdd(old, sum) == [c \in DOMAIN old |-> old[c] + (IF c \in sum THEN 1 ELSE 0)]
Store(old, sum)     == [c \in DOMAIN old |-> IF c \in sum THEN 1 ELSE 0]
=============================================================================
