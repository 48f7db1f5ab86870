------------------------------ MODULE MCSplit -------------------------------
(***************************************************************************)
(* Split on matrices of three rows and three columns in blocks of two by   *)
(* two: every choice of up to four blocks, cut off below and to the right, *)
(* with one or more entries each.                                          *)
(***************************************************************************)
EXTENDS Split

\* The bits a block may have, by its place: none, one, several, all that exist.
MCBitmaps ==
  [place \in {<<0, 0>>, <<0, 1>>, <<1, 0>>, <<1, 1>>} |->
     CASE place = <<0, 0>> -> {{}, {1}, {1, 2}, {0, 1, 2, 3}}
       [] place = <<0, 1>> -> {{}, {2}, {0, 2}}
       [] place = <<1, 0>> -> {{}, {0}, {0, 1}}
       [] place = <<1, 1>> -> {{}, {0}}]

\* The matrix with given bitmaps at the places, those without bits left out.
MCFull(a, b, c, d) ==
  LET all    == <<a, b, c, d>>
      used   == SelectSeq(<<1, 2, 3, 4>>, LAMBDA k : all[k] # {})
      blocks == Len(used)
      nnz    == PrefixSum([i \in 0 .. blocks - 1 |-> Cardinality(all[used[i + 1]])], blocks)
  IN  [rows |-> 3, cols |-> 3, num_block_rows |-> 2, num_block_cols |-> 2,
       block_row_ptr |-> [i \in 0 .. 2 |-> Cardinality({k \in 1 .. blocks : used[k] <= 2 * i})],
       block_col_idx |-> [i \in 0 .. blocks - 1 |-> (used[i + 1] - 1) % 2],
       bitmap_words |-> [i \in 0 .. blocks - 1 |-> all[used[i + 1]]],
       block_val_ptr |-> nnz,
       values |-> [p \in 0 .. nnz[blocks] - 1 |-> p + 1]]

MCFullMatrices ==
  {MCFull(a, b, c, d) : a \in MCBitmaps[<<0, 0>>], b \in MCBitmaps[<<0, 1>>],
                        c \in MCBitmaps[<<1, 0>>], d \in MCBitmaps[<<1, 1>>]}

MCThresholds == {-1, 0, 1, 2, 4}

MCModel(b, bn, c, cn) == [bitmap_block |-> b, bitmap_nnz |-> bn, csr_block |-> c, csr_nnz |-> cn]

\* The defaults scaled down, one where long blocks are cheaper in CSR, one
\* where all cost the same, and one that is not legal.
MCCostModels ==
  {NoModel, MCModel(2, 0, 0, 1), MCModel(0, 2, 3, 1), MCModel(1, 1, 1, 1), MCModel(1, 0, 0, -1)}
=============================================================================
