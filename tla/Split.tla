------------------------------- MODULE Split --------------------------------
(***************************************************************************)
(* The CSR/BitBSR split (csr_bitbsr_split.hpp): the blocks of a BitBSR     *)
(* matrix with few entries move to a CSR residual, the others stay.  The   *)
(* cost-gated split moves a block only if the model finds it cheaper in    *)
(* CSR.  The hybrid operator computes both parts (HybridSpmv).             *)
(*                                                                         *)
(* The two other formats of the residual, block-row COO and sliced SELL,   *)
(* are operators on the finished residual.                                 *)
(***************************************************************************)
EXTENDS BitBsrFormat, Sequences

CONSTANTS
  FullMatrices,     \* the BitBSR matrices to split
  Thresholds,       \* values asked for as residual_threshold, legal or not
  CostModels,       \* cost models asked for, legal or not; NoModel is the plain split
  NoModel,
  SliceHeights      \* heights of the slices of the SELL residual

ASSUME FullAssumption == \A full \in FullMatrices : IsBitBsr(full)
ASSUME ParamsAssumption ==
  /\ Thresholds \subseteq Int /\ SliceHeights \subseteq Nat \ {0}
  /\ \A m \in CostModels \ {NoModel} :
       {m.bitmap_block, m.bitmap_nnz, m.csr_block, m.csr_nnz} \subseteq Int

VARIABLES
  full, residual_threshold, cost_model,   \* the arguments
  pc,               \* "start", "row", "blocks", "done" or "failed"
  br, block,        \* the block row and the block that are looked at
  kept,             \* the arrays of out.bitbsr
  residual_rows,    \* [row -> its residual entries, each <<col, value>>]
  residual,         \* out.residual
  counts            \* the counters of out

vars == <<full, residual_threshold, cost_model, pc, br, block, kept, residual_rows,
          residual, counts>>
args == <<full, residual_threshold, cost_model>>

Push(array, value) ==
  [i \in 0 .. size(array) |-> IF i = size(array) THEN value ELSE array[i]]

BlockNnz(m, b) == m.block_val_ptr[b + 1] - m.block_val_ptr[b]

NoCounts ==
  [kept_blocks |-> 0, residual_blocks |-> 0, kept_nnz |-> 0, residual_nnz |-> 0,
   cost_skipped_blocks |-> 0, cost_skipped_nnz |-> 0]

Init ==
  /\ full \in FullMatrices
  /\ residual_threshold \in Thresholds
  /\ cost_model \in CostModels
  /\ pc = "start"
  /\ br = 0 /\ block = 0
  /\ kept = [block_row_ptr |-> [i \in 0 .. full.num_block_rows |-> 0],
             block_col_idx |-> << >>, bitmap_words |-> << >>,
             block_val_ptr |-> [i \in {0} |-> 0], values |-> << >>]
  /\ residual_rows = [r \in 0 .. full.rows - 1 |-> << >>]
  /\ residual = << >>
  /\ counts = NoCounts

-----------------------------------------------------------------------------
(* The choice. *)

bitmap_cost(nnz) == cost_model.bitmap_block + cost_model.bitmap_nnz * nnz
csr_cost(nnz)    == cost_model.csr_block + cost_model.csr_nnz * nnz

ModelIsLegal ==
  IF cost_model = NoModel THEN TRUE
  ELSE \A c \in {"bitmap_block", "bitmap_nnz", "csr_block", "csr_nnz"} : cost_model[c] >= 0

\* Fault: the comparison the wrong way round.
move_if_dearer(nnz) ==
  IF cost_model = NoModel THEN TRUE ELSE csr_cost(nnz) > bitmap_cost(nnz)

\* Fault: a block moves at equal cost.
move_if_not_dearer(nnz) ==
  IF cost_model = NoModel THEN TRUE ELSE csr_cost(nnz) <= bitmap_cost(nnz)

should_move_to_residual(nnz) ==
  IF cost_model = NoModel THEN TRUE ELSE csr_cost(nnz) < bitmap_cost(nnz)

Start ==
  /\ pc = "start"
  /\ pc' = IF residual_threshold >= 0 /\ ModelIsLegal THEN "row" ELSE "failed"
  /\ UNCHANGED <<args, br, block, kept, residual_rows, residual, counts>>

-----------------------------------------------------------------------------
(* The walk over the blocks. *)

StartRow ==
  /\ pc = "row"
  /\ br < full.num_block_rows
  /\ block' = full.block_row_ptr[br]
  /\ kept' = [kept EXCEPT !.block_row_ptr[br] = counts.kept_blocks]
  /\ pc' = "blocks"
  /\ UNCHANGED <<args, br, residual_rows, residual, counts>>

\* The bits of the block that stand for entries of one row of the matrix.
RowBits(row) ==
  {bit \in full.bitmap_words[block] :
     LET e == EntryAt(full, br, block, bit) IN e[1] = row /\ e[2] < full.cols}

\* Fault: the values of a row are taken from the start of the block.
RankInRow(row, bit) == Cardinality({k \in RowBits(row) : k < bit})

\* Which of the block's values a bit has.
RankOf(row, bit) == Rank(full, block, bit)

\* The residual entries of a row, in the order of their bits.
RowEntries(row) ==
  [i \in 1 .. Cardinality(RowBits(row)) |->
     LET bit == CHOOSE bit \in RowBits(row) :
                  Cardinality({k \in RowBits(row) : k < bit}) = i - 1
     IN  <<full.block_col_idx[block] * block_cols + (bit % block_cols),
           full.values[full.block_val_ptr[block] + RankOf(row, bit)]>>]

MoveToResidual ==
  /\ pc = "blocks"
  /\ block < full.block_row_ptr[br + 1]
  /\ BlockNnz(full, block) <= residual_threshold
  /\ should_move_to_residual(BlockNnz(full, block))
  /\ residual_rows' = [row \in DOMAIN residual_rows |-> residual_rows[row] \o RowEntries(row)]
  /\ counts' = [counts EXCEPT !.residual_blocks = @ + 1,
                              !.residual_nnz = @ + BlockNnz(full, block)]
  /\ block' = block + 1
  /\ UNCHANGED <<args, pc, br, kept, residual>>

\* The value offset pushed behind a kept block.
PushedOffset(nnz) == counts.kept_nnz + nnz

Keep ==
  /\ pc = "blocks"
  /\ block < full.block_row_ptr[br + 1]
  /\ ~(BlockNnz(full, block) <= residual_threshold
       /\ should_move_to_residual(BlockNnz(full, block)))
  /\ LET nnz == BlockNnz(full, block)
         skipped == nnz <= residual_threshold
     IN  /\ kept' = [kept EXCEPT
              !.block_col_idx = Push(@, full.block_col_idx[block]),
              !.bitmap_words = Push(@, full.bitmap_words[block]),
              !.block_val_ptr = Push(@, PushedOffset(nnz)),
              !.values = [i \in 0 .. size(kept.values) + nnz - 1 |->
                            IF i \in DOMAIN kept.values THEN kept.values[i]
                            ELSE full.values[full.block_val_ptr[block] + i - size(kept.values)]]]
         /\ counts' = [counts EXCEPT
              !.kept_blocks = @ + 1, !.kept_nnz = @ + nnz,
              !.cost_skipped_blocks = @ + (IF skipped THEN 1 ELSE 0),
              !.cost_skipped_nnz = @ + (IF skipped THEN nnz ELSE 0)]
  /\ block' = block + 1
  /\ UNCHANGED <<args, pc, br, residual_rows, residual>>

EndRow ==
  /\ pc = "blocks"
  /\ block = full.block_row_ptr[br + 1]
  /\ kept' = [kept EXCEPT !.block_row_ptr[br + 1] = counts.kept_blocks]
  /\ br' = br + 1
  /\ pc' = "row"
  /\ UNCHANGED <<args, block, residual_rows, residual, counts>>

-----------------------------------------------------------------------------
(* The result. *)

bitbsr ==
  [rows |-> full.rows, cols |-> full.cols, num_block_rows |-> full.num_block_rows,
   num_block_cols |-> full.num_block_cols, block_row_ptr |-> kept.block_row_ptr,
   block_col_idx |-> kept.block_col_idx, bitmap_words |-> kept.bitmap_words,
   block_val_ptr |-> kept.block_val_ptr, values |-> kept.values]

ResidualCsr ==
  LET row_ptr == PrefixSum([r \in 0 .. full.rows - 1 |-> Len(residual_rows[r])], full.rows)
      entry(p) == LET r == CHOOSE r \in 0 .. full.rows - 1 :
                             p \in row_ptr[r] .. row_ptr[r + 1] - 1
                  IN  residual_rows[r][p - row_ptr[r] + 1]
      positions == 0 .. row_ptr[full.rows] - 1
  IN  [rows |-> full.rows, cols |-> full.cols, row_ptr |-> row_ptr,
       col_idx |-> [p \in positions |-> entry(p)[1]],
       values |-> [p \in positions |-> entry(p)[2]]]

\* The split is put together and validated, its counters with it.
Assemble ==
  /\ pc = "row"
  /\ br = full.num_block_rows
  /\ residual' = ResidualCsr
  /\ pc' = IF /\ IsBitBsr(bitbsr) /\ IsCsr(residual')
              /\ counts.kept_blocks = size(bitbsr.block_col_idx)
              /\ counts.kept_nnz = size(bitbsr.values)
              /\ counts.residual_nnz = size(residual'.values)
           THEN "done" ELSE "failed"
  /\ UNCHANGED <<args, br, block, kept, residual_rows, counts>>

Over == pc \in {"done", "failed"} /\ UNCHANGED vars

Next == Start \/ StartRow \/ MoveToResidual \/ Keep \/ EndRow \/ Assemble \/ Over

Spec == Init /\ [][Next]_vars

-----------------------------------------------------------------------------
(* The residual in block-row COO and in sliced SELL. *)

bits_per_block == block_rows * block_cols

\* An entry's position in its block row: block column, then local row and column.
PackColLocal(row, col) ==
  (col \div block_cols) * bits_per_block + (row % block_rows) * block_cols + (col % block_cols)

\* The entries of the residual that the COO product of block row i adds up.
CooEntries(csr) ==
  LET ptr == [i \in 0 .. ceil_div(csr.rows, block_rows) |->
                csr.row_ptr[Smaller(csr.rows, i * block_rows)]]
      row_of(p) == CHOOSE r \in 0 .. csr.rows - 1 : p \in Positions(csr, r)
      packed == [p \in DOMAIN csr.values |-> PackColLocal(row_of(p), csr.col_idx[p])]
      entry(i, p) ==
        LET local_id == packed[p] % bits_per_block IN
        <<i * block_rows + local_id \div block_cols,
          (packed[p] \div bits_per_block) * block_cols + (local_id % block_cols),
          csr.values[p]>>
  IN  UNION {{entry(i, p) : p \in ptr[i] .. ptr[i + 1] - 1} :
               i \in 0 .. ceil_div(csr.rows, block_rows) - 1}

\* Fault: the slice is as wide as its first row.
FirstRowLength(csr, height, s) == csr.row_ptr[s * height + 1] - csr.row_ptr[s * height]

SliceWidth(csr, height, s) ==
  LET lengths == {csr.row_ptr[r + 1] - csr.row_ptr[r] :
                    r \in s * height .. Smaller(csr.rows, (s + 1) * height) - 1}
  IN  CHOOSE n \in lengths : \A k \in lengths : k <= n

\* A residual entry goes to column k of its slice, the rows of a column
\* together; what no entry fills keeps the column -1.
SellCells(csr, height) ==
  LET slices == ceil_div(csr.rows, height)
      ptr == PrefixSum([s \in 0 .. slices - 1 |-> SliceWidth(csr, height, s) * height], slices)
      dst(r, p) == ptr[r \div height] + (p - csr.row_ptr[r]) * height + (r % height)
      taken == UNION {{<<dst(r, p), csr.col_idx[p], csr.values[p]>> : p \in Positions(csr, r)} :
                        r \in 0 .. csr.rows - 1}
  IN  [ptr |-> ptr,
       cell |-> [d \in 0 .. ptr[slices] - 1 |->
                   IF \E t \in taken : t[1] = d
                   THEN LET t == CHOOSE t \in taken : t[1] = d IN <<t[2], t[3]>>
                   ELSE <<-1, 0>>]]

\* The entries the SELL product of each row adds up.
SellEntries(csr, height) ==
  LET sell == SellCells(csr, height)
      cells(r) == {sell.ptr[r \div height] + k * height + (r % height) :
                     k \in 0 .. SliceWidth(csr, height, r \div height) - 1}
  IN  UNION {{<<r, sell.cell[d][1], sell.cell[d][2]>> :
                d \in {d \in cells(r) : sell.cell[d][1] >= 0}} : r \in 0 .. csr.rows - 1}

-----------------------------------------------------------------------------
(* What the split is for. *)

\* The two parts of a split make up the matrix and share nothing, and the
\* residual's rows are sorted, as the sparse library wants them.  With legal
\* arguments a split never fails its own validation.
Partition ==
  /\ pc = "done" =>
       /\ Decode(bitbsr) \cup Entries(residual) = Decode(full)
       /\ Decode(bitbsr) \cap Entries(residual) = {}
       /\ HasSortedRows(residual)
  /\ pc = "failed" => residual_threshold < 0 \/ ~ModelIsLegal

\* The blocks that may move: those within the threshold.
MayMove == {b \in DOMAIN full.block_col_idx : BlockNnz(full, b) <= residual_threshold}

\* The cost of a split that moves the given blocks.
CostOf(moved) ==
  LET cost == [b \in DOMAIN full.block_col_idx |->
                 IF b \in moved THEN csr_cost(BlockNnz(full, b))
                 ELSE bitmap_cost(BlockNnz(full, b))]
  IN  PrefixSum(cost, size(cost))[size(cost)]

Moved ==
  {b \in DOMAIN full.block_col_idx :
     \E i \in 0 .. full.num_block_rows - 1 :
       b \in BlocksOf(full, i) /\ BlockEntries(full, i, b) \subseteq Entries(residual)}

\* No split within the threshold is cheaper by the model than the one made, of
\* those as cheap none leaves a block in place that this one moves, so that a
\* tie keeps the bitmap, and the counters tell the blocks that moved from those
\* the model kept.
GateMinimises ==
  pc = "done" /\ cost_model # NoModel =>
    /\ \A other \in SUBSET MayMove :
         /\ CostOf(Moved) <= CostOf(other)
         /\ CostOf(Moved) = CostOf(other) => Moved \subseteq other
    /\ counts.residual_blocks = Cardinality(Moved)
    /\ counts.cost_skipped_blocks = Cardinality(MayMove \ Moved)

\* The other residual formats hold the entries of the CSR residual, and their
\* products add up no padding.
FormatsKeepEntries ==
  pc = "done" =>
    /\ CooEntries(residual) = Entries(residual)
    /\ \A height \in SliceHeights : SellEntries(residual, height) = Entries(residual)
=============================================================================
