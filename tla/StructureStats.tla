--------------------------- MODULE StructureStats ---------------------------
(***************************************************************************)
(* What structural_analyze reports of the structure of a matrix: the bits  *)
(* that CSR and BitBSR spend on positions (stats.hpp) and the profile of   *)
(* the blocks (profile.hpp).  Ratios are left to the reader of the counts. *)
(***************************************************************************)
EXTENDS BitBsrFormat, FiniteSetsExt

CONSTANTS DeltaU8, DeltaU16   \* the largest offset of 8 and 16 bits: 255, 65535

ASSUME DeltaAssumption == DeltaU8 \in Nat /\ DeltaU16 \in Nat /\ DeltaU8 <= DeltaU16

-----------------------------------------------------------------------------
(* stats.hpp. *)

kBitmapWordBits == 32
words_per_block == ceil_div(block_rows * block_cols, kBitmapWordBits)

\* For a CSR matrix of so many entries and its BitBSR form.
storage_stats(csr_nnz, m) ==
  [csr_index_bits     |-> csr_nnz * 32,
   csr_row_ptr_bits   |-> (m.rows + 1) * 32,
   block_row_ptr_bits |-> size(m.block_row_ptr) * 32,
   block_col_idx_bits |-> size(m.block_col_idx) * 32,
   bitmap_bits        |-> size(m.bitmap_words) * words_per_block * kBitmapWordBits,
   block_val_ptr_bits |-> size(m.block_val_ptr) * 32]

total_position_bits(stats) ==
  stats.block_row_ptr_bits + stats.block_col_idx_bits
    + stats.bitmap_bits + stats.block_val_ptr_bits

-----------------------------------------------------------------------------
(* profile.hpp: helpers. *)

\* Fault: the rank is rounded down.
rank_rounded_down(percentile, n) == (percentile * n) \div 100

nearest_rank(percentile, n) == ceil_div(percentile * n, 100)

\* The element at idx of the sorted values.
SortedAt(values, idx) ==
  CHOOSE v \in {values[i] : i \in DOMAIN values} :
    /\ Cardinality({i \in DOMAIN values : values[i] < v}) <= idx
    /\ Cardinality({i \in DOMAIN values : values[i] <= v}) > idx

percentile_nearest_rank(values, percentile) ==
  LET n    == size(values)
      rank == nearest_rank(percentile, n)
  IN  IF n = 0 THEN 0
      ELSE SortedAt(values, IF rank = 0 THEN 0 ELSE Smaller(rank - 1, n - 1))

\* The bits of a number.
BitLength[n \in Nat] == IF n = 0 THEN 0 ELSE 1 + BitLength[n \div 2]

ceil_log2_cardinality(cardinality) ==
  IF cardinality <= 1 THEN 0 ELSE BitLength[cardinality - 1]

-----------------------------------------------------------------------------
(* profile.hpp: profile_bitbsr. *)

block_capacity == block_rows * block_cols

BlockNnz(m, b) == m.block_val_ptr[b + 1] - m.block_val_ptr[b]

blocks_per_row(m) ==
  [br \in 0 .. m.num_block_rows - 1 |-> m.block_row_ptr[br + 1] - m.block_row_ptr[br]]

active_rows(m) == {br \in DOMAIN blocks_per_row(m) : blocks_per_row(m)[br] > 0}

\* How far apart the first and the last block column of an active row are.
col_delta(m, br) ==
  LET cols == {m.block_col_idx[b] : b \in BlocksOf(m, br)}
  IN  Max(cols) - Min(cols)

eligible_rows(m, limit) == {br \in active_rows(m) : col_delta(m, br) <= limit}

covered_blocks(m, limit) ==
  MapThenSumSet(LAMBDA br : blocks_per_row(m)[br], eligible_rows(m, limit))

\* The bits of the block columns when the eligible rows may be written as a
\* base and offsets of so many bits.
delta_col_bits(m, limit, bits) ==
  MapThenSumSet(
    LAMBDA br : LET blocks == blocks_per_row(m)[br] IN
      IF br \in eligible_rows(m, limit) THEN Smaller(blocks * 32, 32 + blocks * bits)
      ELSE blocks * 32,
    active_rows(m))

position_bits(m, col_bits, cell_bits) ==
  2 * (m.num_block_rows + 1) * 32 + col_bits + cell_bits

active_meta_bits(m, base, bits) ==
  LET active == Cardinality(active_rows(m))
  IN  IF active = 0 THEN 0 ELSE 2 * (active + 1) * 32 + base + active * bits

\* How many blocks have a number of values that P accepts.
BlocksWith(m, P(_)) == Cardinality({b \in DOMAIN m.block_col_idx : P(BlockNnz(m, b))})

profile_bitbsr(m) ==
  LET num_blocks == size(m.block_col_idx)
      counts     == blocks_per_row(m)
      largest    == Max({0} \cup {counts[br] : br \in DOMAIN counts})
      bitmaps    == num_blocks * words_per_block * kBitmapWordBits
      coord_bits == ceil_log2_cardinality(block_capacity)
      count_bits == ceil_log2_cardinality(block_capacity + 1)
      coords     == size(m.values) * coord_bits + num_blocks * count_bits
      abs        == num_blocks * 32
      u8         == delta_col_bits(m, DeltaU8, 8)
      u16        == delta_col_bits(m, DeltaU16, 16)
  IN  [empty_blocks         |-> BlocksWith(m, LAMBDA n : n = 0),
       blocks_le_25pct_full |-> BlocksWith(m, LAMBDA n : n * 4 <= block_capacity),
       blocks_le_50pct_full |-> BlocksWith(m, LAMBDA n : n * 2 <= block_capacity),
       full_blocks          |-> BlocksWith(m, LAMBDA n : n = block_capacity),
       empty_block_rows     |-> m.num_block_rows - Cardinality(active_rows(m)),
       active_block_rows    |-> Cardinality(active_rows(m)),
       p50_blocks_per_block_row |-> percentile_nearest_rank(counts, 50),
       p90_blocks_per_block_row |-> percentile_nearest_rank(counts, 90),
       p99_blocks_per_block_row |-> percentile_nearest_rank(counts, 99),
       max_blocks_per_block_row |-> largest,
       max_col_delta_in_block_row |-> Max({0} \cup {col_delta(m, br) : br \in active_rows(m)}),
       col_delta_u8_covered_blocks  |-> covered_blocks(m, DeltaU8),
       col_delta_u16_covered_blocks |-> covered_blocks(m, DeltaU16),
       local_coord_bits_per_nnz         |-> coord_bits,
       local_coord_count_bits_per_block |-> count_bits,
       runtime_abs_col_position_bits    |-> position_bits(m, abs, bitmaps),
       runtime_delta_u8_position_bits   |-> position_bits(m, u8, bitmaps),
       runtime_delta_u16_position_bits  |-> position_bits(m, u16, bitmaps),
       runtime_local_coord_abs_position_bits       |-> position_bits(m, abs, coords),
       runtime_local_coord_delta_u8_position_bits  |-> position_bits(m, u8, coords),
       runtime_local_coord_delta_u16_position_bits |-> position_bits(m, u16, coords),
       active_row_abs_meta_bits       |-> active_meta_bits(m, 0, 32),
       active_row_delta_u8_meta_bits  |-> active_meta_bits(m, 32, 8),
       active_row_delta_u16_meta_bits |-> active_meta_bits(m, 32, 16)]
=============================================================================
