----------------------------- MODULE CodecSpmv ------------------------------
(***************************************************************************)
(* The 8x4 operators of every value codec (operators/bitbsr_spmv_8x4_      *)
(* common.cuh, _lossless.cuh, _lossy.cuh, _dispatch.cuh): the sizes they   *)
(* check, the work items of the load-balanced layout, what a kernel adds   *)
(* for a set bit, and what a call leaves in y.  The order in which the     *)
(* warps of a call run is FlagLbSpmv's subject; here a call is one value.  *)
(* FP32 sums are taken as exact.                                           *)
(***************************************************************************)
EXTENDS ValueCodecs

-----------------------------------------------------------------------------
(* The sizes an operator checks before it runs.  It also compares the      *)
(* lengths of the packed positions and of the item row pointers with the   *)
(* matrix, and those of the three arrays of the outlier list with each     *)
(* other.  Positions and items are made of the matrix at hand here, and an *)
(* outlier is one triple, so that these lengths cannot differ.             *)

SignSizes(plan, m) == size(plan.sign_masks) = num_blocks(m)

\* The k-means codecs, plain and logarithmic, share one bound, and an operator.
TileSizes(codec, plan, m) ==
  /\ size(plan.tile_codes) = num_blocks(m)
  /\ size(plan.value_codebook) <= IF codec \in DictCodecs THEN max_codebook_size[codec]
                                  ELSE kK256ValueCodebookSize
  /\ nnz(m) > 0 => plan.value_codebook # << >>

Round16Sizes(plan, m) == size(plan.values16) = nnz(m)

Bfp8Sizes(plan, m) ==
  size(plan.int8_values) = nnz(m) /\ size(plan.block_scale) = num_blocks(m)

Bfp4Sizes(plan, m) ==
  /\ size(plan.packed_int4) = ceil_div(nnz(m), 2)
  /\ size(plan.block_scale) = num_blocks(m)

-----------------------------------------------------------------------------
(* The blocks a warp walks. *)

Popcounts(m, blocks) == MapThenSumSet(LAMBDA b : Cardinality(m.bitmap_words[b]), blocks)

\* Fault: every item begins at the first value of its block row.
row_value_begin(m, first, begin) == m.block_val_ptr[first]

\* value_pos when the filling kernel has walked from the row's first block.
item_value_begin(m, first, begin) == m.block_val_ptr[first] + Popcounts(m, first .. begin - 1)

\* The work items of a block row: one up to the threshold, chunks beyond it,
\* flagged if there are several.
items_of_row(m, br, chunk, threshold) ==
  LET first   == m.block_row_ptr[br]
      blocks  == m.block_row_ptr[br + 1] - first
      count   == IF blocks <= threshold THEN 1 ELSE ceil_div(blocks, chunk)
      stretch == IF count > 1 THEN chunk ELSE blocks
  IN  {[br |-> br, block_begin |-> first + i * stretch,
        block_count |-> Smaller(stretch, blocks - i * stretch),
        value_begin |-> item_value_begin(m, first, first + i * stretch),
        atomic_output |-> count > 1] : i \in {i \in 0 .. blocks : i * stretch < blocks}}

work_items(m, chunk, threshold) ==
  UNION {items_of_row(m, br, chunk, threshold) : br \in 0 .. m.num_block_rows - 1}

\* Without load balance a warp walks a whole block row, an empty one too.
whole_rows(m) ==
  {[br |-> br, block_begin |-> m.block_row_ptr[br],
    block_count |-> m.block_row_ptr[br + 1] - m.block_row_ptr[br],
    value_begin |-> m.block_val_ptr[m.block_row_ptr[br]],
    atomic_output |-> FALSE] : br \in 0 .. m.num_block_rows - 1}

-----------------------------------------------------------------------------
(* What the kernels read for a set bit, in decoded units.  pos is the      *)
(* place of the bit's value: the value base of the block plus the rank.    *)

raw_value(m, pos) == m.values[pos] * Fine

\* value: 1 for implicit_one, the constant for const_c.
constant_value(value) == value * Fine

decode_sign(plan, b, bit) == IF bit \in plan.sign_masks[b] THEN 1 ELSE -1
sign_value(plan, scale, b, bit) == scale * decode_sign(plan, b, bit) * Fine

decode_tile_code_value(plan, b, bit) == plan.value_codebook[plan.tile_codes[b][bit]] * Fine

round16_value(plan, pos) == plan.values16[pos]

bfp8_value(plan, b, pos) == plan.int8_values[pos] * plan.block_scale[b]

decode_bfp4_nibble(packed, pos) ==
  LET nibble == IF pos % 2 = 0 THEN packed[pos \div 2] % 16 ELSE packed[pos \div 2] \div 16
  IN  IF nibble >= 8 THEN nibble - 16 ELSE nibble

bfp4_value(plan, b, pos) == decode_bfp4_nibble(plan.packed_int4, pos) * plan.block_scale[b]

decode(codec, plan, m, b, bit, pos) ==
  CASE codec = "Raw"         -> raw_value(m, pos)
    [] codec = "ImplicitOne" -> constant_value(One)
    [] codec = "ConstC"      -> constant_value(plan.value_scale)
    [] codec = "Sign2"       -> sign_value(plan, One, b, bit)
    [] codec = "Sign2Scale"  -> sign_value(plan, plan.value_scale, b, bit)
    [] codec \in {"Fp16", "Bf16"}        -> round16_value(plan, pos)
    [] codec \in {"Bfp8", "Bfp8Outlier"} -> bfp8_value(plan, b, pos)
    [] codec = "Bfp4"        -> bfp4_value(plan, b, pos)
    [] OTHER                 -> decode_tile_code_value(plan, b, bit)

\* The set bits of a block that lie in a row and within the matrix.
LaneBits(m, b, local_row) ==
  {bit \in m.bitmap_words[b] :
     /\ bit \div block_cols = local_row
     /\ m.block_col_idx[b] * block_cols + (bit % block_cols) < m.cols}

\* The sum a warp has for one row when it has walked its blocks.
WalkSum(codec, plan, m, x, work, local_row) ==
  MapThenSumSet(
    LAMBDA b :
      LET base == work.value_begin + Popcounts(m, work.block_begin .. b - 1) IN
      MapThenSumSet(
        LAMBDA bit : decode(codec, plan, m, b, bit, base + Rank(m, b, bit))
                       * x[m.block_col_idx[b] * block_cols + (bit % block_cols)],
        LaneBits(m, b, local_row)),
    work.block_begin .. work.block_begin + work.block_count - 1)

-----------------------------------------------------------------------------
(* The operators. *)

Thrown(why) == [ok |-> FALSE, why |-> why]

\* y is zeroed, then every warp adds its sum or, if it is the only one of its
\* rows, stores it; nothing is launched without blocks or items.
Launched(codec, plan, m, items, x) ==
  [ok |-> TRUE,
   y |-> [row \in 0 .. m.rows - 1 |->
            LET mine   == {w \in items : w.br = row \div block_rows /\ num_blocks(m) > 0}
                stored == {w \in mine : ~ w.atomic_output}
                Sum(w) == WalkSum(codec, plan, m, x, w, row % block_rows)
            IN  IF stored # {} THEN Sum(CHOOSE w \in stored : TRUE) ELSE MapThenSumSet(Sum, mine)]]

spmv_raw(plan, m, items, x) == Launched("Raw", plan, m, items, x)

spmv_constant(codec, plan, m, items, x) == Launched(codec, plan, m, items, x)

spmv_sign_tile32(codec, plan, m, items, x) ==
  IF SignSizes(plan, m) THEN Launched(codec, plan, m, items, x) ELSE Thrown("internal")

spmv_code_tile(codec, plan, m, items, x) ==
  IF TileSizes(codec, plan, m) THEN Launched(codec, plan, m, items, x) ELSE Thrown("internal")

spmv_round16_nnz(codec, plan, m, items, x) ==
  IF Round16Sizes(plan, m) THEN Launched(codec, plan, m, items, x) ELSE Thrown("internal")

spmv_bfp8_blkscale(codec, plan, m, items, x) ==
  IF Bfp8Sizes(plan, m) THEN Launched(codec, plan, m, items, x) ELSE Thrown("internal")

spmv_bfp4_blkscale(codec, plan, m, items, x) ==
  IF Bfp4Sizes(plan, m) THEN Launched(codec, plan, m, items, x) ELSE Thrown("internal")

\* The side list, added onto the bulk sums.
outlier_correction(plan, x, row) ==
  MapThenSumSet(LAMBDA o : o[3] * Fine * x[o[2]], {o \in plan.outliers : o[1] = row})

\* Two passes: BFP8, then the correction.
spmv_bfp8_outlier(codec, plan, m, items, x) ==
  LET bulk == spmv_bfp8_blkscale(codec, plan, m, items, x)
  IN  IF ~ bulk.ok \/ items = {} THEN bulk
      ELSE [bulk EXCEPT !.y = [row \in DOMAIN bulk.y |-> bulk.y[row] + outlier_correction(plan, x, row)]]

\* Which operator carries out a call; the outlier codec has none without load
\* balance.
run_bitbsr_spmv_once(codec, plan, m, use_load_balance, chunk, threshold, x) ==
  LET items == IF use_load_balance THEN work_items(m, chunk, threshold) ELSE whole_rows(m)
  IN  CASE codec = "Raw" -> spmv_raw(plan, m, items, x)
        [] codec \in {"ImplicitOne", "ConstC"} -> spmv_constant(codec, plan, m, items, x)
        [] codec \in {"Sign2", "Sign2Scale"} -> spmv_sign_tile32(codec, plan, m, items, x)
        [] codec \in {"Fp16", "Bf16"} -> spmv_round16_nnz(codec, plan, m, items, x)
        [] codec = "Bfp8" -> spmv_bfp8_blkscale(codec, plan, m, items, x)
        [] codec = "Bfp8Outlier" ->
             IF use_load_balance THEN spmv_bfp8_outlier(codec, plan, m, items, x)
             ELSE Thrown("no kernel")
        [] codec = "Bfp4" -> spmv_bfp4_blkscale(codec, plan, m, items, x)
        [] OTHER -> spmv_code_tile(codec, plan, m, items, x)
=============================================================================
