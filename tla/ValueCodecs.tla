---------------------------- MODULE ValueCodecs -----------------------------
(***************************************************************************)
(* The value codecs of the 8x4 operators: what each builder stores for a   *)
(* BitBSR matrix (gpu_value_codecs.cuh, value_compression.hpp).  CodecSpmv *)
(* is what the kernels make of it.                                         *)
(*                                                                         *)
(* A value of the matrix is an integer in units of 2^-8, a decoded value   *)
(* one in units of 2^-16, so that every 16-bit rounding of the values used *)
(* is exact.  Sums are exact; NaN, infinities and -0.0 are left out.  The  *)
(* packed words of a tile are the function from its bits to their codes, a *)
(* sign mask the set of its bits that are +1.                              *)
(***************************************************************************)
EXTENDS BitBsrFormat, FiniteSetsExt

CONSTANTS
  kK256ValueCodebookSize,          \* 256
  kSpmvDict256ValueCodebookSize,   \* 256
  kSpmvDict65536ValueCodebookSize, \* 65536
  OutlierShare,                    \* 200: one value in so many is an outlier
  ScalarCentres(_, _), LogCentres(_, _)  \* what k-means makes of too many values

ASSUME ShapeAssumption == block_rows = 8 /\ block_cols = 4
ASSUME CodebookAssumption ==
  /\ kK256ValueCodebookSize \in 1 .. 256
  /\ kSpmvDict256ValueCodebookSize \in 1 .. 256
  /\ kSpmvDict65536ValueCodebookSize \in 1 .. 65536
  /\ OutlierShare \in Nat \ {0}

One  == 256   \* the value 1
Fine == 256   \* decoded units in a unit

Abs(n) == IF n < 0 THEN -n ELSE n

num_blocks(m) == size(m.block_col_idx)
nnz(m)        == size(m.values)
Values(m)     == {m.values[k] : k \in DOMAIN m.values}
Blocks(m)     == DOMAIN m.block_col_idx
ValueIndices(m, b) == m.block_val_ptr[b] .. m.block_val_ptr[b + 1] - 1
ValueIndex(m, b, bit) == m.block_val_ptr[b] + Rank(m, b, bit)

-----------------------------------------------------------------------------
(* Rounding. *)

\* num / den to p significant bits, ties to even; at least 2^(p-1) and below 2^24.
RoundSig(num, den, p) ==
  LET e   == CHOOSE e \in 0 .. 24 - p :
               /\ num \div den < 2 ^ (p + e)
               /\ e > 0 => num \div den >= 2 ^ (p + e - 1)
      ulp == den * 2 ^ e
      q   == num \div ulp
      r   == num % ulp
  IN  2 ^ e * (IF 2 * r > ulp \/ (2 * r = ulp /\ q % 2 = 1) THEN q + 1 ELSE q)

Signed(v, magnitude) == IF v < 0 THEN -magnitude ELSE magnitude

round_to(v, p) == IF v = 0 THEN 0 ELSE Signed(v, RoundSig(Abs(v) * Fine, 1, p))

\* std::lround of v / scale, the scale in decoded units.
lround(v, scale) == Signed(v, (2 * Abs(v) * Fine + scale) \div (2 * scale))

\* Where a value lies among sorted centres: the first that is not smaller.
LowerBound(centres, v) == Cardinality({i \in DOMAIN centres : centres[i] < v})

-----------------------------------------------------------------------------
(* What a builder returns: the parts of the plan it fills and what the     *)
(* report says of them.                                                    *)

Failed == [built |-> FALSE]

Built(parts, exact, codebook_size, payload) ==
  [built |-> TRUE, parts |-> parts, exact |-> exact,
   codebook_size |-> codebook_size, payload_bytes |-> payload]

\* BitBsrSpmvPlan8x4 before a builder has filled it.
EmptyPlan ==
  [value_scale |-> One, tile_codes |-> << >>, sign_masks |-> << >>,
   value_codebook |-> << >>, values16 |-> << >>, int8_values |-> << >>,
   block_scale |-> << >>, packed_int4 |-> << >>, outliers |-> {}]

(* The exact codecs without a codebook. *)

build_implicit_one(m) ==
  IF Values(m) \subseteq {One} THEN Built(EmptyPlan, TRUE, 0, 0) ELSE Failed

build_const_c(m, word) ==
  IF Cardinality(Values(m)) # 1 THEN Failed
  ELSE Built([EmptyPlan EXCEPT !.value_scale = CHOOSE v \in Values(m) : TRUE], TRUE, 1, word)

sign_masks(m, positive) ==
  [b \in Blocks(m) |->
     {bit \in m.bitmap_words[b] : m.values[ValueIndex(m, b, bit)] = positive}]

build_sign2(m) ==
  IF ~ Values(m) \subseteq {-One, One} THEN Failed
  ELSE Built([EmptyPlan EXCEPT !.sign_masks = sign_masks(m, One)], TRUE, 0, 4 * num_blocks(m))

build_sign2_scale(m, word) ==
  IF Cardinality(Values(m)) # 2 \/ \E v \in Values(m) : -v \notin Values(m) THEN Failed
  ELSE LET positive == Max(Values(m))
       IN  Built([EmptyPlan EXCEPT !.value_scale = positive,
                                   !.sign_masks = sign_masks(m, positive)],
                 TRUE, 1, 4 * num_blocks(m) + word)

(* The codecs with a codebook: every bit of a tile has the id of its value. *)

sorted_unique_values(values) ==
  [i \in 0 .. Cardinality(values) - 1 |->
     CHOOSE v \in values : Cardinality({u \in values : u < v}) = i]

\* Fault: the code of a bit is that of the cell, not of the cell's value.
tile_codes_by_bit(m, ids) ==
  [b \in Blocks(m) |-> [bit \in Bits |->
     IF bit \in m.bitmap_words[b]
       THEN ids[Smaller(m.block_val_ptr[b] + bit, size(ids) - 1)] ELSE 0]]

tile_codes(m, ids) ==
  [b \in Blocks(m) |-> [bit \in Bits |->
     IF bit \in m.bitmap_words[b] THEN ids[ValueIndex(m, b, bit)] ELSE 0]]

\* 32 codes of so many bits fill as many words.
words_per_tile(bits) == bits

tile_bytes(m, bits, codebook_size, word) ==
  4 * num_blocks(m) * words_per_tile(bits) + codebook_size * word

TileCodec(m, codebook, ids, bits, exact, used, word) ==
  IF \E k \in DOMAIN ids : ids[k] >= 2 ^ bits THEN Failed
  ELSE Built([EmptyPlan EXCEPT !.tile_codes = tile_codes(m, ids),
                               !.value_codebook = codebook],
             exact, used, tile_bytes(m, bits, size(codebook), word))

build_exact_tile_code(m, max_codebook_size, bits, word) ==
  LET codebook == sorted_unique_values(Values(m))
  IN  IF size(codebook) > max_codebook_size THEN Failed
      ELSE TileCodec(m, codebook,
                     [k \in DOMAIN m.values |-> LowerBound(codebook, m.values[k])],
                     bits, TRUE, size(codebook), word)

\* v is no farther from lo than from hi, by their difference or their ratio.
NearerToLower(lo, hi, v, measure) ==
  IF measure = "difference" THEN v - lo <= hi - v ELSE v * v <= lo * hi

\* The nearest of two centres around v, the smaller one on a tie.
nearest_sorted_center(centres, v, measure) ==
  LET hi == LowerBound(centres, v)
  IN  CASE hi = 0 -> 0
        [] hi = size(centres) -> hi - 1
        [] OTHER -> IF NearerToLower(centres[hi - 1], centres[hi], v, measure)
                    THEN hi - 1 ELSE hi

\* The codebook always has its full size; the exact codes are used where they fit.
build_k256(m, word) ==
  LET unique  == sorted_unique_values(Values(m))
      exact   == size(unique) <= kK256ValueCodebookSize
      centres == IF exact THEN unique ELSE ScalarCentres(m.values, kK256ValueCodebookSize)
      ids     == [k \in DOMAIN m.values |->
                    nearest_sorted_center(centres, m.values[k], "difference")]
      padded  == [i \in 0 .. kK256ValueCodebookSize - 1 |->
                    IF i \in DOMAIN centres THEN centres[i] ELSE 0]
  IN  TileCodec(m, padded, ids, 8, exact /\ nnz(m) > 0, size(centres), word)

\* Two codes for a centre, one of them negative; a stored zero has no logarithm.
build_logkmeans(m, requested_k, word) ==
  LET magnitudes == [k \in DOMAIN m.values |-> Abs(m.values[k])]
      unique     == sorted_unique_values({magnitudes[k] : k \in DOMAIN magnitudes})
      centres    == IF size(unique) <= requested_k THEN unique
                    ELSE LogCentres(magnitudes, requested_k)
      codebook   == [i \in 0 .. 2 * size(centres) - 1 |->
                       IF i % 2 = 0 THEN -centres[i \div 2] ELSE centres[i \div 2]]
      ids        == [k \in DOMAIN m.values |->
                       2 * nearest_sorted_center(centres, magnitudes[k], "ratio")
                         + (IF m.values[k] < 0 THEN 0 ELSE 1)]
  IN  IF 0 \in Values(m) \/ 2 * size(centres) > kK256ValueCodebookSize THEN Failed
      ELSE TileCodec(m, codebook, ids, 8, FALSE, size(codebook), word)

(* The codecs that store a number for every value. *)

build_round16(m, p) ==
  Built([EmptyPlan EXCEPT !.values16 = [k \in DOMAIN m.values |-> round_to(m.values[k], p)]],
        FALSE, 0, 2 * nnz(m))

\* The scale of a block, in decoded units: its largest value over top, in
\* bf16's eight bits, or 1.0 where that is nothing.  The code divides in double
\* and rounds to float before bf16.  Up to a value of 2^13 that is one rounding:
\* a quotient below 2^21 / top is no tie of the eight bits, or at least 1 / (2 top)
\* away from one, and a float's rounding moves it by less.
block_scale(m, b, top, outliers) ==
  LET rest == {Abs(m.values[k]) : k \in ValueIndices(m, b) \ outliers} \ {0}
  IN  IF rest = {} THEN One * Fine ELSE RoundSig(Max(rest) * Fine, top, 8)

block_scales(m, top, outliers) ==
  [b \in Blocks(m) |-> block_scale(m, b, top, outliers)]

BlockOf(m, k) == CHOOSE b \in Blocks(m) : k \in ValueIndices(m, b)

Clamp(q, top) == IF q > top THEN top ELSE IF q < -top THEN -top ELSE q

\* Fault: the outliers keep their mantissas, as in plain BFP8.
mantissas_with_outliers(m, top, outliers) ==
  [k \in DOMAIN m.values |->
     Clamp(lround(m.values[k], block_scale(m, BlockOf(m, k), top, outliers)), top)]

mantissas(m, top, outliers) ==
  [k \in DOMAIN m.values |->
     IF k \in outliers THEN 0
     ELSE Clamp(lround(m.values[k], block_scale(m, BlockOf(m, k), top, outliers)), top)]

build_bfp8(m) ==
  Built([EmptyPlan EXCEPT !.int8_values = mantissas(m, 127, {}),
                          !.block_scale = block_scales(m, 127, {})],
        FALSE, 0, nnz(m) + 2 * num_blocks(m))

\* The values above the one at the (1 - 1/OutlierShare) quantile.
Outliers(m) ==
  LET idx == nnz(m) - ceil_div(nnz(m), OutlierShare)
      AtMost(v) == Cardinality({k \in DOMAIN m.values : Abs(m.values[k]) <= v})
      threshold == Min({Abs(v) : v \in {v \in Values(m) : AtMost(Abs(v)) > idx}})
  IN  IF nnz(m) = 0 THEN {} ELSE {k \in DOMAIN m.values : Abs(m.values[k]) > threshold}

\* The side list: absolute row and column and the exact value of every outlier.
OutlierList(m) ==
  {EntryAt(m, c[1], c[2], c[3]) :
     c \in {c \in (0 .. m.num_block_rows - 1) \X Blocks(m) \X Bits :
              /\ c[2] \in BlocksOf(m, c[1])
              /\ c[3] \in m.bitmap_words[c[2]]
              /\ ValueIndex(m, c[2], c[3]) \in Outliers(m)}}

build_bfp8_outlier(m, word) ==
  Built([EmptyPlan EXCEPT !.int8_values = mantissas(m, 127, Outliers(m)),
                          !.block_scale = block_scales(m, 127, Outliers(m)),
                          !.outliers = OutlierList(m)],
        FALSE, 0, nnz(m) + 2 * num_blocks(m) + Cardinality(Outliers(m)) * (8 + word))

\* Two mantissas of four bits in a byte, the even one in its lower half.
packed_int4(q) ==
  LET nibble(k) == IF k \in DOMAIN q THEN q[k] % 16 ELSE 0
  IN  [i \in 0 .. ceil_div(size(q), 2) - 1 |-> nibble(2 * i) + 16 * nibble(2 * i + 1)]

build_bfp4(m) ==
  Built([EmptyPlan EXCEPT !.packed_int4 = packed_int4(mantissas(m, 7, {})),
                          !.block_scale = block_scales(m, 7, {})],
        FALSE, 0, ceil_div(nnz(m), 2) + 2 * num_blocks(m))

-----------------------------------------------------------------------------
(* The codecs by name. *)

DictCodecs == {"Dict2", "Unique4", "Unique16", "Dict256U8", "Dict65536U16"}

dict_bits == [Dict2 |-> 1, Unique4 |-> 2, Unique16 |-> 4, Dict256U8 |-> 8, Dict65536U16 |-> 16]

max_codebook_size ==
  [Dict2 |-> 2, Unique4 |-> 4, Unique16 |-> 16,
   Dict256U8 |-> kSpmvDict256ValueCodebookSize,
   Dict65536U16 |-> kSpmvDict65536ValueCodebookSize]

requested_k == [GlobalLogKmeans16 |-> 16, GlobalLogKmeans32 |-> 32,
                GlobalLogKmeans64 |-> 64, GlobalLogKmeans128 |-> 128]

LossyCodecs ==
  {"Fp16", "Bf16", "Bfp8", "Bfp8Outlier", "Bfp4", "K256U8"} \cup DOMAIN requested_k

ValueCodecKinds ==
  {"Raw", "ImplicitOne", "ConstC", "Sign2", "Sign2Scale"} \cup DictCodecs \cup LossyCodecs

\* The builder of a codec that is not raw.
build(codec, m, word) ==
  CASE codec = "ImplicitOne" -> build_implicit_one(m)
    [] codec = "ConstC"      -> build_const_c(m, word)
    [] codec = "Sign2"       -> build_sign2(m)
    [] codec = "Sign2Scale"  -> build_sign2_scale(m, word)
    [] codec \in DictCodecs  ->
         build_exact_tile_code(m, max_codebook_size[codec], dict_bits[codec], word)
    [] codec = "Fp16"        -> build_round16(m, 11)
    [] codec = "Bf16"        -> build_round16(m, 8)
    [] codec = "Bfp8"        -> build_bfp8(m)
    [] codec = "Bfp8Outlier" -> build_bfp8_outlier(m, word)
    [] codec = "Bfp4"        -> build_bfp4(m)
    [] codec = "K256U8"      -> build_k256(m, word)
    [] OTHER                 -> build_logkmeans(m, requested_k[codec], word)
=============================================================================
