---------------------------- MODULE ValueAnalysis ----------------------------
(***************************************************************************)
(* What structural_analyze reports of the values of a matrix: the value    *)
(* statistics (value_stats.hpp) and, for every codec, whether it applies,  *)
(* what it would take and how far it is off (value_compression.hpp).  The  *)
(* report is made from the values alone, by other code than the builders   *)
(* of ValueCodecs.                                                         *)
(*                                                                         *)
(* m is the BitBSR form of the matrix: the order of the values does not    *)
(* matter.  Logarithms and powers of two are exact; entropy and the        *)
(* histogram of exponents are left out.                                    *)
(***************************************************************************)
EXTENDS ValueCodecs

CONSTANT Probe(_)   \* make_value_probe_vector: the number for a column

-----------------------------------------------------------------------------
(* compute_value_stats, with the default cap. *)

unique_cap == 16

compute_value_stats(m) ==
  LET values == Values(m)
      seen   == nnz(m) > 0
  IN  [explicit_zero_count    |-> Cardinality({k \in DOMAIN m.values : m.values[k] = 0}),
       unique_values_exact    |-> Smaller(Cardinality(values), unique_cap),
       unique_values_overflow |-> Cardinality(values) > unique_cap,
       all_values_one         |-> seen /\ values \subseteq {One},
       binary_zero_one        |-> seen /\ values \subseteq {0, One},
       sign_only              |-> values \subseteq {-One, 0, One} /\ -One \in values]

-----------------------------------------------------------------------------
(* The report of a codec. *)

\* make_exact_codec_report; a codec that does not apply has no payload.
exact_report(applicable, bits) ==
  [applicable |-> applicable, exact |-> applicable, passes_spmv_gate |-> applicable,
   payload_bits |-> IF applicable THEN bits ELSE 0, codebook_size |-> 0, changed_values |-> 0]

\* Fault: the dictionary overflows when it is full.
overflow_when_full(m) == Cardinality(Values(m)) >= kSpmvDict65536ValueCodebookSize

unique_overflow(m) == Cardinality(Values(m)) > kSpmvDict65536ValueCodebookSize

exact_dict_report(m, largest, bits, word) ==
  LET count      == Cardinality(Values(m))
      applicable == ~ unique_overflow(m) /\ count <= largest
  IN  [exact_report(applicable, nnz(m) * bits + count * word * 8)
         EXCEPT !.codebook_size = IF applicable THEN count ELSE 0]

\* Every row of the probed product within a millionth of its reference.
PassesProbe(m, decoded) ==
  LET EntriesOf(r) == {c \in Blocks(m) \X Bits :
                         /\ c[2] \in m.bitmap_words[c[1]]
                         /\ c[1] \in BlocksOf(m, r \div block_rows)
                         /\ c[2] \div block_cols = r % block_rows}
      Column(c)   == m.block_col_idx[c[1]] * block_cols + (c[2] % block_cols)
      Sum(r, val) == MapThenSumSet(LAMBDA c : val[ValueIndex(m, c[1], c[2])] * Probe(Column(c)),
                                   EntriesOf(r))
      original    == [k \in DOMAIN m.values |-> m.values[k] * Fine]
  IN  \A r \in 0 .. m.rows - 1 :
        Abs(Sum(r, original) - Sum(r, decoded)) <= Abs(Sum(r, original)) \div 1000000

\* The report of a codec from what it makes of every value, in decoded units.
decoded_report(m, decoded, exact, bits, codebook_size) ==
  [applicable |-> TRUE, exact |-> exact, passes_spmv_gate |-> PassesProbe(m, decoded),
   payload_bits |-> bits, codebook_size |-> codebook_size,
   changed_values |-> Cardinality({k \in DOMAIN m.values : decoded[k] # m.values[k] * Fine})]

rounding_report(m, p) ==
  decoded_report(m, [k \in DOMAIN m.values |-> round_to(m.values[k], p)], FALSE, nnz(m) * 16, 0)

ceil_log2_int(value) == CHOOSE bits \in 0 .. value :
  2 ^ bits >= value /\ \A fewer \in 0 .. bits - 1 : 2 ^ fewer < value

\* Zeros stay zero, every other value takes the centre of its magnitude.
global_log_kmeans_report(m, k_asked) ==
  LET taken   == {k \in DOMAIN m.values : m.values[k] # 0}
      unique  == sorted_unique_values({Abs(m.values[k]) : k \in taken})
      centres == IF size(unique) <= k_asked THEN unique
                 ELSE LogCentres([k \in DOMAIN m.values |-> Abs(m.values[k])], k_asked)
      bits    == IF size(centres) = 0 THEN 0 ELSE ceil_log2_int(size(centres) + 1) + 1
      decoded == [k \in DOMAIN m.values |->
                    IF k \notin taken THEN 0
                    ELSE Signed(m.values[k],
                           centres[nearest_sorted_center(centres, Abs(m.values[k]), "ratio")]) * Fine]
  IN  decoded_report(m, decoded, FALSE, nnz(m) * bits + size(centres) * 64, size(centres))

k256_uint8_report(m, word) ==
  LET unique  == sorted_unique_values(Values(m))
      exact   == size(unique) <= kK256ValueCodebookSize
      centres == IF exact THEN unique ELSE ScalarCentres(m.values, kK256ValueCodebookSize)
      decoded == [k \in DOMAIN m.values |->
                    centres[nearest_sorted_center(centres, m.values[k], "difference")] * Fine]
  IN  decoded_report(m, decoded, exact, (nnz(m) + kK256ValueCodebookSize * word) * 8, size(centres))

\* analyze_value_compression, for a matrix with values.
analyze_value_compression(m, word) ==
  LET values  == Values(m)
      const_c == Cardinality(values) = 1
      scaled  == Cardinality(values) = 2 /\ 0 \notin values /\ Max(values) = -Min(values)
      dict(largest, bits) == exact_dict_report(m, largest, bits, word)
  IN  [original    |-> exact_report(TRUE, nnz(m) * word * 8),
       all_one     |-> exact_report(values \subseteq {One}, 0),
       const_c     |-> [exact_report(const_c, word * 8)
                          EXCEPT !.codebook_size = IF const_c THEN 1 ELSE 0],
       binary01    |-> exact_report(values \subseteq {0, One} /\ ~ values \subseteq {One}, nnz(m)),
       sign2       |-> exact_report(values \subseteq {-One, 0, One} /\ -One \in values, nnz(m) * 2),
       sign2_scale |-> [exact_report(scaled, nnz(m) + word * 8)
                          EXCEPT !.codebook_size = IF scaled THEN 1 ELSE 0],
       dict2  |-> dict(2, 1),
       dict4  |-> dict(4, 2),
       dict16 |-> dict(16, 4),
       dict256_u8     |-> dict(kSpmvDict256ValueCodebookSize, 8),
       dict65536_u16  |-> dict(kSpmvDict65536ValueCodebookSize, 16),
       fp16           |-> rounding_report(m, 11),
       bf16           |-> rounding_report(m, 8),
       codebook256_u8 |-> k256_uint8_report(m, word),
       global_logkmeans16  |-> global_log_kmeans_report(m, 16),
       global_logkmeans32  |-> global_log_kmeans_report(m, 32),
       global_logkmeans64  |-> global_log_kmeans_report(m, 64),
       global_logkmeans128 |-> global_log_kmeans_report(m, 128)]
=============================================================================
