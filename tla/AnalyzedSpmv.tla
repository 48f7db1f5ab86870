---------------------------- MODULE AnalyzedSpmv -----------------------------
(***************************************************************************)
(* structural_analyze (main_analyze.cpp) and structural_gpu_spmv on the    *)
(* same matrix: what the one reports, held against what the other builds.  *)
(***************************************************************************)
EXTENDS SpmvDriver, ValueAnalysis, StructureStats

\* The driver without options has loaded the matrix, in doubles and for blocks
\* of 8x4 like the analysis without options; the report depends on it alone.
Reported == pc = "convert" /\ given = 0

\* The builder behind each exact codec of the report; binary01 has none.
BuilderOf ==
  [all_one |-> "ImplicitOne", const_c |-> "ConstC", sign2 |-> "Sign2",
   sign2_scale |-> "Sign2Scale", dict2 |-> "Dict2", dict4 |-> "Unique4",
   dict16 |-> "Unique16", dict256_u8 |-> "Dict256U8", dict65536_u16 |-> "Dict65536U16"]

\* The report calls a codec applicable exactly when its builder accepts the
\* matrix (a matrix of ones alone is no sign matrix to the report, but one to
\* the builder); except for the signs, which it reckons with a code for zero,
\* it never promises more bits than are then stored; the rounding codecs
\* change the values that the stored ones differ from; and the value
\* statistics, a third count of the same values, agree.
AnalysisForetellsBuilders ==
  Reported /\ nnz(matrix) > 0 =>
    LET report == analyze_value_compression(matrix, word)
        stats  == compute_value_stats(matrix)
        Built16(kind) == build(kind, matrix, word).parts.values16
        Differ(kind)  == {k \in DOMAIN matrix.values :
                             Built16(kind)[k] # matrix.values[k] * Fine}
    IN  /\ \A name \in DOMAIN BuilderOf :
             LET made == build(BuilderOf[name], matrix, word) IN
             /\ report[name].applicable => made.built
             /\ made.built => report[name].applicable
                              \/ (name = "sign2" /\ report.all_one.applicable)
             /\ made.built /\ name # "sign2" => report[name].payload_bits <= 8 * made.payload_bytes
        /\ ~ report.binary01.applicable
        /\ \A name \in DOMAIN report :
             /\ report[name].exact => report[name].changed_values = 0
             /\ report[name].applicable /\ report[name].changed_values = 0
                  => report[name].passes_spmv_gate
        /\ report.codebook256_u8.exact = build("K256U8", matrix, word).exact
        /\ report.fp16.changed_values = Cardinality(Differ("Fp16"))
        /\ report.bf16.changed_values = Cardinality(Differ("Bf16"))
        /\ stats.all_values_one = report.all_one.applicable
        /\ stats.sign_only = report.sign2.applicable
        /\ stats.unique_values_overflow = ~ report.dict16.applicable

\* The smallest number of the array that is no smaller than so many per cent.
NearestRank(values, percentile) ==
  Min({values[i] : i \in {i \in DOMAIN values :
         100 * Cardinality({j \in DOMAIN values : values[j] <= values[i]})
           >= percentile * size(values)}})

\* The bits for offsets from the first column of a row, where they fit.
CheapestColumnBits(m, limit, bits) ==
  MapThenSumSet(
    LAMBDA br :
      LET cols == {m.block_col_idx[b] : b \in BlocksOf(m, br)}
          fits == \A c \in cols : c - Min(cols) \in 0 .. limit
      IN  Min({32 * Cardinality(cols)} \cup (IF fits THEN {32 + bits * Cardinality(cols)} ELSE {})),
    {br \in 0 .. m.num_block_rows - 1 : BlocksOf(m, br) # {}})

\* The profile and the storage statistics describe the matrix: the percentiles
\* are those of the nearest rank, the offset encodings cost what the cheapest
\* encoding able to hold every column costs, the local coordinates are wide
\* enough for every cell and every count and no wider, every block row is
\* empty or active, no block is empty, and both reports see one set of arrays.
ReportFitsMatrix ==
  Reported =>
    LET profile == profile_bitbsr(matrix)
        stats   == storage_stats(nnz(matrix), matrix)
        counts  == blocks_per_row(matrix)
        Exact(bits, n) == 2 ^ bits >= n /\ 2 ^ bits < 2 * n
        ColumnBits(u)  == profile.runtime_abs_col_position_bits - 32 * num_blocks(matrix) + u
    IN  /\ matrix.num_block_rows > 0 =>
             /\ profile.p50_blocks_per_block_row = NearestRank(counts, 50)
             /\ profile.p90_blocks_per_block_row = NearestRank(counts, 90)
             /\ profile.p99_blocks_per_block_row = NearestRank(counts, 99)
             /\ profile.max_blocks_per_block_row = NearestRank(counts, 100)
        /\ profile.runtime_delta_u8_position_bits = ColumnBits(CheapestColumnBits(matrix, DeltaU8, 8))
        /\ profile.runtime_delta_u16_position_bits = ColumnBits(CheapestColumnBits(matrix, DeltaU16, 16))
        /\ Exact(profile.local_coord_bits_per_nnz, block_capacity)
        /\ Exact(profile.local_coord_count_bits_per_block, block_capacity + 1)
        /\ profile.empty_blocks = 0
        /\ profile.empty_block_rows + profile.active_block_rows = matrix.num_block_rows
        /\ profile.col_delta_u8_covered_blocks <= profile.col_delta_u16_covered_blocks
        /\ profile.col_delta_u16_covered_blocks <= num_blocks(matrix)
        /\ total_position_bits(stats) - profile.runtime_abs_col_position_bits
             = 32 * (num_blocks(matrix) - matrix.num_block_rows)
=============================================================================
