---------------------------- MODULE MCHybridRun ----------------------------
(***************************************************************************)
(* HybridRun with dictionaries of at most two and four entries in place of *)
(* 256 and 65536, and command lines of up to three options.                *)
(***************************************************************************)
EXTENDS HybridRun

MCToken(o, v) == [opt |-> o, val |-> v]

MCTokens ==
  {MCToken("mode", v) : v \in {"fused", "two_pass", "three_pass"}}
    \cup {MCToken("residual_format", v) : v \in {"csr", "brcoo"}}
    \cup {MCToken("precision", "half"), MCToken("split_policy", "auto"),
          MCToken("split_policy", "fixed"), MCToken("cusparse_alg", "alg3")}
    \cup {MCToken("value_codec", v) : v \in {"auto", "dict", "bfp8", "bfp8_outlier", "bfp9"}}
    \cup {MCToken("verify_cpu", TRUE), MCToken("help", TRUE), MCToken("unknown", TRUE)}
    \cup {MCToken("iterations", v) : v \in {0, 2}}
    \cup {MCToken("residual_threshold", -1), MCToken("block_rows", 4),
          MCToken("block_cols", 8), MCToken("csr_nnz_cost", -1), MCToken("long_row_split", 64),
          MCToken("lb_chunk_blocks", 0), MCToken("lb_split_threshold_blocks", 0)}

\* Values of the two parts: none, few, as many as either index reaches, one
\* more than that; in one part, in the other, in both.
MCParts ==
  {<< <<>>, <<>> >>, << <<1, 2, 1>>, <<>> >>, << <<>>, <<3, 3>> >>, << <<1>>, <<2>> >>,
   << <<1, 2>>, <<3>> >>, << <<1, 2>>, <<3, 4, 1>> >>, << <<1, 2, 3>>, <<4, 5>> >>}

\* Rounding that stays small, that fails, that overflows to a NaN.
MCErrors ==
  {[raw |-> <<0, 0>>, bfp8 |-> <<1, 0>>, bfp8_outlier |-> <<0, 0>>],
   [raw |-> <<0, 1>>, bfp8 |-> <<2, 1>>, bfp8_outlier |-> <<1, 1>>],
   [raw |-> <<0, 0>>, bfp8 |-> <<1, NaN>>, bfp8_outlier |-> <<2, 0>>]}

MCMatrices == {[kept |-> k[1], residual |-> k[2], err |-> e] : k \in MCParts, e \in MCErrors}
=============================================================================
