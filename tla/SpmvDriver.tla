----------------------------- MODULE SpmvDriver -----------------------------
(***************************************************************************)
(* The SpMV driver (main_gpu_spmv.cu): it reads its options, plans an      *)
(* operator, loads and converts a matrix, lets the automatic codec choose, *)
(* balances the load, prepares the value codec, calls the operator, checks *)
(* the last result and reports.  Anything that goes wrong is an exception  *)
(* that ends the run with exit code 1.                                     *)
(*                                                                         *)
(* An argument is <<field, value>>, its value already the kind its name    *)
(* and all the aliases of it stand for.  A call is one step here:          *)
(* FlagLbSpmv shows what goes on inside it.                                *)
(***************************************************************************)
EXTENDS CodecSpmv, Sequences

CONSTANTS
  Matrices,           \* the matrices a file may hold, converted to BitBSR
  NoMatrix, NotANumber,
  Arguments,          \* the arguments that may be given
  MaxArguments,       \* bound: how many of them are given
  DefaultWarmup, DefaultIterations,  \* 5 and 20
  CalibratedBlocks,   \* [thousands of blocks -> blocks] of the tuned policy
  CalibratedAverage   \* [blocks per block row -> blocks per block row]

\* The loader drops an entry whose value is zero in the precision asked for
\* (DropZeros of MatrixMarket), so that no matrix here stores one.  NaN and
\* infinities, which the parser lets through, are left out.
ASSUME MatrixAssumption ==
  \A m \in Matrices : IsBitBsr(m) /\ \A v \in Values(m) : Abs(v) \in 64 .. 2 ^ 13
ASSUME CalibrationAssumption ==
  /\ DOMAIN CalibratedBlocks = {30, 120, 250, 400, 700, 3000, 8000}
  /\ DOMAIN CalibratedAverage = {128, 500, 6000, 20000}
  /\ \A k, l \in DOMAIN CalibratedBlocks : k < l => CalibratedBlocks[k] <= CalibratedBlocks[l]

VARIABLES
  pc,         \* the next stage of the run
  given,      \* number of arguments read
  opts,       \* SpmvCliOptions
  spec,       \* SpmvOperatorSpec
  matrix,     \* the loaded matrix
  histogram,  \* what the automatic codec saw of it
  balance,    \* EffectiveLoadBalanceParams
  codec,      \* what the builder made: plan and report
  calls,      \* number of calls made
  y,          \* the output vector
  outcome     \* how the run ended, and its exit code

vars == <<pc, given, opts, spec, matrix, histogram, balance, codec, calls, y, outcome>>

LayoutKinds == {"ColBitmap64", "ColBitmap64FlagLb", "CusparseCsr"}
NumberFields ==
  {"lb_chunk_blocks", "lb_split_threshold_blocks", "warmup", "iterations"}

None == << >>

DefaultOptions ==
  [precision |-> "double", layout |-> "ColBitmap64FlagLb", value_codec |-> "Raw",
   lb_chunk_blocks |-> 32, lb_split_threshold_blocks |-> -1, lb_policy |-> "Manual",
   warmup |-> DefaultWarmup, iterations |-> DefaultIterations, verify_cpu |-> FALSE,
   explicit |-> {}]

Init ==
  /\ pc = "argv" /\ given = 0
  /\ opts = DefaultOptions
  /\ spec = None /\ matrix = NoMatrix /\ histogram = None /\ balance = None
  /\ codec = None /\ calls = 0 /\ y = None /\ outcome = None

End(why, exit) ==
  /\ pc' = "done"
  /\ outcome' = [why |-> why, exit |-> exit]

\* An exception that main catches.
Fail(why) ==
  End(why, 1) /\ UNCHANGED <<given, opts, spec, matrix, histogram, balance, codec, calls, y>>

-----------------------------------------------------------------------------
(* The options. *)

Legal(field, value) ==
  CASE field = "precision"   -> value \in {"float", "double"}
    [] field = "layout"      -> value \in LayoutKinds
    [] field = "value_codec" -> value \in ValueCodecKinds \cup {"Auto"}
    [] field = "lb_policy"   -> value \in {"Manual", "BinaryImplicitOne"}
    [] field \in NumberFields -> value # NotANumber
    [] OTHER                 -> field = "verify_cpu"

Assigned(field, value) ==
  [opts EXCEPT ![field] = value,
               !.explicit = @ \cup ({field} \cap {"lb_chunk_blocks", "lb_split_threshold_blocks"})]

\* Without a matrix path there is nothing to do.
NoArguments ==
  /\ pc = "argv" /\ given = 0
  /\ End("usage", 2)
  /\ UNCHANGED <<given, opts, spec, matrix, histogram, balance, codec, calls, y>>

ReadArgument(field, value) ==
  /\ pc = "argv" /\ given < MaxArguments
  /\ IF field = "help" THEN
       /\ End("help", 0)
       /\ UNCHANGED <<given, opts, spec, matrix, histogram, balance, codec, calls, y>>
     ELSE IF ~ Legal(field, value) THEN Fail("argument")
     ELSE /\ opts' = Assigned(field, value)
          /\ given' = given + 1
          /\ UNCHANGED <<pc, spec, matrix, histogram, balance, codec, calls, y, outcome>>

SplitThreshold ==
  IF opts.lb_split_threshold_blocks < 0 THEN opts.lb_chunk_blocks
  ELSE opts.lb_split_threshold_blocks

EndArguments ==
  /\ pc = "argv"
  /\ IF \/ opts.warmup < 0 \/ opts.iterations <= 0
        \/ opts.lb_chunk_blocks <= 0 \/ SplitThreshold <= 0
     THEN Fail("argument")
     ELSE /\ opts' = [opts EXCEPT !.lb_split_threshold_blocks = SplitThreshold]
          /\ pc' = "plan"
          /\ UNCHANGED <<given, spec, matrix, histogram, balance, codec, calls, y, outcome>>

has_manual_override == opts.explicit # {}
auto_lossless == opts.value_codec = "Auto"
word == IF opts.precision = "float" THEN 4 ELSE 8

-----------------------------------------------------------------------------
(* The operator. *)

\* Fault: the policy asked for, although explicit parameters override it.
requested_policy_alone(requested, manual_override) == requested

effective_requested_load_balance_policy(requested, manual_override) ==
  IF manual_override THEN "Manual" ELSE requested

uses_load_balance(layout) == layout = "ColBitmap64FlagLb"

\* make_spmv_operator_spec throws.
Refused(layout, value_codec, requested, manual_override) ==
  \/ /\ effective_requested_load_balance_policy(requested, manual_override) = "BinaryImplicitOne"
     /\ layout # "ColBitmap64FlagLb" \/ value_codec # "ImplicitOne"
  \/ value_codec # "Raw" /\ layout = "CusparseCsr"

Family(layout, value_codec) ==
  CASE layout = "CusparseCsr"       -> "ExternalBaseline"
    [] value_codec \in LossyCodecs  -> "ControlledLossyValueSpecialized"
    [] value_codec \notin LossyCodecs \cup {"Raw"} -> "LosslessValueSpecialized"
    [] OTHER -> IF uses_load_balance(layout) THEN "LoadBalancedTraversal"
                ELSE "NonLoadBalancedTraversal"

Runner(layout, value_codec) ==
  IF layout = "CusparseCsr" THEN "CusparseCsr"
  ELSE IF value_codec = "Raw" THEN "BitBsrRawTraversal" ELSE "BitBsrValueSpecialized"

make_spmv_operator_spec(layout, value_codec, requested, manual_override) ==
  LET policy == effective_requested_load_balance_policy(requested, manual_override)
  IN  [layout |-> layout, value_codec |-> value_codec,
       family |-> Family(layout, value_codec),
       verify_gate |-> IF value_codec \in LossyCodecs THEN "SpmvMaxRel" ELSE "ExactAbsOrRel",
       promotion |->
         CASE layout = "CusparseCsr" -> "ExternalBaseline"
           [] value_codec = "Raw" /\ uses_load_balance(layout) -> "Promoted"
           [] value_codec = "ImplicitOne" /\ policy = "BinaryImplicitOne" -> "Promoted"
           [] OTHER -> "BuildableNeedsReport",
       runner |-> Runner(layout, value_codec)]

\* The automatic codec is planned for as raw, with the manual policy.
PlanOperator ==
  LET value_codec == IF auto_lossless THEN "Raw" ELSE opts.value_codec
      requested   == IF auto_lossless THEN "Manual" ELSE opts.lb_policy
  IN  /\ pc = "plan"
      /\ IF \/ Refused(opts.layout, value_codec, requested, has_manual_override)
            \/ auto_lossless /\ opts.layout = "CusparseCsr"
         THEN Fail("plan")
         ELSE /\ spec' = make_spmv_operator_spec(opts.layout, value_codec, requested,
                                                 has_manual_override)
              /\ pc' = "load"
              /\ UNCHANGED <<given, opts, matrix, histogram, balance, codec, calls, y, outcome>>

Load(m) ==
  /\ pc = "load"
  /\ matrix' = m
  /\ pc' = IF opts.layout = "CusparseCsr" THEN "cusparse" ELSE "convert"
  /\ UNCHANGED <<given, opts, spec, histogram, balance, codec, calls, y, outcome>>

Convert ==
  /\ pc = "convert"
  /\ pc' = IF auto_lossless THEN "select" ELSE "balance"
  /\ UNCHANGED <<given, opts, spec, matrix, histogram, balance, codec, calls, y, outcome>>

-----------------------------------------------------------------------------
(* The automatic choice. *)

build_device_exact_value_histogram(m) ==
  LET values == Values(m)
      unique == Cardinality(values)
      none   == nnz(m) = 0
      Dict(bits) == IF none THEN 0 ELSE tile_bytes(m, bits, unique, word)
  IN  [nnz |-> nnz(m), unique_count |-> unique,
       unique_overflow |-> unique > kSpmvDict65536ValueCodebookSize,
       all_one |-> values = {One},
       const_c |-> unique = 1,
       sign2 |-> values = {-One, One},
       sign2_scale |-> unique = 2 /\ \A v \in values : v # 0 /\ -v \in values,
       bytes |-> [Raw |-> nnz(m) * word, ImplicitOne |-> 0,
                  ConstC |-> IF none THEN 0 ELSE word,
                  Sign2 |-> 4 * num_blocks(m),
                  Sign2Scale |-> IF none THEN 0 ELSE 4 * num_blocks(m) + word,
                  Dict2 |-> Dict(1), Unique4 |-> Dict(2), Unique16 |-> Dict(4),
                  Dict256U8 |-> Dict(8), Dict65536U16 |-> Dict(16)]]

\* The codecs in the order they are tried, each with its condition.
Candidates(h) ==
  << <<"ImplicitOne", h.all_one>>, <<"ConstC", h.const_c>>, <<"Sign2", h.sign2>>,
     <<"Sign2Scale", h.sign2_scale>>,
     <<"Dict2", h.unique_count <= 2>>, <<"Unique4", h.unique_count <= 4>>,
     <<"Unique16", h.unique_count <= 16>>,
     <<"Dict256U8", h.unique_count <= kSpmvDict256ValueCodebookSize>>,
     <<"Dict65536U16", ~ h.unique_overflow /\ h.unique_count <= kSpmvDict65536ValueCodebookSize>>,
     <<"Raw", TRUE>> >>

\* Fault: a symmetric pair is taken for a pair of signs.
CandidatesWithAnySign(h) == [Candidates(h) EXCEPT ![3] = <<"Sign2", h.sign2_scale>>]

\* Fault: the first codec that applies, whether or not it saves anything.
FirstThatApplies(h, candidates) ==
  LET Fits(i) == candidates[i][2]
  IN  candidates[CHOOSE i \in 1 .. Len(candidates) : Fits(i) /\ \A j \in 1 .. i - 1 : ~ Fits(j)][1]

\* The first one that applies and needs fewer bytes than the values themselves.
FirstThatSaves(h, candidates) ==
  LET Fits(i) == /\ candidates[i][2]
                 /\ candidates[i][1] # "Raw" => h.bytes[candidates[i][1]] < h.bytes.Raw
  IN  candidates[CHOOSE i \in 1 .. Len(candidates) : Fits(i) /\ \A j \in 1 .. i - 1 : ~ Fits(j)][1]

\* Fault: as CandidatesWithAnySign.
select_with_any_sign(h) ==
  IF h.nnz = 0 THEN "Raw" ELSE FirstThatSaves(h, CandidatesWithAnySign(h))

select_auto_lossless_value_codec(h) ==
  IF h.nnz = 0 THEN "Raw" ELSE FirstThatSaves(h, Candidates(h))

\* The plan is made again, now with the policy that was asked for.
AutoSelect ==
  LET h == build_device_exact_value_histogram(matrix)
      value_codec == select_auto_lossless_value_codec(h)
  IN  /\ pc = "select"
      /\ IF Refused(opts.layout, value_codec, opts.lb_policy, has_manual_override)
         THEN Fail("late plan")
         ELSE /\ histogram' = h
              /\ spec' = make_spmv_operator_spec(opts.layout, value_codec, opts.lb_policy,
                                                 has_manual_override)
              /\ pc' = "balance"
              /\ UNCHANGED <<given, opts, matrix, balance, codec, calls, y, outcome>>

-----------------------------------------------------------------------------
(* The load balance. *)

\* The first rule that applies gives the chunk of the tuned policy.
select_binary_implicit_one_load_balance_policy(blocks, rows) ==
  LET AtLeast(k) == blocks >= CalibratedBlocks[k]
      Average(a) == blocks >= CalibratedAverage[a] * ceil_div(rows, block_rows)
      rules == << <<blocks <= 0 \/ rows <= 0, 32>>,
                  <<~ AtLeast(30), 8>>,
                  <<Average(20000) /\ AtLeast(700), 128>>,
                  <<Average(6000) /\ AtLeast(400), 128>>,
                  <<Average(6000) /\ AtLeast(250), 64>>,
                  <<Average(500) /\ ~ AtLeast(120), 16>>,
                  <<Average(500) /\ AtLeast(3000), 64>>,
                  <<Average(500), 32>>,
                  <<AtLeast(8000) /\ Average(128), 128>>,
                  <<AtLeast(3000), 64>>,
                  <<TRUE, 32>> >>
      first == CHOOSE i \in 1 .. Len(rules) : rules[i][1] /\ \A j \in 1 .. i - 1 : ~ rules[j][1]
  IN  [chunk |-> rules[first][2], threshold |-> rules[first][2], policy |-> "BinaryImplicitOne"]

Balance ==
  /\ pc = "balance"
  /\ IF opts.lb_policy = "Manual" \/ has_manual_override THEN
       /\ balance' = [chunk |-> opts.lb_chunk_blocks,
                      threshold |-> opts.lb_split_threshold_blocks, policy |-> "Manual"]
       /\ pc' = "codec"
       /\ UNCHANGED <<given, opts, spec, matrix, histogram, codec, calls, y, outcome>>
     ELSE IF opts.layout # "ColBitmap64FlagLb" \/ spec.value_codec # "ImplicitOne"
     THEN Fail("internal")
     ELSE /\ balance' = select_binary_implicit_one_load_balance_policy(num_blocks(matrix),
                                                                       matrix.rows)
          /\ pc' = "codec"
          /\ UNCHANGED <<given, opts, spec, matrix, histogram, codec, calls, y, outcome>>

-----------------------------------------------------------------------------
(* Preparing and calling the operator. *)

RawCodec == Built(EmptyPlan, TRUE, 0, nnz(matrix) * word)

PrepareCodec ==
  /\ pc = "codec"
  /\ IF spec.runner # Runner("ColBitmap64", spec.value_codec) THEN Fail("internal")
     ELSE LET made == IF spec.value_codec = "Raw" THEN RawCodec
                      ELSE build(spec.value_codec, matrix, word)
          IN  IF ~ made.built THEN Fail("codec")
              ELSE /\ codec' = made
                   /\ pc' = "position"
                   /\ UNCHANGED <<given, opts, spec, matrix, histogram, balance, calls, y, outcome>>

\* The packed columns and bitmaps and, where the load is balanced, the work items.
PreparePosition ==
  /\ pc = "position"
  /\ IF uses_load_balance(spec.layout) /\ (balance.chunk <= 0 \/ balance.threshold <= 0)
     THEN Fail("internal")
     ELSE /\ pc' = "call"
          /\ UNCHANGED <<given, opts, spec, matrix, histogram, balance, codec, calls, y, outcome>>

\* cuSPARSE is set up on the loaded matrix and a zeroed y.
SetUpCusparse ==
  /\ pc = "cusparse"
  /\ y' = [r \in 0 .. matrix.rows - 1 |-> 0]
  /\ pc' = "call"
  /\ UNCHANGED <<given, opts, spec, matrix, histogram, balance, codec, calls, outcome>>

\* In units of 1/8.
make_input_vector(cols) == [c \in 0 .. cols - 1 |-> (c % 17) - 8]

x == make_input_vector(matrix.cols)

\* spmv_csr: the reference result, from the entries of the matrix.
spmv_csr ==
  [r \in 0 .. matrix.rows - 1 |->
     MapThenSumSet(LAMBDA e : e[3] * Fine * x[e[2]], {e \in Decode(matrix) : e[1] = r})]

\* What a call leaves in y, which it zeroes first.
CallResult ==
  IF spec.runner = "CusparseCsr" THEN [ok |-> TRUE, y |-> spmv_csr]
  ELSE run_bitbsr_spmv_once(spec.value_codec, codec.parts, matrix,
                            uses_load_balance(spec.layout), balance.chunk, balance.threshold, x)

TotalCalls == opts.warmup + opts.iterations

Call ==
  /\ pc = "call" /\ calls < TotalCalls
  /\ LET result == CallResult IN
     IF ~ result.ok THEN Fail(result.why)
     ELSE /\ y' = result.y
          /\ calls' = calls + 1
          /\ UNCHANGED <<pc, given, opts, spec, matrix, histogram, balance, codec, outcome>>

-----------------------------------------------------------------------------
(* The verdict. *)

Rows == 0 .. matrix.rows - 1
RowError(r) == Abs(spmv_csr[r] - y[r])

\* error.global_rel <= 1e-2
GlobalRelPasses ==
  LET largest == Max({0} \cup {Abs(spmv_csr[r]) : r \in Rows})
  IN  \A r \in Rows : RowError(r) <= largest \div 100

\* error.max_abs <= abs_tol or error.max_rel <= rel_tol: 1e-2 and 1e-4 for
\* floats; what 1e-9 and 1e-10 allow is nothing in the units of y.
ExactPasses ==
  \/ \A r \in Rows : RowError(r) <= IF opts.precision = "float" THEN 2 ^ 19 \div 100 ELSE 0
  \/ \A r \in Rows : RowError(r) <= IF opts.precision = "float" THEN Abs(spmv_csr[r]) \div 10000 ELSE 0

passes_verify_gate ==
  IF spec.verify_gate = "SpmvMaxRel" THEN GlobalRelPasses ELSE ExactPasses

VerifyAndReport ==
  /\ pc = "call" /\ calls = TotalCalls
  /\ LET verified == opts.verify_cpu => passes_verify_gate
     IN  End(IF verified THEN "report" ELSE "mismatch", IF verified THEN 0 ELSE 1)
  /\ UNCHANGED <<given, opts, spec, matrix, histogram, balance, codec, calls, y>>

\* A file that cannot be read, a matrix the converter refuses, a failed
\* allocation, a CUDA or cuSPARSE error.
Throw ==
  /\ pc \in {"load", "cusparse", "convert", "select", "codec", "position", "call"}
  /\ Fail("exception")

Next ==
  \/ NoArguments \/ (\E a \in Arguments : ReadArgument(a[1], a[2])) \/ EndArguments
  \/ PlanOperator \/ (\E m \in Matrices : Load(m)) \/ Convert \/ AutoSelect
  \/ Balance \/ PrepareCodec \/ PreparePosition \/ SetUpCusparse \/ Call
  \/ VerifyAndReport \/ Throw

Spec == Init /\ [][Next]_vars

-----------------------------------------------------------------------------
(* Correctness. *)

\* With the exact gate every call leaves the exact product in y, whichever of
\* the codecs decodes the values and however often the operator is called:
\* the kernels read back what the builders of gpu_value_codecs.cuh stored.
LosslessIsExact ==
  y # None /\ calls > 0 /\ spec.verify_gate = "ExactAbsOrRel" => y = spmv_csr

\* Whatever layout, chunk and threshold a call runs with, every row gets the
\* decoded value of each of its entries once: the items of a long block row
\* begin at their own values, and no kernel counts positions another way than
\* the builder of its codec did.
CallSumsDecodedValues ==
  y # None /\ calls > 0 /\ spec.runner # "CusparseCsr" =>
    LET m == matrix
        EntriesIn(r) == {e \in BlocksOf(m, r \div block_rows) \X Bits :
                       e[2] \in LaneBits(m, e[1], r % block_rows)}
        Term(e) == decode(spec.value_codec, codec.parts, m, e[1], e[2], ValueIndex(m, e[1], e[2]))
                     * x[m.block_col_idx[e[1]] * block_cols + (e[2] % block_cols)]
    IN  \A r \in Rows :
          y[r] = MapThenSumSet(Term, EntriesIn(r))
                 + (IF spec.value_codec = "Bfp8Outlier"
                    THEN outlier_correction(codec.parts, x, r) ELSE 0)

\* One decoded value against the value v it stands for, in decoded units.
CloseEnough(b, bit, pos) ==
  LET v    == matrix.values[pos] * Fine
      d    == decode(spec.value_codec, codec.parts, matrix, b, bit, pos)
      plan == codec.parts
      book == {plan.value_codebook[i] : i \in 0 .. codec.codebook_size - 1}
  IN  CASE spec.value_codec = "Fp16" -> 2 ^ 11 * Abs(d - v) <= Abs(v)
        [] spec.value_codec = "Bf16" -> 2 ^ 8 * Abs(d - v) <= Abs(v)
        [] spec.value_codec \in {"Bfp8", "Bfp4"} -> 2 * Abs(d - v) <= plan.block_scale[b]
        [] spec.value_codec = "Bfp8Outlier" ->
             IF pos \in Outliers(matrix) THEN d = 0 ELSE 2 * Abs(d - v) <= plan.block_scale[b]
        [] spec.value_codec = "K256U8" -> \A c \in book : Abs(d - v) <= Abs(c * Fine - v)
        [] OTHER -> d \div Fine \in book /\ (d < 0) = (v < 0)

\* What a controlled-lossy codec does to a value stays within its promise:
\* half a unit in the last place of fp16 and bf16, half a step of the block's
\* scale in BFP8 and BFP4 although the scale itself was rounded and the
\* mantissas clamped, the nearest code of the codebook, the value's own sign;
\* and an outlier, larger than all that is left, is in the side list alone.
LossyErrorBounded ==
  pc = "call" /\ calls = 0 /\ spec.value_codec \in LossyCodecs =>
    /\ \A b \in Blocks(matrix) : \A bit \in matrix.bitmap_words[b] :
         CloseEnough(b, bit, ValueIndex(matrix, b, bit))
    /\ spec.value_codec = "Bfp8Outlier" =>
         /\ codec.parts.outliers \subseteq Decode(matrix)
         /\ Cardinality(codec.parts.outliers) = Cardinality(Outliers(matrix))
         /\ \A o \in codec.parts.outliers : \A e \in Decode(matrix) \ codec.parts.outliers :
              Abs(e[3]) < Abs(o[3])

\* What is decided twice is decided alike: the automatic choice, made from a
\* histogram on the device, never picks a codec whose builder on the host then
\* refuses the matrix, and no check of a later stage (the codec against the
\* plan, the load-balance parameters, the sizes a kernel was prepared with)
\* fails on what an earlier stage let through.
AutoSelectionRuns ==
  outcome # None => outcome.why # "internal" /\ (auto_lossless => outcome.why # "codec")

\* The bytes the automatic choice reckoned with are the bytes the builder then
\* stores, and they are fewer than the values take unless these are kept.
AutoSavesBytes ==
  auto_lossless /\ codec # None =>
    /\ codec.payload_bytes = histogram.bytes[spec.value_codec]
    /\ spec.value_codec # "Raw" => codec.payload_bytes < histogram.bytes.Raw

\* A run reports an all-one operator as promoted exactly when the tuned policy
\* it was promoted with is in effect; two functions decide about this, one
\* before and one after the matrix is known.
PromotionMatchesPolicy ==
  balance # None =>
    (balance.policy = "BinaryImplicitOne"
       <=> spec.promotion = "Promoted" /\ spec.value_codec = "ImplicitOne")
=============================================================================
