----------------------------- MODULE HybridRun -----------------------------
(***************************************************************************)
(* One run of the hybrid benchmark (main_gpu_csr_bitbsr_spmv.cu) from the  *)
(* command line to the exit code: options are read one at a time, the      *)
(* matrix is loaded, split, uploaded and laid out, the operator is called  *)
(* warmup + iterations times on its original values, the last y is         *)
(* compared with the CPU, and in "fused_lb" mode the same structure is     *)
(* then run again, over the same y, with the value codec that was asked    *)
(* for or chosen.  A call is one step here (two in "two_pass" mode);       *)
(* HybridSpmv is what happens inside a call.                               *)
(*                                                                         *)
(* A value is an integer that names its bit pattern.  y[part] is the       *)
(* sequence of codecs through which that part of the matrix was added to y *)
(* since y was zeroed: <<"raw">> after a right call.                       *)
(***************************************************************************)
EXTENDS Integers, Sequences, SequencesExt

CONSTANTS
  Tokens,              \* what one command line argument may be: [opt, val]
  Matrices,            \* what the file may hold after the split
  DictSmall,           \* entries an 8 bit index reaches (256)
  DictLarge,           \* entries a 16 bit index reaches (65536)
  MaxOptions           \* bound: options of one command line

Parts == {"kept", "residual"}

\* Error of one row of y against the CPU: none beyond the exact tolerance,
\* within the 1e-2 gate, beyond it, or not a number.
NaN     == 99
RowErrs == {0, 1, 2, NaN}
Codecs  == {"raw", "dict", "bfp8", "bfp8_outlier"}

\* kept, residual: the values of the two parts; err[c]: the rounding error
\* codec c causes in each row when everything is summed once.
IsMatrix(m) ==
  /\ \A p \in Parts : m[p] \in Seq(Int)
  /\ \A c \in Codecs \ {"dict"} : m.err[c] \in Seq(RowErrs)

ASSUME MatricesAssumption == \A m \in Matrices : IsMatrix(m)
ASSUME DictAssumption == /\ DictSmall \in Nat \ {0}
                         /\ DictLarge \in Nat /\ DictSmall <= DictLarge
                         /\ MaxOptions \in Nat

VARIABLES
  pc,          \* where run() is
  given,       \* options read
  opts,        \* Options
  matrix,      \* loaded and split
  left,        \* calls of the present loop still to make
  y,           \* [part -> sequence of codecs]
  verified,    \* of the original-value calls
  codebook, chosen, jrel,      \* of the codec calls
  printed,     \* report blocks on stdout
  exit         \* exit code, -1 while running

jointVars == <<codebook, chosen, jrel>>
vars == <<pc, given, opts, matrix, left, y, verified, jointVars, printed, exit>>

-----------------------------------------------------------------------------
(* Options. *)

\* The costs are whole numbers, and of the calls (5 and 20 in the program) one
\* of each kind is made.
Defaults ==
  [precision |-> "double", mode |-> "fused_lb", split_policy |-> "cost_gated",
   residual_format |-> "csr", cusparse_alg |-> "default", value_codec |-> "original",
   verify_cpu |-> FALSE, warmup |-> 1, iterations |-> 1, block_rows |-> 8, block_cols |-> 4,
   residual_threshold |-> 32, long_row_split |-> 0,
   bitmap_block_cost |-> 10, bitmap_nnz_cost |-> 0, csr_block_cost |-> 0, csr_nnz_cost |-> 1,
   lb_chunk_blocks |-> 32, lb_split_threshold_blocks |-> -1]

\* std::stoi reads the calls to make.
ASSUME TokensAssumption ==
  \A t \in Tokens : t.opt \in {"warmup", "iterations"} => t.val \in Int

\* Values that are checked as soon as they are read, and other names of some.
Legal ==
  [precision       |-> {"float", "double"},
   mode            |-> {"fused_lb", "two_pass"},
   split_policy    |-> {"threshold", "cost_gated"},
   residual_format |-> {"csr"},
   cusparse_alg    |-> {"default", "csr_alg1", "csr_alg2"}]

Alias ==
  [mode         |-> [fused |-> "fused_lb"],
   split_policy |-> [cost |-> "cost_gated", auto |-> "cost_gated"],
   cusparse_alg |-> [alg1 |-> "csr_alg1", alg2 |-> "csr_alg2"]]

Named(t) ==
  IF t.opt \in DOMAIN Alias /\ t.val \in DOMAIN Alias[t.opt] THEN Alias[t.opt][t.val] ELSE t.val

Refused(t) ==
  \/ t.opt \notin DOMAIN Defaults
  \/ t.opt \in DOMAIN Legal /\ Named(t) \notin Legal[t.opt]

Assigned(o, t) == [o EXCEPT ![t.opt] = Named(t)]

\* A negative split threshold stands for the chunk size.
Resolved(o) ==
  [o EXCEPT !.lb_split_threshold_blocks = IF @ < 0 THEN o.lb_chunk_blocks ELSE @]

Consistent(o) ==
  /\ o.block_rows = 8 /\ o.block_cols = 4
  /\ o.residual_threshold >= 0
  /\ o.mode = "two_pass" => o.residual_format = "csr"
  /\ o.bitmap_block_cost >= 0 /\ o.bitmap_nnz_cost >= 0
  /\ o.csr_block_cost >= 0 /\ o.csr_nnz_cost >= 0
  /\ o.warmup >= 0 /\ o.iterations > 0
  /\ o.lb_chunk_blocks > 0
  /\ Resolved(o).lb_split_threshold_blocks > 0

\* Before the file is read.
Empty == [kept |-> <<>>, residual |-> <<>>,
          err |-> [raw |-> <<>>, bfp8 |-> <<>>, bfp8_outlier |-> <<>>]]

-----------------------------------------------------------------------------
(* Values, codecs and errors. *)

\* intern: a value gets the next index when it is met first.
InternValue(book, v) == IF Contains(book, v) THEN book ELSE Append(book, v)

\* Over the kept values, then over the residual values.
Interned(m) ==
  LET values == m.kept \o m.residual
      book[i \in 0 .. Len(values)] ==
        IF i = 0 THEN <<>> ELSE InternValue(book[i - 1], values[i])
  IN  book[Len(values)]

\* idx_of[key]: a value that was never interned reads as index 0.
IndexOf(v) == IF Contains(codebook, v) THEN SelectInSeq(codebook, LAMBDA w : w = v) - 1
              ELSE 0

\* Fault: 8 bit indices for as many entries as 16 bits reach.
IndexReachSmall(book) == DictSmall

IndexReach(book) == IF Len(book) <= DictSmall THEN DictSmall ELSE DictLarge

\* What a kernel reads back for a part through indices of that width.
Decoded(part) ==
  [i \in DOMAIN matrix[part] |->
     codebook[1 + (IndexOf(matrix[part][i]) % IndexReach(codebook))]]

ExactCodec(c, part) == c = "raw" \/ (c = "dict" /\ Decoded(part) = matrix[part])

\* Every part with values is summed once; an empty part adds nothing.
SummedOnce == \A p \in Parts : matrix[p] # <<>> => Len(y[p]) = 1

Worst == [r \in DOMAIN matrix.err.raw |-> 2]

\* The error of every row of y as it stands.
RowErrors ==
  LET used == {y[p][1] : p \in {q \in Parts : matrix[q] # <<>> /\ y[q] # <<>>}}
      lossy == used \cap {"bfp8", "bfp8_outlier"}
  IN  IF ~SummedOnce THEN Worst
      ELSE IF lossy # {} THEN matrix.err[CHOOSE c \in lossy : TRUE]
      ELSE IF \E p \in Parts : matrix[p] # <<>> /\ ~ExactCodec(y[p][1], p) THEN Worst
      ELSE matrix.err.raw

\* std::max(a, b) is (a < b) ? b : a, and no comparison with NaN is true.
StdMax(a, b) == IF b # NaN /\ a < b THEN b ELSE a

\* compare_vectors, up to the class of the result.
GlobalRel(errors) == FoldLeft(StdMax, 0, errors)


ZeroY == [p \in Parts |-> <<>>]
Added(z, p, codec) == [z EXCEPT ![p] = Append(@, codec)]

\* One call of a fused operator: y is zeroed, then everything is added.
FusedCall(codec) == Added(Added(ZeroY, "kept", codec), "residual", codec)

\* The codec that runs for the one asked for, and the dictionary it was
\* chosen with.
ChosenCodec(asked, book) ==
  CASE asked = "auto" -> IF Len(book) <= DictSmall THEN "dict" ELSE "bfp8"
    [] asked = "dict" -> IF Len(book) > DictLarge THEN "bfp8" ELSE "dict"
    [] OTHER          -> asked

CodecRuns(asked) == asked \in {"bfp8", "bfp8_outlier", "dict", "auto"}

\* joint_verify_pass_1e-2
GatePasses == jrel >= 0 /\ jrel <= 1

\* Fault: the exit code tells what y holds at the end.
ExitOfLastY == IF opts.verify_cpu /\ GlobalRel(RowErrors) # 0 THEN 1 ELSE 0

ExitCode == IF verified THEN 0 ELSE 1

-----------------------------------------------------------------------------
Init ==
  /\ pc = "parse" /\ given = 0 /\ opts = Defaults
  /\ matrix = Empty
  /\ left = 0 /\ y = ZeroY /\ verified = TRUE
  /\ codebook = <<>> /\ chosen = "original" /\ jrel = -1
  /\ printed = {} /\ exit = -1

Exit(code) == pc' = "exit" /\ exit' = code

\* No matrix path: usage.
NoArguments ==
  /\ pc = "parse" /\ given = 0
  /\ Exit(2)
  /\ UNCHANGED <<given, opts, matrix, left, y, verified, jointVars, printed>>

\* One turn of the loop over argv.
ParseOption ==
  /\ pc = "parse" /\ given < MaxOptions
  /\ given' = given + 1
  /\ \E t \in Tokens :
       \/ /\ t.opt = "help"
          /\ Exit(0)
          /\ UNCHANGED opts
       \/ /\ t.opt # "help" /\ Refused(t)
          /\ Exit(1)
          /\ UNCHANGED opts
       \/ /\ t.opt # "help" /\ ~Refused(t)
          /\ opts' = Assigned(opts, t)
          /\ UNCHANGED <<pc, exit>>
  /\ UNCHANGED <<matrix, left, y, verified, jointVars, printed>>

\* argv is used up: the options are checked together.
EndOptions ==
  /\ pc = "parse"
  /\ opts' = Resolved(opts)
  /\ IF Consistent(opts) THEN pc' = "load" /\ UNCHANGED exit ELSE Exit(1)
  /\ UNCHANGED <<given, matrix, left, y, verified, jointVars, printed>>

\* Load, convert and split, upload, build the layout.
Prepare ==
  /\ pc = "load"
  /\ pc' = "calls"
  /\ matrix' \in Matrices
  /\ left' = opts.warmup + opts.iterations
  /\ y' = ZeroY
  /\ UNCHANGED <<given, opts, verified, jointVars, printed, exit>>

CallsLeft == left - 1

\* A call over the original values; in "two_pass" mode only its first pass.
RawCall ==
  /\ pc = "calls" /\ left > 0
  /\ IF opts.mode = "fused_lb"
     THEN y' = FusedCall("raw") /\ left' = CallsLeft /\ UNCHANGED pc
     ELSE IF matrix.residual = <<>>
     THEN y' = Added(ZeroY, "kept", "raw") /\ left' = CallsLeft /\ UNCHANGED pc
     ELSE y' = Added(ZeroY, "kept", "raw") /\ pc' = "residual" /\ UNCHANGED left
  /\ UNCHANGED <<given, opts, matrix, verified, jointVars, printed, exit>>

\* cuSPARSE adds the residual to y.
ResidualPass ==
  /\ pc = "residual"
  /\ y' = Added(y, "residual", "raw")
  /\ left' = CallsLeft
  /\ pc' = "calls"
  /\ UNCHANGED <<given, opts, matrix, verified, jointVars, printed, exit>>

\* After the last call y is compared with the CPU, if that was asked for.
VerifyRaw ==
  /\ pc = "calls" /\ left = 0
  /\ verified' = (opts.verify_cpu => GlobalRel(RowErrors) = 0)
  /\ pc' = IF opts.mode = "fused_lb" /\ CodecRuns(opts.value_codec) THEN "codec" ELSE "report"
  /\ UNCHANGED <<given, opts, matrix, left, y, jointVars, printed, exit>>

\* The dictionary is built only when it may be used.
ChooseCodec ==
  /\ pc = "codec"
  /\ codebook' = IF opts.value_codec \in {"auto", "dict"} THEN Interned(matrix) ELSE <<>>
  /\ chosen' = ChosenCodec(opts.value_codec, codebook')
  /\ left' = opts.warmup + opts.iterations
  /\ pc' = "joint"
  /\ UNCHANGED <<given, opts, matrix, y, verified, jrel, printed, exit>>

\* A call through the codec, over the same y.
JointCall ==
  /\ pc = "joint" /\ left > 0
  /\ y' = FusedCall(chosen)
  /\ left' = CallsLeft
  /\ UNCHANGED <<pc, given, opts, matrix, verified, jointVars, printed, exit>>

\* The error is measured and printed; whether it passes decides nothing.
VerifyJoint ==
  /\ pc = "joint" /\ left = 0
  /\ jrel' = IF opts.verify_cpu THEN GlobalRel(RowErrors) ELSE -1
  /\ printed' = printed \cup {"joint"}
  /\ pc' = "report"
  /\ UNCHANGED <<given, opts, matrix, left, y, verified, codebook, chosen, exit>>

\* The report of the original-value run, "status: ok" in every case.
Report ==
  /\ pc = "report"
  /\ printed' = printed \cup {"run"}
  /\ Exit(ExitCode)
  /\ UNCHANGED <<given, opts, matrix, left, y, verified, jointVars>>

\* A file that cannot be read, a CUDA or cuSPARSE call that fails: main
\* catches the exception.
Throw ==
  /\ pc \in {"load", "calls", "residual", "codec", "joint"}
  /\ Exit(1)
  /\ UNCHANGED <<given, opts, matrix, left, y, verified, jointVars, printed>>

\* The program has ended.
Ended == pc = "exit" /\ UNCHANGED vars

Step == \/ NoArguments \/ ParseOption \/ EndOptions \/ Prepare
        \/ RawCall \/ ResidualPass \/ VerifyRaw
        \/ ChooseCodec \/ JointCall \/ VerifyJoint \/ Report \/ Throw

Next == Step \/ Ended

Spec == Init /\ [][Next]_vars

-----------------------------------------------------------------------------
(* Properties. *)

\* The exit code of a run that reports is the verdict on the original-value
\* calls: 1 exactly if their rounding error is beyond the exact tolerance,
\* and neither a pass left out or repeated, nor the codec calls that
\* overwrite y before the program exits, can turn it.
VerdictIsOfRawRun ==
  "run" \in printed =>
    exit = (IF opts.verify_cpu /\ GlobalRel(matrix.err.raw) # 0 THEN 1 ELSE 0)

\* What was run through a dictionary, asked for or chosen, is as exact as
\* the original values: the indices of both parts of the matrix fit their
\* width and lead back to the very values.
LosslessIsExact ==
  pc \in {"report", "exit"} /\ "joint" \in printed /\ chosen = "dict" =>
    /\ RowErrors = matrix.err.raw
    /\ opts.verify_cpu => jrel = GlobalRel(matrix.err.raw)

\* Disagreement: the error behind joint_verify_pass_1e-2 is described as
\* max_r|y[r]-y0[r]| / max_r|y0[r]|, so a pass means that no row is further
\* off than the gate; a row that is not a number is.
GateMeansSmallError ==
  "joint" \in printed /\ GatePasses /\ pc = "report" =>
    \A r \in DOMAIN RowErrors : RowErrors[r] \in {0, 1}
=============================================================================
