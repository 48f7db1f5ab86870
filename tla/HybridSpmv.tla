----------------------------- MODULE HybridSpmv -----------------------------
(***************************************************************************)
(* The hybrid operator (main_gpu_csr_bitbsr_spmv.cu): a matrix split into  *)
(* BitBSR blocks and a CSR residual, multiplied in one of two modes.       *)
(*                                                                         *)
(* "fused_lb": one kernel.  Its first warps take the work items, and the   *)
(* warp of the first item of a block row also sums the residual of the     *)
(* block row's rows, except the rows longer than long_row_tau; those are   *)
(* cut into chunks that further warps of the same kernel add atomically.   *)
(* Every block row has an item, so that its residual has a warp.  The      *)
(* bfp8_outlier codec adds a second kernel, one thread per outlier.        *)
(*                                                                         *)
(* "two_pass": the load-balanced BitBSR kernel alone, then cuSPARSE adds   *)
(* the whole residual to y (beta = 1).                                     *)
(*                                                                         *)
(* Contributions are <<"block", b, position of its first value>>,          *)
(* <<"residual", p, p>> and <<"outlier", i, i>>.                           *)
(***************************************************************************)
EXTENDS BitBsr8x4, FiniteSets

CONSTANTS
  Splits,              \* the split matrices the program may have built
  chunk_nnz,           \* residual entries in a chunk of a long row (1024)
  ChunkBlocks, SplitThresholds, LongRowSplits,   \* values of the options
  MaxCalls             \* bound: calls of one run (warm-up, timed, codec)

\* The residual of a split is a CSR matrix over the same rows.
IsSplit(s) ==
  /\ IsBitBsr(s)
  /\ s.residual_row_ptr \in [0 .. s.rows -> Nat]
  /\ s.residual_row_ptr[0] = 0
  /\ \A r \in 0 .. s.rows - 1 : s.residual_row_ptr[r] <= s.residual_row_ptr[r + 1]
  /\ s.outliers \in Nat
  /\ s.outlier_rows \in [0 .. s.outliers - 1 -> 0 .. s.rows - 1]

ASSUME SplitsAssumption  == \A s \in Splits : IsSplit(s)
ASSUME OptionsAssumption == /\ chunk_nnz \in Nat \ {0}
                            /\ ChunkBlocks \subseteq Nat \ {0}
                            /\ SplitThresholds \subseteq Nat \ {0}
                            /\ LongRowSplits \subseteq Int
                            /\ MaxCalls \in Nat

VARIABLES
  split, mode,                     \* the split matrix, opts.mode
  lb_chunk_blocks, lb_split_threshold_blocks, long_row_tau,   \* options
  pc,                              \* where the host is
  work_items,                      \* [slot -> work item]
  packed_flag,                     \* [block -> flag bit of packed_meta]
  long_chunks,                     \* [chunk -> row, first entry, entries]
  corrected,                       \* this call also corrects the outliers
  pending,                         \* warps and threads still to write
  y, calls

options == <<split, mode, lb_chunk_blocks, lb_split_threshold_blocks, long_row_tau>>
layoutVars == <<work_items, packed_flag, long_chunks>>
vars == <<options, layoutVars, pc, corrected, pending, y, calls>>

-----------------------------------------------------------------------------
(* The split matrix. *)

Rows      == 0 .. split.rows - 1
BlockRows == 0 .. split.num_block_rows - 1
Blocks    == 0 .. split.num_blocks - 1

RowStart(br)   == split.block_row_ptr[br]
BlockCount(br) == split.block_row_ptr[br + 1] - split.block_row_ptr[br]

ResidualBegin(r)  == split.residual_row_ptr[r]
ResidualLength(r) == split.residual_row_ptr[r + 1] - split.residual_row_ptr[r]
ResidualNnz       == split.residual_row_ptr[split.rows]

\* The residual contributions of count entries from p on.
Residual(p, count) == {<<"residual", q, q>> : q \in p .. p + count - 1}

Contributions ==
  ({"block"} \X Blocks \X (0 .. split.nnz))
    \cup Residual(0, ResidualNnz)
    \cup {<<"outlier", i, i>> : i \in 0 .. split.outliers - 1}

ZeroY == [r \in Rows |-> [c \in Contributions |-> 0]]

\* The test of the unified kernel and the one that cut the chunks.
IsLongRow(r) == long_row_tau > 0 /\ ResidualLength(r) > long_row_tau

-----------------------------------------------------------------------------
(* The layout: make_fused_8x4_load_balance_layout_host for "fused_lb", the  *)
(* device layout of the flag load-balanced operators for "two_pass".        *)

IsCut(br) == BlockCount(br) > lb_split_threshold_blocks

\* Fault: as in "two_pass", a block row without blocks gets no item.
ItemCountIfBlocks(br) ==
  IF IsCut(br) THEN ceil_div(BlockCount(br), lb_chunk_blocks)
  ELSE Smaller(BlockCount(br), 1)

\* In "fused_lb" a block row without blocks has an item of its own.
ItemCount(br) ==
  IF IsCut(br) THEN ceil_div(BlockCount(br), lb_chunk_blocks)
  ELSE IF mode = "fused_lb" \/ BlockCount(br) > 0 THEN 1 ELSE 0

AtomicOutput(br) == IF mode = "fused_lb" THEN IsCut(br) ELSE ItemCount(br) > 1

\* Item k of a block row that is cut into runs of lb_chunk_blocks.
ItemOf(br, k) ==
  LET chunk == IF IsCut(br) THEN lb_chunk_blocks ELSE BlockCount(br)
      begin == RowStart(br) + k * chunk
  IN  [br          |-> br,
       block_begin |-> begin,
       block_count |-> Smaller(chunk, RowStart(br) + BlockCount(br) - begin),
       value_begin |-> split.block_val_ptr[begin]]

\* The row that owns a slot of a prefix-summed array.
OwnerOf(slot, n, s) == CHOOSE i \in 0 .. n - 1 : slot[i] <= s /\ s < slot[i + 1]

Items ==
  LET n    == split.num_block_rows
      slot == PrefixSum([br \in BlockRows |-> ItemCount(br)], n)
  IN  [s \in 0 .. slot[n] - 1 |->
         LET br == OwnerOf(slot, n, s) IN ItemOf(br, s - slot[br])]

\* The first block of every item of a block row with atomic output.
Flags(items) ==
  [b \in Blocks |->
     \E s \in DOMAIN items : items[s].block_begin = b /\ AtomicOutput(items[s].br)]

\* The chunks of the long residual rows.
LongChunks ==
  LET n    == split.rows
      slot == PrefixSum([r \in Rows |->
                IF IsLongRow(r) THEN ceil_div(ResidualLength(r), chunk_nnz) ELSE 0], n)
  IN  [j \in 0 .. slot[n] - 1 |->
         LET r   == OwnerOf(slot, n, j)
             off == (j - slot[r]) * chunk_nnz
         IN  [row |-> r, pbegin |-> ResidualBegin(r) + off,
              pcount |-> Smaller(chunk_nnz, ResidualLength(r) - off)]]

-----------------------------------------------------------------------------
(* The warps. *)

Warps == ({"item"} \X DOMAIN work_items) \cup ({"chunk"} \X DOMAIN long_chunks)

OutlierThreads == {"outlier"} \X (0 .. split.outliers - 1)

\* Fault: only the flag of an item decides.
NeverAtomicAll == FALSE

\* The unified kernel is told the number of chunks; with any of them all its
\* updates are atomic.
AtomicAll == DOMAIN long_chunks # {}

AtomicItem(item) ==
  \/ item.block_count > 0 /\ packed_flag[item.block_begin]
  \/ AtomicAll

\* Fault: every item sums the residual of its rows.
EveryWorkItem(item) == TRUE

FirstWorkItem(item) == item.block_begin = RowStart(item.br)

ItemBlocks(item) ==
  {<<"block", b,
     item.value_begin + split.block_val_ptr[b] - split.block_val_ptr[item.block_begin]>> :
     b \in item.block_begin .. item.block_begin + item.block_count - 1}

\* The short residual rows ride on the first item of their block row.
ItemResidual(item, r) ==
  IF mode = "fused_lb" /\ FirstWorkItem(item) /\ ~IsLongRow(r)
  THEN Residual(ResidualBegin(r), ResidualLength(r))
  ELSE {}

WriteItem(s) ==
  LET item == work_items[s] IN
  [r \in Rows |->
     LET sum == ItemBlocks(item) \cup ItemResidual(item, r) IN
     IF BlockRowOf(r) # item.br THEN y[r]
     ELSE IF AtomicItem(item) THEN AtomicAdd(y[r], sum) ELSE Store(y[r], sum)]

WriteChunk(j) ==
  LET chunk == long_chunks[j] IN
  [y EXCEPT ![chunk.row] = AtomicAdd(@, Residual(chunk.pbegin, chunk.pcount))]

WriteOutlier(i) ==
  [y EXCEPT ![split.outlier_rows[i]] = AtomicAdd(@, {<<"outlier", i, i>>})]

-----------------------------------------------------------------------------
(* The host. *)

Init ==
  /\ split \in Splits
  /\ mode \in {"fused_lb", "two_pass"}
  /\ lb_chunk_blocks \in ChunkBlocks
  /\ lb_split_threshold_blocks \in SplitThresholds
  /\ long_row_tau \in LongRowSplits
  /\ pc = "start"
  /\ work_items = << >>
  /\ packed_flag = << >>
  /\ long_chunks = << >>
  /\ corrected = FALSE
  /\ pending = {}
  /\ y = ZeroY
  /\ calls = 0

Prepare ==
  /\ pc = "start"
  /\ work_items' = Items
  /\ packed_flag' = Flags(Items)
  /\ long_chunks' = IF mode = "fused_lb" THEN LongChunks ELSE << >>
  /\ pc' = "ready"
  /\ UNCHANGED <<options, corrected, pending, y, calls>>

\* y is zeroed; the kernel is launched unless there is nothing to traverse.
\* Only the fused operator has a codec with an outlier list; its calls follow
\* the calls on the raw values.
Launch(correct) ==
  /\ pc = "ready"
  /\ calls < MaxCalls
  /\ correct => mode = "fused_lb"
  /\ corrected => correct
  /\ corrected' = correct
  /\ y' = ZeroY
  /\ pending' = IF mode = "two_pass" /\ split.num_blocks = 0 THEN {} ELSE Warps
  /\ pc' = "bulk"
  /\ UNCHANGED <<options, layoutVars, calls>>

Warp(w) ==
  /\ pc = "bulk"
  /\ w \in pending
  /\ y' = IF w[1] = "item" THEN WriteItem(w[2]) ELSE WriteChunk(w[2])
  /\ pending' = pending \ {w}
  /\ UNCHANGED <<options, layoutVars, pc, corrected, calls>>

\* What follows the bulk kernel on the same stream.
HasResidualPass == mode = "two_pass" /\ ResidualNnz > 0
HasCorrection   == corrected /\ split.outliers > 0

BulkIsLast == ~HasResidualPass /\ ~HasCorrection

LaunchCorrection ==
  /\ pc = "bulk"
  /\ pending = {}
  /\ HasCorrection
  /\ pending' = OutlierThreads
  /\ pc' = "correct"
  /\ UNCHANGED <<options, layoutVars, corrected, y, calls>>

CorrectionThread(w) ==
  /\ pc = "correct"
  /\ w \in pending
  /\ y' = WriteOutlier(w[2])
  /\ pending' = pending \ {w}
  /\ UNCHANGED <<options, layoutVars, pc, corrected, calls>>

\* cusparseSpMV with alpha = beta = 1: y = residual * x + y, row by row its own.
ResidualPass ==
  /\ pc = "bulk"
  /\ pending = {}
  /\ HasResidualPass
  /\ y' = [r \in Rows |-> AtomicAdd(y[r], Residual(ResidualBegin(r), ResidualLength(r)))]
  /\ pc' = "residual"
  /\ UNCHANGED <<options, layoutVars, corrected, pending, calls>>

Sync ==
  /\ pending = {}
  /\ \/ pc = "bulk" /\ BulkIsLast
     \/ pc \in {"residual", "correct"}
  /\ pc' = "ready"
  /\ calls' = calls + 1
  /\ UNCHANGED <<options, layoutVars, corrected, pending, y>>

Finished ==
  /\ pc = "ready" /\ calls = MaxCalls
  /\ UNCHANGED vars

Next ==
  \/ Prepare
  \/ \E correct \in BOOLEAN : Launch(correct)
  \/ \E w \in Warps : Warp(w)
  \/ LaunchCorrection
  \/ \E w \in OutlierThreads : CorrectionThread(w)
  \/ ResidualPass
  \/ Sync
  \/ Finished

Spec == Init /\ [][Next]_vars

-----------------------------------------------------------------------------
(* What the operator is for. *)

\* Rows a warp of the bulk kernel writes, and whether it may share them.
WritesOf(w) ==
  IF w[1] = "item" THEN {r \in Rows : BlockRowOf(r) = work_items[w[2]].br}
                   ELSE {long_chunks[w[2]].row}
IsAtomic(w) == w[1] = "chunk" \/ AtomicItem(work_items[w[2]])

\* No warp of a kernel stores plainly to a row another warp of it also writes.
RaceFree ==
  pc = "bulk" =>
    \A v, w \in Warps :
      v # w /\ WritesOf(v) \cap WritesOf(w) # {} => IsAtomic(v) /\ IsAtomic(w)

\* What a call owes a row: its blocks, its residual entries and, when the call
\* corrects them, its outliers.
DueTo(r) ==
  {<<"block", b, split.block_val_ptr[b]>> :
     b \in RowStart(BlockRowOf(r)) .. RowStart(BlockRowOf(r)) + BlockCount(BlockRowOf(r)) - 1}
  \cup Residual(ResidualBegin(r), ResidualLength(r))
  \cup {<<"outlier", i, i>> :
          i \in {j \in 0 .. split.outliers - 1 : corrected /\ split.outlier_rows[j] = r}}

Due ==
  [r \in Rows |-> LET owed == DueTo(r) IN
     [c \in Contributions |-> IF c \in owed THEN 1 ELSE 0]]

\* After a call each row holds each of its blocks, each of its residual entries
\* (once, whether it rides on an item, is cut into chunks or comes from
\* cuSPARSE) and each of its outliers exactly once.
ExactlyOnce == calls > 0 /\ pc = "ready" => y = Due

\* Both modes implement the abstract call.
Abstract == INSTANCE SpmvCall WITH
  due  <- Due,
  call <- IF pc \in {"bulk", "correct", "residual"} THEN "running"
          ELSE IF calls > 0 THEN "returned" ELSE "idle"

ImplementsSpmvCall == Abstract!Spec
=============================================================================
