----------------------------- MODULE FlagLbSpmv -----------------------------
(***************************************************************************)
(* The 8x4 BitBSR SpMV operators, with and without load balancing, and the *)
(* layout they run on (operators/bitbsr_spmv_8x4_common.cuh).              *)
(*                                                                         *)
(* The host packs the position of every block into one word, then, for a   *)
(* load-balanced operator, lets the device cut every block row into work   *)
(* items: one kernel counts the items of a row, a scan turns the counts    *)
(* into slots, and the fill kernel (one thread per block row) writes the   *)
(* items and flags the first block of every item of a row that was cut.    *)
(* Each SpMV call zeroes y and launches one warp per work item (per block  *)
(* row without load balancing).  A warp sums its blocks and either adds    *)
(* the sum to y atomically or overwrites y, as the flag of its first block *)
(* says, so y is right only if the flags, the items and the values they    *)
(* start at fit each other.                                                *)
(*                                                                         *)
(* The sum in y[r] is kept as the bag of blocks added into it: a           *)
(* contribution is <<block, position of the block's first value>>.         *)
(***************************************************************************)
EXTENDS BitBsr8x4, FiniteSets

CONSTANTS
  Matrices,            \* device BitBSR matrices the host may hold
  ChunkBlocks,         \* values asked for as chunk_blocks, legal or not
  SplitThresholds,     \* values asked for as split_threshold_blocks
  MaxLayouts,          \* bound: layouts built by one host
  MaxCalls             \* bound: SpMV calls (warm-up and timed) of one host

ASSUME MatricesAssumption  == \A m \in Matrices : IsBitBsr(m)
ASSUME ParamsAssumption    == ChunkBlocks \subseteq Int /\ SplitThresholds \subseteq Int
ASSUME BoundsAssumption    == MaxLayouts \in Nat /\ MaxCalls \in Nat

VARIABLES
  bitbsr,              \* the matrix on the device
  load_balance,        \* whether the planned operator is load balanced
  pc,                  \* where the host is
  chunk_blocks,        \* layout.chunk_blocks
  work_item_row_ptr,   \* [block row -> first slot of its work items]
  work_items,          \* [slot -> work item]
  packed_flag,         \* [block -> flag bit of packed_meta]
  fill,                \* [block row -> registers of its fill thread]
  pending,             \* warps of the launched kernel that have not written yet
  y,                   \* [row -> [contribution -> times it is in the sum]]
  layouts, calls       \* how many layouts were asked for, how many calls returned

vars == <<bitbsr, load_balance, pc, chunk_blocks, work_item_row_ptr, work_items,
          packed_flag, fill, pending, y, layouts, calls>>

layoutVars == <<chunk_blocks, work_item_row_ptr, work_items, packed_flag, fill>>

-----------------------------------------------------------------------------
(* The matrix. *)

Rows      == 0 .. bitbsr.rows - 1
BlockRows == 0 .. bitbsr.num_block_rows - 1
Blocks    == 0 .. bitbsr.num_blocks - 1

RowStart(br) == bitbsr.block_row_ptr[br]
RowEnd(br)   == bitbsr.block_row_ptr[br + 1]

\* Values stored in count blocks from block on: the sum of their popcounts.
ValuesIn(block, count) ==
  bitbsr.block_val_ptr[block + count] - bitbsr.block_val_ptr[block]

Contributions == Blocks \X (0 .. bitbsr.nnz)

\* The contributions owed to the rows of a block row.
RowBlocks(br) ==
  {<<b, bitbsr.block_val_ptr[b]>> : b \in RowStart(br) .. RowEnd(br) - 1}

-----------------------------------------------------------------------------
(* The layout: item counts, slots, items, flags. *)

\* Fault: the rounding up of the chunk count forgotten.
FloorWorkCount(br, chunk, threshold) ==
  LET block_count == RowEnd(br) - RowStart(br) IN
  IF block_count <= threshold
  THEN Smaller(block_count, 1)
  ELSE block_count \div chunk

WorkCount(br, chunk, threshold) ==
  LET block_count == RowEnd(br) - RowStart(br) IN
  IF block_count <= threshold
  THEN Smaller(block_count, 1)
  ELSE ceil_div(block_count, chunk)

NumChunks(br) == work_item_row_ptr[br + 1] - work_item_row_ptr[br]

AtomicOutput(br) == NumChunks(br) > 1

\* Fault: a row of one item is cut at the chunk size too.
ChunkOfAny(br) == chunk_blocks

EffectiveChunk(br) ==
  IF AtomicOutput(br) THEN chunk_blocks ELSE RowEnd(br) - RowStart(br)

NoItem == [br |-> 0, block_begin |-> 0, block_count |-> 0, value_begin |-> 0]

\* Fault: a thread starts at the slot where its row ends.
FillStartAtEnd(slot) ==
  [br \in BlockRows |->
     [block     |-> RowStart(br),
      value_pos |-> bitbsr.block_val_ptr[RowStart(br)],
      out       |-> slot[br + 1]]]

FillStart(slot) ==
  [br \in BlockRows |->
     [block     |-> RowStart(br),
      value_pos |-> bitbsr.block_val_ptr[RowStart(br)],
      out       |-> slot[br]]]

\* A thread is done at once when its row has no item, else past its last block.
FillDone(br) == NumChunks(br) = 0 \/ fill[br].block >= RowEnd(br)

-----------------------------------------------------------------------------
(* The host. *)

Init ==
  /\ bitbsr \in Matrices
  /\ load_balance \in BOOLEAN
  /\ pc = "start"
  /\ chunk_blocks = 0
  /\ work_item_row_ptr = << >>
  /\ work_items = << >>
  /\ packed_flag = << >>
  /\ fill = << >>
  /\ pending = {}
  /\ y = [r \in Rows |-> [c \in Contributions |-> 0]]
  /\ layouts = 0
  /\ calls = 0

\* Every operator needs the packed positions; packing writes the flag as zero.
Pack ==
  /\ pc = "start"
  /\ packed_flag' = [b \in Blocks |-> FALSE]
  /\ pc' = IF load_balance THEN "packed" ELSE "ready"
  /\ UNCHANGED <<bitbsr, load_balance, chunk_blocks, work_item_row_ptr,
                 work_items, fill, pending, y, layouts, calls>>

\* The layout may be rebuilt on the same positions with other parameters.
MayLayout ==
  /\ load_balance
  /\ pc \in {"packed", "ready"}
  /\ layouts < MaxLayouts

\* Fault: the flags of the earlier layout stay.
KeepFlags == packed_flag

\* The flags an earlier layout left, cleared before the fill kernel runs.
ClearFlags == [b \in Blocks |-> FALSE]

\* The checks throw before anything of the layout is touched.
RejectLayout(chunk, threshold) ==
  /\ MayLayout
  /\ chunk <= 0 \/ threshold <= 0
  /\ pc' = "failed"
  /\ layouts' = layouts + 1
  /\ UNCHANGED <<bitbsr, load_balance, layoutVars, pending, y, calls>>

\* Count, scan, allocate the items, clear the flags, launch the fill kernel.
\* With no item at all the flags are left alone and nothing is launched.
BeginLayout(chunk, threshold) ==
  /\ MayLayout
  /\ chunk > 0 /\ threshold > 0
  /\ LET count == [br \in BlockRows |-> WorkCount(br, chunk, threshold)]
         slot  == PrefixSum(count, bitbsr.num_block_rows)
         items == slot[bitbsr.num_block_rows]
     IN  /\ work_item_row_ptr' = slot
         /\ work_items' = [s \in 0 .. items - 1 |-> NoItem]
         /\ packed_flag' = IF items = 0 THEN packed_flag ELSE ClearFlags
         /\ fill' = FillStart(slot)
         /\ pc' = IF items = 0 THEN "ready" ELSE "fill"
  /\ chunk_blocks' = chunk
  /\ layouts' = layouts + 1
  /\ UNCHANGED <<bitbsr, load_balance, pending, y, calls>>

\* One turn of the loop of a fill thread.
FillStep(br) ==
  /\ pc = "fill"
  /\ NumChunks(br) # 0
  /\ fill[br].block < RowEnd(br)
  /\ LET t     == fill[br]
         count == Smaller(EffectiveChunk(br), RowEnd(br) - t.block)
     IN  /\ work_items' = [work_items EXCEPT ![t.out] =
                 [br |-> br, block_begin |-> t.block, block_count |-> count,
                  value_begin |-> t.value_pos]]
         /\ packed_flag' = IF AtomicOutput(br)
                           THEN [packed_flag EXCEPT ![t.block] = TRUE]
                           ELSE packed_flag
         /\ fill' = [fill EXCEPT ![br] =
                 [block     |-> t.block + count,
                  value_pos |-> t.value_pos + ValuesIn(t.block, count),
                  out       |-> t.out + 1]]
  /\ UNCHANGED <<bitbsr, load_balance, pc, chunk_blocks, work_item_row_ptr,
                 pending, y, layouts, calls>>

\* The host waits for the fill kernel.
FillSync ==
  /\ pc = "fill"
  /\ \A br \in BlockRows : FillDone(br)
  /\ pc' = "ready"
  /\ UNCHANGED <<bitbsr, load_balance, layoutVars, pending, y, layouts, calls>>

-----------------------------------------------------------------------------
(* An SpMV call. *)

Warps == IF load_balance THEN DOMAIN work_items ELSE BlockRows

\* Fault: y keeps the result of the call before.
KeepY == y

ZeroY == [r \in Rows |-> [c \in Contributions |-> 0]]

\* y is zeroed and the kernel launched; without rows, blocks or items the
\* wrapper returns right after zeroing y.
Launch ==
  /\ pc = "ready"
  /\ load_balance => layouts > 0
  /\ calls < MaxCalls
  /\ y' = ZeroY
  /\ pending' = IF bitbsr.num_blocks = 0 THEN {} ELSE Warps
  /\ pc' = "running"
  /\ UNCHANGED <<bitbsr, load_balance, layoutVars, layouts, calls>>

\* The blocks a warp traverses and where its values begin.
Work(w) ==
  IF load_balance
  THEN work_items[w]
  ELSE [br |-> w, block_begin |-> RowStart(w),
        block_count |-> RowEnd(w) - RowStart(w),
        value_begin |-> bitbsr.block_val_ptr[RowStart(w)]]

\* Fault: the flag is looked for on the last block of the item.
AtomicOfLast(w) ==
  load_balance /\
  packed_flag[work_items[w].block_begin + work_items[w].block_count - 1]

\* Only the load-balanced kernels read the flag.
Atomic(w) == load_balance /\ packed_flag[work_items[w].block_begin]

\* The blocks in a warp's sum, each with the value position it decodes from.
Sum(w) ==
  LET work == Work(w) IN
  {<<b, work.value_begin + ValuesIn(work.block_begin, b - work.block_begin)>> :
     b \in work.block_begin .. work.block_begin + work.block_count - 1}

\* A warp writes the valid rows of its block row.
WriteY(w) ==
  [r \in Rows |->
     IF BlockRowOf(r) # Work(w).br THEN y[r]
     ELSE IF Atomic(w) THEN AtomicAdd(y[r], Sum(w)) ELSE Store(y[r], Sum(w))]

Warp(w) ==
  /\ pc = "running"
  /\ w \in pending
  /\ y' = WriteY(w)
  /\ pending' = pending \ {w}
  /\ UNCHANGED <<bitbsr, load_balance, pc, layoutVars, layouts, calls>>

\* The event or device synchronisation at the end of the call.
Sync ==
  /\ pc = "running"
  /\ pending = {}
  /\ pc' = "ready"
  /\ calls' = calls + 1
  /\ UNCHANGED <<bitbsr, load_balance, layoutVars, pending, y, layouts>>

\* The program is over, or every bound of the model is reached.
Finished ==
  /\ \/ pc = "failed"
     \/ pc = "packed" /\ layouts >= MaxLayouts
     \/ pc = "ready" /\ calls = MaxCalls
  /\ UNCHANGED vars

Next ==
  \/ Pack
  \/ \E c \in ChunkBlocks, t \in SplitThresholds : RejectLayout(c, t)
  \/ \E c \in ChunkBlocks, t \in SplitThresholds : BeginLayout(c, t)
  \/ \E br \in BlockRows : FillStep(br)
  \/ FillSync
  \/ Launch
  \/ \E w \in Warps : Warp(w)
  \/ Sync
  \/ Finished

Spec == Init /\ [][Next]_vars

-----------------------------------------------------------------------------
(* What the operators are for. *)

Item == [br : BlockRows, block_begin : Blocks, block_count : Nat,
         value_begin : 0 .. bitbsr.nnz]

TypeOK ==
  /\ bitbsr \in Matrices
  /\ load_balance \in BOOLEAN
  /\ pc \in {"start", "packed", "fill", "ready", "running", "failed"}
  /\ chunk_blocks \in Nat
  /\ pc # "start" => packed_flag \in [Blocks -> BOOLEAN]
  /\ layouts \in 0 .. MaxLayouts
  /\ calls \in 0 .. MaxCalls
  /\ pending \subseteq Warps
  /\ y \in [Rows -> [Contributions -> Nat]]
  /\ pc = "fill" =>
       fill \in [BlockRows -> [block : 0 .. bitbsr.num_blocks,
                              value_pos : 0 .. bitbsr.nnz,
                              out : 0 .. Cardinality(DOMAIN work_items)]]

\* While the fill kernel runs, the thread of a block row stays among its own
\* blocks, slots and values, every slot takes a block or more, and as long as
\* blocks are left the next slot is one of its own: no two threads write one
\* slot and every thread ends at the last slot the counting kernel gave it.
FillStaysInRow ==
  pc = "fill" =>
    \A br \in BlockRows :
      LET t == fill[br]
          first == work_item_row_ptr[br]
          last  == work_item_row_ptr[br + 1]
      IN  /\ t.block \in RowStart(br) .. RowEnd(br)
          /\ t.value_pos = bitbsr.block_val_ptr[t.block]
          /\ t.out \in first .. last
          /\ t.out - first <= t.block - RowStart(br)
          /\ t.block < RowEnd(br) <=> t.out < last

\* A finished layout exists.
LayoutReady == load_balance /\ pc \in {"ready", "running"} /\ chunk_blocks > 0

ItemBlocks(s) ==
  work_items[s].block_begin .. work_items[s].block_begin + work_items[s].block_count - 1

\* The work items of a finished layout cut the blocks into disjoint, non-empty
\* runs, each inside one block row and starting at its own first value: the
\* counting kernel, the scan and the filling loop agree on every boundary.
LayoutTiles ==
  LayoutReady =>
    /\ \A s \in DOMAIN work_items :
         /\ work_items[s].block_count > 0
         /\ ItemBlocks(s) \subseteq RowStart(work_items[s].br) .. RowEnd(work_items[s].br) - 1
         /\ work_items[s].value_begin = bitbsr.block_val_ptr[work_items[s].block_begin]
    /\ \A b \in Blocks : \E s \in DOMAIN work_items : b \in ItemBlocks(s)
    /\ \A s, t \in DOMAIN work_items : s # t => ItemBlocks(s) \cap ItemBlocks(t) = {}

\* The flag on an item's first block says atomic exactly when another item
\* writes the same rows, also after a layout was rebuilt over old flags.
FlagsFit ==
  LayoutReady =>
    \A s \in DOMAIN work_items :
      packed_flag[work_items[s].block_begin] <=>
        \E t \in DOMAIN work_items : t # s /\ work_items[t].br = work_items[s].br

Due ==
  [r \in Rows |-> [c \in Contributions |->
     IF c \in RowBlocks(BlockRowOf(r)) THEN 1 ELSE 0]]

\* After a call every row of y holds each block of its block row exactly once,
\* decoded from that block's own values, whatever order the warps wrote in.
ExactlyOnce == calls > 0 /\ pc # "running" => y = Due

\* The operators implement the abstract call: no step of a warp takes back or
\* repeats what another has added, and a call does not return early.
Abstract == INSTANCE SpmvCall WITH
  due  <- Due,
  call <- IF pc = "running" THEN "running" ELSE IF calls > 0 THEN "returned" ELSE "idle"

ImplementsSpmvCall == Abstract!Spec
=============================================================================
