-------------------------- MODULE FlagLbSpmv_proofs --------------------------
(***************************************************************************)
(* The safety properties of FlagLbSpmv hold for every matrix, every chunk  *)
(* size and threshold, and any number of warps, layouts and calls.         *)
(*                                                                         *)
(* The inductive invariant has three parts.  LayoutInv follows every fill  *)
(* thread: the items it has written so far cut the blocks before its       *)
(* current one into disjoint runs, and it stands at the slot its chunk     *)
(* number gives, so that it stops exactly at its row's last slot.          *)
(* WarpsFit restates a finished layout as the kernel needs it, and         *)
(* KernelInv says which blocks are in y while warps are still running.     *)
(***************************************************************************)
EXTENDS FlagLbSpmv, PrefixSums_proofs, FiniteSetTheorems

Laid == chunk_blocks > 0

ControlInv ==
  /\ bitbsr \in Matrices
  /\ load_balance \in BOOLEAN
  /\ pc \in {"start", "packed", "fill", "ready", "running", "failed"}
  /\ chunk_blocks \in Nat
  /\ layouts \in 0 .. MaxLayouts
  /\ calls \in 0 .. MaxCalls
  /\ pc # "start" => packed_flag \in [Blocks -> BOOLEAN]
  /\ pc \in {"start", "packed"} => ~Laid /\ calls = 0
  /\ pc = "fill" => load_balance
  /\ pc = "running" => calls < MaxCalls
  /\ pc \in {"fill", "ready", "running"} => (load_balance <=> Laid)

ItemType == [br : Nat, block_begin : Nat, block_count : Nat, value_begin : Nat]

SlotInv ==
  /\ work_item_row_ptr \in [0 .. bitbsr.num_block_rows -> Nat]
  /\ work_item_row_ptr[0] = 0
  /\ \A br \in BlockRows :
       /\ work_item_row_ptr[br] <= work_item_row_ptr[br + 1]
       /\ NumChunks(br) = 0 <=> RowStart(br) = RowEnd(br)
       /\ NumChunks(br) > 1 =>
            NumChunks(br) = ceil_div(RowEnd(br) - RowStart(br), chunk_blocks)
  /\ work_items \in [0 .. work_item_row_ptr[bitbsr.num_block_rows] - 1 -> ItemType]
  /\ fill \in [BlockRows -> [block : Nat, value_pos : Nat, out : Nat]]

\* The slots the fill thread of a block row has written.
Filled(br) == work_item_row_ptr[br] .. fill[br].out - 1

Begin(s) == work_items[s].block_begin
End(s)   == work_items[s].block_begin + work_items[s].block_count

ThreadInv(br) ==
  /\ RowStart(br) <= fill[br].block /\ fill[br].block <= RowEnd(br)
  /\ work_item_row_ptr[br] <= fill[br].out
  /\ fill[br].value_pos = bitbsr.block_val_ptr[fill[br].block]
  /\ fill[br].block < RowEnd(br) =>
       /\ fill[br].out < work_item_row_ptr[br + 1]
       /\ fill[br].block = RowStart(br) +
            (fill[br].out - work_item_row_ptr[br]) * EffectiveChunk(br)
  /\ fill[br].block = RowEnd(br) => fill[br].out = work_item_row_ptr[br + 1]

FilledInv(br) ==
  /\ \A s \in Filled(br) :
       /\ work_items[s].br = br
       /\ RowStart(br) <= Begin(s) /\ Begin(s) < End(s) /\ End(s) <= fill[br].block
       /\ work_items[s].value_begin = bitbsr.block_val_ptr[Begin(s)]
       /\ packed_flag[Begin(s)] = AtomicOutput(br)
  /\ \A s, t \in Filled(br) : s < t => End(s) <= Begin(t)
  /\ \A b \in RowStart(br) .. fill[br].block - 1 :
       \E s \in Filled(br) : b \in Begin(s) .. End(s) - 1
  /\ \A b \in fill[br].block .. RowEnd(br) - 1 : packed_flag[b] = FALSE

LayoutInv ==
  Laid => /\ SlotInv
          /\ \A br \in BlockRows : ThreadInv(br) /\ FilledInv(br)
          /\ pc \in {"ready", "running"} =>
               \A br \in BlockRows : fill[br].block = RowEnd(br)

-----------------------------------------------------------------------------

\* The blocks a warp traverses.
Covers(w) == Work(w).block_begin .. Work(w).block_begin + Work(w).block_count - 1

WarpsFit ==
  /\ \A w \in Warps :
       /\ Work(w).br \in BlockRows
       /\ Work(w).block_begin \in Nat /\ Work(w).block_count \in Nat
       /\ Covers(w) \subseteq RowStart(Work(w).br) .. RowEnd(Work(w).br) - 1
       /\ Work(w).block_count > 0 =>
            Work(w).value_begin = bitbsr.block_val_ptr[Work(w).block_begin]
  /\ \A b \in Blocks : \E w \in Warps : b \in Covers(w)
  /\ \A v, w \in Warps : v # w => Covers(v) \cap Covers(w) = {}
  /\ \A v, w \in Warps : v # w /\ Work(v).br = Work(w).br => Atomic(v)

Present(r, c, running) ==
  c \in RowBlocks(BlockRowOf(r)) /\ \E w \in Warps \ running : c[1] \in Covers(w)

KernelInv ==
  /\ y \in [Rows -> [Contributions -> Nat]]
  /\ pending \subseteq Warps
  /\ pc # "running" => pending = {}
  /\ pc = "running" =>
       \A r \in Rows, c \in Contributions :
         y[r][c] = IF Present(r, c, pending) THEN 1 ELSE 0
  /\ calls > 0 /\ pc # "running" => y = Due

IInv == ControlInv /\ LayoutInv /\ KernelInv

-----------------------------------------------------------------------------
(* The matrix. *)

LEMMA RowsOfBlocks ==
  ASSUME bitbsr \in Matrices
  PROVE  /\ bitbsr.num_block_rows \in Nat /\ bitbsr.num_blocks \in Nat
         /\ bitbsr.rows \in Nat /\ bitbsr.nnz \in Nat
         /\ bitbsr.block_row_ptr \in [0 .. bitbsr.num_block_rows -> 0 .. bitbsr.num_blocks]
         /\ bitbsr.block_val_ptr \in [0 .. bitbsr.num_blocks -> 0 .. bitbsr.nnz]
         /\ \A br \in BlockRows :
              /\ RowStart(br) \in 0 .. bitbsr.num_blocks
              /\ RowEnd(br) \in 0 .. bitbsr.num_blocks
              /\ RowStart(br) <= RowEnd(br)
         /\ \A i, j \in 0 .. bitbsr.num_block_rows :
              i <= j => bitbsr.block_row_ptr[i] <= bitbsr.block_row_ptr[j]
<1>. USE DEF RowStart, RowEnd, BlockRows
<1>1. IsBitBsr(bitbsr)
  BY MatricesAssumption
<1>2. bitbsr.rows \in Nat /\ bitbsr.num_block_rows = ceil_div(bitbsr.rows, kSpmv8x4BlockRows)
  BY <1>1 DEF IsBitBsr
<1>3. bitbsr.num_block_rows \in Nat
  BY <1>2, CeilDivCounts, BlockRowsAssumption
<1>4. /\ bitbsr.num_blocks \in Nat /\ bitbsr.nnz \in Nat
      /\ bitbsr.block_row_ptr \in [0 .. bitbsr.num_block_rows -> 0 .. bitbsr.num_blocks]
      /\ bitbsr.block_val_ptr \in [0 .. bitbsr.num_blocks -> 0 .. bitbsr.nnz]
      /\ \A br \in 0 .. bitbsr.num_block_rows - 1 :
           bitbsr.block_row_ptr[br] <= bitbsr.block_row_ptr[br + 1]
  BY <1>1 DEF IsBitBsr
<1>5. bitbsr.block_row_ptr \in [0 .. bitbsr.num_block_rows -> Int]
  BY <1>4
<1>6. \A i, j \in 0 .. bitbsr.num_block_rows :
        i <= j => bitbsr.block_row_ptr[i] <= bitbsr.block_row_ptr[j]
  BY <1>3, <1>4, <1>5, StepwiseMonotone
<1>7. ASSUME NEW br \in BlockRows
      PROVE  /\ RowStart(br) \in 0 .. bitbsr.num_blocks
             /\ RowEnd(br) \in 0 .. bitbsr.num_blocks
             /\ RowStart(br) <= RowEnd(br)
  <2>1. br \in 0 .. bitbsr.num_block_rows - 1
    OBVIOUS
  <2>2. br \in 0 .. bitbsr.num_block_rows /\ br + 1 \in 0 .. bitbsr.num_block_rows
    BY <1>3, <2>1
  <2>. QED
    BY <1>4, <2>1, <2>2
<1>. QED
  BY <1>2, <1>3, <1>4, <1>6, <1>7

\* Two block rows share no block.
LEMMA RowsDisjoint ==
  ASSUME bitbsr \in Matrices,
         NEW p \in BlockRows, NEW q \in BlockRows, NEW b,
         b \in RowStart(p) .. RowEnd(p) - 1, b \in RowStart(q) .. RowEnd(q) - 1
  PROVE  p = q
<1>. DEFINE n == bitbsr.num_block_rows
            f == bitbsr.block_row_ptr
<1>1. n \in Nat /\ f \in [0 .. n -> Int]
  BY RowsOfBlocks
<1>5. \A i \in 0 .. n - 1 : f[i] <= f[i + 1]
  BY RowsOfBlocks DEF RowStart, RowEnd, BlockRows
<1>2. /\ p \in 0 .. n - 1 /\ q \in 0 .. n - 1
      /\ p \in 0 .. n /\ p + 1 \in 0 .. n /\ q \in 0 .. n /\ q + 1 \in 0 .. n
  BY <1>1 DEF BlockRows
<1>3. f[p] \in Int /\ f[p + 1] \in Int /\ f[q] \in Int /\ f[q + 1] \in Int
  <2>. HIDE DEF n, f
  <2>. QED
    BY <1>1, <1>2
<1>4. b \in Int /\ f[p] <= b /\ b < f[p + 1] /\ f[q] <= b /\ b < f[q + 1]
  BY <1>3 DEF RowStart, RowEnd
<1>. HIDE DEF n, f
<1>. QED
  BY <1>1, <1>2, <1>4, <1>5, RowOfIndexUnique

\* Every block lies in a block row.
LEMMA BlockHasRow ==
  ASSUME bitbsr \in Matrices, NEW b \in Blocks
  PROVE  \E br \in BlockRows : b \in RowStart(br) .. RowEnd(br) - 1
<1>. DEFINE n == bitbsr.num_block_rows
            f == bitbsr.block_row_ptr
<1>1. n \in Nat /\ f \in [0 .. n -> Int]
  BY RowsOfBlocks
<1>2. f[0] = 0 /\ f[n] = bitbsr.num_blocks
  BY MatricesAssumption DEF IsBitBsr
<1>3. b \in Int /\ f[0] <= b /\ b < f[n]
  BY <1>2, RowsOfBlocks DEF Blocks
<1>. HIDE DEF n, f
<1>4. PICK i \in 0 .. n - 1 : f[i] <= b /\ b < f[i + 1]
  BY <1>1, <1>3, RowOfIndex
<1>5. f[i] \in Int /\ f[i + 1] \in Int
  BY <1>1
<1>6. b \in f[i] .. f[i + 1] - 1
  BY <1>3, <1>4, <1>5
<1>. QED
  BY <1>4, <1>6 DEF BlockRows, RowStart, RowEnd, n, f

\* Every row lies in a block row.
LEMMA RowHasBlockRow ==
  ASSUME bitbsr \in Matrices, NEW r \in Rows
  PROVE  BlockRowOf(r) \in BlockRows
<1>. DEFINE k == BlockRowOf(r)
<1>1. bitbsr.rows \in Nat /\ r \in 0 .. bitbsr.rows - 1
  BY RowsOfBlocks DEF Rows
<1>2. bitbsr.num_block_rows = ceil_div(bitbsr.rows, kSpmv8x4BlockRows)
  BY MatricesAssumption DEF IsBitBsr
<1>3. k \in Nat /\ k * kSpmv8x4BlockRows <= r
  BY <1>1, BlockRowsAssumption DEF BlockRowOf
<1>4. k * kSpmv8x4BlockRows < bitbsr.rows
  BY <1>1, <1>3, BlockRowsAssumption
<1>5. k < bitbsr.num_block_rows
  BY <1>1, <1>2, <1>3, <1>4, CeilDivCounts, BlockRowsAssumption
<1>. QED
  BY <1>3, <1>5, RowsOfBlocks DEF BlockRows

\* The fill loop advances by one chunk as long as the count kernel has one left.
LEMMA ChunkStep ==
  ASSUME NEW len \in Nat, NEW chunk \in Nat \ {0}, NEW k \in Nat
  PROVE  /\ (k + 1) * chunk = k * chunk + chunk
         /\ k * chunk + chunk < len <=> k + 1 < ceil_div(len, chunk)
<1>1. (k + 1) * chunk = k * chunk + chunk
  OBVIOUS
<1>2. (k + 1) * chunk < len <=> k + 1 < ceil_div(len, chunk)
  BY CeilDivCounts, k + 1 \in Nat
<1>. QED
  BY <1>1, <1>2

-----------------------------------------------------------------------------
(* The host's control state. *)

\* The control state is kept by every step.
LEMMA ControlStep ==
  ASSUME ControlInv, [Next]_vars
  PROVE  ControlInv'
<1>. USE DEF ControlInv, Laid
<1>. USE BoundsAssumption
<1>1. CASE Pack
  BY <1>1 DEF Pack, Blocks
<1>2. ASSUME NEW c \in ChunkBlocks, NEW t \in SplitThresholds, RejectLayout(c, t)
      PROVE  ControlInv'
  BY <1>2 DEF RejectLayout, MayLayout, layoutVars, Blocks
<1>3. ASSUME NEW c \in ChunkBlocks, NEW t \in SplitThresholds, BeginLayout(c, t)
      PROVE  ControlInv'
  <2>1. c \in Int
    BY ParamsAssumption
  <2>2. packed_flag' \in [Blocks -> BOOLEAN]
    BY <1>3 DEF BeginLayout, MayLayout, ClearFlags
  <2>. QED
    BY <1>3, <2>1, <2>2 DEF BeginLayout, MayLayout, Blocks
<1>4. ASSUME NEW br \in BlockRows, FillStep(br)
      PROVE  ControlInv'
  BY <1>4 DEF FillStep, Blocks
<1>5. CASE FillSync
  BY <1>5 DEF FillSync, layoutVars, Blocks
<1>6. CASE Launch
  BY <1>6 DEF Launch, layoutVars, Blocks
<1>7. ASSUME NEW w \in Warps, Warp(w)
      PROVE  ControlInv'
  BY <1>7 DEF Warp, layoutVars, Blocks
<1>8. CASE Sync
  BY <1>8 DEF Sync, layoutVars, Blocks
<1>9. CASE UNCHANGED vars
  BY <1>9 DEF vars, Blocks
<1>. QED
  BY <1>1, <1>2, <1>3, <1>4, <1>5, <1>6, <1>7, <1>8, <1>9 DEF Next, Finished

-----------------------------------------------------------------------------
(* The layout: what one build leaves behind. *)

\* The count kernel gives a row items exactly when it has blocks, and a row of
\* several items as many as it has chunks.
LEMMA WorkCountFits ==
  ASSUME bitbsr \in Matrices, NEW br \in BlockRows,
         NEW chunk \in Nat \ {0}, NEW threshold \in Nat \ {0}
  PROVE  LET k == WorkCount(br, chunk, threshold)
         IN  /\ k \in Nat
             /\ k = 0 <=> RowStart(br) = RowEnd(br)
             /\ k > 1 => k = ceil_div(RowEnd(br) - RowStart(br), chunk)
<1>. DEFINE len == RowEnd(br) - RowStart(br)
<1>1. len \in Nat /\ RowStart(br) \in Int /\ RowEnd(br) \in Int
  BY RowsOfBlocks
<1>2. len = 0 <=> RowStart(br) = RowEnd(br)
  BY <1>1
<1>. HIDE DEF len
<1>3. CASE len <= threshold
  BY <1>1, <1>2, <1>3 DEF WorkCount, Smaller, len
<1>4. CASE ~(len <= threshold)
  <2>1. len > 0
    BY <1>1, <1>4
  <2>2. ceil_div(len, chunk) \in Nat /\ (0 * chunk < len <=> 0 < ceil_div(len, chunk))
    BY <1>1, CeilDivCounts
  <2>3. ceil_div(len, chunk) \in Nat /\ ceil_div(len, chunk) # 0
    BY <2>1, <2>2
  <2>4. WorkCount(br, chunk, threshold) = ceil_div(len, chunk)
    BY <1>4 DEF WorkCount, len
  <2>. QED
    BY <1>2, <2>1, <2>3, <2>4 DEF len
<1>. QED
  BY <1>3, <1>4

\* Counting and scanning give every row its slots, and every fill thread starts
\* at its row's first block, first value and first slot.
LEMMA BeginLayoutStep ==
  ASSUME ControlInv, NEW chunk \in ChunkBlocks, NEW threshold \in SplitThresholds,
         BeginLayout(chunk, threshold)
  PROVE  LayoutInv'
<1>. DEFINE n == bitbsr.num_block_rows
            count == [br \in BlockRows |-> WorkCount(br, chunk, threshold)]
            slot  == PrefixSum(count, n)
<1>1. /\ bitbsr' = bitbsr /\ bitbsr \in Matrices
      /\ chunk \in Nat \ {0} /\ threshold \in Nat \ {0}
      /\ chunk_blocks' = chunk
      /\ work_item_row_ptr' = slot
      /\ work_items' = [s \in 0 .. slot[n] - 1 |-> NoItem]
      /\ packed_flag' = IF slot[n] = 0 THEN packed_flag ELSE ClearFlags
      /\ fill' = FillStart(slot)
      /\ pc' = IF slot[n] = 0 THEN "ready" ELSE "fill"
  BY ParamsAssumption DEF BeginLayout, ControlInv
<1>2. n \in Nat
  BY <1>1, RowsOfBlocks
<1>3. \A br \in BlockRows :
        /\ count[br] \in Nat
        /\ count[br] = 0 <=> RowStart(br) = RowEnd(br)
        /\ count[br] > 1 => count[br] = ceil_div(RowEnd(br) - RowStart(br), chunk)
  BY <1>1, WorkCountFits
<1>4. BlockRows = 0 .. n - 1 /\ count \in [0 .. n - 1 -> Nat]
  BY <1>3 DEF BlockRows
<1>. HIDE DEF count
<1>5. /\ slot \in [0 .. n -> Nat] /\ slot[0] = 0
      /\ \A br \in 0 .. n - 1 : slot[br + 1] = slot[br] + count[br]
  BY <1>2, <1>4, PrefixSumSteps
<1>. HIDE DEF slot, n
<1>6. \A br \in BlockRows :
        /\ br \in 0 .. n /\ br + 1 \in 0 .. n
        /\ slot[br] \in Nat /\ slot[br + 1] \in Nat /\ count[br] \in Nat
        /\ slot[br + 1] = slot[br] + count[br]
  BY <1>2, <1>3, <1>4, <1>5
<1>7. \A br \in BlockRows :
        /\ RowStart(br) \in Nat /\ RowEnd(br) \in Nat /\ RowStart(br) <= RowEnd(br)
        /\ bitbsr.block_val_ptr[RowStart(br)] \in Nat
  BY <1>1, RowsOfBlocks
<1>8. BlockRows' = BlockRows /\ \A br : RowStart(br)' = RowStart(br) /\ RowEnd(br)' = RowEnd(br)
  BY <1>1 DEF BlockRows, RowStart, RowEnd
<1>9. \A br \in BlockRows : NumChunks(br)' = count[br]
  BY <1>1, <1>6 DEF NumChunks
<1>10. \A br \in BlockRows :
         /\ fill'[br].block = RowStart(br)
         /\ fill'[br].value_pos = bitbsr.block_val_ptr[RowStart(br)]
         /\ fill'[br].out = slot[br]
  BY <1>1 DEF FillStart
<1>11. SlotInv'
  <2>1. work_item_row_ptr' \in [0 .. n -> Nat] /\ work_item_row_ptr'[0] = 0
    BY <1>1, <1>5
  <2>2. ASSUME NEW br \in BlockRows
        PROVE  /\ work_item_row_ptr'[br] <= work_item_row_ptr'[br + 1]
               /\ (NumChunks(br) = 0)' <=> RowStart(br) = RowEnd(br)
               /\ NumChunks(br)' > 1 =>
                    NumChunks(br)' = ceil_div(RowEnd(br) - RowStart(br), chunk)
    BY <1>1, <1>3, <1>6, <1>9
  <2>3. work_items' \in [0 .. slot[n] - 1 -> ItemType]
    BY <1>1 DEF NoItem, ItemType
  <2>4. fill' \in [BlockRows -> [block : Nat, value_pos : Nat, out : Nat]]
    BY <1>1, <1>6, <1>7 DEF FillStart
  <2>. QED
    BY <1>1, <1>8, <2>1, <2>2, <2>3, <2>4 DEF SlotInv, n
<1>12. ASSUME slot[n] = 0, NEW br \in BlockRows
       PROVE  RowStart(br) = RowEnd(br)
  <2>1. \A i \in 0 .. n - 1 : slot[i] <= slot[i + 1]
    BY <1>4, <1>6
  <2>2. \A i, j \in 0 .. n : i <= j => slot[i] <= slot[j]
    BY <1>2, <1>5, <2>1, StepwiseMonotone, slot \in [0 .. n -> Int]
  <2>3. slot[br + 1] <= 0
    BY <1>2, <1>4, <1>6, <1>12, <2>2, n \in 0 .. n, br + 1 <= n
  <2>4. count[br] = 0
    BY <1>6, <2>3
  <2>. QED
    BY <1>3, <2>4
<1>13. ASSUME NEW br \in BlockRows PROVE ThreadInv(br)' /\ FilledInv(br)'
  <2>1. /\ fill'[br].block = RowStart(br) /\ fill'[br].out = slot[br]
        /\ fill'[br].value_pos = bitbsr.block_val_ptr[RowStart(br)]
    BY <1>10
  <2>2. (RowStart(br) < RowEnd(br)) => slot[br] < slot[br + 1]
    BY <1>3, <1>6, <1>7
  <2>3. (RowStart(br) = RowEnd(br)) => slot[br] = slot[br + 1]
    BY <1>3, <1>6
  <2>4. EffectiveChunk(br)' \in Int
    BY <1>1, <1>7, <1>8 DEF EffectiveChunk
  <2>5. (slot[br] - slot[br]) * EffectiveChunk(br)' = 0
    BY <1>6, <2>4
  <2>6. ThreadInv(br)'
    BY <1>1, <1>6, <1>7, <1>8, <2>1, <2>2, <2>3, <2>5 DEF ThreadInv
  <2>7. Filled(br)' = {} /\ RowStart(br)' .. (fill'[br].block - 1) = {}
    BY <1>1, <1>6, <1>7, <1>8, <2>1 DEF Filled
  <2>8. \A b \in RowStart(br) .. RowEnd(br) - 1 : packed_flag'[b] = FALSE
    <3>1. CASE slot[n] = 0
      BY <1>7, <1>12, <3>1
    <3>2. CASE slot[n] # 0
      <4>0. /\ bitbsr.num_blocks \in Nat
            /\ RowStart(br) \in 0 .. bitbsr.num_blocks
            /\ RowEnd(br) \in 0 .. bitbsr.num_blocks
        BY <1>1, RowsOfBlocks, ZenonT(30)
      <4>1. RowStart(br) .. RowEnd(br) - 1 \subseteq Blocks
        BY <4>0 DEF Blocks
      <4>. QED
        BY <1>1, <3>2, <4>1, ZenonT(40) DEF ClearFlags
    <3>. QED
      BY <3>1, <3>2
  <2>. QED
    BY <1>8, <2>1, <2>6, <2>7, <2>8 DEF FilledInv
<1>14. ASSUME pc' \in {"ready", "running"}, NEW br \in BlockRows
       PROVE  fill'[br].block = RowEnd(br)
  BY <1>1, <1>10, <1>12, <1>14
<1>. QED
  BY <1>8, <1>11, <1>13, <1>14 DEF LayoutInv

-----------------------------------------------------------------------------
(* The layout: one turn of a fill thread. *)

\* The slots that belong to a block row.
Slots(br) == work_item_row_ptr[br] .. work_item_row_ptr[br + 1] - 1

\* The slots of the rows are disjoint and all of them exist.
LEMMA SlotsOfRows ==
  ASSUME bitbsr \in Matrices, SlotInv
  PROVE  /\ \A br \in BlockRows :
              /\ work_item_row_ptr[br] \in Nat /\ work_item_row_ptr[br + 1] \in Nat
              /\ NumChunks(br) \in Nat
              /\ Slots(br) \subseteq DOMAIN work_items
         /\ \A p, q \in BlockRows : \A s : s \in Slots(p) /\ s \in Slots(q) => p = q
         /\ \A s \in DOMAIN work_items : \E br \in BlockRows : s \in Slots(br)
<1>. DEFINE n == bitbsr.num_block_rows
            f == work_item_row_ptr
<1>1. /\ n \in Nat /\ BlockRows = 0 .. n - 1
      /\ f \in [0 .. n -> Nat] /\ f \in [0 .. n -> Int] /\ f[0] = 0
      /\ \A i \in 0 .. n - 1 : f[i] <= f[i + 1]
      /\ DOMAIN work_items = 0 .. f[n] - 1
  BY RowsOfBlocks DEF SlotInv, BlockRows
<1>. HIDE DEF n
<1>2. \A i, j \in 0 .. n : i <= j => f[i] <= f[j]
  BY <1>1, StepwiseMonotone
<1>3. ASSUME NEW br \in BlockRows
      PROVE  /\ f[br] \in Nat /\ f[br + 1] \in Nat
             /\ f[br] <= f[br + 1] /\ f[br + 1] <= f[n]
  BY <1>1, <1>2, br \in 0 .. n, br + 1 \in 0 .. n, n \in 0 .. n
<1>4. ASSUME NEW br \in BlockRows
      PROVE  NumChunks(br) \in Nat /\ Slots(br) \subseteq DOMAIN work_items
  <2>1. f[n] \in Nat
    BY <1>1
  <2>. QED
    BY <1>1, <1>3, <2>1 DEF NumChunks, Slots
<1>5. ASSUME NEW p \in BlockRows, NEW q \in BlockRows, NEW s, s \in Slots(p), s \in Slots(q)
      PROVE  p = q
  <2>1. s \in Int /\ f[p] <= s /\ s < f[p + 1] /\ f[q] <= s /\ s < f[q + 1]
    BY <1>3, <1>5 DEF Slots
  <2>2. p \in 0 .. n - 1 /\ q \in 0 .. n - 1
    BY <1>1
  <2>. HIDE DEF f
  <2>. QED
    BY <1>1, <2>1, <2>2, RowOfIndexUnique
<1>6. ASSUME NEW s \in DOMAIN work_items
      PROVE  \E br \in BlockRows : s \in Slots(br)
  <2>1. s \in Int /\ f[0] <= s /\ s < f[n]
    BY <1>1
  <2>2. PICK i \in 0 .. n - 1 : f[i] <= s /\ s < f[i + 1]
    <3>. HIDE DEF f
    <3>. QED
      BY <1>1, <2>1, RowOfIndex
  <2>3. s \in Slots(i)
    BY <1>1, <1>3, <2>1, <2>2 DEF Slots
  <2>. QED
    BY <1>1, <2>3
<1>. QED
  BY <1>3, <1>4, <1>5, <1>6

\* What a fill thread knows when it takes another turn: its chunk is not empty,
\* ends inside the row, and the row ends with it exactly when the slot is the
\* row's last.
LEMMA FillTurn ==
  ASSUME bitbsr \in Matrices, Laid, chunk_blocks \in Nat, SlotInv,
         NEW br \in BlockRows, ThreadInv(br),
         NumChunks(br) # 0, fill[br].block < RowEnd(br),
         NEW count, count = Smaller(EffectiveChunk(br), RowEnd(br) - fill[br].block)
  PROVE  /\ count \in Nat \ {0}
         /\ fill[br].block + count <= RowEnd(br)
         /\ fill[br].out \in Slots(br)
         /\ fill[br].block + count < RowEnd(br) =>
              /\ fill[br].out + 1 < work_item_row_ptr[br + 1]
              /\ fill[br].block + count = RowStart(br) +
                   (fill[br].out + 1 - work_item_row_ptr[br]) * EffectiveChunk(br)
         /\ fill[br].block + count = RowEnd(br) =>
              fill[br].out + 1 = work_item_row_ptr[br + 1]
<1>. DEFINE block == fill[br].block
            out   == fill[br].out
            first == work_item_row_ptr[br]
            last  == work_item_row_ptr[br + 1]
            start == RowStart(br)
            end   == RowEnd(br)
            ec    == EffectiveChunk(br)
            k     == out - first
            N     == NumChunks(br)
<1>1. /\ start \in Nat /\ end \in Nat /\ start <= end
      /\ first \in Nat /\ last \in Nat /\ N \in Nat /\ N = last - first
      /\ block \in Nat /\ out \in Nat
  BY RowsOfBlocks, SlotsOfRows DEF NumChunks, SlotInv
<1>2. /\ start <= block /\ first <= out /\ block < end /\ out < last
      /\ block = start + k * ec
  BY DEF ThreadInv
<1>3. k \in Nat /\ k < N /\ end - start \in Nat \ {0}
  BY <1>1, <1>2
<1>4. AtomicOutput(br) <=> N > 1
  BY DEF AtomicOutput
<1>5. ec = IF N > 1 THEN chunk_blocks ELSE end - start
  BY <1>4 DEF EffectiveChunk
<1>6. ec \in Nat \ {0}
  BY <1>3, <1>5 DEF Laid
<1>7. N > 1 => N = ceil_div(end - start, ec)
  BY <1>5 DEF SlotInv
<1>8. /\ (k + 1) * ec = k * ec + ec
      /\ k * ec + ec < end - start <=> k + 1 < ceil_div(end - start, ec)
  BY <1>3, <1>6, ChunkStep
<1>9. k * ec \in Nat
  BY <1>3, <1>6
<1>10. count = IF ec <= end - block THEN ec ELSE end - block
  BY DEF Smaller
<1>. HIDE DEF block, out, first, last, start, end, ec, N
<1>11. N = 1 => k = 0 /\ k * ec = 0 /\ ec = end - start
  BY <1>3, <1>5, <1>6
<1>12. count \in Nat \ {0} /\ block + count <= end
  BY <1>1, <1>2, <1>6, <1>10
<1>13. out \in first .. last - 1
  BY <1>1, <1>2
<1>14. ASSUME block + count < end
       PROVE  out + 1 < last /\ block + count = start + (out + 1 - first) * ec
  <2>1. count = ec
    BY <1>1, <1>2, <1>6, <1>10, <1>14
  <2>2. k * ec + ec < end - start
    BY <1>1, <1>2, <1>6, <1>9, <1>14, <2>1
  <2>3. N > 1
    BY <1>3, <1>1, <1>11, <2>2, <1>6
  <2>4. k + 1 < N
    BY <1>7, <1>8, <2>2, <2>3
  <2>5. out + 1 - first = k + 1
    BY <1>1
  <2>6. block + count = start + (k + 1) * ec
    BY <1>1, <1>2, <1>6, <1>8, <1>9, <2>1
  <2>. QED
    BY <1>1, <2>4, <2>5, <2>6
<1>15. ASSUME block + count = end
       PROVE  out + 1 = last
  <2>1. ec >= end - block
    BY <1>1, <1>2, <1>6, <1>10, <1>15
  <2>2. ~(k * ec + ec < end - start)
    BY <1>1, <1>2, <1>6, <1>9, <2>1
  <2>3. ~(k + 1 < N)
    BY <1>1, <1>3, <1>7, <1>8, <2>2
  <2>. QED
    BY <1>1, <1>3, <2>3
<1>. QED
  BY <1>12, <1>13, <1>14, <1>15 DEF block, out, first, last, start, end, ec, Slots

\* A turn of one thread keeps the invariant of every thread: it writes a slot
\* and raises a flag no other thread has written or will write.
LEMMA FillStepInv ==
  ASSUME ControlInv, LayoutInv, NEW br \in BlockRows, FillStep(br)
  PROVE  LayoutInv'
<1>. DEFINE block == fill[br].block
            out   == fill[br].out
            count == Smaller(EffectiveChunk(br), RowEnd(br) - fill[br].block)
            value == fill[br].value_pos
            item  == [br |-> br, block_begin |-> block, block_count |-> count,
                      value_begin |-> value]
            turn  == [block |-> block + count, value_pos |-> value + ValuesIn(block, count),
                      out |-> out + 1]
<1>1. /\ bitbsr \in Matrices /\ chunk_blocks \in Nat /\ Laid
      /\ packed_flag \in [Blocks -> BOOLEAN]
      /\ NumChunks(br) # 0 /\ block < RowEnd(br)
      /\ pc = "fill"
  BY DEF FillStep, ControlInv
<1>2. SlotInv /\ \A p \in BlockRows : ThreadInv(p) /\ FilledInv(p)
  BY <1>1 DEF LayoutInv
<1>3. /\ count \in Nat \ {0}
      /\ block + count <= RowEnd(br)
      /\ out \in Slots(br)
      /\ block + count < RowEnd(br) =>
           /\ out + 1 < work_item_row_ptr[br + 1]
           /\ block + count = RowStart(br) + (out + 1 - work_item_row_ptr[br]) * EffectiveChunk(br)
      /\ block + count = RowEnd(br) => out + 1 = work_item_row_ptr[br + 1]
  BY <1>1, <1>2, FillTurn
<1>. HIDE DEF count
<1>4. /\ block \in Nat /\ out \in Nat
      /\ RowStart(br) \in Nat /\ RowEnd(br) \in Nat /\ RowEnd(br) <= bitbsr.num_blocks
      /\ RowStart(br) <= block /\ work_item_row_ptr[br] <= out
      /\ work_item_row_ptr[br] \in Nat /\ work_item_row_ptr[br + 1] \in Nat
      /\ value = bitbsr.block_val_ptr[block]
      /\ out \in DOMAIN work_items
  BY <1>1, <1>2, <1>3, RowsOfBlocks, SlotsOfRows, SMTT(30) DEF SlotInv, ThreadInv
<1>5. /\ block \in 0 .. bitbsr.num_blocks /\ block + count \in 0 .. bitbsr.num_blocks
      /\ bitbsr.num_blocks \in Nat
  <2>1. bitbsr.num_blocks \in Nat
    BY <1>1, RowsOfBlocks
  <2>. QED
    BY <1>1, <1>3, <1>4, <2>1
<1>. HIDE DEF block, out, value
<1>6. /\ value \in Nat
      /\ value + ValuesIn(block, count) = bitbsr.block_val_ptr[block + count]
      /\ value + ValuesIn(block, count) \in Nat
  <2>1. bitbsr.block_val_ptr[block] \in Nat /\ bitbsr.block_val_ptr[block + count] \in Nat
    BY <1>1, <1>5, RowsOfBlocks
  <2>2. value = bitbsr.block_val_ptr[block]
    BY <1>4
  <2>. QED
    BY <2>1, <2>2 DEF ValuesIn
<1>7. /\ bitbsr' = bitbsr /\ chunk_blocks' = chunk_blocks
      /\ work_item_row_ptr' = work_item_row_ptr /\ pc' = pc
      /\ work_items' = [work_items EXCEPT ![out] = item]
      /\ packed_flag' = IF AtomicOutput(br) THEN [packed_flag EXCEPT ![block] = TRUE]
                                            ELSE packed_flag
      /\ fill' = [fill EXCEPT ![br] = turn]
  BY DEF FillStep, block, out, count, value
<1>8. /\ BlockRows' = BlockRows /\ Blocks' = Blocks
      /\ \A p : /\ RowStart(p)' = RowStart(p) /\ RowEnd(p)' = RowEnd(p)
                /\ NumChunks(p)' = NumChunks(p)
                /\ AtomicOutput(p)' = AtomicOutput(p)
                /\ EffectiveChunk(p)' = EffectiveChunk(p)
                /\ Slots(p)' = Slots(p)
  BY <1>7 DEF BlockRows, Blocks, RowStart, RowEnd, NumChunks, AtomicOutput, EffectiveChunk, Slots
<1>9. SlotInv'
  <2>1. item \in ItemType
    BY <1>1, <1>3, <1>4, <1>6 DEF ItemType, BlockRows
  <2>2. turn \in [block : Nat, value_pos : Nat, out : Nat]
    BY <1>3, <1>4, <1>6
  <2>. HIDE DEF item, turn
  <2>3. work_items' \in [0 .. work_item_row_ptr[bitbsr.num_block_rows] - 1 -> ItemType]
    BY <1>2, <1>7, <2>1 DEF SlotInv
  <2>4. fill' \in [BlockRows -> [block : Nat, value_pos : Nat, out : Nat]]
    BY <1>2, <1>7, <2>2 DEF SlotInv
  <2>. QED
    BY <1>2, <1>7, <1>8, <2>3, <2>4 DEF SlotInv
<1>10. /\ fill'[br].block = block + count /\ fill'[br].out = out + 1
       /\ fill'[br].value_pos = value + ValuesIn(block, count)
       /\ work_items'[out] = item
       /\ \A s : s # out => work_items'[s] = work_items[s]
       /\ \A p \in BlockRows : p # br => fill'[p] = fill[p]
  BY <1>2, <1>4, <1>7 DEF SlotInv
<1>11. ThreadInv(br)'
  BY <1>3, <1>4, <1>6, <1>7, <1>8, <1>10 DEF ThreadInv
<1>12. FilledInv(br)'
  <2>. DEFINE filled   == work_item_row_ptr[br] .. out
              begin(s) == work_items'[s].block_begin
              end(s)   == work_items'[s].block_begin + work_items'[s].block_count
  <2>1. filled = Filled(br) \cup {out} /\ out \notin Filled(br)
    BY <1>4, <1>7, <1>10 DEF Filled, out
  <2>2. begin(out) = block /\ end(out) = block + count /\ work_items'[out].br = br
        /\ work_items'[out].value_begin = value
    BY <1>10
  <2>3. ASSUME NEW s \in Filled(br)
        PROVE  /\ begin(s) = Begin(s) /\ end(s) = End(s)
               /\ Begin(s) \in Nat /\ End(s) \in Nat
               /\ RowStart(br) <= Begin(s) /\ Begin(s) < End(s) /\ End(s) <= block
               /\ Begin(s) \in Blocks
               /\ s < out
    <3>1. s # out /\ s < out
      BY <1>4, <2>1 DEF Filled, out
    <3>2. work_items'[s] = work_items[s]
      BY <1>10, <3>1
    <3>3. s \in Slots(br)
      BY <1>3, <1>4, <3>1 DEF Filled, Slots
    <3>4. work_items[s] \in ItemType
      BY <1>1, <1>2, <3>3, SlotsOfRows DEF SlotInv
    <3>5. RowStart(br) <= Begin(s) /\ Begin(s) < End(s) /\ End(s) <= block
      BY <1>2 DEF FilledInv, block
    <3>6. Begin(s) \in Nat /\ End(s) \in Nat
      BY <3>4 DEF ItemType, Begin, End
    <3>7. Begin(s) \in Blocks
      BY <1>4, <1>5, <3>5, <3>6 DEF Blocks
    <3>. QED
      BY <3>1, <3>2, <3>5, <3>6, <3>7 DEF Begin, End
  <2>. HIDE DEF filled, begin, end
  <2>4. /\ packed_flag'[block] = AtomicOutput(br)
        /\ \A s \in Filled(br) : packed_flag'[Begin(s)] = AtomicOutput(br)
        /\ \A b \in block + count .. RowEnd(br) - 1 : packed_flag'[b] = FALSE
    <3>1. block \in Blocks
      BY <1>3, <1>4, <1>5 DEF Blocks
    <3>2. \A s \in Filled(br) : packed_flag[Begin(s)] = AtomicOutput(br)
      BY <1>2 DEF FilledInv
    <3>3. \A b \in block .. RowEnd(br) - 1 : packed_flag[b] = FALSE
      BY <1>2 DEF FilledInv, block
    <3>4. packed_flag[block] = FALSE
      BY <1>3, <1>4, <3>3
    <3>5. \A b \in block + count .. RowEnd(br) - 1 : packed_flag[b] = FALSE /\ b # block
      BY <1>3, <1>4, <3>3
    <3>6. \A s \in Filled(br) : Begin(s) # block
      BY <1>4, <2>3
    <3>7. AtomicOutput(br) \in BOOLEAN
      BY DEF AtomicOutput
    <3>10. block + count .. RowEnd(br) - 1 \subseteq Blocks
      BY <1>3, <1>4, <1>5 DEF Blocks
    <3>8. CASE AtomicOutput(br)
      BY <1>1, <1>7, <2>3, <3>1, <3>2, <3>5, <3>6, <3>8, <3>10
    <3>9. CASE ~AtomicOutput(br)
      BY <1>7, <3>2, <3>4, <3>5, <3>7, <3>9
    <3>. QED
      BY <3>8, <3>9
  <2>5. \A s \in filled :
          /\ work_items'[s].br = br
          /\ RowStart(br) <= begin(s) /\ begin(s) < end(s) /\ end(s) <= block + count
          /\ work_items'[s].value_begin = bitbsr.block_val_ptr[begin(s)]
          /\ packed_flag'[begin(s)] = AtomicOutput(br)
    <3>1. ASSUME NEW s \in Filled(br)
          PROVE  /\ work_items'[s].br = br
                 /\ work_items'[s].value_begin = bitbsr.block_val_ptr[Begin(s)]
      BY <1>2, <1>10, <2>1 DEF FilledInv
    <3>. QED
      BY <1>3, <1>4, <2>1, <2>2, <2>3, <2>4, <3>1
  <2>6. \A s, t \in filled : s < t => end(s) <= begin(t)
    <3>1. \A s, t \in Filled(br) : s < t => End(s) <= Begin(t)
      BY <1>2 DEF FilledInv
    <3>2. ~(out < out) /\ \A s \in Filled(br) : ~(out < s)
      BY <1>4, <2>1, <2>3 DEF Filled
    <3>. QED
      BY <2>1, <2>2, <2>3, <3>1, <3>2
  <2>7. \A b \in RowStart(br) .. block + count - 1 :
          \E s \in filled : b \in begin(s) .. end(s) - 1
    <3>1. \A b \in RowStart(br) .. block - 1 :
            \E s \in Filled(br) : b \in Begin(s) .. End(s) - 1
      BY <1>2 DEF FilledInv, block
    <3>2. ASSUME NEW b \in RowStart(br) .. block + count - 1
          PROVE  \E s \in filled : b \in begin(s) .. end(s) - 1
      <4>1. CASE b < block
        <5>1. PICK s \in Filled(br) : b \in Begin(s) .. End(s) - 1
          BY <1>4, <3>1, <4>1
        <5>. QED
          BY <2>1, <2>3, <5>1
      <4>2. CASE b >= block
        <5>1. b \in begin(out) .. end(out) - 1
          BY <1>3, <1>4, <2>2, <4>2
        <5>. QED
          BY <2>1, <5>1
      <4>. QED
        BY <1>4, <4>1, <4>2
    <3>. QED
      BY <3>2
  <2>8. /\ Filled(br)' = filled
        /\ \A s : Begin(s)' = begin(s) /\ End(s)' = end(s)
    BY <1>4, <1>7, <1>10 DEF Filled, filled, Begin, End, begin, end
  <2>9. /\ (fill[br].block)' = block + count
        /\ bitbsr' = bitbsr /\ RowStart(br)' = RowStart(br) /\ RowEnd(br)' = RowEnd(br)
        /\ AtomicOutput(br)' = AtomicOutput(br)
    BY <1>7, <1>8, <1>10
  <2>10. (\A s \in Filled(br) :
           /\ work_items[s].br = br
           /\ RowStart(br) <= Begin(s) /\ Begin(s) < End(s) /\ End(s) <= fill[br].block
           /\ work_items[s].value_begin = bitbsr.block_val_ptr[Begin(s)]
           /\ packed_flag[Begin(s)] = AtomicOutput(br))'
    BY <2>5, <2>8, <2>9 DEF Begin, End, begin, end
  <2>11. (\A s, t \in Filled(br) : s < t => End(s) <= Begin(t))'
    BY <2>6, <2>8 DEF Begin, End, begin, end
  <2>12. (\A b \in RowStart(br) .. fill[br].block - 1 :
            \E s \in Filled(br) : b \in Begin(s) .. End(s) - 1)'
    <3>1. ASSUME NEW b
          PROVE  (\E s \in Filled(br) : b \in Begin(s) .. End(s) - 1)' <=>
                   \E s \in filled : b \in begin(s) .. end(s) - 1
      BY <2>8 DEF Begin, End, begin, end
    <3>2. (RowStart(br) .. fill[br].block - 1)' = RowStart(br) .. block + count - 1
      BY <1>3, <1>4, <2>9
    <3>. QED
      BY <2>7, <3>1, <3>2
  <2>13. (\A b \in fill[br].block .. RowEnd(br) - 1 : packed_flag[b] = FALSE)'
    BY <2>4, <2>9
  <2>. QED
    BY <2>10, <2>11, <2>12, <2>13 DEF FilledInv
<1>13. ASSUME NEW p \in BlockRows, p # br
       PROVE  ThreadInv(p)' /\ FilledInv(p)'
  <2>1. fill'[p] = fill[p] /\ Filled(p)' = Filled(p)
    BY <1>7, <1>10, <1>13 DEF Filled
  <2>2. ThreadInv(p)'
    BY <1>2, <1>7, <1>8, <2>1 DEF ThreadInv
  <2>a. RowStart(p) \in Nat /\ RowEnd(p) \in Nat /\ RowEnd(p) <= bitbsr.num_blocks
    BY <1>1, RowsOfBlocks
  <2>b. /\ fill[p].block \in Nat /\ fill[p].out \in Nat
        /\ work_item_row_ptr[p] \in Nat /\ work_item_row_ptr[p + 1] \in Nat
    BY <1>1, <1>2, SlotsOfRows DEF SlotInv
  <2>3. /\ RowStart(p) \in Nat /\ RowEnd(p) \in Nat /\ RowEnd(p) <= bitbsr.num_blocks
        /\ fill[p].block \in Nat /\ RowStart(p) <= fill[p].block /\ fill[p].block <= RowEnd(p)
        /\ fill[p].out \in Nat /\ fill[p].out <= work_item_row_ptr[p + 1]
        /\ work_item_row_ptr[p] \in Nat /\ work_item_row_ptr[p + 1] \in Nat
    BY <1>2, <2>a, <2>b DEF ThreadInv
  <2>4. Filled(p) \subseteq Slots(p)
    BY <2>3 DEF Filled, Slots
  <2>5. out \notin Filled(p)
    BY <1>1, <1>2, <1>3, <1>13, <2>4, SlotsOfRows
  <2>6. \A b \in RowStart(p) .. RowEnd(p) - 1 : packed_flag'[b] = packed_flag[b]
    <3>1. block \in RowStart(br) .. RowEnd(br) - 1
      BY <1>3, <1>4
    <3>2. \A b \in RowStart(p) .. RowEnd(p) - 1 : b # block
      BY <1>1, <1>13, <3>1, RowsDisjoint
    <3>3. RowStart(p) .. RowEnd(p) - 1 \subseteq Blocks
      BY <1>5, <2>3 DEF Blocks
    <3>. QED
      BY <1>1, <1>7, <3>2, <3>3
  <2>7. ASSUME NEW s \in Filled(p)
        PROVE  /\ work_items'[s] = work_items[s]
               /\ Begin(s)' = Begin(s) /\ End(s)' = End(s)
               /\ packed_flag'[Begin(s)] = packed_flag[Begin(s)]
    <3>1. work_items'[s] = work_items[s]
      BY <1>10, <2>5
    <3>2. work_items[s] \in ItemType
      BY <1>1, <1>2, <2>4, SlotsOfRows DEF SlotInv
    <3>3. Begin(s) \in Nat /\ End(s) \in Nat
      BY <3>2 DEF ItemType, Begin, End
    <3>4. RowStart(p) <= Begin(s) /\ Begin(s) < End(s) /\ End(s) <= fill[p].block
      BY <1>2 DEF FilledInv
    <3>5. Begin(s) \in RowStart(p) .. RowEnd(p) - 1
      BY <2>3, <3>3, <3>4
    <3>. QED
      BY <2>6, <3>1, <3>5 DEF Begin, End
  <2>8. \A b \in fill[p].block .. RowEnd(p) - 1 : packed_flag'[b] = FALSE
    BY <1>2, <2>3, <2>6 DEF FilledInv
  <2>9. FilledInv(p)'
    <3>1. FilledInv(p)
      BY <1>2
    <3>2. (\A s \in Filled(p) :
             /\ work_items[s].br = p
             /\ RowStart(p) <= Begin(s) /\ Begin(s) < End(s) /\ End(s) <= fill[p].block
             /\ work_items[s].value_begin = bitbsr.block_val_ptr[Begin(s)]
             /\ packed_flag[Begin(s)] = AtomicOutput(p))'
      BY <1>7, <1>8, <2>1, <2>7, <3>1, ZenonT(40) DEF FilledInv, Begin, End
    <3>3. (\A s, t \in Filled(p) : s < t => End(s) <= Begin(t))'
      BY <2>1, <2>7, <3>1 DEF FilledInv, Begin, End
    <3>4. (\A b \in RowStart(p) .. fill[p].block - 1 :
             \E s \in Filled(p) : b \in Begin(s) .. End(s) - 1)'
      BY <1>8, <2>1, <2>7, <3>1 DEF FilledInv, Begin, End
    <3>5. (\A b \in fill[p].block .. RowEnd(p) - 1 : packed_flag[b] = FALSE)'
      BY <1>8, <2>1, <2>8
    <3>. QED
      BY <3>2, <3>3, <3>4, <3>5 DEF FilledInv
  <2>. QED
    BY <2>2, <2>9
<1>. QED
  BY <1>1, <1>7, <1>8, <1>9, <1>11, <1>12, <1>13 DEF LayoutInv, Laid

\* The layout's invariant is kept by every step.
LEMMA LayoutStep ==
  ASSUME ControlInv, LayoutInv, [Next]_vars
  PROVE  LayoutInv'
<1>1. ASSUME UNCHANGED <<bitbsr, layoutVars>>,
             Laid /\ pc' \in {"ready", "running"} =>
               \A br \in BlockRows : fill[br].block = RowEnd(br)
      PROVE  LayoutInv'
  <2>1. /\ SlotInv' <=> SlotInv
        /\ Laid' <=> Laid
        /\ BlockRows' = BlockRows
    BY <1>1 DEF layoutVars, SlotInv, Laid, BlockRows, NumChunks, RowStart, RowEnd
  <2>2. \A br : ThreadInv(br)' <=> ThreadInv(br)
    BY <1>1 DEF layoutVars, ThreadInv, RowStart, RowEnd, EffectiveChunk,
                AtomicOutput, NumChunks
  <2>3. \A br : FilledInv(br)' <=> FilledInv(br)
    BY <1>1 DEF layoutVars, FilledInv, Filled, Begin, End, RowStart, RowEnd,
                AtomicOutput, NumChunks
  <2>4. \A br : (fill[br].block = RowEnd(br))' <=> fill[br].block = RowEnd(br)
    BY <1>1 DEF layoutVars, RowEnd
  <2>. QED
    BY <1>1, <2>1, <2>2, <2>3, <2>4 DEF LayoutInv
<1>2. CASE Pack
  BY <1>2 DEF Pack, ControlInv, LayoutInv, Laid
<1>3. ASSUME NEW c \in ChunkBlocks, NEW t \in SplitThresholds, RejectLayout(c, t)
      PROVE  LayoutInv'
  BY <1>1, <1>3 DEF RejectLayout
<1>4. ASSUME NEW c \in ChunkBlocks, NEW t \in SplitThresholds, BeginLayout(c, t)
      PROVE  LayoutInv'
  BY <1>4, BeginLayoutStep
<1>5. ASSUME NEW br \in BlockRows, FillStep(br)
      PROVE  LayoutInv'
  BY <1>5, FillStepInv
<1>6. CASE FillSync
  <2>1. ASSUME Laid, NEW br \in BlockRows
        PROVE  fill[br].block = RowEnd(br)
    <3>1. FillDone(br) /\ ThreadInv(br) /\ SlotInv
      BY <1>6, <2>1 DEF FillSync, LayoutInv
    <3>2. RowStart(br) \in Int /\ RowEnd(br) \in Int /\ fill[br].block \in Int
      BY <3>1, RowsOfBlocks DEF ControlInv, SlotInv
    <3>3. NumChunks(br) = 0 => RowStart(br) = RowEnd(br)
      BY <3>1 DEF SlotInv
    <3>. QED
      BY <3>1, <3>2, <3>3 DEF FillDone, ThreadInv
  <2>. QED
    BY <1>1, <1>6, <2>1 DEF FillSync
<1>7. CASE Launch
  BY <1>1, <1>7 DEF Launch, LayoutInv
<1>8. ASSUME NEW w \in Warps, Warp(w)
      PROVE  LayoutInv'
  BY <1>1, <1>8 DEF Warp, LayoutInv
<1>9. CASE Sync
  BY <1>1, <1>9 DEF Sync, LayoutInv
<1>10. CASE UNCHANGED vars
  BY <1>1, <1>10 DEF vars, layoutVars, LayoutInv
<1>. QED
  BY <1>2, <1>3, <1>4, <1>5, <1>6, <1>7, <1>8, <1>9, <1>10 DEF Next, Finished

-----------------------------------------------------------------------------
(* A finished layout. *)

\* What a finished layout says about its items, free of the fill threads.
ItemsFit ==
  /\ \A s \in DOMAIN work_items :
       LET q == work_items[s].br IN
       /\ q \in BlockRows /\ s \in Slots(q)
       /\ Begin(s) \in Nat /\ End(s) \in Nat
       /\ RowStart(q) <= Begin(s) /\ Begin(s) < End(s) /\ End(s) <= RowEnd(q)
       /\ work_items[s].value_begin = bitbsr.block_val_ptr[Begin(s)]
       /\ packed_flag[Begin(s)] = AtomicOutput(q)
  /\ \A q \in BlockRows : \A s \in Slots(q) : work_items[s].br = q
  /\ \A s, t \in DOMAIN work_items :
       s # t => End(s) <= Begin(t) \/ End(t) <= Begin(s)
  /\ \A b \in Blocks : \E s \in DOMAIN work_items : b \in Begin(s) .. End(s) - 1

\* Once every fill thread has stopped, its slots are full.
LEMMA FinishedLayout ==
  ASSUME ControlInv, LayoutInv, Laid, pc \in {"ready", "running"}
  PROVE  SlotInv /\ ItemsFit
<1>1. /\ bitbsr \in Matrices /\ SlotInv
      /\ \A br \in BlockRows : /\ ThreadInv(br) /\ FilledInv(br)
                               /\ fill[br].block = RowEnd(br)
  BY DEF ControlInv, LayoutInv
<1>2. ASSUME NEW q \in BlockRows
      PROVE  Filled(q) = Slots(q)
  BY <1>1 DEF ThreadInv, Filled, Slots
<1>3. ASSUME NEW s \in DOMAIN work_items
      PROVE  \E q \in BlockRows :
               /\ s \in Slots(q) /\ work_items[s].br = q
               /\ Begin(s) \in Nat /\ End(s) \in Nat
               /\ RowStart(q) <= Begin(s) /\ Begin(s) < End(s) /\ End(s) <= RowEnd(q)
               /\ work_items[s].value_begin = bitbsr.block_val_ptr[Begin(s)]
               /\ packed_flag[Begin(s)] = AtomicOutput(q)
  <2>1. PICK q \in BlockRows : s \in Slots(q)
    BY <1>1, SlotsOfRows
  <2>2. work_items[s] \in ItemType
    BY <1>1 DEF SlotInv
  <2>3. Begin(s) \in Nat /\ End(s) \in Nat
    BY <2>2 DEF ItemType, Begin, End
  <2>. QED
    BY <1>1, <1>2, <2>1, <2>3 DEF FilledInv
<1>4. \A q \in BlockRows : \A s \in Slots(q) : work_items[s].br = q
  BY <1>1, <1>2 DEF FilledInv
<1>5. ASSUME NEW s \in DOMAIN work_items, NEW t \in DOMAIN work_items, s # t
      PROVE  End(s) <= Begin(t) \/ End(t) <= Begin(s)
  <2>1. PICK p \in BlockRows :
          /\ s \in Slots(p) /\ Begin(s) \in Nat /\ End(s) \in Nat
          /\ RowStart(p) <= Begin(s) /\ Begin(s) < End(s) /\ End(s) <= RowEnd(p)
    BY <1>3
  <2>2. PICK q \in BlockRows :
          /\ t \in Slots(q) /\ Begin(t) \in Nat /\ End(t) \in Nat
          /\ RowStart(q) <= Begin(t) /\ Begin(t) < End(t) /\ End(t) <= RowEnd(q)
    BY <1>3
  <2>3. CASE p = q
    <3>1. s \in Int /\ t \in Int
      BY <1>1, <2>1, <2>2, SlotsOfRows DEF Slots
    <3>2. \A i, j \in Slots(p) : i < j => End(i) <= Begin(j)
      BY <1>1, <1>2 DEF FilledInv
    <3>3. s \in Slots(p) /\ t \in Slots(p)
      BY <2>1, <2>2, <2>3
    <3>4. s < t \/ t < s
      BY <1>5, <3>1
    <3>. QED
      BY <3>2, <3>3, <3>4
  <2>4. CASE p # q
    <3>. DEFINE n == bitbsr.num_block_rows
                f == bitbsr.block_row_ptr
    <3>1. /\ n \in Nat /\ BlockRows = 0 .. n - 1
          /\ \A i, j \in 0 .. n : i <= j => f[i] <= f[j]
          /\ RowStart(p) \in Nat /\ RowEnd(p) \in Nat
          /\ RowStart(q) \in Nat /\ RowEnd(q) \in Nat
          /\ RowStart(p) = f[p] /\ RowEnd(p) = f[p + 1]
          /\ RowStart(q) = f[q] /\ RowEnd(q) = f[q + 1]
      BY <1>1, RowsOfBlocks DEF BlockRows, RowStart, RowEnd
    <3>. HIDE DEF n, f
    <3>2. p < q \/ q < p
      BY <2>4, <3>1
    <3>3. RowEnd(p) <= RowStart(q) \/ RowEnd(q) <= RowStart(p)
      <4>1. p + 1 \in 0 .. n /\ q + 1 \in 0 .. n /\ p \in 0 .. n /\ q \in 0 .. n
        BY <3>1
      <4>2. p < q => p + 1 <= q
        BY <3>1
      <4>3. q < p => q + 1 <= p
        BY <3>1
      <4>. QED
        BY <3>1, <3>2, <4>1, <4>2, <4>3
    <3>. QED
      BY <2>1, <2>2, <3>1, <3>3
  <2>. QED
    BY <2>3, <2>4
<1>6. ASSUME NEW b \in Blocks
      PROVE  \E s \in DOMAIN work_items : b \in Begin(s) .. End(s) - 1
  <2>1. PICK q \in BlockRows : b \in RowStart(q) .. RowEnd(q) - 1
    BY <1>1, BlockHasRow
  <2>2. PICK s \in Slots(q) : b \in Begin(s) .. End(s) - 1
    BY <1>1, <1>2, <2>1 DEF FilledInv
  <2>. QED
    BY <1>1, <2>2, SlotsOfRows
<1>. QED
  BY <1>1, <1>3, <1>4, <1>5, <1>6 DEF ItemsFit

-----------------------------------------------------------------------------
(* The kernel. *)

\* What the operators' kernels may rely on, with and without load balancing.
LEMMA KernelMayRun ==
  ASSUME ControlInv, LayoutInv, pc \in {"ready", "running"}
  PROVE  WarpsFit
<1>1. bitbsr \in Matrices /\ (load_balance <=> Laid)
  BY DEF ControlInv
<1>2. CASE load_balance
  <2>1. SlotInv /\ ItemsFit /\ Warps = DOMAIN work_items
    BY <1>1, <1>2, FinishedLayout DEF Warps
  <2>2. ASSUME NEW w \in Warps
        PROVE  /\ Work(w) = work_items[w]
               /\ Work(w).br \in BlockRows /\ w \in Slots(Work(w).br)
               /\ Work(w).block_begin \in Nat /\ Work(w).block_count \in Nat
               /\ Covers(w) = Begin(w) .. End(w) - 1
               /\ Begin(w) \in Nat /\ End(w) \in Nat
               /\ Covers(w) \subseteq RowStart(Work(w).br) .. RowEnd(Work(w).br) - 1
               /\ Work(w).value_begin = bitbsr.block_val_ptr[Work(w).block_begin]
               /\ Atomic(w) <=> AtomicOutput(Work(w).br)
    <3>1. Work(w) = work_items[w] /\ work_items[w] \in ItemType
      BY <1>2, <2>1 DEF Work, SlotInv
    <3>2. /\ Work(w).br \in BlockRows /\ w \in Slots(Work(w).br)
          /\ Begin(w) \in Nat /\ End(w) \in Nat
          /\ RowStart(Work(w).br) <= Begin(w) /\ End(w) <= RowEnd(Work(w).br)
          /\ work_items[w].value_begin = bitbsr.block_val_ptr[Begin(w)]
          /\ packed_flag[Begin(w)] = AtomicOutput(Work(w).br)
      BY <2>1, <3>1 DEF ItemsFit
    <3>3. Covers(w) = Begin(w) .. End(w) - 1
      BY <3>1 DEF Covers, Begin, End, ItemType
    <3>4. RowStart(Work(w).br) \in Nat /\ RowEnd(Work(w).br) \in Nat
      BY <1>1, <3>2, RowsOfBlocks
    <3>5. Covers(w) \subseteq RowStart(Work(w).br) .. RowEnd(Work(w).br) - 1
      BY <3>2, <3>3, <3>4
    <3>6. Work(w).block_begin \in Nat /\ Work(w).block_count \in Nat
      BY <3>1 DEF ItemType
    <3>7. Atomic(w) <=> AtomicOutput(Work(w).br)
      BY <1>2, <3>2, Zenon DEF Atomic, Begin
    <3>. QED
      BY <3>1, <3>2, <3>3, <3>5, <3>6, <3>7 DEF Begin
  <2>3. \A b \in Blocks : \E w \in Warps : b \in Covers(w)
    BY <2>1, <2>2 DEF ItemsFit
  <2>4. ASSUME NEW v \in Warps, NEW w \in Warps, v # w
        PROVE  Covers(v) \cap Covers(w) = {}
    <3>1. End(v) <= Begin(w) \/ End(w) <= Begin(v)
      BY <2>1, <2>4 DEF ItemsFit
    <3>. QED
      BY <2>2, <3>1
  <2>5. ASSUME NEW v \in Warps, NEW w \in Warps, v # w, Work(v).br = Work(w).br
        PROVE  Atomic(v)
    <3>. DEFINE q == Work(v).br
    <3>1. q \in BlockRows /\ v \in Slots(q) /\ w \in Slots(q)
      BY <2>2, <2>5
    <3>2. work_item_row_ptr[q] \in Nat /\ work_item_row_ptr[q + 1] \in Nat
      BY <1>1, <2>1, <3>1, SlotsOfRows
    <3>3. NumChunks(q) > 1
      BY <2>5, <3>1, <3>2 DEF Slots, NumChunks
    <3>. QED
      BY <2>2, <3>3 DEF AtomicOutput
  <2>. QED
    BY <2>2, <2>3, <2>4, <2>5 DEF WarpsFit
<1>3. CASE ~load_balance
  <2>1. Warps = BlockRows
    BY <1>3 DEF Warps
  <2>2. ASSUME NEW w \in Warps
        PROVE  /\ Work(w).br = w /\ w \in BlockRows
               /\ Work(w).block_begin \in Nat /\ Work(w).block_count \in Nat
               /\ Covers(w) = RowStart(w) .. RowEnd(w) - 1
               /\ Work(w).value_begin = bitbsr.block_val_ptr[Work(w).block_begin]
    <3>1. RowStart(w) \in Nat /\ RowEnd(w) \in Nat /\ RowStart(w) <= RowEnd(w)
      BY <1>1, <2>1, RowsOfBlocks
    <3>. QED
      BY <1>3, <2>1, <3>1 DEF Work, Covers
  <2>3. \A b \in Blocks : \E w \in Warps : b \in Covers(w)
    BY <1>1, <2>1, <2>2, BlockHasRow
  <2>4. ASSUME NEW v \in Warps, NEW w \in Warps, v # w
        PROVE  Covers(v) \cap Covers(w) = {}
    BY <1>1, <2>2, <2>4, RowsDisjoint
  <2>. QED
    BY <2>2, <2>3, <2>4 DEF WarpsFit
<1>. QED
  BY <1>2, <1>3

\* A warp's sum is its blocks, each decoded from its own values.
LEMMA SumOfWarp ==
  ASSUME bitbsr \in Matrices, WarpsFit, NEW w \in Warps
  PROVE  \A c \in Contributions :
           c \in Sum(w) <=> /\ c \in RowBlocks(Work(w).br)
                            /\ c[1] \in Covers(w)
<1>. DEFINE br    == Work(w).br
            begin == Work(w).block_begin
            value == Work(w).value_begin
<1>1. /\ br \in BlockRows /\ begin \in Nat
      /\ Work(w).block_count \in Nat
      /\ Covers(w) = begin .. begin + Work(w).block_count - 1
      /\ Covers(w) \subseteq RowStart(br) .. RowEnd(br) - 1
      /\ Work(w).block_count > 0 => value = bitbsr.block_val_ptr[begin]
  BY DEF WarpsFit, Covers
<1>2. Sum(w) = {<<b, value + ValuesIn(begin, b - begin)>> : b \in Covers(w)}
  BY <1>1 DEF Sum
<1>3. ASSUME NEW b \in Covers(w)
      PROVE  value + ValuesIn(begin, b - begin) = bitbsr.block_val_ptr[b]
  <2>1. b \in Nat /\ begin <= b /\ Work(w).block_count > 0 /\ begin \in Covers(w)
    BY <1>1
  <2>2. RowStart(br) \in Nat /\ RowEnd(br) \in Nat /\ RowEnd(br) <= bitbsr.num_blocks
        /\ bitbsr.num_blocks \in Nat
    BY <1>1, RowsOfBlocks
  <2>3. b \in 0 .. bitbsr.num_blocks /\ begin \in 0 .. bitbsr.num_blocks
    BY <1>1, <2>1, <2>2
  <2>4. bitbsr.block_val_ptr[b] \in Nat /\ bitbsr.block_val_ptr[begin] \in Nat
    BY <2>3, RowsOfBlocks
  <2>5. begin + (b - begin) = b
    BY <1>1, <2>1
  <2>. QED
    BY <1>1, <2>1, <2>4, <2>5 DEF ValuesIn
<1>4. Sum(w) = {<<b, bitbsr.block_val_ptr[b]>> : b \in Covers(w)}
  BY <1>2, <1>3
<1>. QED
  BY <1>1, <1>4 DEF RowBlocks

\* A warp adds its own blocks to its rows and takes nothing back: no other warp
\* has written the rows it overwrites.
LEMMA WarpStep ==
  ASSUME ControlInv, WarpsFit, KernelInv, NEW w \in Warps, Warp(w)
  PROVE  KernelInv'
<1>1. /\ bitbsr \in Matrices /\ pc = "running" /\ w \in pending
      /\ pending' = pending \ {w} /\ y' = WriteY(w)
      /\ UNCHANGED <<bitbsr, load_balance, pc, layoutVars, layouts, calls>>
  BY DEF ControlInv, Warp
<1>2. /\ y \in [Rows -> [Contributions -> Nat]] /\ pending \subseteq Warps
      /\ \A r \in Rows, c \in Contributions :
           y[r][c] = IF Present(r, c, pending) THEN 1 ELSE 0
  BY <1>1 DEF KernelInv
<1>3. /\ Warps' = Warps /\ Rows' = Rows /\ Contributions' = Contributions
      /\ Due' = Due
  BY <1>1 DEF layoutVars, Warps, Rows, Contributions, Blocks, BlockRows, Due, RowBlocks,
              RowStart, RowEnd
<1>5. /\ Work(w).br \in BlockRows
      /\ Covers(w) \subseteq RowStart(Work(w).br) .. RowEnd(Work(w).br) - 1
  BY DEF WarpsFit
<1>6. ASSUME NEW r \in Rows, NEW c \in Contributions
      PROVE  WriteY(w)[r][c] = IF Present(r, c, pending \ {w}) THEN 1 ELSE 0
  <2>. DEFINE here == BlockRowOf(r)
              mine == c \in RowBlocks(here) /\ c[1] \in Covers(w)
  <2>1. Present(r, c, pending \ {w}) <=> Present(r, c, pending) \/ mine
    BY <1>1, <1>2 DEF Present
  <2>2. here \in BlockRows
    BY <1>1, RowHasBlockRow
  <2>3. c \in RowBlocks(here) => c[1] \in RowStart(here) .. RowEnd(here) - 1
    BY DEF RowBlocks
  <2>4. ASSUME NEW v \in Warps, c \in RowBlocks(here), c[1] \in Covers(v)
        PROVE  Work(v).br = here
    <3>1. /\ Work(v).br \in BlockRows
          /\ c[1] \in RowStart(Work(v).br) .. RowEnd(Work(v).br) - 1
      BY <2>4 DEF WarpsFit
    <3>. QED
      BY <1>1, <2>2, <2>3, <2>4, <3>1, RowsDisjoint
  <2>5. mine => here = Work(w).br
    BY <2>4
  <2>6. here = Work(w).br => (mine <=> c \in Sum(w))
    BY <1>1, SumOfWarp
  <2>7. mine => ~Present(r, c, pending)
    <3>1. ASSUME NEW v \in Warps \ pending
          PROVE  Covers(v) \cap Covers(w) = {}
      BY <1>1, <1>2 DEF WarpsFit
    <3>. QED
      BY <3>1 DEF Present
  <2>8. here = Work(w).br /\ ~Atomic(w) => ~Present(r, c, pending)
    <3>1. ASSUME here = Work(w).br, NEW v \in Warps \ pending,
                 c \in RowBlocks(here), c[1] \in Covers(v)
          PROVE  Atomic(w)
      <4>1. Work(v).br = Work(w).br /\ v # w
        BY <1>1, <2>4, <3>1
      <4>. QED
        BY <3>1, <4>1 DEF WarpsFit
    <3>. QED
      BY <3>1 DEF Present
  <2>9. y[r][c] = (IF Present(r, c, pending) THEN 1 ELSE 0) /\ DOMAIN y[r] = Contributions
    BY <1>2
  <2>. HIDE DEF mine
  <2>10. CASE here # Work(w).br
    <3>1. WriteY(w)[r] = y[r]
      BY <2>10 DEF WriteY
    <3>. QED
      BY <2>1, <2>5, <2>9, <2>10, <3>1
  <2>11. CASE here = Work(w).br /\ Atomic(w)
    <3>1. WriteY(w)[r] = AtomicAdd(y[r], Sum(w))
      BY <2>11 DEF WriteY
    <3>2. WriteY(w)[r][c] = y[r][c] + (IF c \in Sum(w) THEN 1 ELSE 0)
      BY <2>9, <3>1 DEF AtomicAdd
    <3>. QED
      BY <2>1, <2>6, <2>7, <2>9, <2>11, <3>2
  <2>12. CASE here = Work(w).br /\ ~Atomic(w)
    <3>1. WriteY(w)[r] = Store(y[r], Sum(w))
      BY <2>12 DEF WriteY
    <3>2. WriteY(w)[r][c] = IF c \in Sum(w) THEN 1 ELSE 0
      BY <2>9, <3>1 DEF Store
    <3>. QED
      BY <2>1, <2>6, <2>8, <2>12, <3>2
  <2>. QED
    BY <2>10, <2>11, <2>12
<1>7. WriteY(w) \in [Rows -> [Contributions -> Nat]]
  <2>1. ASSUME NEW r \in Rows
        PROVE  WriteY(w)[r] \in [Contributions -> Nat]
    <3>1. y[r] \in [Contributions -> Nat] /\ DOMAIN y[r] = Contributions
      BY <1>2
    <3>2. /\ AtomicAdd(y[r], Sum(w)) \in [Contributions -> Nat]
          /\ Store(y[r], Sum(w)) \in [Contributions -> Nat]
      BY <3>1 DEF AtomicAdd, Store
    <3>. QED
      BY <3>1, <3>2 DEF WriteY
  <2>2. WriteY(w) = [r \in Rows |-> WriteY(w)[r]]
    BY DEF WriteY
  <2>. QED
    BY <2>1, <2>2
<1>8. \A r \in Rows, c \in Contributions :
        y'[r][c] = IF Present(r, c, pending)' THEN 1 ELSE 0
  <2>1. \A r, c : Present(r, c, pending)' <=> Present(r, c, pending \ {w})
    BY <1>1, <1>3 DEF Present, layoutVars, RowBlocks, RowStart, RowEnd, Covers, Work
  <2>. QED
    BY <1>1, <1>6, <2>1
<1>. QED
  BY <1>1, <1>2, <1>3, <1>7, <1>8 DEF KernelInv

\* When every warp has written, each block is in each of its rows once.
LEMMA AllWritten ==
  ASSUME ControlInv, WarpsFit, KernelInv, pc = "running", pending = {}
  PROVE  y = Due
<1>1. /\ y \in [Rows -> [Contributions -> Nat]]
      /\ \A r \in Rows, c \in Contributions :
           y[r][c] = IF Present(r, c, {}) THEN 1 ELSE 0
  BY DEF KernelInv
<1>2. ASSUME NEW r \in Rows, NEW c \in Contributions
      PROVE  Present(r, c, {}) <=> c \in RowBlocks(BlockRowOf(r))
  <2>1. c[1] \in Blocks
    BY DEF Contributions
  <2>2. \E w \in Warps : c[1] \in Covers(w)
    BY <2>1 DEF WarpsFit
  <2>. QED
    BY <2>2 DEF Present
<1>3. Due \in [Rows -> [Contributions -> Nat]]
  BY DEF Due
<1>4. ASSUME NEW r \in Rows
      PROVE  y[r] = Due[r]
  <2>1. \A c \in Contributions : y[r][c] = Due[r][c]
    BY <1>1, <1>2 DEF Due
  <2>2. y[r] \in [Contributions -> Nat] /\ Due[r] \in [Contributions -> Nat]
    BY <1>1, <1>3
  <2>. QED
    BY <2>1, <2>2
<1>. QED
  BY <1>1, <1>3, <1>4

\* The kernel's invariant is kept by every step.
LEMMA KernelStepInv ==
  ASSUME ControlInv, LayoutInv, KernelInv, [Next]_vars
  PROVE  KernelInv'
<1>1. ASSUME UNCHANGED <<bitbsr, y, calls, pending>>, pc # "running", pc' # "running"
      PROVE  KernelInv'
  <2>1. pending = {} /\ Rows' = Rows /\ Contributions' = Contributions /\ Due' = Due
    BY <1>1 DEF KernelInv, Rows, Contributions, Blocks, Due, RowBlocks, RowStart, RowEnd
  <2>. QED
    BY <1>1, <2>1 DEF KernelInv
<1>2. CASE Pack
  BY <1>1, <1>2 DEF Pack
<1>3. ASSUME NEW c \in ChunkBlocks, NEW t \in SplitThresholds, RejectLayout(c, t)
      PROVE  KernelInv'
  BY <1>1, <1>3 DEF RejectLayout, MayLayout
<1>4. ASSUME NEW c \in ChunkBlocks, NEW t \in SplitThresholds, BeginLayout(c, t)
      PROVE  KernelInv'
  <2>1. pc' # "running"
    BY <1>4 DEF BeginLayout
  <2>. QED
    BY <1>1, <1>4, <2>1 DEF BeginLayout, MayLayout
<1>5. ASSUME NEW br \in BlockRows, FillStep(br)
      PROVE  KernelInv'
  BY <1>1, <1>5 DEF FillStep
<1>6. CASE FillSync
  BY <1>1, <1>6 DEF FillSync
<1>7. CASE Launch
  <2>1. /\ pc' = "running" /\ y' = ZeroY /\ bitbsr' = bitbsr /\ bitbsr \in Matrices
        /\ pending' = IF bitbsr.num_blocks = 0 THEN {} ELSE Warps
        /\ UNCHANGED <<bitbsr, load_balance, layoutVars>>
    BY <1>7 DEF Launch, ControlInv
  <2>2. /\ Warps' = Warps /\ Rows' = Rows /\ Contributions' = Contributions
    BY <2>1 DEF layoutVars, Warps, Rows, Contributions, Blocks, BlockRows
  <2>3. bitbsr.num_blocks = 0 => Contributions = {}
    BY DEF Contributions, Blocks
  <2>4. bitbsr.num_blocks # 0 => \A r, c : ~Present(r, c, pending)'
    BY <2>1, <2>2 DEF Present
  <2>5. \A r \in Rows, c \in Contributions :
          y'[r][c] = IF Present(r, c, pending)' THEN 1 ELSE 0
    BY <2>1, <2>3, <2>4 DEF ZeroY
  <2>6. y' \in [Rows -> [Contributions -> Nat]] /\ pending' \subseteq Warps
    BY <2>1 DEF ZeroY
  <2>. QED
    BY <2>1, <2>2, <2>5, <2>6 DEF KernelInv
<1>8. ASSUME NEW w \in Warps, Warp(w)
      PROVE  KernelInv'
  BY <1>8, KernelMayRun, WarpStep DEF Warp
<1>9. CASE Sync
  <2>1. WarpsFit /\ pc = "running" /\ pending = {}
    BY <1>9, KernelMayRun DEF Sync
  <2>2. y = Due
    BY <2>1, AllWritten
  <2>3. Rows' = Rows /\ Contributions' = Contributions /\ Due' = Due /\ y' = y
        /\ pending' = {} /\ pc' = "ready"
    BY <1>9, <2>1 DEF Sync, Rows, Contributions, Blocks, Due, RowBlocks, RowStart, RowEnd
  <2>. QED
    BY <2>2, <2>3 DEF KernelInv
<1>10. CASE UNCHANGED vars
  <2>1. /\ Warps' = Warps /\ Rows' = Rows /\ Contributions' = Contributions /\ Due' = Due
        /\ y' = y /\ pending' = pending /\ pc' = pc /\ calls' = calls
    BY <1>10 DEF vars, Warps, Rows, Contributions, Blocks, BlockRows, Due, RowBlocks,
                 RowStart, RowEnd
  <2>2. \A r, c : Present(r, c, pending)' <=> Present(r, c, pending)
    BY <1>10, <2>1 DEF vars, Present, RowBlocks, RowStart, RowEnd, Covers, Work
  <2>. QED
    BY <2>1, <2>2 DEF KernelInv
<1>. QED
  BY <1>2, <1>3, <1>4, <1>5, <1>6, <1>7, <1>8, <1>9, <1>10 DEF Next, Finished

-----------------------------------------------------------------------------
(* The theorems. *)

LEMMA InitInv == Init => IInv
<1>. SUFFICES ASSUME Init PROVE IInv
  OBVIOUS
<1>1. ControlInv
  BY BoundsAssumption DEF Init, ControlInv, Laid
<1>2. LayoutInv
  BY DEF Init, LayoutInv, Laid
<1>3. KernelInv
  BY DEF Init, KernelInv
<1>. QED
  BY <1>1, <1>2, <1>3 DEF IInv

\* The inductive invariant holds in every state of every run.
THEOREM Inductive == Spec => []IInv
<1>1. IInv /\ [Next]_vars => IInv'
  BY ControlStep, LayoutStep, KernelStepInv DEF IInv
<1>. QED
  BY InitInv, <1>1, PTL DEF Spec

\* Type correctness of the layout builder and the operators, for every matrix:
\* the cursors of a fill thread lie in the matrix and in the allocated items,
\* and y never holds anything but counts.
THEOREM TypeCorrect == Spec => []TypeOK
<1>1. ASSUME IInv PROVE TypeOK
  <2>1. ASSUME pc = "fill"
        PROVE  fill \in [BlockRows -> [block : 0 .. bitbsr.num_blocks,
                                       value_pos : 0 .. bitbsr.nnz,
                                       out : 0 .. Cardinality(DOMAIN work_items)]]
    <3>. DEFINE n    == bitbsr.num_block_rows
                last == work_item_row_ptr[n]
    <3>1. /\ bitbsr \in Matrices /\ SlotInv
          /\ \A br \in BlockRows : ThreadInv(br)
      BY <1>1, <2>1 DEF IInv, ControlInv, LayoutInv
    <3>2. /\ n \in Nat /\ work_item_row_ptr \in [0 .. n -> Nat] /\ last \in Nat
          /\ DOMAIN work_items = 0 .. last - 1
          /\ fill \in [BlockRows -> [block : Nat, value_pos : Nat, out : Nat]]
      BY <3>1, RowsOfBlocks DEF SlotInv
    <3>3. Cardinality(DOMAIN work_items) = last
      BY <3>2, FS_Interval
    <3>. HIDE DEF n, last
    <3>4. ASSUME NEW br \in BlockRows
          PROVE  fill[br] \in [block : 0 .. bitbsr.num_blocks, value_pos : 0 .. bitbsr.nnz,
                               out : 0 .. last]
      <4>1. fill[br] \in [block : Nat, value_pos : Nat, out : Nat]
        BY <3>2
      <4>2. fill[br].block \in 0 .. bitbsr.num_blocks
        <5>1. RowEnd(br) \in Nat /\ RowEnd(br) <= bitbsr.num_blocks /\ bitbsr.num_blocks \in Nat
          BY <3>1, RowsOfBlocks
        <5>2. fill[br].block \in Nat /\ fill[br].block <= RowEnd(br)
          BY <3>1, <4>1 DEF ThreadInv
        <5>. QED
          BY <5>1, <5>2
      <4>3. fill[br].value_pos \in 0 .. bitbsr.nnz
        BY <3>1, <4>2, RowsOfBlocks DEF ThreadInv
      <4>4. fill[br].out \in 0 .. last
        <5>1. fill[br].out <= work_item_row_ptr[br + 1]
          <6>1. RowEnd(br) \in Int /\ fill[br].block \in Int /\ fill[br].out \in Int
                /\ work_item_row_ptr[br + 1] \in Int
            BY <3>1, <4>1, RowsOfBlocks, SlotsOfRows
          <6>. QED
            BY <3>1, <6>1 DEF ThreadInv
        <5>2. \A i, j \in 0 .. n : i <= j => work_item_row_ptr[i] <= work_item_row_ptr[j]
          <6>1. \A i \in 0 .. n - 1 : work_item_row_ptr[i] <= work_item_row_ptr[i + 1]
            BY <3>1 DEF SlotInv, BlockRows, n
          <6>. QED
            BY <3>2, <6>1, StepwiseMonotone, work_item_row_ptr \in [0 .. n -> Int]
        <5>3. br + 1 \in 0 .. n /\ n \in 0 .. n /\ br + 1 <= n
          BY <3>2 DEF BlockRows, n
        <5>4. work_item_row_ptr[br + 1] <= last /\ work_item_row_ptr[br + 1] \in Nat
          BY <3>2, <5>2, <5>3 DEF last
        <5>. QED
          BY <3>2, <4>1, <5>1, <5>4
      <4>. QED
        BY <4>1, <4>2, <4>3, <4>4
    <3>. QED
      BY <3>2, <3>3, <3>4
  <2>. QED
    BY <1>1, <2>1 DEF IInv, ControlInv, KernelInv, TypeOK
<1>. QED
  BY Inductive, <1>1, PTL

\* After k turns of one chunk or more each, k blocks or more are behind.
LEMMA TurnsTakeBlocks ==
  ASSUME NEW k \in Nat, NEW chunk \in Nat \ {0}
  PROVE  k <= k * chunk
<1>1. k * chunk = k * (chunk - 1) + k
  OBVIOUS
<1>2. k * (chunk - 1) \in Nat
  OBVIOUS
<1>. QED
  BY <1>1, <1>2

\* A row never has more items than blocks.
LEMMA ChunksTakeBlocks ==
  ASSUME NEW len \in Nat, NEW chunk \in Nat \ {0}
  PROVE  ceil_div(len, chunk) <= len
<1>1. len <= len * chunk
  BY TurnsTakeBlocks
<1>2. ~(len < ceil_div(len, chunk))
  BY <1>1, CeilDivCounts, len * chunk \in Nat
<1>. QED
  BY <1>2, CeilDivCounts

\* Every fill thread stays among the blocks, the slots and the values of its own
\* block row in every interleaving: no two threads of the fill kernel write the
\* same item, whatever the matrix, the chunk size and the threshold.
THEOREM FillKeepsToItsRow == Spec => []FillStaysInRow
<1>1. ASSUME IInv PROVE FillStaysInRow
  <2>. SUFFICES ASSUME pc = "fill", NEW br \in BlockRows
                PROVE  LET t     == fill[br]
                           first == work_item_row_ptr[br]
                           last  == work_item_row_ptr[br + 1]
                       IN  /\ t.block \in RowStart(br) .. RowEnd(br)
                           /\ t.value_pos = bitbsr.block_val_ptr[t.block]
                           /\ t.out \in first .. last
                           /\ t.out - first <= t.block - RowStart(br)
                           /\ t.block < RowEnd(br) <=> t.out < last
    BY DEF FillStaysInRow
  <2>. DEFINE block == fill[br].block
              out   == fill[br].out
              first == work_item_row_ptr[br]
              last  == work_item_row_ptr[br + 1]
              start == RowStart(br)
              end   == RowEnd(br)
              ec    == EffectiveChunk(br)
              k     == out - first
  <2>1. /\ bitbsr \in Matrices /\ SlotInv /\ ThreadInv(br) /\ chunk_blocks \in Nat \ {0}
    BY <1>1 DEF IInv, ControlInv, LayoutInv, Laid
  <2>2. start \in Int /\ end \in Int /\ start <= end
    BY <2>1, RowsOfBlocks
  <2>3. block \in Nat /\ out \in Nat
    BY <2>1 DEF SlotInv
  <2>4. first \in Nat /\ last \in Nat /\ first <= last
    BY <2>1, SlotsOfRows DEF SlotInv
  <2>5. /\ start <= block /\ block <= end /\ first <= out
        /\ fill[br].value_pos = bitbsr.block_val_ptr[block]
        /\ block < end => out < last /\ block = start + k * ec
        /\ block = end => out = last
    BY <2>1 DEF ThreadInv
  <2>6. NumChunks(br) = last - first
    BY DEF NumChunks
  <2>7. /\ NumChunks(br) = 0 <=> start = end
        /\ NumChunks(br) > 1 => NumChunks(br) = ceil_div(end - start, chunk_blocks)
    BY <2>1 DEF SlotInv
  <2>8. ec = IF NumChunks(br) > 1 THEN chunk_blocks ELSE end - start
    BY DEF EffectiveChunk, AtomicOutput
  <2>. HIDE DEF block, out, first, last, start, end, ec
  <2>9. k <= block - start
    <3>1. CASE block < end
      <4>1. ec \in Nat \ {0} /\ k \in Nat
        BY <2>1, <2>2, <2>3, <2>4, <2>5, <2>8, <3>1
      <4>2. k <= k * ec
        BY <4>1, TurnsTakeBlocks
      <4>. QED
        BY <2>2, <2>5, <3>1, <4>1, <4>2
    <3>2. CASE block = end
      <4>1. k = NumChunks(br) /\ end - start \in Nat
        BY <2>2, <2>5, <2>6, <3>2
      <4>2. NumChunks(br) <= end - start
        BY <2>1, <2>2, <2>4, <2>6, <2>7, <4>1, ChunksTakeBlocks
      <4>. QED
        BY <3>2, <4>1, <4>2
    <3>. QED
      BY <2>2, <2>3, <2>5, <3>1, <3>2
  <2>. QED
    BY <2>2, <2>3, <2>4, <2>5, <2>9 DEF block, out, first, last, start, end
<1>. QED
  BY Inductive, <1>1, PTL

\* The counting kernel, the scan and the fill loop agree for every matrix,
\* chunk size and threshold: the finished items cut the blocks into disjoint
\* non-empty runs inside the rows, none left out.
THEOREM Tiling == Spec => []LayoutTiles
<1>1. ASSUME IInv, LayoutReady PROVE ItemsFit /\ SlotInv /\ bitbsr \in Matrices
  BY <1>1, FinishedLayout DEF IInv, LayoutReady, Laid, ControlInv
<1>2. ASSUME IInv PROVE LayoutTiles
  <2>. SUFFICES ASSUME LayoutReady
                PROVE  /\ \A s \in DOMAIN work_items :
                            /\ work_items[s].block_count > 0
                            /\ ItemBlocks(s) \subseteq
                                 RowStart(work_items[s].br) .. RowEnd(work_items[s].br) - 1
                            /\ work_items[s].value_begin =
                                 bitbsr.block_val_ptr[work_items[s].block_begin]
                       /\ \A b \in Blocks : \E s \in DOMAIN work_items : b \in ItemBlocks(s)
                       /\ \A s, t \in DOMAIN work_items :
                            s # t => ItemBlocks(s) \cap ItemBlocks(t) = {}
    BY DEF LayoutTiles
  <2>1. ItemsFit /\ SlotInv /\ bitbsr \in Matrices
    BY <1>1, <1>2
  <2>2. \A s \in DOMAIN work_items : ItemBlocks(s) = Begin(s) .. End(s) - 1
    BY <2>1 DEF ItemBlocks, Begin, End, SlotInv, ItemType
  <2>3. ASSUME NEW s \in DOMAIN work_items
        PROVE  /\ work_items[s].block_count > 0
               /\ ItemBlocks(s) \subseteq
                    RowStart(work_items[s].br) .. RowEnd(work_items[s].br) - 1
               /\ work_items[s].value_begin =
                    bitbsr.block_val_ptr[work_items[s].block_begin]
    <3>. DEFINE q == work_items[s].br
    <3>1. /\ q \in BlockRows /\ Begin(s) \in Nat /\ End(s) \in Nat
          /\ RowStart(q) <= Begin(s) /\ Begin(s) < End(s) /\ End(s) <= RowEnd(q)
          /\ work_items[s].value_begin = bitbsr.block_val_ptr[Begin(s)]
      BY <2>1 DEF ItemsFit
    <3>2. RowStart(q) \in Nat /\ RowEnd(q) \in Nat
      BY <2>1, <3>1, RowsOfBlocks
    <3>3. work_items[s] \in ItemType
      BY <2>1 DEF SlotInv
    <3>4. work_items[s].block_count > 0
      BY <3>1, <3>3 DEF Begin, End, ItemType
    <3>. QED
      BY <2>2, <3>1, <3>2, <3>4 DEF Begin
  <2>4. \A b \in Blocks : \E s \in DOMAIN work_items : b \in ItemBlocks(s)
    BY <2>1, <2>2 DEF ItemsFit
  <2>5. ASSUME NEW s \in DOMAIN work_items, NEW t \in DOMAIN work_items, s # t
        PROVE  ItemBlocks(s) \cap ItemBlocks(t) = {}
    <3>1. /\ End(s) <= Begin(t) \/ End(t) <= Begin(s)
          /\ Begin(s) \in Nat /\ End(s) \in Nat /\ Begin(t) \in Nat /\ End(t) \in Nat
      BY <2>1, <2>5 DEF ItemsFit
    <3>. QED
      BY <2>2, <3>1
  <2>. QED
    BY <2>3, <2>4, <2>5
<1>. QED
  BY Inductive, <1>2, PTL

\* The flag on an item's first block is raised exactly when another item writes
\* the same rows, for every matrix and however often the layout was rebuilt.
THEOREM FlagsAgree == Spec => []FlagsFit
<1>1. ASSUME IInv PROVE FlagsFit
  <2>. SUFFICES ASSUME LayoutReady, NEW s \in DOMAIN work_items
                PROVE  packed_flag[work_items[s].block_begin] <=>
                         \E t \in DOMAIN work_items :
                           t # s /\ work_items[t].br = work_items[s].br
    BY DEF FlagsFit
  <2>. DEFINE q == work_items[s].br
  <2>1. ItemsFit /\ SlotInv /\ bitbsr \in Matrices
    BY <1>1, FinishedLayout DEF IInv, LayoutReady, Laid, ControlInv
  <2>2. q \in BlockRows /\ s \in Slots(q)
    BY <2>1 DEF ItemsFit
  <2>3. packed_flag[work_items[s].block_begin] = AtomicOutput(q)
    BY <2>1 DEF ItemsFit, Begin
  <2>4. \A t \in DOMAIN work_items : work_items[t].br = q => t \in Slots(q)
    BY <2>1 DEF ItemsFit
  <2>5. \A t \in Slots(q) : t \in DOMAIN work_items /\ work_items[t].br = q
    BY <2>1, <2>2, SlotsOfRows DEF ItemsFit
  <2>6. work_item_row_ptr[q] \in Nat /\ work_item_row_ptr[q + 1] \in Nat
    BY <2>1, <2>2, SlotsOfRows
  <2>7. AtomicOutput(q) <=> \E t \in Slots(q) : t # s
    <3>. DEFINE first == work_item_row_ptr[q]
                last  == work_item_row_ptr[q + 1]
    <3>1. Slots(q) = first .. last - 1 /\ (AtomicOutput(q) <=> last - first > 1)
      BY DEF Slots, AtomicOutput, NumChunks
    <3>. HIDE DEF first, last, q
    <3>2. first \in Nat /\ last \in Nat /\ s \in first .. last - 1
      BY <2>2, <2>6, <3>1 DEF first, last
    <3>3. (last - first > 1) <=> \E t \in first .. last - 1 : t # s
      <4>1. CASE s = first
        <5>1. last - first > 1 => first + 1 \in first .. last - 1 /\ first + 1 # s
          BY <3>2, <4>1
        <5>2. \A t \in first .. last - 1 : t # s => last - first > 1
          BY <3>2, <4>1
        <5>. QED
          BY <5>1, <5>2
      <4>2. CASE s # first
        <5>1. first \in first .. last - 1 /\ first # s /\ last - first > 1
          BY <3>2, <4>2
        <5>. QED
          BY <5>1
      <4>. QED
        BY <4>1, <4>2
    <3>. QED
      BY <3>1, <3>3
  <2>. QED
    BY <2>3, <2>4, <2>5, <2>7
<1>. QED
  BY Inductive, <1>1, PTL

\* Every call leaves each block in every row of its block row exactly once,
\* for every matrix, layout and number of calls, in every order of the warps.
THEOREM Exact == Spec => []ExactlyOnce
<1>1. IInv => ExactlyOnce
  BY DEF IInv, KernelInv, ExactlyOnce
<1>. QED
  BY Inductive, <1>1, PTL

\* The operators implement the abstract call: every step of the host, of a fill
\* thread or of a warp is a step of the call or leaves it as it was.
THEOREM Refinement == Spec => ImplementsSpmvCall
<1>. DEFINE callOf == IF pc = "running" THEN "running"
                      ELSE IF calls > 0 THEN "returned" ELSE "idle"
<1>1. Init => Abstract!Init
  BY DEF Init, Abstract!Init
<1>2. ASSUME IInv, IInv', [Next]_vars
      PROVE  [Abstract!Next]_(Abstract!vars)
  <2>. USE <1>2
  <2>1. ControlInv /\ KernelInv /\ KernelInv' /\ LayoutInv /\ calls \in Nat
    BY BoundsAssumption DEF IInv, ControlInv
  <2>2. ASSUME UNCHANGED <<bitbsr, y, calls>>, pc # "running", pc' # "running"
        PROVE  UNCHANGED Abstract!vars
    <3>1. Due' = Due
      BY <2>2 DEF Due, Rows, Contributions, Blocks, RowBlocks, RowStart, RowEnd
    <3>. QED
      BY <2>2, <3>1 DEF Abstract!vars
  <2>3. CASE Pack
    BY <2>2, <2>3 DEF Pack
  <2>4. ASSUME NEW c \in ChunkBlocks, NEW t \in SplitThresholds, RejectLayout(c, t)
        PROVE  UNCHANGED Abstract!vars
    BY <2>2, <2>4 DEF RejectLayout, MayLayout
  <2>5. ASSUME NEW c \in ChunkBlocks, NEW t \in SplitThresholds, BeginLayout(c, t)
        PROVE  UNCHANGED Abstract!vars
    <3>1. pc' # "running" /\ pc # "running" /\ UNCHANGED <<bitbsr, y, calls>>
      BY <2>5 DEF BeginLayout, MayLayout
    <3>. QED
      BY <2>2, <3>1
  <2>6. ASSUME NEW br \in BlockRows, FillStep(br)
        PROVE  UNCHANGED Abstract!vars
    BY <2>2, <2>6 DEF FillStep
  <2>7. CASE FillSync
    BY <2>2, <2>7 DEF FillSync
  <2>8. CASE Launch
    <3>1. /\ pc = "ready" /\ pc' = "running" /\ bitbsr' = bitbsr
          /\ y' = [r \in Rows |-> [c \in Contributions |-> 0]]
      BY <2>8 DEF Launch, ZeroY
    <3>2. Due' = Due
      BY <3>1 DEF Due, Rows, Contributions, Blocks, RowBlocks, RowStart, RowEnd
    <3>3. DOMAIN Due = Rows /\ \A r \in Rows : DOMAIN Due[r] = Contributions
      BY DEF Due
    <3>4. y' = [r \in DOMAIN Due' |-> [c \in DOMAIN Due'[r] |-> 0]]
      BY <3>1, <3>2, <3>3
    <3>5. callOf # "running" /\ callOf' = "running"
      BY <3>1
    <3>6. Abstract!Begin
      BY <3>4, <3>5 DEF Abstract!Begin
    <3>. QED
      BY <3>6 DEF Abstract!Next
  <2>9. ASSUME NEW w \in Warps, Warp(w)
        PROVE  Abstract!Add
    <3>1. /\ pc = "running" /\ pc' = "running" /\ w \in pending
          /\ pending' = pending \ {w}
          /\ UNCHANGED <<bitbsr, load_balance, layoutVars, calls>>
      BY <2>9 DEF Warp
    <3>2. /\ Due' = Due /\ Rows' = Rows /\ Contributions' = Contributions /\ Warps' = Warps
      BY <3>1 DEF Due, Rows, Contributions, Blocks, BlockRows, RowBlocks, RowStart, RowEnd,
                  Warps, layoutVars
    <3>3. /\ y \in [Rows -> [Contributions -> Nat]]
          /\ y' \in [Rows -> [Contributions -> Nat]]
          /\ \A r \in Rows, c \in Contributions :
               /\ y[r][c] = IF Present(r, c, pending) THEN 1 ELSE 0
               /\ y'[r][c] = IF Present(r, c, pending)' THEN 1 ELSE 0
      BY <2>1, <3>1, <3>2 DEF KernelInv
    <3>4. \A r, c : Present(r, c, pending)' <=> Present(r, c, pending \ {w})
      BY <3>1, <3>2 DEF Present, layoutVars, RowBlocks, RowStart, RowEnd, Covers, Work
    <3>5. \A r, c : Present(r, c, pending) => Present(r, c, pending \ {w})
      BY DEF Present
    <3>6. \A r \in Rows, c \in Contributions :
            Present(r, c, pending \ {w}) => Due[r][c] = 1
      BY DEF Present, Due
    <3>7. ASSUME NEW r \in Rows, NEW c \in Contributions
          PROVE  \/ y'[r][c] = y[r][c]
                 \/ y[r][c] = 0 /\ Due[r][c] = 1 /\ y'[r][c] = 1
      BY <3>3, <3>4, <3>5, <3>6, ZenonT(40)
    <3>8. /\ DOMAIN y = Rows /\ DOMAIN y' = Rows
          /\ \A r \in Rows : DOMAIN y[r] = Contributions /\ DOMAIN y'[r] = Contributions
      BY <3>3
    <3>9. callOf = "running" /\ callOf' = callOf
      BY <3>1
    <3>. QED
      BY <3>2, <3>7, <3>8, <3>9 DEF Abstract!Add
  <2>10. CASE Sync
    <3>1. /\ pc = "running" /\ pc' = "ready" /\ pending = {} /\ calls' = calls + 1
          /\ y' = y /\ bitbsr' = bitbsr
      BY <2>10 DEF Sync
    <3>2. y = Due
      BY <2>1, <3>1, KernelMayRun, AllWritten
    <3>3. Due' = Due
      BY <3>1 DEF Due, Rows, Contributions, Blocks, RowBlocks, RowStart, RowEnd
    <3>4. callOf = "running" /\ callOf' = "returned"
      BY <2>1, <3>1
    <3>5. Abstract!Return
      BY <3>1, <3>2, <3>3, <3>4 DEF Abstract!Return
    <3>. QED
      BY <3>5 DEF Abstract!Next
  <2>11. CASE UNCHANGED vars
    BY <2>11 DEF vars, Abstract!vars, Due, Rows, Contributions, Blocks, RowBlocks,
                 RowStart, RowEnd
  <2>. QED
    BY <2>3, <2>4, <2>5, <2>6, <2>7, <2>8, <2>9, <2>10, <2>11
    DEF Next, Finished, Abstract!Next
<1>. QED
  BY Inductive, <1>1, <1>2, PTL DEF Spec, ImplementsSpmvCall, Abstract!Spec
=============================================================================
