-------------------------- MODULE HybridSpmv_proofs --------------------------
(***************************************************************************)
(* The safety properties of HybridSpmv hold for every split matrix, every  *)
(* chunk size and threshold, any number of calls and every order of warps. *)
(*                                                                         *)
(* The layout is a function of the matrix and the options, so the argument *)
(* is about what it gives: LayoutFits says which warp adds which block and *)
(* which residual entry to which row, and that a warp that is not alone on *)
(* a row adds atomically.  The inductive invariant then follows y through  *)
(* the kernels of a call: a contribution is in y once if the warp or the   *)
(* thread that owns it has run, and not at all otherwise.                  *)
(***************************************************************************)
EXTENDS HybridSpmv, PrefixSums_proofs

ControlInv ==
  /\ split \in Splits
  /\ mode \in {"fused_lb", "two_pass"}
  /\ lb_chunk_blocks \in ChunkBlocks
  /\ lb_split_threshold_blocks \in SplitThresholds
  /\ long_row_tau \in LongRowSplits
  /\ pc \in {"start", "ready", "bulk", "correct", "residual"}
  /\ corrected \in BOOLEAN
  /\ corrected => mode = "fused_lb"
  /\ calls \in Nat
  /\ pc = "start" => calls = 0
  /\ pc = "correct" => HasCorrection
  /\ pc = "residual" => HasResidualPass

LayoutInv ==
  pc # "start" =>
    /\ work_items = Items
    /\ packed_flag = Flags(Items)
    /\ long_chunks = IF mode = "fused_lb" THEN LongChunks ELSE << >>

\* What a warp of the bulk kernel adds to a row.
ItemAdds(item, r) ==
  IF BlockRowOf(r) = item.br THEN ItemBlocks(item) \cup ItemResidual(item, r) ELSE {}

ChunkAdds(chunk, r) ==
  IF chunk.row = r THEN Residual(chunk.pbegin, chunk.pcount) ELSE {}

Adds(w, r) ==
  IF w[1] = "item" THEN ItemAdds(work_items[w[2]], r) ELSE ChunkAdds(long_chunks[w[2]], r)

ByWarp(r, c, running) == \E w \in Warps \ running : c \in Adds(w, r)

ByThread(r, c, running) ==
  \E t \in OutlierThreads \ running :
    split.outlier_rows[t[2]] = r /\ c = <<"outlier", t[2], t[2]>>

BySparse(r, c) == c \in Residual(ResidualBegin(r), ResidualLength(r))

\* The contributions that are in row r so far.
Present(r, c) ==
  \/ pc = "bulk" /\ ByWarp(r, c, pending)
  \/ pc = "correct" /\ (ByWarp(r, c, {}) \/ ByThread(r, c, pending))
  \/ pc = "residual" /\ (ByWarp(r, c, {}) \/ BySparse(r, c))

Running == pc \in {"bulk", "correct", "residual"}

KernelInv ==
  /\ y \in [Rows -> [Contributions -> Nat]]
  /\ pc \in {"start", "ready", "residual"} => pending = {}
  /\ pc = "bulk" => pending \subseteq Warps
  /\ pc = "correct" => pending \subseteq OutlierThreads
  /\ Running => \A r \in Rows, c \in Contributions :
                  y[r][c] = IF Present(r, c) THEN 1 ELSE 0
  /\ pc = "ready" /\ calls > 0 => y = Due

IInv == ControlInv /\ LayoutInv /\ KernelInv

-----------------------------------------------------------------------------
(* The split matrix. *)

LEMMA SplitFacts ==
  ASSUME split \in Splits
  PROVE  /\ split.rows \in Nat /\ split.num_block_rows \in Nat /\ split.num_blocks \in Nat
         /\ split.nnz \in Nat /\ split.outliers \in Nat
         /\ split.block_row_ptr \in [0 .. split.num_block_rows -> 0 .. split.num_blocks]
         /\ split.block_row_ptr[0] = 0
         /\ split.block_row_ptr[split.num_block_rows] = split.num_blocks
         /\ split.block_val_ptr \in [0 .. split.num_blocks -> 0 .. split.nnz]
         /\ split.residual_row_ptr \in [0 .. split.rows -> Nat]
         /\ split.residual_row_ptr[0] = 0
         /\ \A i \in 0 .. split.num_block_rows - 1 :
              split.block_row_ptr[i] <= split.block_row_ptr[i + 1]
         /\ \A r \in 0 .. split.rows - 1 :
              split.residual_row_ptr[r] <= split.residual_row_ptr[r + 1]
<1>1. IsSplit(split)
  BY SplitsAssumption
<1>2. IsBitBsr(split)
  BY <1>1 DEF IsSplit
<1>3. split.rows \in Nat /\ split.num_block_rows = ceil_div(split.rows, kSpmv8x4BlockRows)
  BY <1>2 DEF IsBitBsr
<1>4. split.num_block_rows \in Nat
  BY <1>3, CeilDivCounts, BlockRowsAssumption
<1>. QED
  BY <1>1, <1>2, <1>3, <1>4 DEF IsSplit, IsBitBsr

\* The blocks of a block row, and the residual entries of a row.
LEMMA RowFacts ==
  ASSUME split \in Splits
  PROVE  /\ \A br \in BlockRows :
              /\ RowStart(br) \in 0 .. split.num_blocks
              /\ RowStart(br) + BlockCount(br) \in 0 .. split.num_blocks
              /\ RowStart(br) + BlockCount(br) = split.block_row_ptr[br + 1]
              /\ BlockCount(br) \in Nat
         /\ \A r \in Rows :
              /\ ResidualBegin(r) \in Nat /\ ResidualLength(r) \in Nat
              /\ ResidualBegin(r) + ResidualLength(r) = split.residual_row_ptr[r + 1]
<1>1. ASSUME NEW br \in BlockRows
      PROVE  /\ RowStart(br) \in 0 .. split.num_blocks
             /\ RowStart(br) + BlockCount(br) \in 0 .. split.num_blocks
             /\ RowStart(br) + BlockCount(br) = split.block_row_ptr[br + 1]
             /\ BlockCount(br) \in Nat
  <2>1. /\ br \in 0 .. split.num_block_rows - 1 /\ br \in 0 .. split.num_block_rows
        /\ br + 1 \in 0 .. split.num_block_rows
    BY SplitFacts DEF BlockRows
  <2>2. /\ split.block_row_ptr[br] \in 0 .. split.num_blocks
        /\ split.block_row_ptr[br + 1] \in 0 .. split.num_blocks
        /\ split.block_row_ptr[br] <= split.block_row_ptr[br + 1]
    BY <2>1, SplitFacts
  <2>. QED
    BY <2>2, SplitFacts, SMTT(30) DEF RowStart, BlockCount
<1>2. ASSUME NEW r \in Rows
      PROVE  /\ ResidualBegin(r) \in Nat /\ ResidualLength(r) \in Nat
             /\ ResidualBegin(r) + ResidualLength(r) = split.residual_row_ptr[r + 1]
  <2>1. r \in 0 .. split.rows - 1 /\ r \in 0 .. split.rows /\ r + 1 \in 0 .. split.rows
    BY SplitFacts DEF Rows
  <2>2. /\ split.residual_row_ptr[r] \in Nat /\ split.residual_row_ptr[r + 1] \in Nat
        /\ split.residual_row_ptr[r] <= split.residual_row_ptr[r + 1]
    BY <2>1, SplitFacts
  <2>. QED
    BY <2>2 DEF ResidualBegin, ResidualLength
<1>. QED
  BY <1>1, <1>2

\* A block lies in one block row.
LEMMA BlockHasRow ==
  ASSUME split \in Splits, NEW b \in Blocks
  PROVE  \E br \in BlockRows : RowStart(br) <= b /\ b < RowStart(br) + BlockCount(br)
<1>. DEFINE n == split.num_block_rows
            f == split.block_row_ptr
<1>1. n \in Nat /\ f \in [0 .. n -> Int] /\ f[0] = 0 /\ f[n] = split.num_blocks
  BY SplitFacts
<1>2. b \in Int /\ f[0] <= b /\ b < f[n]
  BY <1>1, SplitFacts DEF Blocks
<1>. HIDE DEF n, f
<1>3. PICK i \in 0 .. n - 1 : f[i] <= b /\ b < f[i + 1]
  BY <1>1, <1>2, RowOfIndex
<1>. QED
  BY <1>3, RowFacts DEF BlockRows, RowStart, n, f

LEMMA BlockRowUnique ==
  ASSUME split \in Splits, NEW p \in BlockRows, NEW q \in BlockRows, NEW b \in Int,
         RowStart(p) <= b, b < RowStart(p) + BlockCount(p),
         RowStart(q) <= b, b < RowStart(q) + BlockCount(q)
  PROVE  p = q
<1>. DEFINE n == split.num_block_rows
            f == split.block_row_ptr
<1>1. /\ n \in Nat /\ f \in [0 .. n -> Int] /\ \A i \in 0 .. n - 1 : f[i] <= f[i + 1]
      /\ p \in 0 .. n - 1 /\ q \in 0 .. n - 1
  BY SplitFacts DEF BlockRows
<1>2. f[p] <= b /\ b < f[p + 1] /\ f[q] <= b /\ b < f[q + 1]
  BY RowFacts DEF RowStart
<1>. HIDE DEF n, f
<1>. QED
  BY <1>1, <1>2, RowOfIndexUnique

\* A residual entry lies in one row.
LEMMA ResidualRowUnique ==
  ASSUME split \in Splits, NEW p \in Rows, NEW q \in Rows, NEW e \in Int,
         ResidualBegin(p) <= e, e < ResidualBegin(p) + ResidualLength(p),
         ResidualBegin(q) <= e, e < ResidualBegin(q) + ResidualLength(q)
  PROVE  p = q
<1>. DEFINE n == split.rows
            f == split.residual_row_ptr
<1>1. /\ n \in Nat /\ f \in [0 .. n -> Int] /\ \A i \in 0 .. n - 1 : f[i] <= f[i + 1]
      /\ p \in 0 .. n - 1 /\ q \in 0 .. n - 1
  BY SplitFacts DEF Rows
<1>2. f[p] <= e /\ e < f[p + 1] /\ f[q] <= e /\ e < f[q + 1]
  BY RowFacts DEF ResidualBegin
<1>. HIDE DEF n, f
<1>. QED
  BY <1>1, <1>2, RowOfIndexUnique

\* Every row lies in a block row.
LEMMA RowHasBlockRow ==
  ASSUME split \in Splits, NEW r \in Rows
  PROVE  BlockRowOf(r) \in BlockRows
<1>. DEFINE k == BlockRowOf(r)
<1>1. split.rows \in Nat /\ r \in 0 .. split.rows - 1
  BY SplitFacts DEF Rows
<1>2. split.num_block_rows = ceil_div(split.rows, kSpmv8x4BlockRows)
  BY SplitsAssumption DEF IsSplit, IsBitBsr
<1>3. k \in Nat /\ k * kSpmv8x4BlockRows <= r
  BY <1>1, BlockRowsAssumption DEF BlockRowOf
<1>4. k * kSpmv8x4BlockRows < split.rows
  BY <1>1, <1>3, BlockRowsAssumption
<1>5. k < split.num_block_rows
  BY <1>1, <1>2, <1>3, <1>4, CeilDivCounts, BlockRowsAssumption
<1>. QED
  BY <1>3, <1>5, SplitFacts DEF BlockRows

-----------------------------------------------------------------------------
(* The layout. *)

\* The search for the owner of a slot of a scan finds it, and finds it from
\* each of the slots it owns.
LEMMA OwnerIs ==
  ASSUME NEW n \in Nat, NEW c \in [0 .. n - 1 -> Nat]
  PROVE  /\ \A s \in 0 .. PrefixSum(c, n)[n] - 1 :
              /\ OwnerOf(PrefixSum(c, n), n, s) \in 0 .. n - 1
              /\ s - PrefixSum(c, n)[OwnerOf(PrefixSum(c, n), n, s)]
                   \in 0 .. c[OwnerOf(PrefixSum(c, n), n, s)] - 1
         /\ \A i \in 0 .. n - 1 : \A k \in 0 .. c[i] - 1 :
              /\ PrefixSum(c, n)[i] + k \in 0 .. PrefixSum(c, n)[n] - 1
              /\ OwnerOf(PrefixSum(c, n), n, PrefixSum(c, n)[i] + k) = i
              /\ (PrefixSum(c, n)[i] + k) - PrefixSum(c, n)[i] = k
         /\ \A i \in 0 .. n - 1 : PrefixSum(c, n)[i] \in Nat
         /\ PrefixSum(c, n)[n] \in Nat
<1>. DEFINE p == PrefixSum(c, n)
<1>1. /\ \A s \in 0 .. p[n] - 1 : \E i \in 0 .. n - 1 :
           /\ p[i] <= s /\ s < p[i + 1]
           /\ s - p[i] \in 0 .. c[i] - 1
      /\ \A s \in Int : \A i, j \in 0 .. n - 1 :
           /\ p[i] <= s /\ s < p[i + 1]
           /\ p[j] <= s /\ s < p[j + 1]
           => i = j
      /\ \A i \in 0 .. n - 1 : \A k \in 0 .. c[i] - 1 :
           /\ p[i] + k \in 0 .. p[n] - 1
           /\ p[i] <= p[i] + k
           /\ p[i] + k < p[i + 1]
  BY SlotsOfCounts, Zenon
<1>2. p \in [0 .. n -> Nat]
  BY PrefixSumSteps
<1>. HIDE DEF p
<1>3. ASSUME NEW s \in 0 .. p[n] - 1
      PROVE  OwnerOf(p, n, s) \in 0 .. n - 1 /\ s - p[OwnerOf(p, n, s)] \in 0 .. c[OwnerOf(p, n, s)] - 1
  <2>1. PICK i \in 0 .. n - 1 : /\ p[i] <= s /\ s < p[i + 1]
                                /\ s - p[i] \in 0 .. c[i] - 1
    BY <1>1
  <2>2. /\ OwnerOf(p, n, s) \in 0 .. n - 1
        /\ p[OwnerOf(p, n, s)] <= s /\ s < p[OwnerOf(p, n, s) + 1]
    BY <2>1, Zenon DEF OwnerOf
  <2>3. OwnerOf(p, n, s) = i
    BY <1>1, <2>1, <2>2, s \in Int
  <2>. QED
    BY <2>1, <2>3
<1>4. ASSUME NEW i \in 0 .. n - 1, NEW k \in 0 .. c[i] - 1
      PROVE  /\ p[i] + k \in 0 .. p[n] - 1 /\ OwnerOf(p, n, p[i] + k) = i
             /\ (p[i] + k) - p[i] = k
  <2>1. p[i] + k \in 0 .. p[n] - 1 /\ p[i] <= p[i] + k /\ p[i] + k < p[i + 1]
    BY <1>1
  <2>. DEFINE s == p[i] + k
  <2>2. s \in Int
    BY <2>1
  <2>. HIDE DEF s
  <2>3. /\ OwnerOf(p, n, s) \in 0 .. n - 1
        /\ p[OwnerOf(p, n, s)] <= s /\ s < p[OwnerOf(p, n, s) + 1]
    BY <2>1, Zenon DEF OwnerOf, s
  <2>4. OwnerOf(p, n, s) = i
    BY <1>1, <2>1, <2>2, <2>3 DEF s
  <2>5. p[i] \in Int /\ k \in Int
    BY <1>2
  <2>. QED
    BY <2>1, <2>4, <2>5 DEF s
<1>5. (\A i \in 0 .. n - 1 : p[i] \in Nat) /\ p[n] \in Nat
  BY <1>2
<1>. QED
  BY <1>3, <1>4, <1>5, Zenon DEF p

OptionsInv ==
  /\ split \in Splits
  /\ mode \in {"fused_lb", "two_pass"}
  /\ lb_chunk_blocks \in Nat \ {0}
  /\ lb_split_threshold_blocks \in Nat \ {0}
  /\ long_row_tau \in Int

LEMMA Options == ControlInv => OptionsInv
  BY OptionsAssumption DEF ControlInv, OptionsInv

\* Where an item begins and ends.
First(item) == item.block_begin
Last(item)  == item.block_begin + item.block_count

\* The items of one block row follow each other inside it, cover it, and are
\* not empty when the block row was cut; an uncut one has at most one item.
LEMMA ItemsOfRow ==
  ASSUME OptionsInv, NEW br \in BlockRows
  PROVE  /\ ItemCount(br) \in Nat
         /\ \A k \in 0 .. ItemCount(br) - 1 :
              /\ ItemOf(br, k).br = br
              /\ First(ItemOf(br, k)) \in Nat /\ ItemOf(br, k).block_count \in Nat
              /\ Last(ItemOf(br, k)) \in Nat
              /\ RowStart(br) <= First(ItemOf(br, k))
              /\ Last(ItemOf(br, k)) <= RowStart(br) + BlockCount(br)
              /\ IsCut(br) => First(ItemOf(br, k)) < Last(ItemOf(br, k))
              /\ ItemOf(br, k).value_begin = split.block_val_ptr[First(ItemOf(br, k))]
         /\ \A k, l \in 0 .. ItemCount(br) - 1 :
              k < l => IsCut(br) /\ Last(ItemOf(br, k)) <= First(ItemOf(br, l))
         /\ \A b \in Int : RowStart(br) <= b /\ b < RowStart(br) + BlockCount(br) =>
              \E k \in 0 .. ItemCount(br) - 1 :
                First(ItemOf(br, k)) <= b /\ b < Last(ItemOf(br, k))
         /\ mode = "fused_lb" => /\ 0 \in 0 .. ItemCount(br) - 1
                                 /\ First(ItemOf(br, 0)) = RowStart(br)
<1>. DEFINE start == RowStart(br)
            len   == BlockCount(br)
<1>1. start \in Nat /\ len \in Nat
  BY RowFacts, SplitFacts DEF OptionsInv
<1>2. CASE IsCut(br)
  <2>. DEFINE chunk == lb_chunk_blocks
              n     == ceil_div(len, chunk)
  <2>1. ItemCount(br) = n /\ chunk \in Nat \ {0} /\ len > 0
    BY <1>1, <1>2 DEF ItemCount, OptionsInv, IsCut
  <2>2. n \in Nat /\ \A k \in Nat : k * chunk < len <=> k < n
    BY <1>1, <2>1, CeilDivCounts
  <2>3. /\ \A k \in 0 .. n - 1 :
             /\ k * chunk \in Nat /\ ChunkEnd(len, chunk, k) \in Nat
             /\ k * chunk < ChunkEnd(len, chunk, k)
             /\ ChunkEnd(len, chunk, k) <= len
        /\ \A k, l \in 0 .. n - 1 : k < l => ChunkEnd(len, chunk, k) <= l * chunk
        /\ \A o \in 0 .. len - 1 : \E k \in 0 .. n - 1 :
             k * chunk <= o /\ o < ChunkEnd(len, chunk, k)
    BY <1>1, <2>1, ChunksTile
  <2>4. ASSUME NEW k \in 0 .. n - 1
        PROVE  /\ ItemOf(br, k).br = br
               /\ First(ItemOf(br, k)) = start + k * chunk
               /\ Last(ItemOf(br, k)) = start + ChunkEnd(len, chunk, k)
               /\ ItemOf(br, k).block_count = ChunkEnd(len, chunk, k) - k * chunk
               /\ ItemOf(br, k).value_begin = split.block_val_ptr[start + k * chunk]
    <3>. DEFINE kc == k * chunk
    <3>1. kc \in Nat
      BY <2>3
    <3>2. /\ ItemOf(br, k).br = br /\ ItemOf(br, k).block_begin = start + kc
          /\ ItemOf(br, k).block_count = Smaller(chunk, start + len - (start + kc))
          /\ ItemOf(br, k).value_begin = split.block_val_ptr[start + kc]
      BY <1>2 DEF ItemOf
    <3>3. ChunkEnd(len, chunk, k) = kc + Smaller(chunk, len - kc)
      BY DEF ChunkEnd
    <3>. HIDE DEF kc, start, len, chunk
    <3>4. start + len - (start + kc) = len - kc /\ Smaller(chunk, len - kc) \in Int
      BY <1>1, <2>1, <3>1 DEF Smaller
    <3>5. ItemOf(br, k).block_count = Smaller(chunk, len - kc)
      BY <3>2, <3>4
    <3>6. /\ start + kc + Smaller(chunk, len - kc) = start + (kc + Smaller(chunk, len - kc))
          /\ Smaller(chunk, len - kc) = (kc + Smaller(chunk, len - kc)) - kc
      BY <1>1, <3>1, <3>4
    <3>. QED
      BY <3>2, <3>3, <3>5, <3>6 DEF First, Last, kc
  <2>. HIDE DEF chunk, n, start, len
  <2>5. ASSUME NEW k \in 0 .. n - 1
        PROVE  /\ ItemOf(br, k).br = br
               /\ First(ItemOf(br, k)) \in Nat /\ ItemOf(br, k).block_count \in Nat
               /\ Last(ItemOf(br, k)) \in Nat
               /\ start <= First(ItemOf(br, k))
               /\ Last(ItemOf(br, k)) <= start + len
               /\ First(ItemOf(br, k)) < Last(ItemOf(br, k))
               /\ ItemOf(br, k).value_begin = split.block_val_ptr[First(ItemOf(br, k))]
    BY <1>1, <2>3, <2>4
  <2>6. ASSUME NEW k \in 0 .. n - 1, NEW l \in 0 .. n - 1, k < l
        PROVE  Last(ItemOf(br, k)) <= First(ItemOf(br, l))
    <3>1. ChunkEnd(len, chunk, k) <= l * chunk /\ ChunkEnd(len, chunk, k) \in Nat /\ l * chunk \in Nat
      BY <2>3, <2>6
    <3>. QED
      BY <1>1, <2>4, <3>1
  <2>7. ASSUME NEW b \in Int, start <= b, b < start + len
        PROVE  \E k \in 0 .. n - 1 : First(ItemOf(br, k)) <= b /\ b < Last(ItemOf(br, k))
    <3>1. b - start \in 0 .. len - 1
      BY <1>1, <2>7
    <3>2. PICK k \in 0 .. n - 1 : k * chunk <= b - start /\ b - start < ChunkEnd(len, chunk, k)
      BY <2>3, <3>1
    <3>3. k * chunk \in Nat /\ ChunkEnd(len, chunk, k) \in Nat
      BY <2>3
    <3>. QED
      BY <1>1, <2>4, <3>2, <3>3
  <2>8. 0 \in 0 .. n - 1 /\ First(ItemOf(br, 0)) = start
    <3>1. 0 \in 0 .. n - 1
      BY <2>1, <2>2
    <3>2. 0 * chunk = 0
      BY <2>1
    <3>. QED
      BY <1>1, <2>4, <3>1, <3>2
  <2>. QED
    BY <1>2, <2>1, <2>2, <2>5, <2>6, <2>7, <2>8 DEF start, len
<1>3. CASE ~IsCut(br)
  <2>1. /\ ItemCount(br) \in {0, 1}
        /\ mode = "fused_lb" \/ len > 0 => ItemCount(br) = 1
    BY <1>3 DEF ItemCount
  <2>2. \A k \in 0 .. ItemCount(br) - 1 : k = 0
    BY <2>1
  <2>3. /\ ItemOf(br, 0).br = br /\ ItemOf(br, 0).block_begin = start + 0 * len
        /\ ItemOf(br, 0).block_count = Smaller(len, start + len - (start + 0 * len))
        /\ ItemOf(br, 0).value_begin = split.block_val_ptr[start + 0 * len]
    BY <1>3 DEF ItemOf
  <2>. HIDE DEF start, len
  <2>4. start + 0 * len = start /\ Smaller(len, start + len - start) = len
    BY <1>1 DEF Smaller
  <2>5. /\ First(ItemOf(br, 0)) = start /\ Last(ItemOf(br, 0)) = start + len
        /\ ItemOf(br, 0).block_count = len
        /\ ItemOf(br, 0).value_begin = split.block_val_ptr[start]
    BY <2>3, <2>4 DEF First, Last
  <2>6. /\ ItemCount(br) \in Nat
        /\ mode = "fused_lb" => 0 \in 0 .. ItemCount(br) - 1
        /\ \A b \in Int : start <= b /\ b < start + len => 0 \in 0 .. ItemCount(br) - 1
    BY <1>1, <2>1
  <2>7. \A k, l \in 0 .. ItemCount(br) - 1 : ~(k < l)
    BY <2>2
  <2>8. start <= start /\ start + len \in Nat /\ start + len <= start + len
    BY <1>1
  <2>9. \A k \in 0 .. ItemCount(br) - 1 :
              /\ ItemOf(br, k).br = br
              /\ First(ItemOf(br, k)) \in Nat /\ ItemOf(br, k).block_count \in Nat
              /\ Last(ItemOf(br, k)) \in Nat
              /\ start <= First(ItemOf(br, k))
              /\ Last(ItemOf(br, k)) <= start + len
              /\ ItemOf(br, k).value_begin = split.block_val_ptr[First(ItemOf(br, k))]
    BY <1>1, <2>2, <2>3, <2>5, <2>8
  <2>. QED
    BY <1>3, <2>5, <2>6, <2>7, <2>9 DEF start, len
<1>. QED
  BY <1>2, <1>3

\* The slots of a block row's items.
ItemSlot(br) ==
  PrefixSum([b \in BlockRows |-> ItemCount(b)], split.num_block_rows)[br]

\* Every slot holds one item of one block row, every item has its slot.
LEMMA ItemsAre ==
  ASSUME OptionsInv
  PROVE  /\ \A br \in BlockRows : ItemSlot(br) \in Nat
         /\ \A s \in DOMAIN Items : \E br \in BlockRows : \E k \in 0 .. ItemCount(br) - 1 :
              s = ItemSlot(br) + k /\ Items[s] = ItemOf(br, k)
         /\ \A br \in BlockRows : \A k \in 0 .. ItemCount(br) - 1 :
              /\ ItemSlot(br) + k \in DOMAIN Items
              /\ Items[ItemSlot(br) + k] = ItemOf(br, k)
<1>. DEFINE n == split.num_block_rows
            c == [br \in BlockRows |-> ItemCount(br)]
            p == PrefixSum(c, n)
<1>1. n \in Nat /\ c \in [0 .. n - 1 -> Nat] /\ BlockRows = 0 .. n - 1
      /\ \A br \in BlockRows : c[br] = ItemCount(br)
  BY SplitFacts, ItemsOfRow DEF OptionsInv, BlockRows
<1>2. Items = [s \in 0 .. p[n] - 1 |->
                 ItemOf(OwnerOf(p, n, s), s - p[OwnerOf(p, n, s)])]
  BY DEF Items
<1>3. \A br : ItemSlot(br) = p[br]
  BY DEF ItemSlot
<1>. HIDE DEF n, c
<1>4. /\ \A s \in 0 .. PrefixSum(c, n)[n] - 1 :
           /\ OwnerOf(PrefixSum(c, n), n, s) \in 0 .. n - 1
           /\ s - PrefixSum(c, n)[OwnerOf(PrefixSum(c, n), n, s)]
                \in 0 .. c[OwnerOf(PrefixSum(c, n), n, s)] - 1
      /\ \A i \in 0 .. n - 1 : \A k \in 0 .. c[i] - 1 :
           /\ PrefixSum(c, n)[i] + k \in 0 .. PrefixSum(c, n)[n] - 1
           /\ OwnerOf(PrefixSum(c, n), n, PrefixSum(c, n)[i] + k) = i
           /\ (PrefixSum(c, n)[i] + k) - PrefixSum(c, n)[i] = k
      /\ \A i \in 0 .. n - 1 : PrefixSum(c, n)[i] \in Nat
      /\ PrefixSum(c, n)[n] \in Nat
  BY <1>1, OwnerIs
<1>. HIDE DEF p
<1>5. ASSUME NEW s \in DOMAIN Items
      PROVE  \E br \in BlockRows : \E k \in 0 .. ItemCount(br) - 1 :
               s = ItemSlot(br) + k /\ Items[s] = ItemOf(br, k)
  <2>. DEFINE o == OwnerOf(p, n, s)
              k == s - p[o]
  <2>1. s \in 0 .. p[n] - 1
    BY <1>2
  <2>2. o \in BlockRows /\ k \in 0 .. ItemCount(o) - 1 /\ p[o] \in Nat /\ s \in Int
    BY <1>1, <1>4, <2>1 DEF p
  <2>3. Items[s] = ItemOf(o, k)
    BY <1>2, <2>1
  <2>4. s = ItemSlot(o) + k
    BY <1>3, <2>2
  <2>. QED
    BY <2>2, <2>3, <2>4
<1>6. ASSUME NEW br \in BlockRows, NEW k \in 0 .. ItemCount(br) - 1
      PROVE  ItemSlot(br) + k \in DOMAIN Items /\ Items[ItemSlot(br) + k] = ItemOf(br, k)
  <2>1. p[br] + k \in 0 .. p[n] - 1 /\ OwnerOf(p, n, p[br] + k) = br /\ (p[br] + k) - p[br] = k
    BY <1>1, <1>4 DEF p
  <2>. QED
    BY <1>2, <1>3, <2>1
<1>. QED
  BY <1>1, <1>3, <1>4, <1>5, <1>6 DEF p

\* The chunks of a row, the k-th of them, and the slots of a row's chunks.
ChunkCount(r) == IF IsLongRow(r) THEN ceil_div(ResidualLength(r), chunk_nnz) ELSE 0

ChunkOf(r, k) ==
  [row |-> r, pbegin |-> ResidualBegin(r) + k * chunk_nnz,
   pcount |-> Smaller(chunk_nnz, ResidualLength(r) - k * chunk_nnz)]

ChunkSlot(r) == PrefixSum([q \in Rows |-> ChunkCount(q)], split.rows)[r]

LEMMA ChunksOfRow ==
  ASSUME OptionsInv, NEW r \in Rows
  PROVE  /\ ChunkCount(r) \in Nat
         /\ ~IsLongRow(r) => ChunkCount(r) = 0
         /\ \A k \in 0 .. ChunkCount(r) - 1 :
              /\ ChunkOf(r, k).row = r
              /\ ChunkOf(r, k).pbegin \in Nat /\ ChunkOf(r, k).pcount \in Nat
              /\ ResidualBegin(r) <= ChunkOf(r, k).pbegin
              /\ ChunkOf(r, k).pbegin + ChunkOf(r, k).pcount
                   <= ResidualBegin(r) + ResidualLength(r)
         /\ \A k, l \in 0 .. ChunkCount(r) - 1 :
              k < l => ChunkOf(r, k).pbegin + ChunkOf(r, k).pcount <= ChunkOf(r, l).pbegin
         /\ \A e \in Int :
              /\ IsLongRow(r)
              /\ ResidualBegin(r) <= e /\ e < ResidualBegin(r) + ResidualLength(r)
              => \E k \in 0 .. ChunkCount(r) - 1 :
                   /\ ChunkOf(r, k).pbegin <= e
                   /\ e < ChunkOf(r, k).pbegin + ChunkOf(r, k).pcount
<1>. DEFINE start == ResidualBegin(r)
            len   == ResidualLength(r)
            chunk == chunk_nnz
            n     == ceil_div(len, chunk)
<1>1. start \in Nat /\ len \in Nat /\ chunk \in Nat \ {0}
  BY RowFacts, OptionsAssumption DEF OptionsInv
<1>2. n \in Nat
  BY <1>1, CeilDivCounts
<1>3. /\ \A k \in 0 .. n - 1 :
           /\ k * chunk \in Nat /\ ChunkEnd(len, chunk, k) \in Nat
           /\ k * chunk < ChunkEnd(len, chunk, k)
           /\ ChunkEnd(len, chunk, k) <= len
      /\ \A k, l \in 0 .. n - 1 : k < l => ChunkEnd(len, chunk, k) <= l * chunk
      /\ \A o \in 0 .. len - 1 : \E k \in 0 .. n - 1 :
           k * chunk <= o /\ o < ChunkEnd(len, chunk, k)
  BY <1>1, ChunksTile
<1>4. /\ ChunkCount(r) = IF IsLongRow(r) THEN n ELSE 0
      /\ \A k : /\ ChunkOf(r, k).row = r /\ ChunkOf(r, k).pbegin = start + k * chunk
                /\ ChunkOf(r, k).pcount = Smaller(chunk, len - k * chunk)
  BY DEF ChunkCount, ChunkOf
<1>. HIDE DEF start, len, chunk, n
<1>5. ASSUME NEW k \in 0 .. n - 1
      PROVE  /\ ChunkOf(r, k).pbegin \in Nat /\ ChunkOf(r, k).pcount \in Nat
             /\ ChunkOf(r, k).pbegin = start + k * chunk
             /\ ChunkOf(r, k).pbegin + ChunkOf(r, k).pcount = start + ChunkEnd(len, chunk, k)
             /\ start <= ChunkOf(r, k).pbegin
             /\ start + ChunkEnd(len, chunk, k) <= start + len
  <2>. DEFINE kc == k * chunk
              m  == Smaller(chunk, len - kc)
  <2>1. kc \in Nat /\ kc < kc + m /\ kc + m \in Nat /\ kc + m <= len
    BY <1>3 DEF ChunkEnd
  <2>2. m \in Int
    BY <1>1, <2>1 DEF Smaller
  <2>3. ChunkEnd(len, chunk, k) = kc + m
    BY DEF ChunkEnd
  <2>4. ChunkOf(r, k).pbegin = start + kc /\ ChunkOf(r, k).pcount = m
    BY <1>4
  <2>. HIDE DEF kc, m
  <2>5. m \in Nat /\ start + kc \in Nat /\ start <= start + kc
        /\ start + kc + m = start + (kc + m) /\ start + (kc + m) <= start + len
    BY <1>1, <2>1, <2>2
  <2>. QED
    BY <2>3, <2>4, <2>5 DEF kc
<1>6. ASSUME NEW k \in 0 .. n - 1, NEW l \in 0 .. n - 1, k < l
      PROVE  ChunkOf(r, k).pbegin + ChunkOf(r, k).pcount <= ChunkOf(r, l).pbegin
  <2>1. ChunkEnd(len, chunk, k) <= l * chunk /\ ChunkEnd(len, chunk, k) \in Nat /\ l * chunk \in Nat
    BY <1>3, <1>6
  <2>. QED
    BY <1>1, <1>5, <2>1
<1>7. ASSUME NEW e \in Int, start <= e, e < start + len
      PROVE  \E k \in 0 .. n - 1 : /\ ChunkOf(r, k).pbegin <= e
                                   /\ e < ChunkOf(r, k).pbegin + ChunkOf(r, k).pcount
  <2>1. e - start \in 0 .. len - 1
    BY <1>1, <1>7
  <2>2. PICK k \in 0 .. n - 1 : k * chunk <= e - start /\ e - start < ChunkEnd(len, chunk, k)
    BY <1>3, <2>1
  <2>3. k * chunk \in Nat /\ ChunkEnd(len, chunk, k) \in Nat
    BY <1>3
  <2>. QED
    BY <1>1, <1>5, <2>2, <2>3
<1>8. CASE IsLongRow(r)
  BY <1>2, <1>4, <1>5, <1>6, <1>7, <1>8 DEF start, len
<1>9. CASE ~IsLongRow(r)
  BY <1>4, <1>9
<1>. QED
  BY <1>8, <1>9

\* Every slot holds one chunk of one long row, every chunk has its slot.
LEMMA ChunksAre ==
  ASSUME OptionsInv
  PROVE  /\ \A r \in Rows : ChunkSlot(r) \in Nat
         /\ \A j \in DOMAIN LongChunks : \E r \in Rows : \E k \in 0 .. ChunkCount(r) - 1 :
              j = ChunkSlot(r) + k /\ LongChunks[j] = ChunkOf(r, k)
         /\ \A r \in Rows : \A k \in 0 .. ChunkCount(r) - 1 :
              /\ ChunkSlot(r) + k \in DOMAIN LongChunks
              /\ LongChunks[ChunkSlot(r) + k] = ChunkOf(r, k)
<1>. DEFINE n == split.rows
            c == [r \in Rows |-> ChunkCount(r)]
            p == PrefixSum(c, n)
<1>1. n \in Nat /\ c \in [0 .. n - 1 -> Nat] /\ Rows = 0 .. n - 1
      /\ \A r \in Rows : c[r] = ChunkCount(r)
  BY SplitFacts, ChunksOfRow DEF OptionsInv, Rows
<1>2. LongChunks = [j \in 0 .. p[n] - 1 |->
                      ChunkOf(OwnerOf(p, n, j), j - p[OwnerOf(p, n, j)])]
  BY Zenon DEF LongChunks, ChunkOf, ChunkCount
<1>3. \A r : ChunkSlot(r) = p[r]
  BY DEF ChunkSlot
<1>. HIDE DEF n, c
<1>4. /\ \A s \in 0 .. PrefixSum(c, n)[n] - 1 :
           /\ OwnerOf(PrefixSum(c, n), n, s) \in 0 .. n - 1
           /\ s - PrefixSum(c, n)[OwnerOf(PrefixSum(c, n), n, s)]
                \in 0 .. c[OwnerOf(PrefixSum(c, n), n, s)] - 1
      /\ \A i \in 0 .. n - 1 : \A k \in 0 .. c[i] - 1 :
           /\ PrefixSum(c, n)[i] + k \in 0 .. PrefixSum(c, n)[n] - 1
           /\ OwnerOf(PrefixSum(c, n), n, PrefixSum(c, n)[i] + k) = i
           /\ (PrefixSum(c, n)[i] + k) - PrefixSum(c, n)[i] = k
      /\ \A i \in 0 .. n - 1 : PrefixSum(c, n)[i] \in Nat
      /\ PrefixSum(c, n)[n] \in Nat
  BY <1>1, OwnerIs
<1>. HIDE DEF p
<1>5. ASSUME NEW j \in DOMAIN LongChunks
      PROVE  \E r \in Rows : \E k \in 0 .. ChunkCount(r) - 1 :
               j = ChunkSlot(r) + k /\ LongChunks[j] = ChunkOf(r, k)
  <2>. DEFINE o == OwnerOf(p, n, j)
              k == j - p[o]
  <2>1. j \in 0 .. p[n] - 1
    BY <1>2
  <2>2. o \in Rows /\ k \in 0 .. ChunkCount(o) - 1 /\ p[o] \in Nat /\ j \in Int
    BY <1>1, <1>4, <2>1 DEF p
  <2>3. LongChunks[j] = ChunkOf(o, k)
    BY <1>2, <2>1
  <2>4. j = ChunkSlot(o) + k
    BY <1>3, <2>2
  <2>. QED
    BY <2>2, <2>3, <2>4
<1>6. ASSUME NEW r \in Rows, NEW k \in 0 .. ChunkCount(r) - 1
      PROVE  ChunkSlot(r) + k \in DOMAIN LongChunks /\ LongChunks[ChunkSlot(r) + k] = ChunkOf(r, k)
  <2>1. p[r] + k \in 0 .. p[n] - 1 /\ OwnerOf(p, n, p[r] + k) = r /\ (p[r] + k) - p[r] = k
    BY <1>1, <1>4 DEF p
  <2>. QED
    BY <1>2, <1>3, <2>1
<1>. QED
  BY <1>1, <1>3, <1>4, <1>5, <1>6 DEF p

\* What the warps of the bulk kernel rely on, row by row.
ItemsFit ==
  /\ \A s \in DOMAIN work_items :
       LET item == work_items[s] IN
         /\ item.br \in BlockRows
         /\ First(item) \in Nat /\ Last(item) \in Nat /\ item.block_count \in Nat
         /\ RowStart(item.br) <= First(item)
         /\ Last(item) <= RowStart(item.br) + BlockCount(item.br)
         /\ item.value_begin = split.block_val_ptr[First(item)]
         /\ AtomicOutput(item.br) =>
              First(item) < Last(item) /\ packed_flag[First(item)]
  /\ \A s, t \in DOMAIN work_items :
       s # t /\ work_items[s].br = work_items[t].br =>
         /\ AtomicOutput(work_items[s].br)
         /\ \/ Last(work_items[s]) <= First(work_items[t])
            \/ Last(work_items[t]) <= First(work_items[s])
  /\ \A br \in BlockRows : \A b \in Int :
       RowStart(br) <= b /\ b < RowStart(br) + BlockCount(br) =>
         \E s \in DOMAIN work_items :
           /\ work_items[s].br = br
           /\ First(work_items[s]) <= b /\ b < Last(work_items[s])
  /\ mode = "fused_lb" => \A br \in BlockRows : \E s \in DOMAIN work_items :
       work_items[s].br = br /\ First(work_items[s]) = RowStart(br)

ChunksFit ==
  /\ \A j \in DOMAIN long_chunks :
       LET chunk == long_chunks[j] IN
         /\ mode = "fused_lb"
         /\ chunk.row \in Rows /\ IsLongRow(chunk.row)
         /\ chunk.pbegin \in Nat /\ chunk.pcount \in Nat
         /\ ResidualBegin(chunk.row) <= chunk.pbegin
         /\ chunk.pbegin + chunk.pcount <= ResidualBegin(chunk.row) + ResidualLength(chunk.row)
  /\ \A i, j \in DOMAIN long_chunks :
       i # j /\ long_chunks[i].row = long_chunks[j].row =>
         \/ long_chunks[i].pbegin + long_chunks[i].pcount <= long_chunks[j].pbegin
         \/ long_chunks[j].pbegin + long_chunks[j].pcount <= long_chunks[i].pbegin
  /\ mode = "fused_lb" => \A r \in Rows : \A e \in Int :
       /\ IsLongRow(r)
       /\ ResidualBegin(r) <= e /\ e < ResidualBegin(r) + ResidualLength(r)
       => \E j \in DOMAIN long_chunks :
            /\ long_chunks[j].row = r
            /\ long_chunks[j].pbegin <= e
            /\ e < long_chunks[j].pbegin + long_chunks[j].pcount

LEMMA LayoutFits ==
  ASSUME ControlInv, LayoutInv, pc # "start"
  PROVE  ItemsFit /\ ChunksFit
<1>1. /\ OptionsInv /\ split \in Splits /\ work_items = Items /\ packed_flag = Flags(Items)
      /\ long_chunks = IF mode = "fused_lb" THEN LongChunks ELSE << >>
  BY Options DEF LayoutInv, ControlInv
<1>2. ASSUME NEW s \in DOMAIN work_items
      PROVE  \E br \in BlockRows : \E k \in 0 .. ItemCount(br) - 1 :
               s = ItemSlot(br) + k /\ work_items[s] = ItemOf(br, k)
  BY <1>1, ItemsAre
<1>3. ASSUME NEW br \in BlockRows, AtomicOutput(br)
      PROVE  IsCut(br)
  BY <1>3 DEF AtomicOutput, ItemCount
<1>4. ASSUME NEW s \in DOMAIN work_items
      PROVE  LET item == work_items[s] IN
               /\ item.br \in BlockRows
               /\ First(item) \in Nat /\ Last(item) \in Nat /\ item.block_count \in Nat
               /\ RowStart(item.br) <= First(item)
               /\ Last(item) <= RowStart(item.br) + BlockCount(item.br)
               /\ item.value_begin = split.block_val_ptr[First(item)]
               /\ AtomicOutput(item.br) =>
                    First(item) < Last(item) /\ packed_flag[First(item)]
  <2>1. PICK br, k :
           br \in BlockRows /\ k \in 0 .. ItemCount(br) - 1 /\ work_items[s] = ItemOf(br, k)
    BY <1>2
  <2>. DEFINE item == work_items[s]
  <2>2. /\ item.br = br
        /\ First(item) \in Nat /\ Last(item) \in Nat /\ item.block_count \in Nat
        /\ RowStart(br) <= First(item)
        /\ Last(item) <= RowStart(br) + BlockCount(br)
        /\ item.value_begin = split.block_val_ptr[First(item)]
        /\ IsCut(br) => First(item) < Last(item)
    BY <1>1, <2>1, ItemsOfRow
  <2>3. ASSUME AtomicOutput(br) PROVE First(item) < Last(item) /\ packed_flag[First(item)]
    <3>1. First(item) < Last(item)
      BY <1>3, <2>1, <2>2, <2>3
    <3>2. RowStart(br) + BlockCount(br) \in 0 .. split.num_blocks /\ split.num_blocks \in Nat
      BY <1>1, <2>1, RowFacts, SplitFacts
    <3>3. First(item) \in Blocks
      BY <2>2, <3>1, <3>2 DEF Blocks
    <3>. QED
      BY <1>1, <2>2, <2>3, <3>1, <3>3 DEF Flags, First
  <2>. QED
    BY <2>1, <2>2, <2>3
<1>5. ASSUME NEW s \in DOMAIN work_items, NEW t \in DOMAIN work_items,
             s # t, work_items[s].br = work_items[t].br
      PROVE  /\ AtomicOutput(work_items[s].br)
             /\ \/ Last(work_items[s]) <= First(work_items[t])
                \/ Last(work_items[t]) <= First(work_items[s])
  <2>1. PICK p, k :
           p \in BlockRows /\ k \in 0 .. ItemCount(p) - 1
           /\ s = ItemSlot(p) + k /\ work_items[s] = ItemOf(p, k)
    BY <1>2
  <2>2. PICK q, l :
           q \in BlockRows /\ l \in 0 .. ItemCount(q) - 1
           /\ t = ItemSlot(q) + l /\ work_items[t] = ItemOf(q, l)
    BY <1>2
  <2>3. p = q /\ work_items[s].br = p
    BY <1>1, <1>5, <2>1, <2>2, ItemsOfRow
  <2>4. k < l \/ l < k
    BY <1>1, <1>5, <2>1, <2>2, <2>3, ItemsAre
  <2>5. /\ IsCut(p)
        /\ \/ Last(work_items[s]) <= First(work_items[t])
           \/ Last(work_items[t]) <= First(work_items[s])
    BY <1>1, <2>1, <2>2, <2>3, <2>4, ItemsOfRow
  <2>6. ItemCount(p) > 1
    BY <1>1, <2>1, <2>2, <2>3, <2>4, ItemsOfRow
  <2>. QED
    BY <2>3, <2>5, <2>6 DEF AtomicOutput
<1>6. ASSUME NEW br \in BlockRows, NEW b \in Int,
             RowStart(br) <= b, b < RowStart(br) + BlockCount(br)
      PROVE  \E s \in DOMAIN work_items :
               /\ work_items[s].br = br
               /\ First(work_items[s]) <= b /\ b < Last(work_items[s])
  <2>1. PICK k \in 0 .. ItemCount(br) - 1 :
               First(ItemOf(br, k)) <= b /\ b < Last(ItemOf(br, k))
    BY <1>1, <1>6, ItemsOfRow
  <2>2. ItemSlot(br) + k \in DOMAIN work_items /\ work_items[ItemSlot(br) + k] = ItemOf(br, k)
    BY <1>1, ItemsAre
  <2>3. ItemOf(br, k).br = br
    BY <1>1, ItemsOfRow
  <2>. QED
    BY <2>1, <2>2, <2>3
<1>7. ASSUME mode = "fused_lb", NEW br \in BlockRows
      PROVE  \E s \in DOMAIN work_items :
               work_items[s].br = br /\ First(work_items[s]) = RowStart(br)
  <2>1. /\ 0 \in 0 .. ItemCount(br) - 1
        /\ First(ItemOf(br, 0)) = RowStart(br) /\ ItemOf(br, 0).br = br
    BY <1>1, <1>7, ItemsOfRow
  <2>2. ItemSlot(br) + 0 \in DOMAIN work_items /\ work_items[ItemSlot(br) + 0] = ItemOf(br, 0)
    BY <1>1, <2>1, ItemsAre
  <2>. QED
    BY <2>1, <2>2
<1>8. ItemsFit
  BY <1>4, <1>5, <1>6, <1>7 DEF ItemsFit
<1>9. CASE mode = "two_pass"
  <2>1. DOMAIN long_chunks = {} /\ mode # "fused_lb"
    BY <1>1, <1>9
  <2>. QED
    BY <1>8, <2>1 DEF ChunksFit
<1>10. CASE mode = "fused_lb"
  <2>1. long_chunks = LongChunks
    BY <1>1, <1>10
  <2>2. ASSUME NEW j \in DOMAIN long_chunks
        PROVE  \E r \in Rows : \E k \in 0 .. ChunkCount(r) - 1 :
                 j = ChunkSlot(r) + k /\ long_chunks[j] = ChunkOf(r, k)
    BY <1>1, <2>1, ChunksAre
  <2>3. ASSUME NEW j \in DOMAIN long_chunks
        PROVE  LET chunk == long_chunks[j] IN
                 /\ chunk.row \in Rows /\ IsLongRow(chunk.row)
                 /\ chunk.pbegin \in Nat /\ chunk.pcount \in Nat
                 /\ ResidualBegin(chunk.row) <= chunk.pbegin
                 /\ chunk.pbegin + chunk.pcount
                      <= ResidualBegin(chunk.row) + ResidualLength(chunk.row)
    <3>1. PICK r, k :
           r \in Rows /\ k \in 0 .. ChunkCount(r) - 1 /\ long_chunks[j] = ChunkOf(r, k)
      BY <2>2
    <3>2. ChunkOf(r, k).row = r /\ IsLongRow(r)
      BY <1>1, <3>1, ChunksOfRow
    <3>. QED
      BY <1>1, <3>1, <3>2, ChunksOfRow
  <2>4. ASSUME NEW i \in DOMAIN long_chunks, NEW j \in DOMAIN long_chunks,
               i # j, long_chunks[i].row = long_chunks[j].row
        PROVE  \/ long_chunks[i].pbegin + long_chunks[i].pcount <= long_chunks[j].pbegin
               \/ long_chunks[j].pbegin + long_chunks[j].pcount <= long_chunks[i].pbegin
    <3>1. PICK p, k :
           p \in Rows /\ k \in 0 .. ChunkCount(p) - 1
           /\ i = ChunkSlot(p) + k /\ long_chunks[i] = ChunkOf(p, k)
      BY <2>2
    <3>2. PICK q, l :
           q \in Rows /\ l \in 0 .. ChunkCount(q) - 1
           /\ j = ChunkSlot(q) + l /\ long_chunks[j] = ChunkOf(q, l)
      BY <2>2
    <3>3. p = q
      BY <1>1, <2>4, <3>1, <3>2, ChunksOfRow
    <3>4. k < l \/ l < k
      BY <1>1, <2>4, <3>1, <3>2, <3>3, ChunksAre
    <3>. QED
      BY <1>1, <3>1, <3>2, <3>3, <3>4, ChunksOfRow
  <2>5. ASSUME NEW r \in Rows, NEW e \in Int, IsLongRow(r),
               ResidualBegin(r) <= e, e < ResidualBegin(r) + ResidualLength(r)
        PROVE  \E j \in DOMAIN long_chunks :
                 /\ long_chunks[j].row = r
                 /\ long_chunks[j].pbegin <= e
                 /\ e < long_chunks[j].pbegin + long_chunks[j].pcount
    <3>1. PICK k \in 0 .. ChunkCount(r) - 1 :
                 ChunkOf(r, k).pbegin <= e /\ e < ChunkOf(r, k).pbegin + ChunkOf(r, k).pcount
      BY <1>1, <2>5, ChunksOfRow
    <3>2. /\ ChunkSlot(r) + k \in DOMAIN long_chunks
          /\ long_chunks[ChunkSlot(r) + k] = ChunkOf(r, k)
      BY <1>1, <2>1, ChunksAre
    <3>3. ChunkOf(r, k).row = r
      BY <1>1, ChunksOfRow
    <3>. QED
      BY <3>1, <3>2, <3>3
  <2>. QED
    BY <1>8, <1>10, <2>3, <2>4, <2>5 DEF ChunksFit
<1>. QED
  BY <1>9, <1>10 DEF ControlInv

-----------------------------------------------------------------------------
(* What the warps of the bulk kernel add, together and each on its own. *)

LEMMA WarpForms ==
  \A w : w \in Warps <=> \/ \E s \in DOMAIN work_items : w = <<"item", s>>
                         \/ \E j \in DOMAIN long_chunks : w = <<"chunk", j>>
  BY DEF Warps

\* A warp that is not alone on a row adds to it atomically.
LEMMA SharedIsAtomic ==
  ASSUME ItemsFit, ChunksFit, NEW v \in Warps, NEW w \in Warps, v # w,
         NEW r \in Rows, r \in WritesOf(v), r \in WritesOf(w)
  PROVE  IsAtomic(v) /\ IsAtomic(w)
<1>1. CASE AtomicAll
  BY <1>1, WarpForms DEF IsAtomic, AtomicItem
<1>2. CASE ~AtomicAll
  <2>1. DOMAIN long_chunks = {}
    BY <1>2 DEF AtomicAll
  <2>2. PICK s \in DOMAIN work_items : v = <<"item", s>>
    BY <2>1, WarpForms
  <2>3. PICK t \in DOMAIN work_items : w = <<"item", t>>
    BY <2>1, WarpForms
  <2>4. s # t
    BY <2>2, <2>3
  <2>5. work_items[s].br = BlockRowOf(r) /\ work_items[t].br = BlockRowOf(r)
    BY <2>2, <2>3 DEF WritesOf
  <2>6. AtomicOutput(work_items[s].br) /\ AtomicOutput(work_items[t].br)
    BY <2>4, <2>5 DEF ItemsFit
  <2>7. ASSUME NEW u \in DOMAIN work_items, AtomicOutput(work_items[u].br)
        PROVE  AtomicItem(work_items[u])
    <3>1. /\ work_items[u].block_begin \in Nat /\ work_items[u].block_count \in Nat
          /\ work_items[u].block_begin < work_items[u].block_begin + work_items[u].block_count
          /\ packed_flag[work_items[u].block_begin]
      BY <2>7 DEF ItemsFit, First, Last
    <3>. QED
      BY <3>1 DEF AtomicItem
  <2>. QED
    BY <2>2, <2>3, <2>6, <2>7 DEF IsAtomic
<1>. QED
  BY <1>1, <1>2

\* The blocks of a row with the values they hold.
BlocksIn(first, last) == {<<"block", b, split.block_val_ptr[b]>> : b \in first .. last - 1}

\* An item's running value position is right for every block it traverses.
LEMMA ItemValues ==
  ASSUME split \in Splits, ItemsFit, NEW s \in DOMAIN work_items
  PROVE  ItemBlocks(work_items[s]) = BlocksIn(First(work_items[s]), Last(work_items[s]))
<1>. DEFINE item == work_items[s]
<1>1. /\ item.br \in BlockRows /\ First(item) \in Nat /\ Last(item) \in Nat
      /\ RowStart(item.br) + BlockCount(item.br) \in 0 .. split.num_blocks
      /\ Last(item) <= RowStart(item.br) + BlockCount(item.br)
      /\ item.value_begin = split.block_val_ptr[First(item)]
  BY RowFacts DEF ItemsFit
<1>2. /\ split.num_blocks \in Nat /\ split.nnz \in Nat
      /\ split.block_val_ptr \in [0 .. split.num_blocks -> 0 .. split.nnz]
  BY SplitFacts
<1>3. ASSUME NEW b \in First(item) .. Last(item) - 1
      PROVE  item.value_begin + split.block_val_ptr[b] - split.block_val_ptr[item.block_begin]
               = split.block_val_ptr[b]
  <2>1. b \in 0 .. split.num_blocks /\ First(item) \in 0 .. split.num_blocks
    BY <1>1, <1>2
  <2>2. split.block_val_ptr[b] \in Nat /\ split.block_val_ptr[First(item)] \in Nat
    BY <1>2, <2>1
  <2>. QED
    BY <1>1, <2>2 DEF First
<1>4. item.block_begin .. item.block_begin + item.block_count - 1
        = First(item) .. Last(item) - 1
  <2>1. item.block_begin \in Nat /\ item.block_count \in Nat
    BY DEF ItemsFit, First
  <2>. QED
    BY <2>1 DEF First, Last
<1>. HIDE DEF item
<1>5. ItemBlocks(item) = BlocksIn(First(item), Last(item))
  BY <1>3, <1>4 DEF BlocksIn, ItemBlocks
<1>. QED
  BY <1>5 DEF item

\* No contribution comes to a row from two warps.
LEMMA OneWarpEach ==
  ASSUME split \in Splits, ItemsFit, ChunksFit, NEW v \in Warps, NEW w \in Warps, v # w,
         NEW r \in Rows, NEW c, c \in Adds(v, r), c \in Adds(w, r)
  PROVE  FALSE
<1>1. ASSUME NEW s \in DOMAIN work_items, NEW j \in DOMAIN long_chunks,
             c \in ItemAdds(work_items[s], r), c \in ChunkAdds(long_chunks[j], r)
      PROVE  FALSE
  <2>1. long_chunks[j].row = r /\ IsLongRow(r) /\ \E q \in Int : c = <<"residual", q, q>>
    BY <1>1 DEF ChunkAdds, ChunksFit, Residual
  <2>2. c \in ItemBlocks(work_items[s])
    BY <1>1, <2>1 DEF ItemAdds, ItemResidual
  <2>. QED
    BY <2>1, <2>2 DEF ItemBlocks
<1>2. ASSUME NEW s \in DOMAIN work_items, NEW t \in DOMAIN work_items, s # t,
             c \in ItemAdds(work_items[s], r), c \in ItemAdds(work_items[t], r)
      PROVE  FALSE
  <2>. DEFINE i == work_items[s]
              j == work_items[t]
  <2>1. i.br = BlockRowOf(r) /\ j.br = BlockRowOf(r)
    BY <1>2 DEF ItemAdds
  <2>2. /\ AtomicOutput(i.br) /\ AtomicOutput(j.br)
        /\ Last(i) <= First(j) \/ Last(j) <= First(i)
    BY <1>2, <2>1 DEF ItemsFit
  <2>3. /\ First(i) \in Nat /\ Last(i) \in Nat /\ First(i) < Last(i)
        /\ First(j) \in Nat /\ Last(j) \in Nat /\ First(j) < Last(j)
    BY <2>2 DEF ItemsFit
  <2>4. /\ ItemBlocks(i) = BlocksIn(First(i), Last(i))
        /\ ItemBlocks(j) = BlocksIn(First(j), Last(j))
    BY ItemValues
  <2>5. CASE c \in ItemBlocks(i)
    <3>1. \E b \in Int : c = <<"block", b, split.block_val_ptr[b]>> /\ First(i) <= b /\ b < Last(i)
      BY <2>3, <2>4, <2>5 DEF BlocksIn
    <3>2. c \notin ItemResidual(j, r)
      BY <3>1 DEF ItemResidual, Residual
    <3>3. c \in ItemBlocks(j)
      BY <1>2, <3>2 DEF ItemAdds
    <3>4. \E b \in Int : c = <<"block", b, split.block_val_ptr[b]>> /\ First(j) <= b /\ b < Last(j)
      BY <2>3, <2>4, <3>3 DEF BlocksIn
    <3>5. PICK b \in Int : c = <<"block", b, split.block_val_ptr[b]>> /\ First(i) <= b /\ b < Last(i)
      BY <3>1
    <3>6. PICK d \in Int : c = <<"block", d, split.block_val_ptr[d]>> /\ First(j) <= d /\ d < Last(j)
      BY <3>4
    <3>7. b = d
      BY <3>5, <3>6
    <3>. QED
      BY <2>2, <2>3, <3>5, <3>6, <3>7
  <2>6. CASE c \notin ItemBlocks(i)
    <3>1. c \in ItemResidual(i, r)
      BY <1>2, <2>6 DEF ItemAdds
    <3>2. \E q : c = <<"residual", q, q>>
      BY <3>1 DEF ItemResidual, Residual
    <3>3. c \notin ItemBlocks(j)
      BY <3>2 DEF ItemBlocks
    <3>4. c \in ItemResidual(j, r)
      BY <1>2, <3>3 DEF ItemAdds
    <3>5. First(i) = RowStart(i.br) /\ First(j) = RowStart(j.br)
      BY <3>1, <3>4 DEF ItemResidual, FirstWorkItem, First
    <3>. QED
      BY <2>1, <2>2, <2>3, <3>5
  <2>. QED
    BY <2>5, <2>6
<1>3. ASSUME NEW i \in DOMAIN long_chunks, NEW j \in DOMAIN long_chunks, i # j,
             c \in ChunkAdds(long_chunks[i], r), c \in ChunkAdds(long_chunks[j], r)
      PROVE  FALSE
  <2>1. /\ long_chunks[i].row = r /\ long_chunks[j].row = r
        /\ c \in Residual(long_chunks[i].pbegin, long_chunks[i].pcount)
        /\ c \in Residual(long_chunks[j].pbegin, long_chunks[j].pcount)
    BY <1>3 DEF ChunkAdds
  <2>2. /\ long_chunks[i].pbegin \in Nat /\ long_chunks[i].pcount \in Nat
        /\ long_chunks[j].pbegin \in Nat /\ long_chunks[j].pcount \in Nat
    BY DEF ChunksFit
  <2>3. \/ long_chunks[i].pbegin + long_chunks[i].pcount <= long_chunks[j].pbegin
        \/ long_chunks[j].pbegin + long_chunks[j].pcount <= long_chunks[i].pbegin
    BY <1>3, <2>1 DEF ChunksFit
  <2>. QED
    BY <2>1, <2>2, <2>3 DEF Residual
<1>4. ASSUME NEW s \in DOMAIN work_items, NEW u, u = <<"item", s>>, c \in Adds(u, r)
      PROVE  c \in ItemAdds(work_items[s], r)
  BY <1>4 DEF Adds
<1>5. ASSUME NEW j \in DOMAIN long_chunks, NEW u, u = <<"chunk", j>>, c \in Adds(u, r)
      PROVE  c \in ChunkAdds(long_chunks[j], r)
  BY <1>5 DEF Adds
<1>6. CASE \E s \in DOMAIN work_items : v = <<"item", s>>
  <2>1. PICK s \in DOMAIN work_items : v = <<"item", s>>
    BY <1>6
  <2>2. c \in ItemAdds(work_items[s], r)
    BY <1>4, <2>1
  <2>3. CASE \E t \in DOMAIN work_items : w = <<"item", t>>
    <3>1. PICK t \in DOMAIN work_items : w = <<"item", t>>
      BY <2>3
    <3>2. s # t /\ c \in ItemAdds(work_items[t], r)
      BY <1>4, <2>1, <3>1
    <3>. QED
      BY <1>2, <2>2, <3>2
  <2>4. CASE \E j \in DOMAIN long_chunks : w = <<"chunk", j>>
    BY <1>1, <1>5, <2>2, <2>4
  <2>. QED
    BY <2>3, <2>4, WarpForms
<1>7. CASE \E i \in DOMAIN long_chunks : v = <<"chunk", i>>
  <2>1. PICK i \in DOMAIN long_chunks : v = <<"chunk", i>>
    BY <1>7
  <2>2. c \in ChunkAdds(long_chunks[i], r)
    BY <1>5, <2>1
  <2>3. CASE \E s \in DOMAIN work_items : w = <<"item", s>>
    BY <1>1, <1>4, <2>2, <2>3
  <2>4. CASE \E j \in DOMAIN long_chunks : w = <<"chunk", j>>
    <3>1. PICK j \in DOMAIN long_chunks : w = <<"chunk", j>>
      BY <2>4
    <3>2. i # j /\ c \in ChunkAdds(long_chunks[j], r)
      BY <1>5, <2>1, <3>1
    <3>. QED
      BY <1>3, <2>2, <3>2
  <2>. QED
    BY <2>3, <2>4, WarpForms
<1>. QED
  BY <1>6, <1>7, WarpForms

\* What the bulk kernel owes a row: its blocks, and in "fused_lb" its residual.
BulkDue(r) ==
  BlocksIn(RowStart(BlockRowOf(r)), RowStart(BlockRowOf(r)) + BlockCount(BlockRowOf(r)))
    \cup IF mode = "fused_lb" THEN Residual(ResidualBegin(r), ResidualLength(r)) ELSE {}

\* The warps together add what the bulk kernel owes, and nothing else.
LEMMA WarpsAdd ==
  ASSUME split \in Splits, ItemsFit, ChunksFit, NEW r \in Rows, NEW c
  PROVE  (\E w \in Warps : c \in Adds(w, r)) <=> c \in BulkDue(r)
<1>. DEFINE br    == BlockRowOf(r)
            start == RowStart(br)
            last  == RowStart(br) + BlockCount(br)
            begin == ResidualBegin(r)
            len   == ResidualLength(r)
<1>1. /\ br \in BlockRows /\ start \in Nat /\ last \in Nat
      /\ begin \in Nat /\ len \in Nat
  BY RowHasBlockRow, RowFacts, SplitFacts
<1>2. BulkDue(r) = BlocksIn(start, last) \cup (IF mode = "fused_lb" THEN Residual(begin, len) ELSE {})
  BY DEF BulkDue
<1>3. ASSUME NEW s \in DOMAIN work_items, c \in ItemAdds(work_items[s], r)
      PROVE  c \in BulkDue(r)
  <2>. DEFINE item == work_items[s]
  <2>1. /\ item.br = br /\ First(item) \in Nat /\ Last(item) \in Nat
        /\ start <= First(item) /\ Last(item) <= last
    BY <1>3 DEF ItemAdds, ItemsFit
  <2>2. ItemBlocks(item) = BlocksIn(First(item), Last(item))
    BY ItemValues
  <2>. HIDE DEF item, start, last
  <2>3. BlocksIn(First(item), Last(item)) \subseteq BlocksIn(start, last)
    BY <1>1, <2>1 DEF BlocksIn
  <2>4. CASE c \in ItemBlocks(item)
    BY <1>2, <2>2, <2>3, <2>4
  <2>5. CASE c \notin ItemBlocks(item)
    BY <1>2, <1>3, <2>5 DEF ItemAdds, ItemResidual, item
  <2>. QED
    BY <2>4, <2>5
<1>4. ASSUME NEW j \in DOMAIN long_chunks, c \in ChunkAdds(long_chunks[j], r)
      PROVE  c \in BulkDue(r)
  <2>. DEFINE chunk == long_chunks[j]
  <2>1. /\ mode = "fused_lb" /\ chunk.row = r
        /\ c \in Residual(chunk.pbegin, chunk.pcount)
        /\ chunk.pbegin \in Nat /\ chunk.pcount \in Nat
        /\ begin <= chunk.pbegin /\ chunk.pbegin + chunk.pcount <= begin + len
    BY <1>4 DEF ChunkAdds, ChunksFit
  <2>. HIDE DEF chunk, begin, len
  <2>2. c \in Residual(begin, len)
    BY <1>1, <2>1 DEF Residual
  <2>. QED
    BY <1>2, <2>1, <2>2
<1>5. ASSUME c \in BlocksIn(start, last)
      PROVE  \E w \in Warps : c \in Adds(w, r)
  <2>1. PICK b \in start .. last - 1 : c = <<"block", b, split.block_val_ptr[b]>>
    BY <1>5 DEF BlocksIn
  <2>2. b \in Int /\ start <= b /\ b < last
    BY <1>1, <2>1
  <2>3. PICK s \in DOMAIN work_items :
          work_items[s].br = br /\ First(work_items[s]) <= b /\ b < Last(work_items[s])
    BY <1>1, <2>2 DEF ItemsFit
  <2>4. First(work_items[s]) \in Nat /\ Last(work_items[s]) \in Nat
    BY DEF ItemsFit
  <2>5. c \in ItemBlocks(work_items[s])
    BY <2>1, <2>2, <2>3, <2>4, ItemValues DEF BlocksIn
  <2>6. c \in Adds(<<"item", s>>, r)
    BY <2>3, <2>5 DEF Adds, ItemAdds
  <2>. QED
    BY <2>6, WarpForms
<1>6. ASSUME mode = "fused_lb", c \in Residual(begin, len)
      PROVE  \E w \in Warps : c \in Adds(w, r)
  <2>1. PICK e \in begin .. begin + len - 1 : c = <<"residual", e, e>>
    BY <1>6 DEF Residual
  <2>2. e \in Int /\ begin <= e /\ e < begin + len
    BY <1>1, <2>1
  <2>3. CASE IsLongRow(r)
    <3>1. PICK j \in DOMAIN long_chunks :
            /\ long_chunks[j].row = r
            /\ long_chunks[j].pbegin <= e
            /\ e < long_chunks[j].pbegin + long_chunks[j].pcount
      BY <1>6, <2>2, <2>3 DEF ChunksFit
    <3>2. long_chunks[j].pbegin \in Nat /\ long_chunks[j].pcount \in Nat
      BY DEF ChunksFit
    <3>3. c \in Residual(long_chunks[j].pbegin, long_chunks[j].pcount)
      BY <2>1, <2>2, <3>1, <3>2 DEF Residual
    <3>4. c \in Adds(<<"chunk", j>>, r)
      BY <3>1, <3>3 DEF Adds, ChunkAdds
    <3>. QED
      BY <3>4, WarpForms
  <2>4. CASE ~IsLongRow(r)
    <3>1. PICK s \in DOMAIN work_items :
            work_items[s].br = br /\ First(work_items[s]) = RowStart(br)
      BY <1>1, <1>6 DEF ItemsFit
    <3>2. FirstWorkItem(work_items[s])
      BY <3>1 DEF FirstWorkItem, First
    <3>3. c \in ItemResidual(work_items[s], r)
      BY <1>6, <2>4, <3>2 DEF ItemResidual
    <3>4. c \in Adds(<<"item", s>>, r)
      BY <3>1, <3>3 DEF Adds, ItemAdds
    <3>. QED
      BY <3>4, WarpForms
  <2>. QED
    BY <2>3, <2>4
<1>7. ASSUME NEW w \in Warps, c \in Adds(w, r)
      PROVE  c \in BulkDue(r)
  BY <1>3, <1>4, <1>7, WarpForms DEF Adds
<1>. QED
  BY <1>2, <1>5, <1>6, <1>7

\* A contribution of a block or of the residual is none of an outlier's.
LEMMA KindsDiffer ==
  ASSUME NEW r, NEW c
  PROVE  /\ c \in BulkDue(r) => ~ \E i : c = <<"outlier", i, i>>
         /\ mode = "two_pass" /\ c \in BulkDue(r) => ~BySparse(r, c)
BY DEF BulkDue, BlocksIn, Residual, BySparse

\* What a call owes a row, in the terms of what its kernels add.
LEMMA DueParts ==
  ASSUME split \in Splits, mode \in {"fused_lb", "two_pass"}, NEW r \in Rows, NEW c
  PROVE  c \in DueTo(r) <=> \/ c \in BulkDue(r)
                            \/ mode = "two_pass" /\ BySparse(r, c)
                            \/ corrected /\ ByThread(r, c, {})
<1>1. (\E i \in {j \in 0 .. split.outliers - 1 : corrected /\ split.outlier_rows[j] = r} :
         c = <<"outlier", i, i>>)
      <=> corrected /\ ByThread(r, c, {})
  <2>1. ASSUME corrected, ByThread(r, c, {})
        PROVE  \E i \in 0 .. split.outliers - 1 :
                 split.outlier_rows[i] = r /\ c = <<"outlier", i, i>>
    BY <2>1 DEF ByThread, OutlierThreads
  <2>2. ASSUME NEW i \in 0 .. split.outliers - 1, split.outlier_rows[i] = r,
               c = <<"outlier", i, i>>
        PROVE  ByThread(r, c, {})
    <3>1. <<"outlier", i>> \in OutlierThreads \ {}
      BY DEF OutlierThreads
    <3>. QED
      BY <2>2, <3>1 DEF ByThread
  <2>. QED
    BY <2>1, <2>2
<1>. DEFINE last == RowStart(BlockRowOf(r)) + BlockCount(BlockRowOf(r))
<1>2. /\ BlockRowOf(r) \in BlockRows /\ RowStart(BlockRowOf(r)) \in Nat
      /\ BlockCount(BlockRowOf(r)) \in Nat
  BY RowHasBlockRow, RowFacts, SplitFacts
<1>3. RowStart(BlockRowOf(r)) + BlockCount(BlockRowOf(r)) - 1 = last - 1
  BY <1>2
<1>4. c \in DueTo(r) <=> \/ c \in BlocksIn(RowStart(BlockRowOf(r)), last)
                         \/ c \in Residual(ResidualBegin(r), ResidualLength(r))
                         \/ corrected /\ ByThread(r, c, {})
  BY <1>1, <1>3 DEF DueTo, BlocksIn
<1>. QED
  BY <1>4 DEF BulkDue, BySparse

-----------------------------------------------------------------------------
(* The steps of the host. *)

\* As long as the options and the layout stay, so does what is made of them.
LEMMA SameLayout ==
  ASSUME UNCHANGED options
  PROVE  Items' = Items /\ Flags(Items)' = Flags(Items) /\ LongChunks' = LongChunks
<1>1. Items' = Items
  BY SMTT(30) DEF options, Items, BlockRows, ItemCount, IsCut, BlockCount, ItemOf, RowStart
<1>2. LongChunks' = LongChunks
  BY DEF options, LongChunks, Rows, IsLongRow, ResidualLength, ResidualBegin
<1>3. Flags(Items)' = Flags(Items)
  BY <1>1 DEF options, Flags, Blocks, AtomicOutput, ItemCount, IsCut, BlockCount
<1>. QED
  BY <1>1, <1>2, <1>3

LEMMA SameSplit ==
  ASSUME UNCHANGED options
  PROVE  /\ Rows' = Rows /\ Contributions' = Contributions
         /\ OutlierThreads' = OutlierThreads
         /\ \A r, c : BySparse(r, c)' <=> BySparse(r, c)
<1>1. Rows' = Rows /\ OutlierThreads' = OutlierThreads
  BY DEF options, Rows, OutlierThreads
<1>2. Contributions' = Contributions
  BY DEF options, Contributions, Blocks, Residual, ResidualNnz
<1>3. \A r, c : BySparse(r, c)' <=> BySparse(r, c)
  BY DEF options, BySparse, Residual, ResidualBegin, ResidualLength
<1>. QED
  BY <1>1, <1>2, <1>3

LEMMA SameWarps ==
  ASSUME UNCHANGED <<options, layoutVars>>
  PROVE  /\ Warps' = Warps
         /\ \A r, c : ByWarp(r, c, pending)' <=> \E w \in Warps \ pending' : c \in Adds(w, r)
         /\ \A r, c : ByWarp(r, c, {})' <=> ByWarp(r, c, {})
         /\ \A r, c : ByThread(r, c, pending)' <=>
              \E t \in OutlierThreads \ pending' :
                split.outlier_rows[t[2]] = r /\ c = <<"outlier", t[2], t[2]>>
<1>1. Warps' = Warps
  BY DEF layoutVars, Warps
<1>2. ASSUME NEW w, NEW r PROVE Adds(w, r)' = Adds(w, r)
  <2>1. work_items' = work_items /\ long_chunks' = long_chunks
    BY DEF layoutVars
  <2>2. CASE w[1] = "item"
    <3>1. ItemAdds(work_items[w[2]], r)' = ItemAdds(work_items[w[2]], r)
      BY <2>1 DEF options, ItemAdds, ItemBlocks, ItemResidual, FirstWorkItem, RowStart,
                  IsLongRow, Residual, ResidualBegin, ResidualLength
    <3>. QED
      BY <2>2, <3>1 DEF Adds
  <2>3. CASE w[1] # "item"
    <3>1. ChunkAdds(long_chunks[w[2]], r)' = ChunkAdds(long_chunks[w[2]], r)
      BY <2>1 DEF ChunkAdds, Residual
    <3>. QED
      BY <2>3, <3>1 DEF Adds
  <2>. QED
    BY <2>2, <2>3
<1>3. /\ \A r, c : ByWarp(r, c, pending)' <=> \E w \in Warps \ pending' : c \in Adds(w, r)
      /\ \A r, c : ByWarp(r, c, {})' <=> ByWarp(r, c, {})
  BY <1>1, <1>2 DEF ByWarp
<1>4. \A r, c : ByThread(r, c, pending)' <=>
        \E t \in OutlierThreads \ pending' :
          split.outlier_rows[t[2]] = r /\ c = <<"outlier", t[2], t[2]>>
  BY SameSplit DEF ByThread, options
<1>. QED
  BY <1>1, <1>3, <1>4

\* What is due changes only with the call that corrects the outliers.
LEMMA SameDue ==
  ASSUME UNCHANGED <<options, corrected>>
  PROVE  Due' = Due
<1>1. Rows' = Rows /\ Contributions' = Contributions /\ corrected' = corrected
  BY SameSplit
<1>2. \A r : DueTo(r)' = DueTo(r)
  BY DEF options, DueTo, RowStart, BlockCount, Residual, ResidualBegin, ResidualLength
<1>. QED
  BY <1>1, <1>2 DEF Due

LEMMA ControlStep == ControlInv /\ [Next]_vars => ControlInv'
<1>. SUFFICES ASSUME ControlInv, [Next]_vars PROVE ControlInv'
  OBVIOUS
<1>. USE DEF ControlInv, options, HasCorrection, HasResidualPass, ResidualNnz
<1>1. CASE Prepare
  BY <1>1 DEF Prepare
<1>2. ASSUME NEW correct \in BOOLEAN, Launch(correct) PROVE ControlInv'
  BY <1>2 DEF Launch
<1>3. ASSUME NEW w \in Warps, Warp(w) PROVE ControlInv'
  BY <1>3 DEF Warp
<1>4. CASE LaunchCorrection
  BY <1>4 DEF LaunchCorrection
<1>5. ASSUME NEW w \in OutlierThreads, CorrectionThread(w) PROVE ControlInv'
  BY <1>5 DEF CorrectionThread
<1>6. CASE ResidualPass
  BY <1>6 DEF ResidualPass
<1>7. CASE Sync
  BY <1>7 DEF Sync
<1>8. CASE UNCHANGED vars
  BY <1>8 DEF vars
<1>. QED
  BY <1>1, <1>2, <1>3, <1>4, <1>5, <1>6, <1>7, <1>8 DEF Next, Finished

LEMMA LayoutStep == LayoutInv /\ [Next]_vars => LayoutInv'
<1>. SUFFICES ASSUME LayoutInv, [Next]_vars PROVE LayoutInv'
  OBVIOUS
<1>1. ASSUME UNCHANGED <<options, layoutVars>>, pc # "start" PROVE LayoutInv'
  BY <1>1, SameLayout DEF LayoutInv, layoutVars, options
<1>2. CASE Prepare
  BY <1>2, SameLayout DEF Prepare, LayoutInv, options
<1>3. ASSUME NEW correct \in BOOLEAN, Launch(correct) PROVE LayoutInv'
  BY <1>1, <1>3 DEF Launch
<1>4. CASE \/ \E w \in Warps : Warp(w)
           \/ LaunchCorrection
           \/ \E w \in OutlierThreads : CorrectionThread(w)
           \/ ResidualPass
           \/ Sync
  BY <1>1, <1>4 DEF Warp, LaunchCorrection, CorrectionThread, ResidualPass, Sync
<1>5. CASE UNCHANGED vars
  <2>1. pc' = pc /\ UNCHANGED <<options, layoutVars>>
    BY <1>5 DEF vars
  <2>. QED
    BY <1>1, <2>1 DEF LayoutInv
<1>. QED
  BY <1>2, <1>3, <1>4, <1>5 DEF Next, Finished

-----------------------------------------------------------------------------
(* The steps of a call. *)

\* Without residual entries no row has any.
LEMMA NoResidual ==
  ASSUME split \in Splits, ResidualNnz = 0, NEW r \in Rows, NEW c
  PROVE  ~BySparse(r, c)
<1>. DEFINE n == split.rows
            f == split.residual_row_ptr
<1>1. /\ n \in Nat /\ f \in [0 .. n -> Int] /\ \A i \in 0 .. n - 1 : f[i] <= f[i + 1]
      /\ r \in 0 .. n - 1 /\ f[n] = 0
  BY SplitFacts DEF Rows, ResidualNnz
<1>. HIDE DEF n, f
<1>2. \A i, j \in 0 .. n : i <= j => f[i] <= f[j]
  BY <1>1, StepwiseMonotone
<1>3. r + 1 \in 0 .. n /\ n \in 0 .. n /\ r + 1 <= n
  BY <1>1
<1>4. f[r + 1] <= 0
  BY <1>1, <1>2, <1>3
<1>5. /\ ResidualBegin(r) \in Nat /\ ResidualLength(r) \in Nat
      /\ ResidualBegin(r) + ResidualLength(r) = f[r + 1]
  BY RowFacts DEF f
<1>6. ResidualBegin(r) = 0 /\ ResidualLength(r) = 0
  BY <1>1, <1>3, <1>4, <1>5
<1>. QED
  BY <1>6 DEF BySparse, Residual

\* Nothing is in y that is not due.
LEMMA PresentIsDue ==
  ASSUME ControlInv, LayoutInv, Running, NEW r \in Rows, NEW c, Present(r, c)
  PROVE  c \in DueTo(r)
<1>1. split \in Splits /\ mode \in {"fused_lb", "two_pass"} /\ ItemsFit /\ ChunksFit
  BY LayoutFits DEF ControlInv, Running
<1>2. ByWarp(r, c, pending) \/ ByWarp(r, c, {}) => c \in BulkDue(r)
  BY <1>1, WarpsAdd DEF ByWarp
<1>3. ByThread(r, c, pending) => ByThread(r, c, {})
  BY DEF ByThread
<1>4. /\ pc = "correct" => corrected
      /\ pc = "residual" => mode = "two_pass"
  BY DEF ControlInv, HasCorrection, HasResidualPass
<1>. QED
  BY <1>1, <1>2, <1>3, <1>4, DueParts DEF Present

\* When the host may return, every row holds what it is owed.
LEMMA AllAdded ==
  ASSUME ControlInv, LayoutInv, KernelInv, pending = {},
         (pc = "bulk" /\ BulkIsLast) \/ pc \in {"residual", "correct"}
  PROVE  y = Due
<1>1. /\ Running /\ pc # "start" /\ split \in Splits /\ mode \in {"fused_lb", "two_pass"}
      /\ corrected \in BOOLEAN
  BY DEF Running, ControlInv
<1>2. ItemsFit /\ ChunksFit
  BY <1>1, LayoutFits
<1>3. ASSUME NEW r \in Rows, NEW c \in Contributions
      PROVE  Present(r, c) <=> c \in DueTo(r)
  <2>1. ByWarp(r, c, pending) <=> c \in BulkDue(r)
    BY <1>1, <1>2, WarpsAdd DEF ByWarp
  <2>2. c \in DueTo(r) <=> \/ c \in BulkDue(r)
                           \/ mode = "two_pass" /\ BySparse(r, c)
                           \/ corrected /\ ByThread(r, c, {})
    BY <1>1, DueParts
  <2>3. CASE pc = "bulk"
    <3>1. ~HasResidualPass /\ ~HasCorrection
      BY <2>3 DEF BulkIsLast
    <3>2. mode = "two_pass" => ~BySparse(r, c)
      <4>1. ResidualNnz \in Nat
        BY <1>1, SplitFacts DEF ResidualNnz
      <4>2. mode = "two_pass" => ResidualNnz = 0
        BY <3>1, <4>1 DEF HasResidualPass
      <4>. QED
        BY <1>1, <4>2, NoResidual
    <3>3. corrected => ~ByThread(r, c, {})
      <4>1. split.outliers \in Nat
        BY <1>1, SplitFacts
      <4>2. corrected => OutlierThreads = {}
        BY <3>1, <4>1 DEF HasCorrection, OutlierThreads
      <4>. QED
        BY <4>2 DEF ByThread
    <3>. QED
      BY <2>1, <2>2, <2>3, <3>2, <3>3 DEF Present
  <2>4. CASE pc = "residual"
    <3>1. mode = "two_pass" /\ ~corrected
      BY <2>4 DEF ControlInv, HasResidualPass
    <3>. QED
      BY <2>1, <2>2, <2>4, <3>1 DEF Present
  <2>5. CASE pc = "correct"
    <3>1. corrected /\ mode # "two_pass"
      BY <2>5 DEF ControlInv, HasCorrection
    <3>. QED
      BY <2>1, <2>2, <2>5, <3>1 DEF Present
  <2>. QED
    BY <2>3, <2>4, <2>5
<1>4. /\ y \in [Rows -> [Contributions -> Nat]]
      /\ \A r \in Rows, c \in Contributions : y[r][c] = IF Present(r, c) THEN 1 ELSE 0
  BY <1>1 DEF KernelInv
<1>5. \A r \in Rows, c \in Contributions : y[r][c] = IF c \in DueTo(r) THEN 1 ELSE 0
  BY <1>3, <1>4
<1>6. ASSUME NEW r \in Rows
      PROVE  y[r] = [c \in Contributions |-> IF c \in DueTo(r) THEN 1 ELSE 0]
  <2>1. y[r] \in [Contributions -> Nat]
    BY <1>4
  <2>. QED
    BY <1>5, <2>1
<1>7. Due = [r \in Rows |-> [c \in Contributions |-> IF c \in DueTo(r) THEN 1 ELSE 0]]
  BY DEF Due
<1>. QED
  BY <1>4, <1>6, <1>7

\* What a warp does to one row.
LEMMA RowAfterWarp ==
  ASSUME ItemsFit, ChunksFit, NEW w \in Warps, NEW r \in Rows,
         y \in [Rows -> [Contributions -> Nat]],
         y' = IF w[1] = "item" THEN WriteItem(w[2]) ELSE WriteChunk(w[2])
  PROVE  /\ DOMAIN y' = Rows
         /\ r \notin WritesOf(w) => y'[r] = y[r] /\ Adds(w, r) = {}
         /\ r \in WritesOf(w) => y'[r] = IF IsAtomic(w) THEN AtomicAdd(y[r], Adds(w, r))
                                                        ELSE Store(y[r], Adds(w, r))
<1>1. CASE \E s \in DOMAIN work_items : w = <<"item", s>>
  <2>1. PICK s \in DOMAIN work_items : w = <<"item", s>>
    BY <1>1
  <2>. DEFINE item == work_items[s]
  <2>2. /\ y' = WriteItem(s) /\ Adds(w, r) = ItemAdds(item, r)
        /\ IsAtomic(w) <=> AtomicItem(item)
        /\ r \in WritesOf(w) <=> BlockRowOf(r) = item.br
    BY <2>1 DEF Adds, IsAtomic, WritesOf
  <2>3. /\ DOMAIN WriteItem(s) = Rows
        /\ WriteItem(s)[r] =
             IF BlockRowOf(r) # item.br THEN y[r]
             ELSE IF AtomicItem(item)
                  THEN AtomicAdd(y[r], ItemBlocks(item) \cup ItemResidual(item, r))
                  ELSE Store(y[r], ItemBlocks(item) \cup ItemResidual(item, r))
    BY DEF WriteItem
  <2>. QED
    BY <2>2, <2>3 DEF ItemAdds
<1>2. CASE \E j \in DOMAIN long_chunks : w = <<"chunk", j>>
  <2>1. PICK j \in DOMAIN long_chunks : w = <<"chunk", j>>
    BY <1>2
  <2>. DEFINE chunk == long_chunks[j]
  <2>2. /\ y' = WriteChunk(j) /\ Adds(w, r) = ChunkAdds(chunk, r) /\ IsAtomic(w)
        /\ r \in WritesOf(w) <=> chunk.row = r
    BY <2>1 DEF Adds, IsAtomic, WritesOf
  <2>3. /\ DOMAIN WriteChunk(j) = Rows
        /\ WriteChunk(j)[r] =
             IF r = chunk.row THEN AtomicAdd(y[r], Residual(chunk.pbegin, chunk.pcount))
                              ELSE y[r]
    BY DEF WriteChunk
  <2>. QED
    BY <2>2, <2>3 DEF ChunkAdds
<1>. QED
  BY <1>1, <1>2, WarpForms

\* What is in y before and after a warp of the bulk kernel has run.
LEMMA WarpStep ==
  ASSUME ControlInv, LayoutInv, KernelInv, NEW w \in Warps, Warp(w)
  PROVE  KernelInv'
<1>1. /\ pc = "bulk" /\ pc' = "bulk" /\ w \in pending /\ pending' = pending \ {w}
      /\ UNCHANGED <<options, layoutVars, corrected, calls>>
      /\ y' = IF w[1] = "item" THEN WriteItem(w[2]) ELSE WriteChunk(w[2])
  BY DEF Warp
<1>2. /\ split \in Splits /\ ItemsFit /\ ChunksFit /\ Running
      /\ y \in [Rows -> [Contributions -> Nat]] /\ pending \subseteq Warps
      /\ \A r \in Rows, c \in Contributions :
           y[r][c] = IF ByWarp(r, c, pending) THEN 1 ELSE 0
  BY <1>1, LayoutFits DEF ControlInv, KernelInv, Running, Present
<1>3. ASSUME NEW r \in Rows
      PROVE  /\ y'[r] \in [Contributions -> Nat]
             /\ \A c \in Contributions :
                  y'[r][c] = IF ByWarp(r, c, pending) \/ c \in Adds(w, r) THEN 1 ELSE 0
  <2>1. /\ r \notin WritesOf(w) => y'[r] = y[r] /\ Adds(w, r) = {}
        /\ r \in WritesOf(w) => y'[r] = IF IsAtomic(w) THEN AtomicAdd(y[r], Adds(w, r))
                                                       ELSE Store(y[r], Adds(w, r))
    BY <1>1, <1>2, RowAfterWarp
  <2>2. y[r] \in [Contributions -> Nat] /\ DOMAIN y[r] = Contributions
    BY <1>2
  <2>3. CASE r \notin WritesOf(w)
    BY <1>2, <2>1, <2>2, <2>3
  <2>4. CASE r \in WritesOf(w) /\ IsAtomic(w)
    <3>1. y'[r] = AtomicAdd(y[r], Adds(w, r))
      BY <2>1, <2>4
    <3>2. ASSUME NEW c \in Contributions, ByWarp(r, c, pending) PROVE c \notin Adds(w, r)
      <4>1. PICK v \in Warps \ pending : c \in Adds(v, r)
        BY <3>2 DEF ByWarp
      <4>2. v # w /\ v \in Warps
        BY <1>1, <4>1
      <4>. QED
        BY <1>2, <4>1, <4>2, OneWarpEach
    <3>3. \A c \in Contributions : y'[r][c] = y[r][c] + (IF c \in Adds(w, r) THEN 1 ELSE 0)
      BY <2>2, <3>1 DEF AtomicAdd
    <3>4. y'[r] \in [Contributions -> Nat]
      BY <2>2, <3>1 DEF AtomicAdd
    <3>. QED
      BY <1>2, <3>2, <3>3, <3>4
  <2>5. CASE r \in WritesOf(w) /\ ~IsAtomic(w)
    <3>1. y'[r] = Store(y[r], Adds(w, r))
      BY <2>1, <2>5
    <3>2. ASSUME NEW c \in Contributions PROVE ~ByWarp(r, c, pending)
      <4>1. SUFFICES ASSUME NEW v \in Warps \ pending, c \in Adds(v, r) PROVE FALSE
        BY DEF ByWarp
      <4>2. v # w /\ v \in Warps
        BY <1>1, <4>1
      <4>3. r \in WritesOf(v)
        <5>1. CASE \E s \in DOMAIN work_items : v = <<"item", s>>
          BY <4>1, <5>1 DEF Adds, ItemAdds, WritesOf
        <5>2. CASE \E j \in DOMAIN long_chunks : v = <<"chunk", j>>
          BY <4>1, <5>2 DEF Adds, ChunkAdds, WritesOf
        <5>. QED
          BY <4>2, <5>1, <5>2, WarpForms
      <4>. QED
        BY <1>2, <2>5, <4>2, <4>3, SharedIsAtomic
    <3>3. \A c \in Contributions : y'[r][c] = IF c \in Adds(w, r) THEN 1 ELSE 0
      BY <2>2, <3>1 DEF Store
    <3>4. y'[r] \in [Contributions -> Nat]
      BY <2>2, <3>1 DEF Store
    <3>. QED
      BY <3>2, <3>3, <3>4
  <2>. QED
    BY <2>3, <2>4, <2>5
<1>4. /\ Rows' = Rows /\ Contributions' = Contributions /\ Warps' = Warps
      /\ \A r, c : ByWarp(r, c, pending)' <=> \E v \in Warps \ pending' : c \in Adds(v, r)
  BY <1>1, SameSplit, SameWarps
<1>5. \A r, c : ByWarp(r, c, pending)' <=> ByWarp(r, c, pending) \/ c \in Adds(w, r)
  BY <1>1, <1>4 DEF ByWarp
<1>6. y' \in [Rows -> [Contributions -> Nat]]
  <2>1. y' = [r \in Rows |-> y'[r]]
    BY <1>1, <1>2 DEF WriteItem, WriteChunk
  <2>. QED
    BY <1>3, <2>1
<1>7. \A r \in Rows', c \in Contributions' : y'[r][c] = IF Present(r, c)' THEN 1 ELSE 0
  BY <1>1, <1>3, <1>4, <1>5 DEF Present
<1>. QED
  BY <1>1, <1>2, <1>4, <1>6, <1>7 DEF KernelInv

\* The correction kernel adds each outlier to its row.
LEMMA CorrectionStep ==
  ASSUME ControlInv, LayoutInv, KernelInv, NEW w \in OutlierThreads, CorrectionThread(w)
  PROVE  KernelInv'
<1>1. /\ pc = "correct" /\ pc' = "correct" /\ w \in pending /\ pending' = pending \ {w}
      /\ UNCHANGED <<options, layoutVars, corrected, calls>>
      /\ y' = WriteOutlier(w[2])
  BY DEF CorrectionThread
<1>. DEFINE i   == w[2]
            row == split.outlier_rows[i]
<1>2. /\ split \in Splits /\ ItemsFit /\ ChunksFit /\ Running
      /\ y \in [Rows -> [Contributions -> Nat]] /\ pending \subseteq OutlierThreads
      /\ \A r \in Rows, c \in Contributions :
           y[r][c] = IF ByWarp(r, c, {}) \/ ByThread(r, c, pending) THEN 1 ELSE 0
  BY <1>1, LayoutFits DEF ControlInv, KernelInv, Running, Present
<1>3. w = <<"outlier", i>>
  BY DEF OutlierThreads
<1>4. y' = [y EXCEPT ![row] = AtomicAdd(@, {<<"outlier", i, i>>})]
  BY <1>1 DEF WriteOutlier
<1>. HIDE DEF i, row
<1>5. ASSUME NEW r \in Rows
      PROVE  /\ y'[r] \in [Contributions -> Nat]
             /\ \A c \in Contributions :
                  y'[r][c] = IF \/ ByWarp(r, c, {})
                                \/ ByThread(r, c, pending)
                                \/ row = r /\ c = <<"outlier", i, i>>
                             THEN 1 ELSE 0
  <2>1. y[r] \in [Contributions -> Nat] /\ DOMAIN y[r] = Contributions
    BY <1>2
  <2>2. CASE row # r
    BY <1>2, <1>4, <2>1, <2>2
  <2>3. CASE row = r
    <3>1. y'[r] = AtomicAdd(y[r], {<<"outlier", i, i>>})
      BY <1>2, <1>4, <2>3
    <3>2. y'[r] \in [Contributions -> Nat]
      BY <2>1, <3>1 DEF AtomicAdd
    <3>3. ASSUME NEW c \in Contributions, c = <<"outlier", i, i>>
          PROVE  ~ByWarp(r, c, {}) /\ ~ByThread(r, c, pending)
      <4>1. ~ByWarp(r, c, {})
        BY <1>2, <3>3, WarpsAdd, KindsDiffer DEF ByWarp
      <4>2. ASSUME NEW t \in OutlierThreads \ pending, c = <<"outlier", t[2], t[2]>> PROVE FALSE
        <5>1. t[2] = i
          BY <3>3, <4>2
        <5>2. t = w
          BY <1>3, <4>2, <5>1 DEF OutlierThreads
        <5>. QED
          BY <1>1, <4>2, <5>2
      <4>. QED
        BY <4>1, <4>2 DEF ByThread
    <3>4. \A c \in Contributions :
            y'[r][c] = y[r][c] + (IF c \in {<<"outlier", i, i>>} THEN 1 ELSE 0)
      BY <2>1, <3>1 DEF AtomicAdd
    <3>5. \A c \in Contributions : c \in {<<"outlier", i, i>>} <=> c = <<"outlier", i, i>>
      OBVIOUS
    <3>. QED
      BY <1>2, <2>3, <3>2, <3>3, <3>4, <3>5
  <2>. QED
    BY <2>2, <2>3
<1>6. /\ Rows' = Rows /\ Contributions' = Contributions /\ OutlierThreads' = OutlierThreads
      /\ \A r, c : ByWarp(r, c, {})' <=> ByWarp(r, c, {})
      /\ \A r, c : ByThread(r, c, pending)' <=>
           \E t \in OutlierThreads \ pending' :
             split.outlier_rows[t[2]] = r /\ c = <<"outlier", t[2], t[2]>>
  BY <1>1, SameSplit, SameWarps
<1>7. \A r, c : ByThread(r, c, pending)' <=>
                  ByThread(r, c, pending) \/ (row = r /\ c = <<"outlier", i, i>>)
  BY <1>1, <1>6 DEF ByThread, row, i
<1>8. y' \in [Rows -> [Contributions -> Nat]]
  <2>1. y' = [r \in Rows |-> y'[r]]
    BY <1>2, <1>4
  <2>. QED
    BY <1>5, <2>1
<1>9. \A r \in Rows', c \in Contributions' : y'[r][c] = IF Present(r, c)' THEN 1 ELSE 0
  <2>1. \A r, c : Present(r, c)' <=>
                  \/ ByWarp(r, c, {})
                  \/ ByThread(r, c, pending)
                  \/ row = r /\ c = <<"outlier", i, i>>
    BY <1>1, <1>6, <1>7 DEF Present
  <2>. QED
    BY <1>5, <1>6, <2>1
<1>. QED
  BY <1>1, <1>2, <1>6, <1>8, <1>9 DEF KernelInv

\* cuSPARSE adds the residual of every row to what the bulk kernel left.
LEMMA ResidualStep ==
  ASSUME ControlInv, LayoutInv, KernelInv, ResidualPass
  PROVE  KernelInv'
<1>1. /\ pc = "bulk" /\ pc' = "residual" /\ pending = {} /\ pending' = {}
      /\ mode = "two_pass"
      /\ UNCHANGED <<options, layoutVars, corrected, calls>>
      /\ y' = [r \in Rows |-> AtomicAdd(y[r], Residual(ResidualBegin(r), ResidualLength(r)))]
  BY DEF ResidualPass, HasResidualPass
<1>2. /\ split \in Splits /\ ItemsFit /\ ChunksFit
      /\ y \in [Rows -> [Contributions -> Nat]]
      /\ \A r \in Rows, c \in Contributions :
           y[r][c] = IF ByWarp(r, c, {}) THEN 1 ELSE 0
  BY <1>1, LayoutFits DEF ControlInv, KernelInv, Running, Present
<1>3. ASSUME NEW r \in Rows
      PROVE  /\ y'[r] \in [Contributions -> Nat]
             /\ \A c \in Contributions :
                  y'[r][c] = IF ByWarp(r, c, {}) \/ BySparse(r, c) THEN 1 ELSE 0
  <2>. DEFINE sum == Residual(ResidualBegin(r), ResidualLength(r))
  <2>1. y[r] \in [Contributions -> Nat] /\ y'[r] = AtomicAdd(y[r], sum)
    BY <1>1, <1>2
  <2>2. \A c : BySparse(r, c) <=> c \in sum
    BY DEF BySparse
  <2>3. \A c \in Contributions : ByWarp(r, c, {}) => ~BySparse(r, c)
    BY <1>1, <1>2, WarpsAdd, KindsDiffer DEF ByWarp
  <2>. HIDE DEF sum
  <2>4. /\ y'[r] \in [Contributions -> Nat]
        /\ \A c \in Contributions : y'[r][c] = y[r][c] + (IF c \in sum THEN 1 ELSE 0)
    BY <2>1 DEF AtomicAdd
  <2>. QED
    BY <1>2, <2>2, <2>3, <2>4
<1>4. /\ Rows' = Rows /\ Contributions' = Contributions
      /\ \A r, c : ByWarp(r, c, {})' <=> ByWarp(r, c, {})
      /\ \A r, c : BySparse(r, c)' <=> BySparse(r, c)
  BY <1>1, SameSplit, SameWarps
<1>5. y' \in [Rows -> [Contributions -> Nat]]
  BY <1>1, <1>3
<1>6. \A r \in Rows', c \in Contributions' : y'[r][c] = IF Present(r, c)' THEN 1 ELSE 0
  BY <1>1, <1>3, <1>4 DEF Present
<1>. QED
  BY <1>1, <1>4, <1>5, <1>6 DEF KernelInv

\* A launch zeroes y; a kernel without warps is not launched.
LEMMA LaunchStep ==
  ASSUME ControlInv, LayoutInv, KernelInv, NEW correct \in BOOLEAN, Launch(correct)
  PROVE  KernelInv'
<1>1. /\ pc = "ready" /\ pc' = "bulk" /\ y' = ZeroY
      /\ UNCHANGED <<options, layoutVars, calls>>
      /\ pending' = IF mode = "two_pass" /\ split.num_blocks = 0 THEN {} ELSE Warps
  BY DEF Launch
<1>2. /\ Rows' = Rows /\ Contributions' = Contributions /\ Warps' = Warps
      /\ \A r, c : ByWarp(r, c, pending)' <=> \E v \in Warps \ pending' : c \in Adds(v, r)
  BY <1>1, SameSplit, SameWarps
<1>3. split \in Splits /\ ItemsFit /\ ChunksFit
  BY <1>1, LayoutFits DEF ControlInv
<1>4. ASSUME NEW r \in Rows, NEW c PROVE ~ByWarp(r, c, pending)'
  <2>1. CASE pending' = Warps
    BY <1>2, <2>1
  <2>2. CASE pending' # Warps
    <3>1. mode = "two_pass" /\ split.num_blocks = 0
      BY <1>1, <2>2
    <3>2. LET br == BlockRowOf(r) IN
            /\ RowStart(br) = 0 /\ BlockCount(br) = 0
      <4>1. BlockRowOf(r) \in BlockRows
        BY <1>3, RowHasBlockRow
      <4>. QED
        BY <1>3, <3>1, <4>1, RowFacts
    <3>3. c \notin BulkDue(r)
      BY <3>1, <3>2 DEF BulkDue, BlocksIn
    <3>. QED
      BY <1>2, <1>3, <3>3, WarpsAdd
  <2>. QED
    BY <2>1, <2>2
<1>5. \A r \in Rows', c \in Contributions' : y'[r][c] = IF Present(r, c)' THEN 1 ELSE 0
  BY <1>1, <1>2, <1>4 DEF Present, ZeroY
<1>6. y' \in [Rows -> [Contributions -> Nat]] /\ pending' \subseteq Warps
  BY <1>1 DEF ZeroY
<1>. QED
  BY <1>1, <1>2, <1>5, <1>6 DEF KernelInv

LEMMA KernelStep ==
  ASSUME ControlInv, LayoutInv, KernelInv, [Next]_vars
  PROVE  KernelInv'
<1>1. CASE Prepare
  <2>1. Rows' = Rows /\ Contributions' = Contributions
    BY <1>1, SameSplit DEF Prepare
  <2>2. /\ pc = "start" /\ pc' = "ready" /\ pending = {} /\ pending' = {} /\ y' = y
        /\ calls' = 0 /\ y \in [Rows -> [Contributions -> Nat]]
    BY <1>1 DEF Prepare, KernelInv, ControlInv
  <2>. QED
    BY <2>1, <2>2 DEF KernelInv, Running
<1>2. ASSUME NEW correct \in BOOLEAN, Launch(correct) PROVE KernelInv'
  BY <1>2, LaunchStep
<1>3. ASSUME NEW w \in Warps, Warp(w) PROVE KernelInv'
  BY <1>3, WarpStep
<1>4. CASE LaunchCorrection
  <2>1. /\ pc = "bulk" /\ pc' = "correct" /\ pending = {} /\ pending' = OutlierThreads
        /\ UNCHANGED <<options, layoutVars, corrected, y, calls>>
    BY <1>4 DEF LaunchCorrection
  <2>2. /\ Rows' = Rows /\ Contributions' = Contributions /\ OutlierThreads' = OutlierThreads
        /\ \A r, c : ByWarp(r, c, {})' <=> ByWarp(r, c, {})
        /\ \A r, c : ByThread(r, c, pending)' <=>
             \E t \in OutlierThreads \ pending' :
               split.outlier_rows[t[2]] = r /\ c = <<"outlier", t[2], t[2]>>
    BY <2>1, SameSplit, SameWarps
  <2>3. \A r, c : ~ByThread(r, c, pending)'
    BY <2>1, <2>2
  <2>4. /\ y \in [Rows -> [Contributions -> Nat]]
        /\ \A r \in Rows, c \in Contributions : y[r][c] = IF ByWarp(r, c, {}) THEN 1 ELSE 0
    BY <2>1 DEF KernelInv, Running, Present
  <2>5. \A r \in Rows', c \in Contributions' : y'[r][c] = IF Present(r, c)' THEN 1 ELSE 0
    BY <2>1, <2>2, <2>3, <2>4 DEF Present
  <2>. QED
    BY <2>1, <2>2, <2>4, <2>5 DEF KernelInv
<1>5. ASSUME NEW w \in OutlierThreads, CorrectionThread(w) PROVE KernelInv'
  BY <1>5, CorrectionStep
<1>6. CASE ResidualPass
  BY <1>6, ResidualStep
<1>7. CASE Sync
  <2>1. /\ pc' = "ready" /\ pending = {} /\ pending' = {}
        /\ UNCHANGED <<options, corrected, y>>
        /\ (pc = "bulk" /\ BulkIsLast) \/ pc \in {"residual", "correct"}
    BY <1>7 DEF Sync
  <2>2. y = Due
    BY <2>1, AllAdded
  <2>3. Rows' = Rows /\ Contributions' = Contributions /\ Due' = Due
    BY <2>1, SameSplit, SameDue
  <2>. QED
    BY <2>1, <2>2, <2>3 DEF KernelInv, Running
<1>8. CASE UNCHANGED vars
  <2>1. /\ UNCHANGED <<options, layoutVars, corrected>>
        /\ pc' = pc /\ pending' = pending /\ y' = y /\ calls' = calls
    BY <1>8 DEF vars
  <2>2. /\ Rows' = Rows /\ Contributions' = Contributions /\ Warps' = Warps /\ Due' = Due
        /\ OutlierThreads' = OutlierThreads
    BY <2>1, SameSplit, SameWarps, SameDue
  <2>3. /\ \A r, c : ByWarp(r, c, {})' <=> ByWarp(r, c, {})
        /\ \A r, c : BySparse(r, c)' <=> BySparse(r, c)
        /\ \A r, c : ByWarp(r, c, pending)' <=> ByWarp(r, c, pending)
        /\ \A r, c : ByThread(r, c, pending)' <=> ByThread(r, c, pending)
    BY <2>1, SameSplit, SameWarps DEF ByWarp, ByThread
  <2>4. \A r, c : Present(r, c)' <=> Present(r, c)
    BY <2>1, <2>3 DEF Present
  <2>. QED
    BY <2>1, <2>2, <2>4 DEF KernelInv, Running
<1>. QED
  BY <1>1, <1>2, <1>3, <1>4, <1>5, <1>6, <1>7, <1>8 DEF Next, Finished

-----------------------------------------------------------------------------
(* The theorems. *)

LEMMA InitInv == Init => IInv
<1>. SUFFICES ASSUME Init PROVE IInv
  OBVIOUS
<1>1. ControlInv
  BY DEF Init, ControlInv
<1>2. LayoutInv
  BY DEF Init, LayoutInv
<1>3. KernelInv
  BY DEF Init, KernelInv, Running, ZeroY
<1>. QED
  BY <1>1, <1>2, <1>3 DEF IInv

\* The inductive invariant holds in every state of every run.
THEOREM Inductive == Spec => []IInv
<1>1. IInv /\ [Next]_vars => IInv'
  BY ControlStep, LayoutStep, KernelStep DEF IInv
<1>. QED
  BY InitInv, <1>1, PTL DEF Spec

\* In both modes, for every split, chunk size, threshold and long-row limit, no
\* warp of the bulk kernel stores plainly to a row another warp of it writes.
THEOREM NoRace == Spec => []RaceFree
<1>1. IInv => RaceFree
  <2>1. ASSUME IInv, pc = "bulk", NEW v \in Warps, NEW w \in Warps, v # w,
               WritesOf(v) \cap WritesOf(w) # {}
        PROVE  IsAtomic(v) /\ IsAtomic(w)
    <3>1. ItemsFit /\ ChunksFit
      BY <2>1, LayoutFits DEF IInv
    <3>2. PICK r : r \in WritesOf(v) /\ r \in WritesOf(w)
      BY <2>1
    <3>3. r \in Rows
      <4>1. CASE \E s \in DOMAIN work_items : v = <<"item", s>>
        BY <3>2, <4>1 DEF WritesOf
      <4>2. CASE \E j \in DOMAIN long_chunks : v = <<"chunk", j>>
        BY <3>1, <3>2, <4>2 DEF WritesOf, ChunksFit
      <4>. QED
        BY <2>1, <4>1, <4>2, WarpForms
    <3>. QED
      BY <2>1, <3>1, <3>2, <3>3, SharedIsAtomic
  <2>. QED
    BY <2>1 DEF RaceFree
<1>. QED
  BY Inductive, <1>1, PTL

\* After every call each row holds its blocks, its residual entries and its
\* outliers exactly once, whichever warp, chunk or kernel brings them.
THEOREM Exact == Spec => []ExactlyOnce
<1>1. IInv => ExactlyOnce
  BY DEF IInv, KernelInv, ExactlyOnce
<1>. QED
  BY Inductive, <1>1, PTL

\* Both modes implement the abstract call: a launch begins it, a warp, a thread
\* of the correction kernel and the cuSPARSE pass add what is still missing, and
\* the host returns when nothing is.
THEOREM Refinement == Spec => ImplementsSpmvCall
<1>. DEFINE callOf == IF pc \in {"bulk", "correct", "residual"} THEN "running"
                      ELSE IF calls > 0 THEN "returned" ELSE "idle"
<1>1. Init => Abstract!Init
  BY DEF Init, Abstract!Init
<1>2. ASSUME IInv, IInv', [Next]_vars
      PROVE  [Abstract!Next]_(Abstract!vars)
  <2>1. /\ ControlInv /\ LayoutInv /\ KernelInv /\ ControlInv' /\ LayoutInv' /\ KernelInv'
        /\ calls \in Nat
    BY <1>2 DEF IInv, ControlInv
  <2>2. ASSUME UNCHANGED <<options, corrected, y, calls>>, Running <=> Running'
        PROVE  UNCHANGED Abstract!vars
    <3>1. Due' = Due
      BY <2>2, SameDue
    <3>2. callOf' = callOf
      BY <2>2 DEF Running
    <3>. QED
      BY <2>2, <3>1, <3>2 DEF Abstract!vars
  <2>3. ASSUME UNCHANGED <<options, layoutVars, corrected, calls>>, Running, Running',
               \A r, c : Present(r, c) => Present(r, c)'
        PROVE  Abstract!Add
    <3>1. Due' = Due /\ Rows' = Rows /\ Contributions' = Contributions
      BY <2>3, SameDue, SameSplit
    <3>2. /\ y \in [Rows -> [Contributions -> Nat]] /\ y' \in [Rows -> [Contributions -> Nat]]
          /\ \A r \in Rows, c \in Contributions :
               /\ y[r][c] = IF Present(r, c) THEN 1 ELSE 0
               /\ y'[r][c] = IF Present(r, c)' THEN 1 ELSE 0
      BY <2>1, <2>3, <3>1 DEF KernelInv
    <3>3. ASSUME NEW r \in Rows, NEW c \in Contributions, Present(r, c)'
          PROVE  Due[r][c] = 1
      <4>1. (c \in DueTo(r))'
        <5>1. ControlInv' /\ LayoutInv' /\ Running' /\ r \in Rows' /\ Present(r, c)'
          BY <2>1, <2>3, <3>1, <3>3
        <5>2. (ControlInv /\ LayoutInv /\ Running /\ r \in Rows /\ Present(r, c)
                 => c \in DueTo(r))'
          BY PresentIsDue, PTL
        <5>. QED
          BY <5>1, <5>2
      <4>2. Due'[r][c] = 1
        BY <3>1, <4>1 DEF Due
      <4>. QED
        BY <3>1, <4>2
    <3>4. ASSUME NEW r \in Rows, NEW c \in Contributions
          PROVE  \/ y'[r][c] = y[r][c]
                 \/ y[r][c] = 0 /\ Due[r][c] = 1 /\ y'[r][c] = 1
      BY <2>3, <3>2, <3>3
    <3>5. /\ DOMAIN y = Rows /\ DOMAIN y' = Rows
          /\ \A r \in Rows : DOMAIN y[r] = Contributions /\ DOMAIN y'[r] = Contributions
      BY <3>2
    <3>6. callOf = "running" /\ callOf' = "running"
      BY <2>3 DEF Running
    <3>. QED
      BY <3>1, <3>4, <3>5, <3>6 DEF Abstract!Add
  <2>4. CASE Prepare
    <3>1. UNCHANGED <<options, corrected, y, calls>> /\ ~Running /\ ~Running'
      BY <2>4 DEF Prepare, Running
    <3>. QED
      BY <2>2, <3>1
  <2>5. ASSUME NEW correct \in BOOLEAN, Launch(correct)
        PROVE  Abstract!Begin
    <3>1. pc = "ready" /\ pc' = "bulk" /\ y' = ZeroY /\ UNCHANGED options
      BY <2>5 DEF Launch
    <3>2. Rows' = Rows /\ Contributions' = Contributions
      BY <3>1, SameSplit
    <3>3. DOMAIN Due' = Rows /\ \A r \in Rows : DOMAIN Due'[r] = Contributions
      BY <3>2 DEF Due
    <3>4. y' = [r \in DOMAIN Due' |-> [c \in DOMAIN Due'[r] |-> 0]]
      BY <3>1, <3>3 DEF ZeroY
    <3>5. callOf # "running" /\ callOf' = "running"
      BY <3>1
    <3>. QED
      BY <3>4, <3>5 DEF Abstract!Begin
  <2>6. ASSUME NEW w \in Warps, Warp(w)
        PROVE  Abstract!Add
    <3>1. /\ pc = "bulk" /\ pc' = "bulk" /\ pending' = pending \ {w}
          /\ UNCHANGED <<options, layoutVars, corrected, calls>>
      BY <2>6 DEF Warp
    <3>2. \A r, c : Present(r, c) => Present(r, c)'
      BY <3>1, SameWarps DEF Present, ByWarp
    <3>. QED
      BY <2>3, <3>1, <3>2 DEF Running
  <2>7. CASE LaunchCorrection
    <3>1. UNCHANGED <<options, corrected, y, calls>> /\ Running /\ Running'
      BY <2>7 DEF LaunchCorrection, Running
    <3>. QED
      BY <2>2, <3>1
  <2>8. ASSUME NEW w \in OutlierThreads, CorrectionThread(w)
        PROVE  Abstract!Add
    <3>1. /\ pc = "correct" /\ pc' = "correct" /\ pending' = pending \ {w}
          /\ UNCHANGED <<options, layoutVars, corrected, calls>>
      BY <2>8 DEF CorrectionThread
    <3>2. \A r, c : Present(r, c) => Present(r, c)'
      BY <3>1, SameWarps DEF Present, ByThread
    <3>. QED
      BY <2>3, <3>1, <3>2 DEF Running
  <2>9. CASE ResidualPass
    <3>1. /\ pc = "bulk" /\ pc' = "residual" /\ pending = {}
          /\ UNCHANGED <<options, layoutVars, corrected, calls>>
      BY <2>9 DEF ResidualPass
    <3>2. \A r, c : Present(r, c) => Present(r, c)'
      BY <3>1, SameWarps DEF Present
    <3>3. Abstract!Add
      BY <2>3, <3>1, <3>2 DEF Running
    <3>. QED
      BY <3>3 DEF Abstract!Next
  <2>10. CASE Sync
    <3>1. /\ pc' = "ready" /\ pending = {} /\ calls' = calls + 1
          /\ UNCHANGED <<options, corrected, y>>
          /\ (pc = "bulk" /\ BulkIsLast) \/ pc \in {"residual", "correct"}
      BY <2>10 DEF Sync
    <3>2. y = Due
      BY <2>1, <3>1, AllAdded
    <3>3. Due' = Due
      BY <3>1, SameDue
    <3>4. callOf = "running" /\ callOf' = "returned"
      BY <2>1, <3>1
    <3>5. Abstract!Return
      BY <3>1, <3>2, <3>3, <3>4 DEF Abstract!Return
    <3>. QED
      BY <3>5 DEF Abstract!Next
  <2>11. CASE UNCHANGED vars
    <3>1. UNCHANGED <<options, corrected, y, calls>> /\ (Running <=> Running')
      BY <2>11 DEF vars, Running
    <3>. QED
      BY <2>2, <3>1
  <2>. QED
    BY <1>2, <2>4, <2>5, <2>6, <2>7, <2>8, <2>9, <2>10, <2>11
    DEF Next, Finished, Abstract!Next
<1>. QED
  BY Inductive, <1>1, <1>2, PTL DEF Spec, ImplementsSpmvCall, Abstract!Spec
=============================================================================
