----------------------------- MODULE WarpDirect -----------------------------
(***************************************************************************)
(* The GPU converter (gpu_convert.cuh): CSR to BitBSR with one warp per    *)
(* block row.  The host uploads the matrix without its stored zeros; one   *)
(* kernel counts the blocks of every block row, a scan gives each row its  *)
(* blocks, and a second kernel walks the same entries again and writes     *)
(* them.  In every turn a warp takes the smallest block column that any of *)
(* its lanes (one per matrix row) stands at, and every lane moves past its *)
(* entries in that column.                                                 *)
(*                                                                         *)
(* The workspace and the result are reused from one conversion to the next *)
(* and keep what resizing does not drop.                                   *)
(***************************************************************************)
EXTENDS BitBsrFormat

CONSTANTS
  CsrMatrices,       \* the matrices the host may be given
  MaxConversions     \* bound: conversions into the same workspace and result

ASSUME CsrAssumption == \A csr \in CsrMatrices : IsCsr(csr)
ASSUME ConversionsAssumption == MaxConversions \in Nat \ {0}

VARIABLES
  csr,               \* the matrix of the running or last conversion
  pc,                \* "idle", "count", "fill" or "done"
  effective_csr,     \* what was uploaded: csr without its stored zeros
  block_counts,      \* [block row -> its blocks], in the workspace
  device,            \* the DeviceBitBsrMatrix
  warp,              \* [block row -> registers of its warp]
  left,              \* the warps of the launched kernel that are not over
  conversions        \* how many conversions were asked for

vars == <<csr, pc, effective_csr, block_counts, device, warp, left, conversions>>

BlockRows == 0 .. device.num_block_rows - 1
Rows(br)  == BlockRowRows(effective_csr, br)

\* What a device vector holds after resize: its old cells, zeros behind them.
Resize(array, n) == [i \in 0 .. n - 1 |-> IF i \in DOMAIN array THEN array[i] ELSE 0]

\* Fault: the vector is resized but not filled with zeros.
KeepOldCells(array, n) == Resize(array, n)

ZeroFilled(array, n) == [i \in 0 .. n - 1 |-> 0]

EmptyDevice ==
  [rows |-> 0, cols |-> 0, num_block_rows |-> 0, num_block_cols |-> 0,
   num_blocks |-> 0, nnz |-> 0, block_row_ptr |-> << >>, block_row_val_ptr |-> << >>,
   block_col_idx |-> << >>, bitmap_words |-> << >>, values |-> << >>]

Init ==
  /\ csr \in CsrMatrices
  /\ pc = "idle"
  /\ effective_csr = csr
  /\ block_counts = << >>
  /\ device = EmptyDevice
  /\ warp = << >>
  /\ left = {}
  /\ conversions = 0

-----------------------------------------------------------------------------
(* A warp.  Its lanes are the rows of the block row that exist. *)

\* Fault: the lanes start one entry into their rows.
SkipFirst(br) ==
  [row \in Rows(br) |-> Smaller(effective_csr.row_ptr[row] + 1, effective_csr.row_ptr[row + 1])]

LaneStart(br) == [row \in Rows(br) |-> effective_csr.row_ptr[row]]

Col(p) == effective_csr.col_idx[p]

AtWork(pos) == {row \in DOMAIN pos : pos[row] < effective_csr.row_ptr[row + 1]}

\* The block column of a turn: the smallest any lane stands at.
MinBlockCol(pos) ==
  CHOOSE c \in {Col(pos[row]) \div block_cols : row \in AtWork(pos)} :
    \A row \in AtWork(pos) : c <= Col(pos[row]) \div block_cols

\* The entries a lane passes in a turn: those before the first in another column.
Passed(pos, row, block_col) ==
  {p \in pos[row] .. effective_csr.row_ptr[row + 1] - 1 :
     \A q \in pos[row] .. p : Col(q) \div block_cols = block_col}

AfterTurn(pos, block_col) ==
  [row \in DOMAIN pos |-> pos[row] + Cardinality(Passed(pos, row, block_col))]

-----------------------------------------------------------------------------
(* The conversion. *)

\* Upload, resize, and launch the counting kernel.  Without entries the result
\* is complete at once.
Convert(matrix) ==
  /\ pc \in {"idle", "done"}
  /\ conversions < MaxConversions
  /\ conversions' = conversions + 1
  /\ csr' = matrix
  /\ LET effective == IF has_stored_zeros(matrix) THEN remove_stored_zeros(matrix) ELSE matrix
         rows == ceil_div(effective.rows, block_rows)
         nnz  == size(effective.values)
     IN  /\ effective_csr' = effective
         /\ block_counts' = Resize(block_counts, rows)
         /\ device' =
              [rows |-> effective.rows, cols |-> effective.cols,
               num_block_rows |-> rows, num_block_cols |-> ceil_div(effective.cols, block_cols),
               num_blocks |-> 0, nnz |-> nnz,
               block_row_ptr     |-> ZeroFilled(device.block_row_ptr, rows + 1),
               block_row_val_ptr |-> ZeroFilled(device.block_row_val_ptr, rows + 1),
               values            |-> Resize(device.values, nnz),
               block_col_idx |-> IF nnz = 0 THEN << >> ELSE device.block_col_idx,
               bitmap_words  |-> IF nnz = 0 THEN << >> ELSE device.bitmap_words]
         /\ pc' = IF nnz = 0 THEN "done" ELSE "count"
         /\ left' = IF nnz = 0 THEN {} ELSE 0 .. rows - 1
         /\ warp' = IF nnz = 0 THEN << >>
                    ELSE [br \in 0 .. rows - 1 |->
                            [pos |-> [row \in BlockRowRows(effective, br) |->
                                        effective.row_ptr[row]],
                             count |-> 0]]

\* A turn of the counting kernel; without an entry left the warp writes its count.
Count(br) ==
  /\ pc = "count"
  /\ br \in left
  /\ LET pos == warp[br].pos IN
     IF AtWork(pos) = {}
     THEN /\ block_counts' = [block_counts EXCEPT ![br] = warp[br].count]
          /\ left' = left \ {br}
          /\ UNCHANGED warp
     ELSE /\ warp' = [warp EXCEPT ![br] =
                        [pos |-> AfterTurn(pos, MinBlockCol(pos)), count |-> @.count + 1]]
          /\ UNCHANGED <<block_counts, left>>
  /\ UNCHANGED <<csr, pc, effective_csr, device, conversions>>

\* The launched kernel is over.
LastWarp == left = {}

\* The first value of a block row, as the filling warp takes it.
ValueStart(br) == effective_csr.row_ptr[br * block_rows]

\* The scan, the resizing of the blocks, the value starts of the block rows,
\* and the launch of the filling kernel, all in the order of the stream.
Scan ==
  /\ pc = "count"
  /\ LastWarp
  /\ LET ptr == PrefixSum(block_counts, device.num_block_rows)
         num_blocks == ptr[device.num_block_rows]
     IN  /\ device' = [device EXCEPT
              !.block_row_ptr = ptr,
              !.num_blocks = num_blocks,
              !.block_col_idx = Resize(device.block_col_idx, num_blocks),
              !.bitmap_words = [b \in 0 .. num_blocks - 1 |-> {}],
              !.block_row_val_ptr =
                 [br \in 0 .. device.num_block_rows |->
                    effective_csr.row_ptr[Smaller(device.rows, br * block_rows)]]]
         /\ warp' = [br \in BlockRows |->
                       [pos |-> LaneStart(br), block_id |-> ptr[br],
                        value_pos |-> ValueStart(br)]]
  /\ left' = BlockRows
  /\ pc' = "fill"
  /\ UNCHANGED <<csr, effective_csr, block_counts, conversions>>

\* The bits of a turn and, per lane, where its values go: behind those of the
\* lanes before it.
TurnBits(br, pos, block_col) ==
  UNION {{(row - br * block_rows) * block_cols + Col(p) - block_col * block_cols :
            p \in Passed(pos, row, block_col)} : row \in DOMAIN pos}

PassedBefore(pos, block_col, row) ==
  UNION {Passed(pos, r, block_col) : r \in {r \in DOMAIN pos : r < row}}

LaneOffset(pos, block_col, row) == Cardinality(PassedBefore(pos, block_col, row))

\* The cell of the values that entry p of a lane goes to.
Target(w, block_col, row, p) ==
  w.value_pos + LaneOffset(w.pos, block_col, row) + (p - w.pos[row])

Written(w, block_col) ==
  UNION {{<<Target(w, block_col, row, p), effective_csr.values[p]>> :
            p \in Passed(w.pos, row, block_col)} : row \in DOMAIN w.pos}

\* A turn of the filling kernel.
Fill(br) ==
  /\ pc = "fill"
  /\ br \in left
  /\ LET w == warp[br] IN
     IF AtWork(w.pos) = {}
     THEN left' = left \ {br} /\ UNCHANGED <<device, warp>>
     ELSE LET c == MinBlockCol(w.pos)
              written == Written(w, c)
          IN  /\ device' = [device EXCEPT
                   !.block_col_idx[w.block_id] = c,
                   !.bitmap_words[w.block_id] = TurnBits(br, w.pos, c),
                   !.values = [i \in DOMAIN device.values |->
                      IF \E v \in written : v[1] = i
                      THEN (CHOOSE v \in written : v[1] = i)[2] ELSE device.values[i]]]
              /\ warp' = [warp EXCEPT ![br] =
                   [pos |-> AfterTurn(w.pos, c), block_id |-> w.block_id + 1,
                    value_pos |-> w.value_pos
                       + Cardinality(UNION {Passed(w.pos, row, c) : row \in DOMAIN w.pos})]]
              /\ UNCHANGED left
  /\ UNCHANGED <<csr, pc, effective_csr, block_counts, conversions>>

\* The event or device synchronisation at the end; the shapes are validated.
Sync ==
  /\ pc = "fill"
  /\ LastWarp
  /\ pc' = "done"
  /\ UNCHANGED <<csr, effective_csr, block_counts, device, warp, left, conversions>>

Finished == pc = "done" /\ conversions = MaxConversions /\ UNCHANGED vars

KernelStep == \E br \in BlockRows : Count(br) \/ Fill(br)

Next ==
  \/ \E matrix \in CsrMatrices : Convert(matrix)
  \/ KernelStep \/ Scan \/ Sync \/ Finished

Spec == Init /\ [][Next]_vars

-----------------------------------------------------------------------------
(* The way to the host and back. *)

\* The value offsets of the blocks, rebuilt from the popcounts.
BlockValPtr(d) ==
  [b \in 0 .. d.num_blocks |->
     IF b = d.num_blocks THEN d.nnz
     ELSE LET br == CHOOSE br \in 0 .. d.num_block_rows - 1 :
                      b \in d.block_row_ptr[br] .. d.block_row_ptr[br + 1] - 1
              bits == [i \in 0 .. b - 1 |-> IF i < d.block_row_ptr[br] THEN 0
                                            ELSE Cardinality(d.bitmap_words[i])]
          IN  d.block_row_val_ptr[br] + PrefixSum(bits, b)[b]]

\* What to_host returns, before it is validated.
to_host(d) ==
  [rows |-> d.rows, cols |-> d.cols,
   num_block_rows |-> d.num_block_rows, num_block_cols |-> d.num_block_cols,
   block_row_ptr |-> d.block_row_ptr, block_col_idx |-> d.block_col_idx,
   bitmap_words |-> d.bitmap_words, block_val_ptr |-> BlockValPtr(d), values |-> d.values]

\* Fault: the value start of a block row is taken at the block with its number.
ValPtrOfRowNumber(host) ==
  [br \in 0 .. host.num_block_rows |->
     host.block_val_ptr[Smaller(br, size(host.block_col_idx))]]

BlockRowValPtr(host) ==
  [br \in 0 .. host.num_block_rows |-> host.block_val_ptr[host.block_row_ptr[br]]]

copy_bitbsr_to_device(host) ==
  [rows |-> host.rows, cols |-> host.cols,
   num_block_rows |-> host.num_block_rows, num_block_cols |-> host.num_block_cols,
   num_blocks |-> size(host.block_col_idx), nnz |-> size(host.values),
   block_row_ptr |-> host.block_row_ptr, block_row_val_ptr |-> BlockRowValPtr(host),
   block_col_idx |-> host.block_col_idx, bitmap_words |-> host.bitmap_words,
   values |-> host.values]

-----------------------------------------------------------------------------
(* What the converter is for. *)

\* Columns do not decrease along a row: equal ones stand together.
HasOrderedRows(m) ==
  \A r \in 0 .. m.rows - 1 : \A p, q \in Positions(m, r) :
    p < q => m.col_idx[p] <= m.col_idx[q]

\* A matrix with sorted rows is converted to the BitBSR matrix that stands for
\* it, the one the host's conversion gives, also in a reused workspace.  No
\* kernel looks for duplicates, but what becomes of a matrix that has any, side
\* by side in their row, is not BitBSR: bringing it to the host fails.
Converted ==
  pc = "done" =>
    /\ HasSortedRows(csr) => Represents(to_host(device), csr)
    /\ HasOrderedRows(csr) /\ HasDuplicates(csr) => ~IsBitBsr(to_host(device))

\* The filling warps write the blocks and the values of their own block rows,
\* and have written all of them in the end: both kernels see the same blocks.
WarpsStayApart ==
  pc = "fill" =>
    \A br \in BlockRows :
      LET w == warp[br] IN
      /\ w.block_id  <= device.block_row_ptr[br + 1]
      /\ w.value_pos <= device.block_row_val_ptr[br + 1]
      /\ br \notin left => /\ w.block_id  = device.block_row_ptr[br + 1]
                           /\ w.value_pos = device.block_row_val_ptr[br + 1]

\* A result brought to the host and copied back is the result: the value starts
\* the kernels work with are those of the blocks.
RoundTrip ==
  pc = "done" /\ ~HasDuplicates(csr) =>
    copy_bitbsr_to_device(to_host(device)) = device
=============================================================================
