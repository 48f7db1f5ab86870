---------------------------- MODULE HostConvert -----------------------------
(***************************************************************************)
(* convert_to_bitbsr (convert.hpp): the host's conversion of a CSR matrix  *)
(* to BitBSR in three parallel loops over the block rows, with a barrier   *)
(* after each.  The first finds the block columns of every block row, a    *)
(* prefix sum gives each row its blocks and values, the second writes the  *)
(* blocks' positions and value offsets, the third drops every entry that   *)
(* is not zero into its block.                                             *)
(*                                                                         *)
(* The iterations of a loop interleave in any order, as with the threads   *)
(* of OpenMP (without it they run one after the other, one of the orders). *)
(***************************************************************************)
EXTENDS BitBsrFormat

CONSTANT CsrMatrices   \* the matrices the host may be given

ASSUME CsrAssumption == \A csr \in CsrMatrices : IsCsr(csr)

VARIABLES
  csr,                 \* the matrix to convert
  pc,                  \* the loop that runs, "done", or "failed": no matrix came out
                       \* (an exception; inside a parallel loop, the end of the process)
  active_cols,         \* [block row -> its block columns, an array]
  block_counts,        \* [block row -> entries of each of its blocks]
  block_row_ptr,       \* [block row -> its first block], from the prefix sum
  nnz_prefix,          \* [block row -> its first value]
  at,                  \* [block row -> how far the iteration is in its loop]
  ended,               \* the iterations of the running loop that are over
  write_pos,           \* [block row -> where each block's next value goes]
  block_col_idx, bitmap_words, block_val_ptr, values   \* the arrays of out

vars == <<csr, pc, active_cols, block_counts, block_row_ptr, nnz_prefix, at, ended,
          write_pos, block_col_idx, bitmap_words, block_val_ptr, values>>

outVars == <<block_col_idx, bitmap_words, block_val_ptr, values>>

num_block_rows == ceil_div(csr.rows, block_rows)
BlockRows      == 0 .. num_block_rows - 1

\* Where the entries of a block row begin and end in the CSR arrays.
EntriesBegin(br) == csr.row_ptr[br * block_rows]
EntriesEnd(br)   == csr.row_ptr[Smaller(csr.rows, (br + 1) * block_rows)]
BlockRowEntries(br) ==
  {p \in EntriesBegin(br) .. EntriesEnd(br) - 1 : csr.values[p] # 0}

BlockCol(p) == csr.col_idx[p] \div block_cols
RowOf(p)    == CHOOSE r \in 0 .. csr.rows - 1 : p \in Positions(csr, r)

\* The numbers of a set as an increasing array.
Ascending(set) ==
  [i \in 0 .. Cardinality(set) - 1 |->
     CHOOSE c \in set : Cardinality({d \in set : d < c}) = i]

\* An iteration of the third loop that has not begun.
Todo == -1

Init ==
  /\ csr \in CsrMatrices
  /\ pc = "scan"
  /\ active_cols = [br \in BlockRows |-> << >>]
  /\ block_counts = [br \in BlockRows |-> << >>]
  /\ block_row_ptr = [br \in 0 .. num_block_rows |-> 0]
  /\ nnz_prefix = [br \in 0 .. num_block_rows |-> 0]
  /\ at = [br \in BlockRows |-> Todo]
  /\ ended = {}
  /\ write_pos = << >>
  /\ block_col_idx = << >> /\ bitmap_words = << >>
  /\ block_val_ptr = << >> /\ values = << >>

-----------------------------------------------------------------------------
(* The first loop. *)

\* Fault: entries that are stored zeros take part in the count of a block row.
CountStoredZeros(br) == EntriesEnd(br) - EntriesBegin(br)

BlockRowNnz(br) == Cardinality(BlockRowEntries(br))

\* The block columns of a block row, sorted, and how often each occurs; the
\* counts go into the cells after br, which no other iteration writes.
Scan(br) ==
  /\ pc = "scan"
  /\ br \notin ended
  /\ LET cols == Ascending({BlockCol(p) : p \in BlockRowEntries(br)})
     IN  /\ active_cols' = [active_cols EXCEPT ![br] = cols]
         /\ block_counts' = [block_counts EXCEPT ![br] =
              [i \in DOMAIN cols |->
                 Cardinality({p \in BlockRowEntries(br) : BlockCol(p) = cols[i]})]]
         /\ block_row_ptr' = [block_row_ptr EXCEPT ![br + 1] = size(cols)]
  /\ nnz_prefix' = [nnz_prefix EXCEPT ![br + 1] = BlockRowNnz(br)]
  /\ ended' = ended \cup {br}
  /\ UNCHANGED <<csr, pc, at, write_pos, outVars>>

\* Sum up what the first loop counted and allocate the arrays.
Allocate ==
  /\ pc = "scan"
  /\ ended = BlockRows
  /\ LET row_ptr == PrefixSum([br \in BlockRows |-> block_row_ptr[br + 1]], num_block_rows)
         prefix  == PrefixSum([br \in BlockRows |-> nnz_prefix[br + 1]], num_block_rows)
         total_blocks == row_ptr[num_block_rows]
     IN  /\ block_row_ptr' = row_ptr
         /\ nnz_prefix' = prefix
         /\ block_col_idx' = [b \in 0 .. total_blocks - 1 |-> 0]
         /\ bitmap_words' = [b \in 0 .. total_blocks - 1 |-> {}]
         /\ block_val_ptr' = [b \in 0 .. total_blocks |-> 0]
         /\ values' = [p \in 0 .. prefix[num_block_rows] - 1 |-> 0]
  /\ at' = [br \in BlockRows |-> 0]
  /\ ended' = {}
  /\ pc' = "place"
  /\ UNCHANGED <<csr, active_cols, block_counts, write_pos>>

-----------------------------------------------------------------------------
(* The second loop: at[br] blocks of the row are placed. *)

\* The entries of the row's first i blocks.
CountsBefore(br, i) == PrefixSum(block_counts[br], i)[i]

Place(br) ==
  /\ pc = "place"
  /\ at[br] \in DOMAIN active_cols[br]
  /\ LET block_id == block_row_ptr[br] + at[br]
     IN  /\ block_col_idx' = [block_col_idx EXCEPT ![block_id] = active_cols[br][at[br]]]
         /\ block_val_ptr' = [block_val_ptr EXCEPT
                                ![block_id] = nnz_prefix[br] + CountsBefore(br, at[br])]
  /\ at' = [at EXCEPT ![br] = @ + 1]
  /\ UNCHANGED <<csr, pc, active_cols, block_counts, block_row_ptr, nnz_prefix,
                 ended, write_pos, bitmap_words, values>>

\* Fault: the end of the row is put at the start of its last block.
EndOfLastBlock(br) == nnz_prefix[br] + CountsBefore(br, size(active_cols[br]) - 1)

EndOfBlocks(br) == nnz_prefix[br] + CountsBefore(br, size(active_cols[br]))

\* The offset behind the row's last block: the same cell as the first block of
\* the next row that has any, whose iteration may write it at the same time.
PlaceEnd(br) ==
  /\ pc = "place"
  /\ br \notin ended
  /\ at[br] = size(active_cols[br])
  /\ block_val_ptr' = IF active_cols[br] = << >> THEN block_val_ptr
                      ELSE [block_val_ptr EXCEPT
                              ![block_row_ptr[br] + size(active_cols[br])] = EndOfBlocks(br)]
  /\ ended' = ended \cup {br}
  /\ UNCHANGED <<csr, pc, active_cols, block_counts, block_row_ptr, nnz_prefix, at,
                 write_pos, block_col_idx, bitmap_words, values>>

\* The barrier, and the offset behind the last block of all.
EndPlace ==
  /\ pc = "place"
  /\ ended = BlockRows
  /\ block_val_ptr' = [block_val_ptr EXCEPT ![size(block_col_idx)] = size(values)]
  /\ write_pos' = [br \in BlockRows |-> << >>]
  /\ at' = [br \in BlockRows |-> Todo]
  /\ ended' = {}
  /\ pc' = "fill"
  /\ UNCHANGED <<csr, active_cols, block_counts, block_row_ptr, nnz_prefix,
                 block_col_idx, bitmap_words, values>>

-----------------------------------------------------------------------------
(* The third loop: at[br] is the next CSR position to look at. *)

FillStart(br) ==
  /\ pc = "fill"
  /\ at[br] = Todo
  /\ write_pos' = [write_pos EXCEPT ![br] =
                     [i \in DOMAIN active_cols[br] |-> block_val_ptr[block_row_ptr[br] + i]]]
  /\ at' = [at EXCEPT ![br] = EntriesBegin(br)]
  /\ UNCHANGED <<csr, pc, active_cols, block_counts, block_row_ptr, nnz_prefix, ended,
                 outVars>>

\* Fault: the bit is laid out by columns.
BitByColumns(br, p) ==
  (RowOf(p) - br * block_rows) + (csr.col_idx[p] % block_cols) * block_rows

BitOf(br, p) ==
  (RowOf(p) - br * block_rows) * block_cols + (csr.col_idx[p] % block_cols)

AfterZero(p) == p + 1

SkipZero(br) ==
  /\ pc = "fill"
  /\ at[br] \in EntriesBegin(br) .. EntriesEnd(br) - 1
  /\ csr.values[at[br]] = 0
  /\ at' = [at EXCEPT ![br] = AfterZero(at[br])]
  /\ UNCHANGED <<csr, pc, active_cols, block_counts, block_row_ptr, nnz_prefix, ended,
                 write_pos, outVars>>

\* One entry goes into its block.  A bit set twice, or a block that is not
\* found, is an exception: it ends the program or, without OpenMP, the call.
Fill(br) ==
  /\ pc = "fill"
  /\ at[br] \in EntriesBegin(br) .. EntriesEnd(br) - 1
  /\ csr.values[at[br]] # 0
  /\ LET p     == at[br]
         fits  == {i \in DOMAIN active_cols[br] :
                     /\ active_cols[br][i] = BlockCol(p)
                     /\ BitOf(br, p) \notin bitmap_words[block_row_ptr[br] + i]}
     IN  \/ /\ fits = {}
            /\ pc' = "failed"
            /\ UNCHANGED <<at, write_pos, bitmap_words, values>>
         \/ \E i \in fits :
            /\ bitmap_words' = [bitmap_words EXCEPT
                                  ![block_row_ptr[br] + i] = @ \cup {BitOf(br, p)}]
            /\ values' = [values EXCEPT ![write_pos[br][i]] = csr.values[p]]
            /\ write_pos' = [write_pos EXCEPT ![br][i] = @ + 1]
            /\ at' = [at EXCEPT ![br] = p + 1]
            /\ UNCHANGED pc
  /\ UNCHANGED <<csr, active_cols, block_counts, block_row_ptr, nnz_prefix, ended,
                 block_col_idx, block_val_ptr>>

\* Every block of the row must be full.
FillEnd(br) ==
  /\ pc = "fill"
  /\ br \notin ended
  /\ at[br] = EntriesEnd(br)
  /\ IF \A i \in DOMAIN active_cols[br] :
          write_pos[br][i] = block_val_ptr[block_row_ptr[br] + i + 1]
     THEN ended' = ended \cup {br} /\ UNCHANGED pc
     ELSE pc' = "failed" /\ UNCHANGED ended
  /\ UNCHANGED <<csr, active_cols, block_counts, block_row_ptr, nnz_prefix, at,
                 write_pos, outVars>>

out ==
  [rows |-> csr.rows, cols |-> csr.cols, num_block_rows |-> num_block_rows,
   num_block_cols |-> ceil_div(csr.cols, block_cols),
   block_row_ptr |-> block_row_ptr, block_col_idx |-> block_col_idx,
   bitmap_words |-> bitmap_words, block_val_ptr |-> block_val_ptr, values |-> values]

\* The barrier, and the validation of the result.
Validate ==
  /\ pc = "fill"
  /\ ended = BlockRows
  /\ pc' = IF IsBitBsr(out) THEN "done" ELSE "failed"
  /\ UNCHANGED <<csr, active_cols, block_counts, block_row_ptr, nnz_prefix, at,
                 ended, write_pos, outVars>>

Over == pc \in {"done", "failed"} /\ UNCHANGED vars

Loop(br) == Scan(br) \/ Place(br) \/ PlaceEnd(br) \/ FillStart(br)
            \/ SkipZero(br) \/ Fill(br) \/ FillEnd(br)

Step == Allocate \/ EndPlace \/ Validate \/ \E br \in BlockRows : Loop(br)

Next == Step \/ Over

Spec == Init /\ [][Next]_vars

-----------------------------------------------------------------------------
(* What the conversion is for. *)

\* A matrix with sorted rows, stored zeros or not, is converted to the BitBSR
\* matrix that stands for it, whatever order the iterations ran in.
Converted == pc = "done" /\ HasSortedRows(csr) => Represents(out, csr)

\* The conversion fails exactly on the matrices that store an entry twice: the
\* counts, the offsets and the filling never disagree by themselves.
FailsOnDuplicates ==
  /\ pc = "done" => ~HasDuplicates(csr)
  /\ pc = "failed" => HasDuplicates(csr)

\* Two iterations may write the same offset, and then write the same number;
\* no value is ever written over another.
RacingWritesAgree ==
  [][/\ \A b \in DOMAIN block_val_ptr : block_val_ptr[b] \in {0, block_val_ptr'[b]}
     /\ \A p \in DOMAIN values : values[p] \in {0, values'[p]}]_<<block_val_ptr, values>>
=============================================================================
