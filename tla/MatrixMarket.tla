---------------------------- MODULE MatrixMarket ----------------------------
(***************************************************************************)
(* read_matrix_market_with_info (matrix_market.hpp): the loader reads the  *)
(* file twice, once to count the entries of every row and once to place    *)
(* them, expands the mirrored half of a symmetric file, then sorts every   *)
(* row, adds up duplicates and drops what is zero.                         *)
(*                                                                         *)
(* The file may be replaced by another while it is read; an open stream    *)
(* keeps reading the old one.  A line is <<row, column, value>>, counted   *)
(* from one; row 0 stands for every line that cannot be parsed.            *)
(***************************************************************************)
EXTENDS Integers, Sequences, FiniteSets, SequencesExt

CONSTANT Files    \* the files there may be: a header and lines each

ASSUME FilesAssumption ==
  \A f \in Files : /\ f.rows \in Nat /\ f.cols \in Nat /\ f.nnz_file \in Nat
                   /\ f.field \in {"real", "pattern", "complex"}
                   /\ f.symmetry \in {"general", "symmetric", "skew-symmetric", "hermitian"}

VARIABLES
  file,              \* what the path names
  replaced,          \* whether it was replaced while it was read
  info,              \* what the first reading found in the header
  opened,            \* the files opened so far: the stream reads the last of them
  entries_read,      \* how many entries it has read
  pc,                \* "count", "reopen", "fill", "coalesce", "done", "failed", "undefined"
  row_ptr, col_idx, values,  \* csr while it is filled
  next,              \* [row -> where its next entry goes]
  acc,               \* the coalesced rows so far: columns, values, row starts
  expanded_entries   \* entries with their mirror images

vars == <<file, replaced, info, opened, entries_read, pc, row_ptr, col_idx, values, next,
          acc, expanded_entries>>

Header(f) == [rows |-> f.rows, cols |-> f.cols, nnz_file |-> f.nnz_file,
              field |-> f.field, symmetry |-> f.symmetry]

\* Complex values, and the patterns and mirror images that would need them or a sign.
Unsupported(f) ==
  \/ f.field = "complex" \/ f.symmetry = "hermitian"
  \/ f.field = "pattern" /\ f.symmetry = "skew-symmetric"

Rows == 0 .. info.rows - 1

Init ==
  /\ file \in Files
  /\ replaced = FALSE
  /\ info = Header(file)
  /\ opened = <<file>>
  /\ entries_read = 0
  /\ pc = IF Unsupported(file) THEN "failed" ELSE "count"
  /\ row_ptr = [r \in 0 .. file.rows |-> 0]
  /\ col_idx = << >> /\ values = << >> /\ next = << >>
  /\ acc = [col |-> << >>, val |-> << >>, ptr |-> <<0>>]
  /\ expanded_entries = 0

\* Someone replaces the file.
Replace(other) ==
  /\ pc \in {"count", "reopen", "fill"}
  /\ ~replaced
  /\ file' = other
  /\ replaced' = TRUE
  /\ UNCHANGED <<info, opened, entries_read, pc, row_ptr, col_idx, values, next, acc,
                 expanded_entries>>

-----------------------------------------------------------------------------
(* Reading an entry. *)

Lines == Last(opened).lines
Line  == Lines[entries_read + 1]
Value == IF info.field = "pattern" THEN 1 ELSE Line[3]
MoreEntries == entries_read < info.nnz_file /\ entries_read < Len(Lines)

LineIsLegal == Line[1] \in 1 .. info.rows /\ Line[2] \in 1 .. info.cols

Mirrors == info.symmetry # "general" /\ Line[1] # Line[2]

MirroredValue(v) == IF info.symmetry = "skew-symmetric" THEN -v ELSE v

\* The entry of the line and its mirror image, counted from zero.
Expanded ==
  <<<<Line[1] - 1, Line[2] - 1, Value>>>> \o
  (IF Mirrors THEN <<<<Line[2] - 1, Line[1] - 1, MirroredValue(Value)>>>> ELSE << >>)

\* A line that is out of range, or none where one is due.
ReadFails ==
  /\ pc \in {"count", "fill"}
  /\ \/ MoreEntries /\ ~LineIsLegal
     \/ ~MoreEntries /\ entries_read < info.nnz_file
  /\ pc' = "failed"
  /\ UNCHANGED <<file, replaced, info, opened, entries_read, row_ptr, col_idx, values, next,
                 acc, expanded_entries>>

CountEntry ==
  /\ pc = "count"
  /\ MoreEntries /\ LineIsLegal
  /\ row_ptr' = [r \in DOMAIN row_ptr |->
       row_ptr[r] + Len(SelectSeq(Expanded, LAMBDA e : e[1] + 1 = r))]
  /\ entries_read' = entries_read + 1
  /\ UNCHANGED <<file, replaced, info, opened, pc, col_idx, values, next, acc,
                 expanded_entries>>

\* The row pointers summed up and the arrays allocated.
EndCount ==
  /\ pc = "count"
  /\ entries_read = info.nnz_file
  /\ row_ptr' = [r \in DOMAIN row_ptr |-> FoldLeft(+, 0, [i \in 1 .. r |-> row_ptr[i]])]
  /\ expanded_entries' = row_ptr'[info.rows]
  /\ col_idx' = [p \in 0 .. row_ptr'[info.rows] - 1 |-> 0]
  /\ values' = [p \in 0 .. row_ptr'[info.rows] - 1 |-> 0]
  /\ pc' = "reopen"
  /\ UNCHANGED <<file, replaced, info, opened, entries_read, next, acc>>

\* Fault: only the size line is compared.
SameSize ==
  file.rows = info.rows /\ file.cols = info.cols /\ file.nnz_file = info.nnz_file

SameHeader == Header(file) = info

Reopen ==
  /\ pc = "reopen"
  /\ pc' = IF ~Unsupported(file) /\ SameHeader THEN "fill" ELSE "failed"
  /\ opened' = Append(opened, file)
  /\ entries_read' = 0
  /\ next' = row_ptr
  /\ UNCHANGED <<file, replaced, info, row_ptr, col_idx, values, acc, expanded_entries>>

\* Fault: the row's position is advanced before it is used.
SlotAfterNext(k) == next[Expanded[k][1]] + 1

\* The slots the entries of a line take, one after the other.
Slot(k) ==
  LET r == Expanded[k][1]
  IN  next[r] + Len(SelectSeq(SubSeq(Expanded, 1, k - 1), LAMBDA e : e[1] = r))

\* Entries past the end of the arrays write where nothing is allocated.
FillEntry ==
  /\ pc = "fill"
  /\ MoreEntries /\ LineIsLegal
  /\ LET slots == {Slot(k) : k \in DOMAIN Expanded} IN
     IF slots \subseteq DOMAIN values
     THEN LET at(p) == {k \in DOMAIN Expanded : Slot(k) = p} IN
          /\ col_idx' = [p \in DOMAIN col_idx |->
               IF at(p) = {} THEN col_idx[p] ELSE Expanded[CHOOSE k \in at(p) : TRUE][2]]
          /\ values' = [p \in DOMAIN values |->
               IF at(p) = {} THEN values[p] ELSE Expanded[CHOOSE k \in at(p) : TRUE][3]]
          /\ next' = [r \in DOMAIN next |->
               next[r] + Len(SelectSeq(Expanded, LAMBDA e : e[1] = r))]
          /\ entries_read' = entries_read + 1
          /\ UNCHANGED pc
     ELSE pc' = "undefined" /\ UNCHANGED <<col_idx, values, next, entries_read>>
  /\ UNCHANGED <<file, replaced, info, opened, row_ptr, acc, expanded_entries>>

EndFill ==
  /\ pc = "fill"
  /\ entries_read = info.nnz_file
  /\ pc' = "coalesce"
  /\ UNCHANGED <<file, replaced, info, opened, entries_read, row_ptr, col_idx, values, next,
                 acc, expanded_entries>>

-----------------------------------------------------------------------------
(* Sorting and coalescing, one row after the other. *)

\* The row's entries in the order of their columns.
SortedRow(row) ==
  SortSeq([i \in 1 .. row_ptr[row + 1] - row_ptr[row] |->
             <<col_idx[row_ptr[row] + i - 1], values[row_ptr[row] + i - 1]>>],
          LAMBDA a, b : a[1] < b[1])

\* Fault: an entry is added to the last of the row before if the columns agree.
SameCellAnyRow(a, col) == a.col # << >> /\ a.col[Len(a.col)] = col

\* The entry belongs to the last cell, and that cell is one of this row.
SameCell(a, col) ==
  a.ptr[Len(a.ptr)] < Len(a.col) /\ a.col[Len(a.col)] = col

Coalesce(a, e) ==
  IF SameCell(a, e[1])
  THEN [a EXCEPT !.val = [@ EXCEPT ![Len(@)] = @ + e[2]]]
  ELSE [a EXCEPT !.col = Append(@, e[1]), !.val = Append(@, e[2])]

\* The cells of the last row that are not zero, and the row's end.
DropZeros(a) ==
  LET begin == a.ptr[Len(a.ptr)]
      kept  == SelectSeq([i \in 1 .. Len(a.col) |-> i], LAMBDA i : i <= begin \/ a.val[i] # 0)
  IN  [col |-> [k \in 1 .. Len(kept) |-> a.col[kept[k]]],
       val |-> [k \in 1 .. Len(kept) |-> a.val[kept[k]]],
       ptr |-> Append(a.ptr, Len(kept))]

CoalesceRow ==
  /\ pc = "coalesce"
  /\ Len(acc.ptr) <= info.rows
  /\ acc' = DropZeros(FoldLeft(Coalesce, acc, SortedRow(Len(acc.ptr) - 1)))
  /\ UNCHANGED <<file, replaced, info, opened, entries_read, pc, row_ptr, col_idx, values,
                 next, expanded_entries>>

Finish ==
  /\ pc = "coalesce"
  /\ Len(acc.ptr) = info.rows + 1
  /\ pc' = "done"
  /\ UNCHANGED <<file, replaced, info, opened, entries_read, row_ptr, col_idx, values, next,
                 acc, expanded_entries>>

coalesced_duplicates == expanded_entries - Len(acc.val)

Over == pc \in {"done", "failed", "undefined"} /\ UNCHANGED vars

Next ==
  \/ \E other \in Files : Replace(other)
  \/ ReadFails \/ CountEntry \/ EndCount \/ Reopen \/ FillEntry \/ EndFill
  \/ CoalesceRow \/ Finish \/ Over

Spec == Init /\ [][Next]_vars

-----------------------------------------------------------------------------
(* What the loader is for. *)

\* What a file says about a cell of the matrix: the sum of its entries there,
\* those of the other triangle with the symmetry's sign.
Meaning(f, r, c) ==
  LET value(e) == IF f.field = "pattern" THEN 1 ELSE e[3]
      sign == IF f.symmetry = "skew-symmetric" THEN -1 ELSE 1
      at(e) == (IF <<e[1], e[2]>> = <<r + 1, c + 1>> THEN value(e) ELSE 0)
               + (IF f.symmetry # "general" /\ r # c /\ <<e[1], e[2]>> = <<c + 1, r + 1>>
                  THEN sign * value(e) ELSE 0)
  IN  FoldLeft(LAMBDA s, e : s + at(e), 0, SubSeq(f.lines, 1, f.nnz_file))

Result(r) ==
  {<<acc.col[p], acc.val[p]>> : p \in acc.ptr[r + 1] + 1 .. acc.ptr[r + 2]}

\* The second reading put as many entries into every row as the first counted.
CountsFit == \A r \in Rows : next[r] = row_ptr[r + 1]

\* What is loaded is the matrix that the file of the second reading says, every
\* row sorted, no column twice, no zero kept: for a file that stays as it is and
\* for one put in its place, unless its entries fall into other rows.
Loaded ==
  pc = "done" /\ CountsFit =>
    LET f == Last(opened) IN
    \A r \in 0 .. f.rows - 1 :
      /\ Result(r) = {<<c, Meaning(f, r, c)>> :
                        c \in {c \in 0 .. f.cols - 1 : Meaning(f, r, c) # 0}}
      /\ \A p, q \in acc.ptr[r + 1] + 1 .. acc.ptr[r + 2] : p < q => acc.col[p] < acc.col[q]

\* Two readings of one content, whatever the path names by then, count the same
\* entries: what was allocated is filled to the last cell and not beyond.
ReadingsAgree ==
  Last(opened) = Head(opened) =>
    /\ pc # "undefined"
    /\ pc \in {"coalesce", "done"} => CountsFit

\* The cells that the expanded entries of a file name.
Cells(f) ==
  {<<r, c>> \in (0 .. f.rows - 1) \X (0 .. f.cols - 1) :
     \E i \in 1 .. f.nnz_file :
       LET e == f.lines[i] IN
       \/ <<e[1] - 1, e[2] - 1>> = <<r, c>>
       \/ f.symmetry # "general" /\ <<e[2] - 1, e[1] - 1>> = <<r, c>>}

\* docs/data-format.md: coalesced_duplicates tells how many expanded entries
\* collapsed, which is none where every entry has a cell of its own.
CoalescedNeedsDuplicates ==
  pc = "done" /\ ~replaced /\ expanded_entries = Cardinality(Cells(file)) =>
    coalesced_duplicates = 0
=============================================================================
