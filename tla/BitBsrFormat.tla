---------------------------- MODULE BitBsrFormat ----------------------------
(***************************************************************************)
(* The two matrix formats of the library, CSR (csr.hpp) and BitBSR         *)
(* (bitbsr.hpp), and the set of entries each of them stands for.           *)
(*                                                                         *)
(* An array is a function on 0 .. n - 1.  A value is a number that only    *)
(* says which value it is; 0 is the value zero.  The words of a block's    *)
(* bitmap are the set of its bits.                                         *)
(***************************************************************************)
EXTENDS PrefixSums, FiniteSets

CONSTANTS block_rows, block_cols   \* the rows and columns of a block

ASSUME BlockShapeAssumption ==
  block_rows \in Nat \ {0} /\ block_cols \in Nat \ {0}

Bits == 0 .. block_rows * block_cols - 1

\* The length of an array.
size(array) == Cardinality(DOMAIN array)

-----------------------------------------------------------------------------
(* CSR. *)

\* The rows a block row holds, the last one cut off where the matrix ends.
BlockRowRows(csr, br) ==
  br * block_rows .. Smaller(csr.rows, (br + 1) * block_rows) - 1

Positions(csr, row) == csr.row_ptr[row] .. csr.row_ptr[row + 1] - 1

\* What CsrMatrix::validate accepts, of what the type can hold.
IsCsr(csr) ==
  /\ DOMAIN csr = {"rows", "cols", "row_ptr", "col_idx", "values"}
  /\ csr.rows \in Nat /\ csr.cols \in Nat
  /\ csr.row_ptr \in [0 .. csr.rows -> Nat]
  /\ DOMAIN csr.col_idx = DOMAIN csr.values
  /\ csr.row_ptr[0] = 0
  /\ \A r \in 0 .. csr.rows - 1 : csr.row_ptr[r] <= csr.row_ptr[r + 1]
  /\ DOMAIN csr.values = 0 .. csr.row_ptr[csr.rows] - 1
  /\ \A p \in DOMAIN csr.col_idx : csr.col_idx[p] \in 0 .. csr.cols - 1

\* Every row's columns strictly increase: what the loader hands over.
HasSortedRows(csr) ==
  \A r \in 0 .. csr.rows - 1 : \A p, q \in Positions(csr, r) :
    p < q => csr.col_idx[p] < csr.col_idx[q]

has_stored_zeros(csr) == \E p \in DOMAIN csr.values : csr.values[p] = 0

\* How many of the first n values are not zero.
Kept(values, n) == Cardinality({p \in 0 .. n - 1 : values[p] # 0})

\* The entries that are not zero, in their order, with the rows' new bounds.
remove_stored_zeros(csr) ==
  LET old == [k \in 0 .. Kept(csr.values, size(csr.values)) - 1 |->
                CHOOSE p \in DOMAIN csr.values : csr.values[p] # 0 /\ Kept(csr.values, p) = k]
  IN  [csr EXCEPT !.row_ptr = [r \in 0 .. csr.rows |-> Kept(csr.values, csr.row_ptr[r])],
                  !.col_idx = [k \in DOMAIN old |-> csr.col_idx[old[k]]],
                  !.values  = [k \in DOMAIN old |-> csr.values[old[k]]]]

\* Each entry with the number of times it is stored.
Entries(csr) ==
  UNION {{<<r, csr.col_idx[p], csr.values[p]>> :
            p \in {p \in Positions(csr, r) \cap DOMAIN csr.values : csr.values[p] # 0}} :
           r \in 0 .. csr.rows - 1}

\* Two entries that are not zero share a row and a column.
HasDuplicates(csr) ==
  \E r \in 0 .. csr.rows - 1 : \E p, q \in Positions(csr, r) :
    /\ p # q /\ csr.col_idx[p] = csr.col_idx[q]
    /\ csr.values[p] # 0 /\ csr.values[q] # 0

-----------------------------------------------------------------------------
(* BitBSR. *)

BlocksOf(m, br) == m.block_row_ptr[br] .. m.block_row_ptr[br + 1] - 1

\* What BitBsrMatrix::validate accepts.
IsBitBsr(m) ==
  /\ m.num_block_rows = ceil_div(m.rows, block_rows)
  /\ m.num_block_cols = ceil_div(m.cols, block_cols)
  /\ DOMAIN m.block_row_ptr = 0 .. m.num_block_rows
  /\ DOMAIN m.block_val_ptr = 0 .. size(m.block_col_idx)
  /\ size(m.bitmap_words) = size(m.block_col_idx)
  /\ m.block_row_ptr[0] = 0
  /\ \A br \in 0 .. m.num_block_rows - 1 : m.block_row_ptr[br] <= m.block_row_ptr[br + 1]
  /\ m.block_row_ptr[m.num_block_rows] = size(m.block_col_idx)
  /\ m.block_val_ptr[0] = 0
  /\ \A b \in DOMAIN m.block_col_idx :
       /\ m.block_col_idx[b] \in 0 .. m.num_block_cols - 1
       /\ m.block_val_ptr[b] + Cardinality(m.bitmap_words[b]) = m.block_val_ptr[b + 1]
  /\ m.block_val_ptr[size(m.block_col_idx)] = size(m.values)
  /\ \A p \in DOMAIN m.values : m.values[p] # 0

\* How many bits of the block come before a bit: where its value is.
Rank(m, b, bit) == Cardinality({k \in m.bitmap_words[b] : k < bit})

\* The entry behind a bit of a block in a block row.
EntryAt(m, br, b, bit) ==
  <<br * block_rows + bit \div block_cols,
    m.block_col_idx[b] * block_cols + (bit % block_cols),
    m.values[m.block_val_ptr[b] + Rank(m, b, bit)]>>

\* The entries of one block that lie inside the matrix.
BlockEntries(m, br, b) ==
  {e \in {EntryAt(m, br, b, bit) : bit \in m.bitmap_words[b]} :
     e[1] < m.rows /\ e[2] < m.cols}

Decode(m) ==
  UNION {UNION {BlockEntries(m, br, b) : b \in BlocksOf(m, br) \cap DOMAIN m.block_col_idx} :
           br \in 0 .. m.num_block_rows - 1}

\* A valid matrix that stands for the csr, its blocks in the order of their
\* columns and none of them empty.
Represents(m, csr) ==
  /\ m.rows = csr.rows /\ m.cols = csr.cols
  /\ IsBitBsr(m)
  /\ Decode(m) = Entries(csr)
  /\ size(m.values) = Cardinality(Entries(csr))
  /\ \A br \in 0 .. m.num_block_rows - 1 : \A a, b \in BlocksOf(m, br) :
       a < b => m.block_col_idx[a] < m.block_col_idx[b]
  /\ \A b \in DOMAIN m.block_col_idx : m.bitmap_words[b] # {}
=============================================================================
