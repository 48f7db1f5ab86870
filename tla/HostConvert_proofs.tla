------------------------- MODULE HostConvert_proofs -------------------------
(***************************************************************************)
(* The host's conversion is right for every CSR matrix, every shape of the *)
(* blocks and every order in which the threads run the iterations of its   *)
(* three loops: it fails on the matrices that store an entry twice and on  *)
(* no others, what it returns stands for the matrix, and iterations that   *)
(* write the same offset write the same number.                            *)
(*                                                                         *)
(* The inductive invariant says what each loop has done of its part: the   *)
(* first leaves the block columns and their counts of the block rows that  *)
(* are over; in the second an offset is unwritten or the right one, which  *)
(* two block rows that share it agree on because nothing lies between      *)
(* them; in the third a block holds the bits and the values, in order, of  *)
(* the entries its iteration has passed.                                   *)
(***************************************************************************)
EXTENDS HostConvert, PrefixSums_proofs

-----------------------------------------------------------------------------
(* Numbers. *)

LEMMA IntervalIs ==
  ASSUME NEW n \in Nat
  PROVE  IsFiniteSet(0 .. n - 1) /\ Cardinality(0 .. n - 1) = n
<1>1. 0 \in Int /\ n - 1 \in Int /\ (0 > n - 1 <=> n = 0) /\ (n - 1) - 0 + 1 = n
  OBVIOUS
<1>2. /\ IsFiniteSet(0 .. n - 1)
      /\ Cardinality(0 .. n - 1) = IF 0 > n - 1 THEN 0 ELSE (n - 1) - 0 + 1
  BY <1>1, FS_Interval, Zenon
<1>. QED
  BY <1>1, <1>2

\* The numbers of a set as an array: increasing, each of them once.
LEMMA AscendingArray ==
  ASSUME NEW S, S \subseteq Int, IsFiniteSet(S)
  PROVE  /\ Cardinality(S) \in Nat
         /\ DOMAIN Ascending(S) = 0 .. Cardinality(S) - 1
         /\ \A i \in 0 .. Cardinality(S) - 1 : Ascending(S)[i] \in S
         /\ \A i, j \in 0 .. Cardinality(S) - 1 : i < j => Ascending(S)[i] < Ascending(S)[j]
         /\ \A c \in S : \E i \in 0 .. Cardinality(S) - 1 : Ascending(S)[i] = c
<1>. DEFINE n == Cardinality(S)
            f == Ascending(S)
<1>1. /\ n \in Nat
      /\ \A c \in S : Below(S, c) \in 0 .. n - 1
      /\ \A c, d \in S : c < d => Below(S, c) < Below(S, d)
      /\ \A k \in 0 .. n - 1 : \E c \in S : Below(S, c) = k
  BY Ranks
<1>2. /\ DOMAIN f = 0 .. n - 1
      /\ \A i \in 0 .. n - 1 : f[i] = CHOOSE c \in S : Below(S, c) = i
  BY DEF Ascending, Below
<1>. HIDE DEF f, n
<1>3. \A i \in 0 .. n - 1 : f[i] \in S /\ Below(S, f[i]) = i
  BY <1>1, <1>2
<1>4. \A c \in S : c \in Int
  OBVIOUS
<1>5. ASSUME NEW i \in 0 .. n - 1, NEW j \in 0 .. n - 1, i < j PROVE f[i] < f[j]
  <2>1. f[i] \in S /\ f[j] \in S /\ Below(S, f[i]) = i /\ Below(S, f[j]) = j
    BY <1>3
  <2>2. f[i] # f[j]
    BY <1>5, <2>1
  <2>3. ~(f[j] < f[i])
    <3>1. f[j] < f[i] => j < i
      BY <1>1, <2>1, Zenon
    <3>. QED
      BY <1>5, <3>1
  <2>4. f[i] \in Int /\ f[j] \in Int
    BY <1>4, <2>1
  <2>. HIDE DEF f
  <2>. QED
    BY <2>2, <2>3, <2>4
<1>6. ASSUME NEW c \in S PROVE \E i \in 0 .. n - 1 : f[i] = c
  <2>1. Below(S, c) \in 0 .. n - 1
    BY <1>1
  <2>. DEFINE i == Below(S, c)
  <2>2. f[i] \in S /\ Below(S, f[i]) = i
    BY <1>3, <2>1
  <2>3. ~(f[i] < c) /\ ~(c < f[i])
    <3>1. i \in Int
      BY <2>1
    <3>2. ~(i < i)
      BY <3>1
    <3>. QED
      BY <1>1, <2>2, <3>2
  <2>4. f[i] = c
    <3>1. f[i] \in Int /\ c \in Int
      BY <1>4, <2>2
    <3>. HIDE DEF f, i
    <3>. QED
      BY <2>3, <3>1
  <2>. QED
    BY <2>1, <2>4
<1>. QED
  BY <1>1, <1>2, <1>3, <1>5, <1>6 DEF f, n

-----------------------------------------------------------------------------
(* The entries of a block row. *)

\* The rows of a block row follow each other, and so do their entries.
LEMMA BlockRowIs ==
  ASSUME IsCsr(csr), NEW br \in BlockRows
  PROVE  \E first \in Nat, last \in Nat :
           /\ br \in Nat /\ csr.rows \in Nat
           /\ first = br * block_rows
           /\ first < last /\ last <= csr.rows /\ last <= first + block_rows
           /\ last = csr.rows \/ last = (br + 1) * block_rows
           /\ EntriesBegin(br) = csr.row_ptr[first] /\ EntriesEnd(br) = csr.row_ptr[last]
           /\ EntriesBegin(br) \in Nat /\ EntriesEnd(br) \in Nat
           /\ EntriesBegin(br) <= EntriesEnd(br)
           /\ EntriesEnd(br) <= csr.row_ptr[csr.rows]
<1>. DEFINE first == br * block_rows
            last  == Smaller(csr.rows, (br + 1) * block_rows)
<1>1. /\ csr.rows \in Nat /\ block_rows \in Nat \ {0}
      /\ csr.row_ptr \in [0 .. csr.rows -> Nat]
      /\ \A r \in 0 .. csr.rows - 1 : csr.row_ptr[r] <= csr.row_ptr[r + 1]
  BY BlockShapeAssumption DEF IsCsr
<1>2. /\ num_block_rows \in Nat
      /\ \A k \in Nat : k * block_rows < csr.rows <=> k < num_block_rows
  BY <1>1, CeilDivCounts DEF num_block_rows
<1>3. br \in Nat /\ first < csr.rows
  BY <1>2 DEF BlockRows
<1>4. first \in Nat /\ (br + 1) * block_rows = first + block_rows
  BY <1>1, <1>3
<1>5. last = IF csr.rows <= first + block_rows THEN csr.rows ELSE first + block_rows
  <2>. HIDE DEF first
  <2>. QED
    BY <1>4 DEF Smaller, first
<1>6. last \in Nat /\ first < last /\ last <= csr.rows /\ last <= first + block_rows
      /\ (last = csr.rows \/ last = first + block_rows)
  <2>. HIDE DEF first, last
  <2>. QED
    BY <1>1, <1>3, <1>4, <1>5
<1>7. EntriesBegin(br) = csr.row_ptr[first] /\ EntriesEnd(br) = csr.row_ptr[last]
  BY DEF EntriesBegin, EntriesEnd
<1>8. \A i, j \in 0 .. csr.rows : i <= j => csr.row_ptr[i] <= csr.row_ptr[j]
  <2>1. csr.row_ptr \in [0 .. csr.rows -> Int]
    BY <1>1
  <2>. QED
    BY <1>1, <2>1, StepwiseMonotone
<1>. HIDE DEF first, last
<1>9. first \in 0 .. csr.rows /\ last \in 0 .. csr.rows /\ csr.rows \in 0 .. csr.rows
      /\ first <= last /\ last <= csr.rows
  BY <1>1, <1>4, <1>6
<1>10. /\ csr.row_ptr[first] \in Nat /\ csr.row_ptr[last] \in Nat
       /\ csr.row_ptr[first] <= csr.row_ptr[last]
       /\ csr.row_ptr[last] <= csr.row_ptr[csr.rows]
  BY <1>1, <1>8, <1>9
<1>. QED
  BY <1>1, <1>3, <1>4, <1>6, <1>7, <1>10 DEF first, last

\* A position is one of one row only: the row that RowOf gives.
LEMMA RowOfPosition ==
  ASSUME IsCsr(csr), NEW r \in 0 .. csr.rows - 1, NEW p \in Positions(csr, r)
  PROVE  RowOf(p) = r /\ p \in DOMAIN csr.values /\ p \in Nat
<1>1. /\ csr.rows \in Nat /\ csr.row_ptr \in [0 .. csr.rows -> Nat]
      /\ \A i \in 0 .. csr.rows - 1 : csr.row_ptr[i] <= csr.row_ptr[i + 1]
      /\ DOMAIN csr.values = 0 .. csr.row_ptr[csr.rows] - 1
  BY DEF IsCsr
<1>2. csr.row_ptr \in [0 .. csr.rows -> Int]
  BY <1>1
<1>3. \A q \in 0 .. csr.rows - 1 : csr.row_ptr[q] \in Nat /\ csr.row_ptr[q + 1] \in Nat
  <2>1. \A q \in 0 .. csr.rows - 1 : q \in 0 .. csr.rows /\ q + 1 \in 0 .. csr.rows
    BY <1>1
  <2>. QED
    BY <1>1, <2>1
<1>4. p \in Int /\ csr.row_ptr[r] <= p /\ p < csr.row_ptr[r + 1]
  BY <1>3 DEF Positions
<1>5. ASSUME NEW q \in 0 .. csr.rows - 1, p \in Positions(csr, q) PROVE q = r
  <2>1. csr.row_ptr[q] <= p /\ p < csr.row_ptr[q + 1]
    BY <1>3, <1>4, <1>5 DEF Positions
  <2>. QED
    BY <1>1, <1>2, <1>4, <2>1, RowOfIndexUnique
<1>6. RowOf(p) = r
  BY <1>5 DEF RowOf
<1>7. p \in DOMAIN csr.values
  <2>1. \A i, j \in 0 .. csr.rows : i <= j => csr.row_ptr[i] <= csr.row_ptr[j]
    BY <1>1, <1>2, StepwiseMonotone
  <2>2. r + 1 \in 0 .. csr.rows /\ csr.rows \in 0 .. csr.rows /\ r + 1 <= csr.rows
    BY <1>1
  <2>3. csr.row_ptr[r + 1] <= csr.row_ptr[csr.rows]
    BY <2>1, <2>2
  <2>4. csr.row_ptr[r + 1] \in Nat /\ csr.row_ptr[csr.rows] \in Nat /\ csr.row_ptr[r] \in Nat
    BY <1>1, <2>2
  <2>. QED
    BY <1>1, <1>4, <2>3, <2>4
<1>8. p \in Nat
  BY <1>3, <1>4
<1>. QED
  BY <1>6, <1>7, <1>8

\* Every position of a block row is of one of its rows.
LEMMA RowsOfEntries ==
  ASSUME IsCsr(csr), NEW br \in BlockRows, NEW p \in EntriesBegin(br) .. EntriesEnd(br) - 1
  PROVE  /\ br \in Nat /\ br * block_rows \in Nat
         /\ RowOf(p) \in 0 .. csr.rows - 1 /\ p \in Positions(csr, RowOf(p))
         /\ RowOf(p) - br * block_rows \in 0 .. block_rows - 1
         /\ p \in DOMAIN csr.values /\ p \in Nat
<1>1. PICK first \in Nat, last \in Nat :
        /\ br \in Nat /\ csr.rows \in Nat
        /\ first = br * block_rows
        /\ first < last /\ last <= csr.rows /\ last <= first + block_rows
        /\ EntriesBegin(br) = csr.row_ptr[first] /\ EntriesEnd(br) = csr.row_ptr[last]
        /\ EntriesBegin(br) \in Nat /\ EntriesEnd(br) \in Nat
  BY BlockRowIs
<1>2. csr.row_ptr \in [0 .. csr.rows -> Nat] /\ block_rows \in Nat
  BY BlockShapeAssumption DEF IsCsr
<1>3. p \in Nat /\ csr.row_ptr[first] <= p /\ p < csr.row_ptr[last]
  BY <1>1
<1>. DEFINE n == last - first
            f == [i \in 0 .. n |-> csr.row_ptr[first + i]]
<1>4. n \in Nat /\ f \in [0 .. n -> Int] /\ f[0] = csr.row_ptr[first] /\ f[n] = csr.row_ptr[last]
  <2>1. n \in Nat /\ first + 0 = first /\ first + n = last /\ 0 \in 0 .. n /\ n \in 0 .. n
    BY <1>1
  <2>2. \A i \in 0 .. n : first + i \in 0 .. csr.rows
    BY <1>1
  <2>3. \A i \in 0 .. n : csr.row_ptr[first + i] \in Int
    <3>. HIDE DEF n
    <3>1. \A i \in 0 .. n : csr.row_ptr[first + i] \in Nat
      BY <1>2, <2>2
    <3>. QED
      BY <3>1
  <2>. HIDE DEF n
  <2>. QED
    BY <2>1, <2>3
<1>. HIDE DEF f
<1>5. PICK i \in 0 .. n - 1 : f[i] <= p /\ p < f[i + 1]
  <2>. HIDE DEF n
  <2>1. p \in Int /\ f[0] <= p /\ p < f[n]
    BY <1>3, <1>4
  <2>. QED
    BY <1>4, <2>1, RowOfIndex, Zenon
<1>. DEFINE r == first + i
<1>6. f[i] = csr.row_ptr[r] /\ f[i + 1] = csr.row_ptr[r + 1]
  <2>1. i \in 0 .. n /\ i + 1 \in 0 .. n /\ first + (i + 1) = (first + i) + 1
    BY <1>4
  <2>. QED
    BY <2>1 DEF f
<1>7. r \in 0 .. csr.rows - 1 /\ r - first \in 0 .. block_rows - 1
  BY <1>1, <1>2
<1>8. csr.row_ptr[r] \in Nat /\ csr.row_ptr[r + 1] \in Nat
  <2>1. r \in 0 .. csr.rows /\ r + 1 \in 0 .. csr.rows
    BY <1>1, <1>7
  <2>. QED
    BY <1>2, <2>1
<1>. HIDE DEF r
<1>9. p \in Positions(csr, r)
  BY <1>3, <1>5, <1>6, <1>8 DEF Positions
<1>10. RowOf(p) = r /\ p \in DOMAIN csr.values
  BY <1>7, <1>9, RowOfPosition
<1>. QED
  BY <1>1, <1>3, <1>7, <1>9, <1>10

\* Every position of the matrix is one of a block row.
LEMMA BlockRowOfEntry ==
  ASSUME IsCsr(csr), NEW r \in 0 .. csr.rows - 1, NEW p \in Positions(csr, r)
  PROVE  \E br \in BlockRows : p \in EntriesBegin(br) .. EntriesEnd(br) - 1
<1>. DEFINE br == r \div block_rows
<1>1. /\ csr.rows \in Nat /\ block_rows \in Nat \ {0} /\ r \in Nat /\ r < csr.rows
      /\ csr.row_ptr \in [0 .. csr.rows -> Nat]
      /\ \A i \in 0 .. csr.rows - 1 : csr.row_ptr[i] <= csr.row_ptr[i + 1]
  BY BlockShapeAssumption DEF IsCsr
<1>2. br \in Nat /\ br * block_rows <= r /\ r < br * block_rows + block_rows
      /\ br * block_rows \in Nat
  <2>1. br \in Nat /\ r % block_rows \in 0 .. block_rows - 1
        /\ br * block_rows + (r % block_rows) = r
    BY <1>1, QuotientAndRest, Zenon
  <2>2. br * block_rows \in Nat
    <3>. HIDE DEF br
    <3>. QED
      BY <1>1, <2>1
  <2>. DEFINE rest == r % block_rows
              m == br * block_rows
  <2>3. rest \in 0 .. block_rows - 1 /\ m + rest = r /\ m \in Nat
    BY <2>1, <2>2
  <2>. HIDE DEF rest, m
  <2>4. m <= r /\ r < m + block_rows
    BY <1>1, <2>3
  <2>. QED
    BY <2>1, <2>2, <2>4 DEF m
<1>. HIDE DEF br
<1>3. br \in BlockRows
  <2>1. /\ num_block_rows \in Nat
        /\ \A k \in Nat : k * block_rows < csr.rows <=> k < num_block_rows
    BY <1>1, CeilDivCounts DEF num_block_rows
  <2>2. br * block_rows < csr.rows
    BY <1>1, <1>2
  <2>. QED
    BY <1>2, <2>1, <2>2 DEF BlockRows
<1>4. PICK first \in Nat, last \in Nat :
        /\ first = br * block_rows
        /\ last <= csr.rows /\ (last = csr.rows \/ last = (br + 1) * block_rows)
        /\ EntriesBegin(br) = csr.row_ptr[first] /\ EntriesEnd(br) = csr.row_ptr[last]
  BY <1>3, BlockRowIs
<1>5. (br + 1) * block_rows = br * block_rows + block_rows
  BY <1>1, <1>2
<1>6. first <= r /\ r + 1 <= last
  BY <1>1, <1>2, <1>4, <1>5
<1>7. \A i, j \in 0 .. csr.rows : i <= j => csr.row_ptr[i] <= csr.row_ptr[j]
  <2>1. csr.row_ptr \in [0 .. csr.rows -> Int]
    BY <1>1
  <2>. QED
    BY <1>1, <2>1, StepwiseMonotone
<1>8. first \in 0 .. csr.rows /\ r \in 0 .. csr.rows /\ r + 1 \in 0 .. csr.rows
      /\ last \in 0 .. csr.rows
  BY <1>1, <1>4, <1>6
<1>9. csr.row_ptr[first] <= csr.row_ptr[r] /\ csr.row_ptr[r + 1] <= csr.row_ptr[last]
  BY <1>6, <1>7, <1>8
<1>10. csr.row_ptr[first] \in Nat /\ csr.row_ptr[r] \in Nat /\ csr.row_ptr[r + 1] \in Nat
       /\ csr.row_ptr[last] \in Nat
  BY <1>1, <1>8
<1>11. p \in csr.row_ptr[first] .. csr.row_ptr[last] - 1
  BY <1>9, <1>10 DEF Positions
<1>. QED
  BY <1>3, <1>4, <1>11

-----------------------------------------------------------------------------
(* The blocks of a block row. *)

ColsOf(br)  == {BlockCol(p) : p \in BlockRowEntries(br)}
Cols(br)    == Ascending(ColsOf(br))
Blocks(br)  == Cardinality(ColsOf(br))

\* The entries of the i-th block, and how many there are of each.
InBlock(br, i) == {p \in BlockRowEntries(br) : BlockCol(p) = Cols(br)[i]}
Counts(br)     == [i \in 0 .. Blocks(br) - 1 |-> Cardinality(InBlock(br, i))]

\* The entries of a block row are finitely many, and their bits are bits.
LEMMA EntriesAre ==
  ASSUME IsCsr(csr), NEW br \in BlockRows
  PROVE  /\ IsFiniteSet(BlockRowEntries(br))
         /\ \A p \in BlockRowEntries(br) :
              /\ p \in EntriesBegin(br) .. EntriesEnd(br) - 1
              /\ p \in DOMAIN csr.values /\ csr.values[p] # 0
              /\ RowOf(p) \in 0 .. csr.rows - 1 /\ p \in Positions(csr, RowOf(p))
              /\ BlockCol(p) \in 0 .. ceil_div(csr.cols, block_cols) - 1
              /\ BitOf(br, p) \in Bits
              /\ RowOf(p) = br * block_rows + BitOf(br, p) \div block_cols
              /\ csr.col_idx[p] = BlockCol(p) * block_cols + (BitOf(br, p) % block_cols)
<1>1. PICK first \in Nat, last \in Nat :
        /\ br \in Nat /\ EntriesBegin(br) \in Nat /\ EntriesEnd(br) \in Nat
  BY BlockRowIs
<1>2. IsFiniteSet(EntriesBegin(br) .. EntriesEnd(br) - 1)
  <2>1. EntriesBegin(br) \in Int /\ EntriesEnd(br) - 1 \in Int
    BY <1>1
  <2>. QED
    BY <2>1, FS_Interval, Zenon
<1>3. BlockRowEntries(br) \in SUBSET (EntriesBegin(br) .. EntriesEnd(br) - 1)
  BY DEF BlockRowEntries
<1>4. IsFiniteSet(BlockRowEntries(br))
  BY <1>2, <1>3, FS_Subset
<1>5. ASSUME NEW p \in BlockRowEntries(br)
      PROVE  /\ BlockCol(p) \in 0 .. ceil_div(csr.cols, block_cols) - 1
             /\ BitOf(br, p) \in Bits
             /\ RowOf(p) = br * block_rows + BitOf(br, p) \div block_cols
             /\ csr.col_idx[p] = BlockCol(p) * block_cols + (BitOf(br, p) % block_cols)
  <2>. DEFINE a == RowOf(p) - br * block_rows
              x == csr.col_idx[p] % block_cols
              c == BlockCol(p)
              col == csr.col_idx[p]
  <2>1. /\ p \in EntriesBegin(br) .. EntriesEnd(br) - 1
        /\ block_cols \in Nat \ {0} /\ block_rows \in Nat \ {0}
    BY <1>3, BlockShapeAssumption
  <2>2. /\ br * block_rows \in Nat /\ RowOf(p) \in Nat
        /\ a \in 0 .. block_rows - 1 /\ p \in DOMAIN csr.values
    BY <2>1, RowsOfEntries
  <2>3. col \in Nat /\ col < csr.cols /\ csr.cols \in Nat
    BY <2>2 DEF IsCsr
  <2>4. c \in Nat /\ x \in 0 .. block_cols - 1 /\ c * block_cols + x = col
    <3>1. c = col \div block_cols
      BY DEF BlockCol
    <3>. HIDE DEF c, col
    <3>2. (col \div block_cols) \in Nat /\ (col % block_cols) \in 0 .. block_cols - 1
          /\ (col \div block_cols) * block_cols + (col % block_cols) = col
      BY <2>1, <2>3, QuotientAndRest
    <3>. QED
      BY <3>1, <3>2, Zenon DEF col
  <2>5. BitOf(br, p) = a * block_cols + x
    BY DEF BitOf
  <2>. HIDE DEF a, x, c, col
  <2>6. /\ BitOf(br, p) \in Nat
        /\ BitOf(br, p) \div block_cols = a /\ BitOf(br, p) % block_cols = x
    <3>1. a \in Nat
      BY <2>1, <2>2
    <3>2. /\ a * block_cols + x \in Nat
          /\ (a * block_cols + x) \div block_cols = a /\ (a * block_cols + x) % block_cols = x
      BY <2>1, <2>4, <3>1, Coordinates, Zenon
    <3>. QED
      BY <2>5, <3>2, Zenon
  <2>7. BitOf(br, p) \in Bits
    <3>1. a \in Nat /\ a < block_rows /\ block_rows \in Nat
      BY <2>1, <2>2
    <3>2. a * block_cols \in Nat /\ block_rows * block_cols \in Nat
          /\ a * block_cols + block_cols <= block_rows * block_cols
      BY <2>1, <3>1, NextMultiple
    <3>. DEFINE m == a * block_cols
                n == block_rows * block_cols
    <3>3. m \in Nat /\ n \in Nat /\ m + block_cols <= n /\ BitOf(br, p) = m + x
      BY <2>5, <3>2
    <3>. HIDE DEF m, n
    <3>4. BitOf(br, p) \in 0 .. n - 1
      BY <2>1, <2>4, <3>3
    <3>. QED
      BY <3>4 DEF Bits, n
  <2>8. RowOf(p) = br * block_rows + a
    BY <2>2 DEF a
  <2>9. c \in 0 .. ceil_div(csr.cols, block_cols) - 1
    <3>1. c * block_cols \in Nat
      BY <2>1, <2>4
    <3>2. c * block_cols < csr.cols
      BY <2>1, <2>3, <2>4, <3>1
    <3>3. /\ ceil_div(csr.cols, block_cols) \in Nat
          /\ \A k \in Nat : k * block_cols < csr.cols <=> k < ceil_div(csr.cols, block_cols)
      BY <2>1, <2>3, CeilDivCounts
    <3>. QED
      BY <2>4, <3>2, <3>3
  <2>. QED
    BY <2>4, <2>6, <2>7, <2>8, <2>9 DEF c, col
<1>6. ASSUME NEW p \in BlockRowEntries(br)
      PROVE  /\ p \in EntriesBegin(br) .. EntriesEnd(br) - 1
             /\ p \in DOMAIN csr.values /\ csr.values[p] # 0
             /\ RowOf(p) \in 0 .. csr.rows - 1 /\ p \in Positions(csr, RowOf(p))
  <2>1. p \in EntriesBegin(br) .. EntriesEnd(br) - 1 /\ csr.values[p] # 0
    BY DEF BlockRowEntries
  <2>. QED
    BY <2>1, RowsOfEntries
<1>. QED
  BY <1>4, <1>5, <1>6

\* The blocks of a block row: in the order of their columns, every entry in one
\* of them, and none of them empty.
LEMMA BlocksAre ==
  ASSUME IsCsr(csr), NEW br \in BlockRows
  PROVE  /\ Blocks(br) \in Nat
         /\ DOMAIN Cols(br) = 0 .. Blocks(br) - 1 /\ size(Cols(br)) = Blocks(br)
         /\ \A i \in 0 .. Blocks(br) - 1 :
              /\ Cols(br)[i] \in 0 .. ceil_div(csr.cols, block_cols) - 1
              /\ IsFiniteSet(InBlock(br, i)) /\ Cardinality(InBlock(br, i)) \in Nat \ {0}
              /\ InBlock(br, i) \subseteq BlockRowEntries(br) /\ InBlock(br, i) \subseteq Nat
         /\ \A i, j \in 0 .. Blocks(br) - 1 : i < j => Cols(br)[i] < Cols(br)[j]
         /\ \A i, j \in 0 .. Blocks(br) - 1 : Cols(br)[i] = Cols(br)[j] => i = j
         /\ \A p \in BlockRowEntries(br) : \E i \in 0 .. Blocks(br) - 1 : p \in InBlock(br, i)
<1>. DEFINE n == ceil_div(csr.cols, block_cols)
            f(p) == BlockCol(p)
<1>1. /\ IsFiniteSet(BlockRowEntries(br))
      /\ \A p \in BlockRowEntries(br) :
           BlockCol(p) \in 0 .. n - 1 /\ p \in EntriesBegin(br) .. EntriesEnd(br) - 1
  BY EntriesAre
<1>2. ColsOf(br) \subseteq 0 .. n - 1 /\ IsFiniteSet(ColsOf(br))
  <2>1. ColsOf(br) \subseteq 0 .. n - 1
    BY <1>1 DEF ColsOf
  <2>2. n \in Nat
    <3>1. csr.cols \in Nat /\ block_cols \in Nat \ {0}
      BY BlockShapeAssumption DEF IsCsr
    <3>. QED
      BY <3>1, CeilDivCounts
  <2>3. IsFiniteSet(0 .. n - 1)
    BY <2>2, IntervalIs
  <2>. QED
    BY <2>1, <2>3, FS_Subset
<1>3. /\ Blocks(br) \in Nat /\ DOMAIN Cols(br) = 0 .. Blocks(br) - 1
      /\ \A i \in 0 .. Blocks(br) - 1 : Cols(br)[i] \in ColsOf(br)
      /\ \A i, j \in 0 .. Blocks(br) - 1 : i < j => Cols(br)[i] < Cols(br)[j]
      /\ \A c \in ColsOf(br) : \E i \in 0 .. Blocks(br) - 1 : Cols(br)[i] = c
  <2>1. ColsOf(br) \subseteq Int
    BY <1>2
  <2>. QED
    BY <1>2, <2>1, AscendingArray DEF Blocks, Cols
<1>4. size(Cols(br)) = Blocks(br)
  BY <1>3, IntervalIs DEF size
<1>5. ASSUME NEW i \in 0 .. Blocks(br) - 1
      PROVE  /\ Cols(br)[i] \in 0 .. n - 1
             /\ IsFiniteSet(InBlock(br, i)) /\ Cardinality(InBlock(br, i)) \in Nat \ {0}
             /\ InBlock(br, i) \subseteq BlockRowEntries(br) /\ InBlock(br, i) \subseteq Nat
  <2>1. Cols(br)[i] \in ColsOf(br)
    BY <1>3
  <2>2. PICK p \in BlockRowEntries(br) : BlockCol(p) = Cols(br)[i]
    BY <2>1, Zenon DEF ColsOf
  <2>3. p \in InBlock(br, i) /\ InBlock(br, i) \in SUBSET BlockRowEntries(br)
    BY <2>2 DEF InBlock
  <2>4. IsFiniteSet(InBlock(br, i))
    BY <1>1, <2>3, FS_Subset
  <2>5. Cardinality(InBlock(br, i)) \in Nat
    BY <2>4, FS_CardinalityType
  <2>6. Cardinality(InBlock(br, i)) # 0
    BY <2>3, <2>4, FS_EmptySet
  <2>7. BlockRowEntries(br) \subseteq Nat
    <3>1. PICK first \in Nat, last \in Nat : EntriesBegin(br) \in Nat /\ EntriesEnd(br) \in Nat
      BY BlockRowIs
    <3>. QED
      BY <1>1, <3>1
  <2>. QED
    BY <1>2, <2>1, <2>3, <2>4, <2>5, <2>6, <2>7
<1>6. ASSUME NEW i \in 0 .. Blocks(br) - 1, NEW j \in 0 .. Blocks(br) - 1,
             Cols(br)[i] = Cols(br)[j]
      PROVE  i = j
  <2>1. Cols(br)[i] \in Int /\ Cols(br)[j] \in Int
    BY <1>5
  <2>2. ~(i < j) /\ ~(j < i)
    BY <1>3, <1>6, <2>1
  <2>. QED
    BY <1>3, <2>2
<1>7. ASSUME NEW p \in BlockRowEntries(br)
      PROVE  \E i \in 0 .. Blocks(br) - 1 : p \in InBlock(br, i)
  <2>1. BlockCol(p) \in ColsOf(br)
    BY DEF ColsOf
  <2>. QED
    BY <1>3, <2>1 DEF InBlock
<1>. QED
  BY <1>3, <1>4, <1>5, <1>6, <1>7

-----------------------------------------------------------------------------
(* Where the blocks and their values go. *)

Before(br, i) == PrefixSum(Counts(br), i)[i]

\* The counts of a block row's blocks add up to the entries of the block row.
LEMMA CountsAdd ==
  ASSUME IsCsr(csr), NEW br \in BlockRows
  PROVE  /\ BlockRowNnz(br) \in Nat /\ Blocks(br) \in Nat
         /\ \A i \in 0 .. Blocks(br) : Before(br, i) \in Nat
         /\ Before(br, 0) = 0 /\ Before(br, Blocks(br)) = BlockRowNnz(br)
         /\ \A i \in 0 .. Blocks(br) - 1 :
              /\ Cardinality(InBlock(br, i)) \in Nat \ {0}
              /\ Before(br, i + 1) = Before(br, i) + Cardinality(InBlock(br, i))
<1>. DEFINE n == Blocks(br)
            card(i) == Cardinality(InBlock(br, i))
            In(i) == {p \in BlockRowEntries(br) : \E j \in 0 .. i - 1 : p \in InBlock(br, j)}
            g == [i \in 0 .. n |-> Cardinality(In(i))]
<1>1. /\ n \in Nat
      /\ \A i \in 0 .. n - 1 : /\ IsFiniteSet(InBlock(br, i)) /\ card(i) \in Nat \ {0}
                               /\ InBlock(br, i) \subseteq BlockRowEntries(br)
      /\ \A i, j \in 0 .. n - 1 : Cols(br)[i] = Cols(br)[j] => i = j
      /\ \A p \in BlockRowEntries(br) : \E i \in 0 .. n - 1 : p \in InBlock(br, i)
  BY BlocksAre
<1>2. IsFiniteSet(BlockRowEntries(br))
  BY EntriesAre
<1>3. \A i \in 0 .. n - 1 : Counts(br)[i] = card(i)
  BY DEF Counts
<1>. HIDE DEF n
<1>4. ASSUME NEW i \in 0 .. n - 1 PROVE Cardinality(In(i + 1)) = Cardinality(In(i)) + card(i)
  <2>1. In(i + 1) = In(i) \cup InBlock(br, i)
    <3>1. \A j : j \in 0 .. (i + 1) - 1 <=> j \in 0 .. i - 1 \/ j = i
      BY <1>1
    <3>2. InBlock(br, i) \subseteq BlockRowEntries(br)
      BY <1>1
    <3>. QED
      BY <3>1, <3>2, Zenon
  <2>2. In(i) \cap InBlock(br, i) = {}
    <3>1. ASSUME NEW j \in 0 .. i - 1, NEW p \in InBlock(br, i), p \in InBlock(br, j) PROVE FALSE
      <4>1. j \in 0 .. n - 1 /\ j # i
        BY <1>1
      <4>2. Cols(br)[i] = Cols(br)[j]
        BY <3>1 DEF InBlock
      <4>. QED
        BY <1>1, <4>1, <4>2
    <3>. QED
      BY <3>1
  <2>3. In(i) \in SUBSET BlockRowEntries(br)
    OBVIOUS
  <2>. HIDE DEF In
  <2>4. IsFiniteSet(In(i)) /\ IsFiniteSet(InBlock(br, i)) /\ card(i) \in Nat
    BY <1>1, <1>2, <2>3, FS_Subset
  <2>5. Cardinality(In(i)) \in Nat
    BY <2>4, FS_CardinalityType
  <2>6. Cardinality(In(i) \cup InBlock(br, i)) =
          Cardinality(In(i)) + card(i) - Cardinality(In(i) \cap InBlock(br, i))
    BY <2>4, FS_Union
  <2>7. Cardinality(In(i) \cap InBlock(br, i)) = 0
    BY <2>2, FS_EmptySet
  <2>8. Cardinality(In(i) \cup InBlock(br, i)) = Cardinality(In(i)) + card(i)
    <3>. HIDE DEF card
    <3>. DEFINE a == Cardinality(In(i))
                b == card(i)
    <3>1. a \in Nat /\ b \in Nat
      BY <2>4, <2>5
    <3>2. Cardinality(In(i) \cup InBlock(br, i)) = a + b - 0
      BY <2>6, <2>7, Zenon
    <3>. HIDE DEF a, b
    <3>3. a + b - 0 = a + b
      BY <3>1
    <3>. QED
      BY <3>2, <3>3, Zenon DEF a, b
  <2>. QED
    BY <2>1, <2>8, Zenon
<1>5. ASSUME NEW i \in 0 .. n PROVE Cardinality(In(i)) \in Nat
  <2>1. In(i) \in SUBSET BlockRowEntries(br)
    OBVIOUS
  <2>. HIDE DEF In
  <2>. QED
    BY <1>2, <2>1, FS_Subset, FS_CardinalityType
<1>6. Cardinality(In(0)) = 0
  <2>1. In(0) = {}
    OBVIOUS
  <2>. QED
    BY <2>1, FS_EmptySet
<1>7. Cardinality(In(n)) = BlockRowNnz(br)
  <2>1. In(n) = BlockRowEntries(br)
    BY <1>1
  <2>. QED
    BY <2>1 DEF BlockRowNnz
<1>8. ASSUME NEW m \in 0 .. n PROVE Before(br, m) = Cardinality(In(m))
  <2>. DEFINE f == PrefixSum(Counts(br), m)
              h == [i \in 0 .. m |-> Cardinality(In(i))]
  <2>1. m \in Nat /\ \A i \in 0 .. m : i \in 0 .. n
    BY <1>1
  <2>1a. \A i \in 0 .. m - 1 : i \in 0 .. n - 1 /\ i \in 0 .. m /\ i + 1 \in 0 .. m
    BY <1>1
  <2>2. \A i \in 0 .. m - 1 : Counts(br)[i] = card(i) /\ card(i) \in Nat
    BY <1>1, <1>3, <2>1a
  <2>3. /\ f \in [0 .. m -> Nat] /\ f[0] = 0
        /\ \A i \in 0 .. m - 1 : f[i + 1] = f[i] + Counts(br)[i]
    <3>1. \A i \in 0 .. m - 1 : Counts(br)[i] \in Nat
      BY <2>2
    <3>. QED
      BY <2>1, <3>1, PrefixSumGrows, Zenon
  <2>4. \A i \in 0 .. m : h[i] = Cardinality(In(i)) /\ h[i] \in Nat
    BY <1>5, <2>1
  <2>5. h \in [0 .. m -> Int] /\ f \in [0 .. m -> Int]
    <3>1. \A i \in 0 .. m : h[i] \in Int /\ f[i] \in Int
      <4>. HIDE DEF f, h, In, card
      <4>1. \A i \in 0 .. m : h[i] \in Nat /\ f[i] \in Nat
        BY <2>3, <2>4
      <4>. QED
        BY <4>1
    <3>2. f = [i \in 0 .. m |-> f[i]]
      <4>. HIDE DEF f
      <4>. QED
        BY <2>3
    <3>. HIDE DEF f
    <3>. QED
      BY <3>1, <3>2
  <2>6. 0 \in 0 .. m /\ m \in 0 .. m
    BY <2>1
  <2>7. f[0] = h[0]
    BY <1>6, <2>3, <2>4, <2>6
  <2>. HIDE DEF f, h
  <2>8. ASSUME NEW i \in 0 .. m - 1 PROVE f[i + 1] - f[i] = h[i + 1] - h[i]
    <3>1. f[i + 1] = f[i] + card(i) /\ h[i + 1] = h[i] + card(i)
      <4>. HIDE DEF In, card
      <4>. QED
        BY <1>4, <2>1a, <2>2, <2>3, <2>4
    <3>2. f[i] \in Nat /\ h[i] \in Nat /\ card(i) \in Nat
      BY <2>1a, <2>2, <2>3, <2>4
    <3>. QED
      BY <3>1, <3>2
  <2>9. f[m] = h[m]
    BY <2>1, <2>5, <2>6, <2>7, <2>8, SameSteps
  <2>. QED
    BY <2>4, <2>6, <2>9 DEF Before, f
<1>9. /\ 0 \in 0 .. n /\ n \in 0 .. n
      /\ \A i \in 0 .. n - 1 : i \in 0 .. n /\ i + 1 \in 0 .. n
  BY <1>1
<1>. HIDE DEF In, card
<1>10. \A i \in 0 .. n : Before(br, i) \in Nat
  BY <1>5, <1>8
<1>11. Before(br, 0) = 0 /\ Before(br, n) = BlockRowNnz(br) /\ BlockRowNnz(br) \in Nat
  BY <1>5, <1>6, <1>7, <1>8, <1>9
<1>12. \A i \in 0 .. n - 1 : Before(br, i + 1) = Before(br, i) + card(i)
  BY <1>4, <1>8, <1>9
<1>. QED
  BY <1>1, <1>10, <1>11, <1>12 DEF n, card

\* The first block of each block row, and its first value.
RowPtr    == PrefixSum([br \in BlockRows |-> Blocks(br)], num_block_rows)
ValPrefix == PrefixSum([br \in BlockRows |-> BlockRowNnz(br)], num_block_rows)
Total     == RowPtr[num_block_rows]
Nnz       == ValPrefix[num_block_rows]

LEMMA LayoutIs ==
  ASSUME IsCsr(csr)
  PROVE  /\ num_block_rows \in Nat /\ BlockRows = 0 .. num_block_rows - 1
         /\ RowPtr \in [0 .. num_block_rows -> Nat] /\ RowPtr[0] = 0
         /\ ValPrefix \in [0 .. num_block_rows -> Nat] /\ ValPrefix[0] = 0
         /\ \A br \in BlockRows : /\ RowPtr[br + 1] = RowPtr[br] + Blocks(br)
                                  /\ ValPrefix[br + 1] = ValPrefix[br] + BlockRowNnz(br)
         /\ \A k, l \in 0 .. num_block_rows :
              k <= l => RowPtr[k] <= RowPtr[l] /\ ValPrefix[k] <= ValPrefix[l]
         /\ Total \in Nat /\ Nnz \in Nat
<1>. DEFINE n == num_block_rows
            f == [br \in BlockRows |-> Blocks(br)]
            g == [br \in BlockRows |-> BlockRowNnz(br)]
<1>1. n \in Nat
  <2>1. csr.rows \in Nat /\ block_rows \in Nat \ {0}
    BY BlockShapeAssumption DEF IsCsr
  <2>. QED
    BY <2>1, CeilDivCounts DEF num_block_rows
<1>2. BlockRows = 0 .. n - 1
  BY DEF BlockRows
<1>3. \A br \in BlockRows : Blocks(br) \in Nat /\ BlockRowNnz(br) \in Nat
  BY CountsAdd
<1>4. f \in [0 .. n - 1 -> Nat] /\ g \in [0 .. n - 1 -> Nat]
  BY <1>2, <1>3
<1>5. \A br \in BlockRows : f[br] = Blocks(br) /\ g[br] = BlockRowNnz(br)
  OBVIOUS
<1>6. RowPtr = PrefixSum(f, n) /\ ValPrefix = PrefixSum(g, n)
  BY DEF RowPtr, ValPrefix
<1>. HIDE DEF n, f, g
<1>7. /\ RowPtr \in [0 .. n -> Nat] /\ RowPtr[0] = 0
      /\ \A i \in 0 .. n - 1 : RowPtr[i + 1] = RowPtr[i] + f[i]
  BY <1>1, <1>4, <1>6, PrefixSumSteps, Zenon
<1>8. /\ ValPrefix \in [0 .. n -> Nat] /\ ValPrefix[0] = 0
      /\ \A i \in 0 .. n - 1 : ValPrefix[i + 1] = ValPrefix[i] + g[i]
  BY <1>1, <1>4, <1>6, PrefixSumSteps, Zenon
<1>9. \A i \in 0 .. n - 1 : i \in 0 .. n /\ i + 1 \in 0 .. n
  BY <1>1
<1>10. \A i \in 0 .. n - 1 : RowPtr[i] <= RowPtr[i + 1] /\ ValPrefix[i] <= ValPrefix[i + 1]
  <2>1. ASSUME NEW i \in 0 .. n - 1
        PROVE RowPtr[i] <= RowPtr[i + 1] /\ ValPrefix[i] <= ValPrefix[i + 1]
    <3>1. RowPtr[i] \in Nat /\ ValPrefix[i] \in Nat /\ f[i] \in Nat /\ g[i] \in Nat
      BY <1>4, <1>7, <1>8, <1>9
    <3>. QED
      BY <1>7, <1>8, <3>1
  <2>. QED
    BY <2>1
<1>11. RowPtr \in [0 .. n -> Int] /\ ValPrefix \in [0 .. n -> Int]
  BY <1>7, <1>8
<1>12. \A k, l \in 0 .. n : k <= l => RowPtr[k] <= RowPtr[l]
  BY <1>1, <1>10, <1>11, StepwiseMonotone
<1>13. \A k, l \in 0 .. n : k <= l => ValPrefix[k] <= ValPrefix[l]
  BY <1>1, <1>10, <1>11, StepwiseMonotone
<1>14. n \in 0 .. n
  BY <1>1
<1>. QED
  BY <1>1, <1>2, <1>5, <1>7, <1>8, <1>12, <1>13, <1>14 DEF n, Total, Nnz

\* Where the values of block b begin; the iterations of two block rows meet
\* where the blocks of one end and those of the other begin.
IsOffset(b, v) ==
  \/ \E br \in BlockRows : \E i \in 0 .. Blocks(br) :
       b = RowPtr[br] + i /\ v = ValPrefix[br] + Before(br, i)
  \/ b = Total /\ v = Nnz

Off(b) == CHOOSE v : IsOffset(b, v)

\* Two block rows share a cell only if there is no block, and so no entry,
\* between them, and then they agree on what is to be in it.
LEMMA SharedCell ==
  ASSUME IsCsr(csr), NEW br \in BlockRows, NEW i \in 0 .. Blocks(br),
         NEW k \in 0 .. num_block_rows, br < k, NEW j \in Nat,
         RowPtr[br] + i = RowPtr[k] + j
  PROVE  j = 0 /\ ValPrefix[br] + Before(br, i) = ValPrefix[k]
<1>. DEFINE n == num_block_rows
<1>1. /\ n \in Nat /\ BlockRows = 0 .. n - 1
      /\ RowPtr \in [0 .. n -> Nat] /\ ValPrefix \in [0 .. n -> Nat]
      /\ \A b \in BlockRows : /\ RowPtr[b + 1] = RowPtr[b] + Blocks(b)
                              /\ ValPrefix[b + 1] = ValPrefix[b] + BlockRowNnz(b)
      /\ \A a, b \in 0 .. n : a <= b => RowPtr[a] <= RowPtr[b]
  BY LayoutIs
<1>2. \A b \in BlockRows : /\ Blocks(b) \in Nat /\ BlockRowNnz(b) \in Nat
                           /\ Before(b, 0) = 0 /\ Before(b, Blocks(b)) = BlockRowNnz(b)
  BY CountsAdd
<1>. HIDE DEF n
<1>3. /\ br \in 0 .. n /\ br + 1 \in 0 .. n /\ k \in 0 .. n /\ br + 1 <= k
      /\ RowPtr[br] \in Nat /\ RowPtr[br + 1] \in Nat /\ RowPtr[k] \in Nat
      /\ ValPrefix[br] \in Nat
  <2>1. br \in 0 .. n /\ br + 1 \in 0 .. n /\ k \in 0 .. n /\ br + 1 <= k
    BY <1>1 DEF n
  <2>. QED
    BY <1>1, <2>1
<1>4. RowPtr[br + 1] <= RowPtr[k] /\ RowPtr[br + 1] = RowPtr[br] + Blocks(br)
  BY <1>1, <1>3
<1>5. i = Blocks(br) /\ j = 0 /\ RowPtr[br + 1] = RowPtr[k]
  <2>1. Blocks(br) \in Nat /\ i \in Nat /\ i <= Blocks(br)
    BY <1>2
  <2>. QED
    BY <1>3, <1>4, <2>1
<1>6. ASSUME NEW b \in br + 1 .. k - 1 PROVE ValPrefix[b + 1] = ValPrefix[b]
  <2>1. b \in BlockRows /\ b \in 0 .. n /\ b + 1 \in 0 .. n /\ br + 1 <= b /\ b + 1 <= k
    BY <1>1, <1>3
  <2>2. RowPtr[br + 1] <= RowPtr[b] /\ RowPtr[b + 1] <= RowPtr[k]
    BY <1>1, <1>3, <2>1
  <2>3. RowPtr[b] \in Nat /\ Blocks(b) \in Nat /\ RowPtr[b + 1] = RowPtr[b] + Blocks(b)
    BY <1>1, <1>2, <2>1
  <2>4. Blocks(b) = 0
    BY <1>3, <1>5, <2>2, <2>3
  <2>5. BlockRowNnz(b) = 0
    BY <1>2, <2>1, <2>4
  <2>. QED
    BY <1>1, <2>1, <2>5
<1>7. ValPrefix[k] = ValPrefix[br + 1]
  <2>1. ValPrefix \in [0 .. n -> Int]
    BY <1>1
  <2>. QED
    BY <1>1, <1>3, <1>6, <2>1, NoSteps
<1>8. ValPrefix[br + 1] = ValPrefix[br] + Before(br, i)
  BY <1>1, <1>2, <1>5
<1>. QED
  BY <1>5, <1>7, <1>8

LEMMA OffsetUnique ==
  ASSUME IsCsr(csr), NEW b, NEW v, NEW w, IsOffset(b, v), IsOffset(b, w)
  PROVE  v = w
<1>. DEFINE n == num_block_rows
            Pair(u) == \E br \in BlockRows : \E i \in 0 .. Blocks(br) :
                         b = RowPtr[br] + i /\ u = ValPrefix[br] + Before(br, i)
<1>1. /\ n \in Nat /\ BlockRows = 0 .. n - 1
      /\ RowPtr \in [0 .. n -> Nat] /\ ValPrefix \in [0 .. n -> Nat]
  BY LayoutIs
<1>2. \A k \in BlockRows : Blocks(k) \in Nat /\ Before(k, 0) = 0
  BY CountsAdd
<1>3. \A k \in BlockRows : k \in Int /\ k \in 0 .. n /\ k < n
                           /\ RowPtr[k] \in Nat /\ ValPrefix[k] \in Nat
  BY <1>1
<1>4. ASSUME NEW u, NEW t, Pair(u), b = Total, t = Nnz PROVE u = t
  <2>1a. PICK br \in BlockRows : \E i \in 0 .. Blocks(br) :
          b = RowPtr[br] + i /\ u = ValPrefix[br] + Before(br, i)
    BY <1>4
  <2>1. PICK i \in 0 .. Blocks(br) :
          b = RowPtr[br] + i /\ u = ValPrefix[br] + Before(br, i)
    BY <2>1a
  <2>2. n \in 0 .. n /\ br < n /\ RowPtr[br] + i = RowPtr[n] + 0 /\ 0 \in Nat
    <3>1. RowPtr[n] + 0 = RowPtr[n]
      BY <1>1
    <3>. QED
      BY <1>1, <1>3, <1>4, <2>1, <3>1 DEF Total
  <2>3. ValPrefix[br] + Before(br, i) = ValPrefix[n]
    BY <2>2, SharedCell
  <2>. QED
    BY <1>4, <2>1, <2>3 DEF Nnz
<1>5. ASSUME NEW u, NEW t, Pair(u), Pair(t) PROVE u = t
  <2>1a. PICK br \in BlockRows : \E i \in 0 .. Blocks(br) :
          b = RowPtr[br] + i /\ u = ValPrefix[br] + Before(br, i)
    BY <1>5
  <2>1. PICK i \in 0 .. Blocks(br) :
          b = RowPtr[br] + i /\ u = ValPrefix[br] + Before(br, i)
    BY <2>1a
  <2>2a. PICK k \in BlockRows : \E j \in 0 .. Blocks(k) :
          b = RowPtr[k] + j /\ t = ValPrefix[k] + Before(k, j)
    BY <1>5
  <2>2. PICK j \in 0 .. Blocks(k) :
          b = RowPtr[k] + j /\ t = ValPrefix[k] + Before(k, j)
    BY <2>2a
  <2>3. i \in Nat /\ j \in Nat /\ RowPtr[br] + i = RowPtr[k] + j
        /\ RowPtr[k] + j = RowPtr[br] + i
    BY <1>2, <2>1, <2>2
  <2>4. CASE br < k
    <3>1. j = 0 /\ ValPrefix[br] + Before(br, i) = ValPrefix[k]
      BY <1>3, <2>3, <2>4, SharedCell
    <3>. QED
      BY <1>2, <1>3, <2>1, <2>2, <3>1
  <2>5. CASE k < br
    <3>1. i = 0 /\ ValPrefix[k] + Before(k, j) = ValPrefix[br]
      BY <1>3, <2>3, <2>5, SharedCell
    <3>. QED
      BY <1>2, <1>3, <2>1, <2>2, <3>1
  <2>6. CASE br = k
    <3>1. i = j
      BY <1>3, <2>3, <2>6
    <3>. QED
      BY <2>1, <2>2, <2>6, <3>1
  <2>. QED
    BY <1>3, <2>4, <2>5, <2>6
<1>6. (Pair(v) \/ (b = Total /\ v = Nnz)) /\ (Pair(w) \/ (b = Total /\ w = Nnz))
  BY DEF IsOffset
<1>. HIDE DEF Pair
<1>7. CASE Pair(v) /\ Pair(w)
  BY <1>5, <1>7
<1>8. CASE Pair(v) /\ b = Total /\ w = Nnz
  BY <1>4, <1>8
<1>9. CASE Pair(w) /\ b = Total /\ v = Nnz
  BY <1>4, <1>9
<1>. QED
  BY <1>6, <1>7, <1>8, <1>9, Zenon

LEMMA OffsetsAre ==
  ASSUME IsCsr(csr)
  PROVE  /\ \A br \in BlockRows : \A i \in 0 .. Blocks(br) :
              /\ RowPtr[br] + i \in 0 .. Total
              /\ i < Blocks(br) => RowPtr[br] + i \in 0 .. Total - 1
              /\ Off(RowPtr[br] + i) = ValPrefix[br] + Before(br, i)
              /\ Off(RowPtr[br] + i) \in Nat
         /\ Off(Total) = Nnz /\ Off(0) = 0
<1>. DEFINE n == num_block_rows
<1>1. /\ n \in Nat /\ BlockRows = 0 .. n - 1
      /\ RowPtr \in [0 .. n -> Nat] /\ ValPrefix \in [0 .. n -> Nat]
      /\ RowPtr[0] = 0 /\ ValPrefix[0] = 0
      /\ \A b \in BlockRows : RowPtr[b + 1] = RowPtr[b] + Blocks(b)
      /\ \A a, b \in 0 .. n : a <= b => RowPtr[a] <= RowPtr[b]
      /\ Total \in Nat /\ Nnz \in Nat
  BY LayoutIs
<1>2. ASSUME NEW b, NEW v, IsOffset(b, v) PROVE Off(b) = v
  <2>1. IsOffset(b, Off(b))
    BY <1>2 DEF Off
  <2>. QED
    BY <1>2, <2>1, OffsetUnique
<1>3. ASSUME NEW br \in BlockRows, NEW i \in 0 .. Blocks(br)
      PROVE  /\ RowPtr[br] + i \in 0 .. Total
             /\ i < Blocks(br) => RowPtr[br] + i \in 0 .. Total - 1
             /\ Off(RowPtr[br] + i) = ValPrefix[br] + Before(br, i)
             /\ Off(RowPtr[br] + i) \in Nat
  <2>1. Blocks(br) \in Nat /\ Before(br, i) \in Nat
    BY CountsAdd
  <2>2. br \in 0 .. n /\ br + 1 \in 0 .. n /\ br + 1 <= n /\ n \in 0 .. n
    BY <1>1
  <2>3. RowPtr[br + 1] <= Total /\ RowPtr[br + 1] = RowPtr[br] + Blocks(br)
        /\ RowPtr[br] \in Nat /\ ValPrefix[br] \in Nat
    BY <1>1, <2>2 DEF Total
  <2>4. IsOffset(RowPtr[br] + i, ValPrefix[br] + Before(br, i))
    BY DEF IsOffset
  <2>5. Off(RowPtr[br] + i) = ValPrefix[br] + Before(br, i)
    BY <1>2, <2>4
  <2>6. RowPtr[br] + i \in 0 .. Total /\ (i < Blocks(br) => RowPtr[br] + i \in 0 .. Total - 1)
    <3>1. /\ i \in Nat /\ i <= Blocks(br) /\ Blocks(br) \in Nat /\ RowPtr[br] \in Nat
          /\ RowPtr[br] + Blocks(br) <= Total /\ Total \in Nat
      BY <1>1, <2>1, <2>3
    <3>. QED
      BY <3>1
  <2>7. ValPrefix[br] + Before(br, i) \in Nat
    BY <2>1, <2>3
  <2>. QED
    BY <2>5, <2>6, <2>7, Zenon
<1>4. Off(Total) = Nnz
  <2>1. IsOffset(Total, Nnz)
    BY DEF IsOffset
  <2>. QED
    BY <1>2, <2>1
<1>5. Off(0) = 0
  <2>1. CASE n = 0
    BY <1>1, <1>4, <2>1 DEF Total, Nnz
  <2>2. CASE n # 0
    <3>1. 0 \in BlockRows
      BY <1>1, <2>2
    <3>2. Blocks(0) \in Nat /\ Before(0, 0) = 0
      BY <3>1, CountsAdd
    <3>3. 0 \in 0 .. Blocks(0)
      BY <3>2
    <3>4. Off(RowPtr[0] + 0) = ValPrefix[0] + Before(0, 0)
      BY <1>3, <3>1, <3>3
    <3>. QED
      BY <1>1, <3>2, <3>4
  <2>. QED
    BY <2>1, <2>2
<1>. QED
  BY <1>3, <1>4, <1>5

\* Every block belongs to one block row, and its values are as many cells as it
\* has entries; no two blocks share a cell.
LEMMA BlockAt ==
  ASSUME IsCsr(csr)
  PROVE  /\ \A b \in 0 .. Total - 1 :
              \E br \in BlockRows : \E i \in 0 .. Blocks(br) - 1 : b = RowPtr[br] + i
         /\ \A br, k \in BlockRows : \A i \in 0 .. Blocks(br) - 1 : \A j \in 0 .. Blocks(k) - 1 :
              RowPtr[br] + i = RowPtr[k] + j => br = k /\ i = j
         /\ \A br \in BlockRows : \A i \in 0 .. Blocks(br) - 1 :
              /\ RowPtr[br] + i \in 0 .. Total - 1
              /\ Off(RowPtr[br] + i + 1) = Off(RowPtr[br] + i) + Cardinality(InBlock(br, i))
         /\ \A b \in 0 .. Total : Off(b) \in Nat
         /\ \A a, b \in 0 .. Total : a <= b => Off(a) <= Off(b)
<1>. DEFINE n == num_block_rows
<1>1. /\ n \in Nat /\ BlockRows = 0 .. n - 1
      /\ RowPtr \in [0 .. n -> Nat] /\ RowPtr[0] = 0
      /\ \A b \in BlockRows : RowPtr[b + 1] = RowPtr[b] + Blocks(b)
      /\ Total \in Nat /\ Nnz \in Nat /\ Total = RowPtr[n]
  BY LayoutIs DEF Total
<1>. HIDE DEF n
<1>2. RowPtr \in [0 .. n -> Int]
  BY <1>1
<1>3. \A br \in BlockRows : br \in 0 .. n /\ RowPtr[br] \in Nat /\ Blocks(br) \in Nat
                            /\ RowPtr[br] <= RowPtr[br + 1]
  <2>1. ASSUME NEW br \in BlockRows
        PROVE  br \in 0 .. n /\ RowPtr[br] \in Nat /\ Blocks(br) \in Nat
               /\ RowPtr[br] <= RowPtr[br + 1]
    <3>1. br \in 0 .. n
      BY <1>1
    <3>2. Blocks(br) \in Nat
      BY CountsAdd
    <3>. QED
      BY <1>1, <3>1, <3>2
  <2>. QED
    BY <2>1
<1>4. ASSUME NEW b \in 0 .. Total - 1
      PROVE  \E br \in BlockRows : \E i \in 0 .. Blocks(br) - 1 : b = RowPtr[br] + i
  <2>1. b \in Int /\ RowPtr[0] <= b /\ b < RowPtr[n]
    BY <1>1
  <2>2. PICK br \in 0 .. n - 1 : RowPtr[br] <= b /\ b < RowPtr[br + 1]
    BY <1>1, <1>2, <2>1, RowOfIndex
  <2>3. br \in BlockRows /\ RowPtr[br + 1] = RowPtr[br] + Blocks(br)
        /\ RowPtr[br] \in Nat /\ Blocks(br) \in Nat
    BY <1>1, <1>3
  <2>4. b - RowPtr[br] \in 0 .. Blocks(br) - 1 /\ b = RowPtr[br] + (b - RowPtr[br])
    BY <2>1, <2>2, <2>3
  <2>. QED
    BY <2>3, <2>4
<1>5. ASSUME NEW br \in BlockRows, NEW k \in BlockRows,
             NEW i \in 0 .. Blocks(br) - 1, NEW j \in 0 .. Blocks(k) - 1,
             RowPtr[br] + i = RowPtr[k] + j
      PROVE  br = k /\ i = j
  <2>. DEFINE b == RowPtr[br] + i
  <2>1. /\ RowPtr[br] \in Nat /\ Blocks(br) \in Nat /\ RowPtr[k] \in Nat /\ Blocks(k) \in Nat
        /\ RowPtr[br + 1] = RowPtr[br] + Blocks(br) /\ RowPtr[k + 1] = RowPtr[k] + Blocks(k)
    BY <1>1, <1>3
  <2>2. b \in Int /\ RowPtr[br] <= b /\ b < RowPtr[br + 1] /\ RowPtr[k] <= b /\ b < RowPtr[k + 1]
    BY <1>5, <2>1
  <2>. HIDE DEF b
  <2>3. \A m \in 0 .. n - 1 : RowPtr[m] <= RowPtr[m + 1]
    BY <1>1, <1>3
  <2>4. br \in 0 .. n - 1 /\ k \in 0 .. n - 1
    BY <1>1
  <2>5. br = k
    BY <1>1, <1>2, <2>2, <2>3, <2>4, RowOfIndexUnique
  <2>. QED
    BY <1>5, <2>1, <2>5
<1>6. ASSUME NEW br \in BlockRows, NEW i \in 0 .. Blocks(br) - 1
      PROVE  /\ RowPtr[br] + i \in 0 .. Total - 1
             /\ Off(RowPtr[br] + i) \in Nat /\ Off(RowPtr[br] + i + 1) \in Nat
             /\ Cardinality(InBlock(br, i)) \in Nat \ {0}
             /\ Off(RowPtr[br] + i + 1) = Off(RowPtr[br] + i) + Cardinality(InBlock(br, i))
  <2>1. i \in 0 .. Blocks(br) /\ i + 1 \in 0 .. Blocks(br) /\ i < Blocks(br)
        /\ RowPtr[br] + (i + 1) = RowPtr[br] + i + 1
    BY <1>3
  <2>2. /\ RowPtr[br] + i \in 0 .. Total - 1
        /\ Off(RowPtr[br] + i) = ValPrefix[br] + Before(br, i)
        /\ Off(RowPtr[br] + i) \in Nat
    BY <2>1, OffsetsAre
  <2>3. /\ Off(RowPtr[br] + (i + 1)) = ValPrefix[br] + Before(br, i + 1)
        /\ Off(RowPtr[br] + (i + 1)) \in Nat
    BY <2>1, OffsetsAre
  <2>4. /\ Before(br, i) \in Nat /\ Cardinality(InBlock(br, i)) \in Nat \ {0}
        /\ Before(br, i + 1) = Before(br, i) + Cardinality(InBlock(br, i))
    BY <2>1, CountsAdd
  <2>5. ValPrefix[br] \in Nat
    BY <1>1, <1>3, LayoutIs DEF n
  <2>6. /\ Off(RowPtr[br] + i + 1) = ValPrefix[br] + Before(br, i + 1)
        /\ Off(RowPtr[br] + i + 1) \in Nat
    BY <2>1, <2>3
  <2>. QED
    BY <2>2, <2>4, <2>5, <2>6
<1>7. ASSUME NEW b \in 0 .. Total PROVE Off(b) \in Nat
  <2>1. CASE b = Total
    BY <1>1, <2>1, OffsetsAre
  <2>2. CASE b # Total
    <3>1. b \in 0 .. Total - 1
      BY <1>1, <2>2
    <3>. QED
      BY <1>4, <1>6, <3>1
  <2>. QED
    BY <2>1, <2>2
<1>8. \A a, b \in 0 .. Total : a <= b => Off(a) <= Off(b)
  <2>. DEFINE f == [b \in 0 .. Total |-> Off(b)]
  <2>1. f \in [0 .. Total -> Int]
    BY <1>7
  <2>2. ASSUME NEW b \in 0 .. Total - 1 PROVE f[b] <= f[b + 1]
    <3>1. b \in 0 .. Total /\ b + 1 \in 0 .. Total
      BY <1>1
    <3>2. f[b] = Off(b) /\ f[b + 1] = Off(b + 1)
      BY <3>1
    <3>3a. PICK br \in BlockRows : \E i \in 0 .. Blocks(br) - 1 : b = RowPtr[br] + i
      BY <1>4
    <3>3. PICK i \in 0 .. Blocks(br) - 1 : b = RowPtr[br] + i
      BY <3>3a
    <3>4. /\ Off(b) \in Nat /\ Cardinality(InBlock(br, i)) \in Nat
          /\ Off(b + 1) = Off(b) + Cardinality(InBlock(br, i))
      BY <1>6, <3>3
    <3>. HIDE DEF f
    <3>. QED
      BY <3>2, <3>4
  <2>3. \A a, b \in 0 .. Total : a <= b => f[a] <= f[b]
    <3>. HIDE DEF f
    <3>. QED
      BY <1>1, <2>1, <2>2, StepwiseMonotone
  <2>. QED
    BY <2>3
<1>. QED
  BY <1>4, <1>5, <1>6, <1>7, <1>8

-----------------------------------------------------------------------------
(* The invariant: what each loop has done of its part. *)

\* The first loop leaves of a block row all that is to know about its blocks.
Scanned(br) ==
  /\ active_cols[br] = Cols(br) /\ block_counts[br] = Counts(br)
  /\ block_row_ptr[br + 1] = Blocks(br) /\ nnz_prefix[br + 1] = BlockRowNnz(br)

ScanInv ==
  /\ DOMAIN active_cols = BlockRows /\ DOMAIN block_counts = BlockRows
  /\ DOMAIN block_row_ptr = 0 .. num_block_rows /\ DOMAIN nnz_prefix = 0 .. num_block_rows
  /\ \A br \in ended : Scanned(br)
  /\ block_val_ptr = << >> /\ values = << >>

\* What the later loops do not change.
LayoutInv ==
  /\ \A br \in BlockRows : active_cols[br] = Cols(br) /\ block_counts[br] = Counts(br)
  /\ block_row_ptr = RowPtr /\ nnz_prefix = ValPrefix
  /\ DOMAIN block_col_idx = 0 .. Total - 1 /\ DOMAIN bitmap_words = 0 .. Total - 1
  /\ DOMAIN block_val_ptr = 0 .. Total /\ DOMAIN values = 0 .. Nnz - 1
  /\ DOMAIN at = BlockRows

\* An offset is written or not, and if so right, whichever iteration wrote it.
PlaceInv ==
  /\ \A br \in BlockRows :
       /\ at[br] \in 0 .. Blocks(br)
       /\ br \in ended => at[br] = Blocks(br)
       /\ \A i \in 0 .. at[br] - 1 :
            /\ block_col_idx[RowPtr[br] + i] = Cols(br)[i]
            /\ block_val_ptr[RowPtr[br] + i] = Off(RowPtr[br] + i)
  /\ \A b \in 0 .. Total : block_val_ptr[b] \in {0, Off(b)}
  /\ \A b \in 0 .. Total - 1 : bitmap_words[b] = {}
  /\ \A p \in 0 .. Nnz - 1 : values[p] = 0

\* The entries of a block that its iteration has come past.
Placed(br, i) == {p \in InBlock(br, i) : p < at[br]}

\* A block holds what was placed in it: the bits, no two entries at the same
\* bit, and the values in the order of the entries with nothing behind them.
BlockInv(br, i) ==
  LET b == RowPtr[br] + i IN
  /\ block_col_idx[b] = Cols(br)[i]
  /\ bitmap_words[b] = {BitOf(br, p) : p \in Placed(br, i)}
  /\ \A p, q \in Placed(br, i) : BitOf(br, p) = BitOf(br, q) => p = q
  /\ \A p \in Placed(br, i) : values[Off(b) + Below(Placed(br, i), p)] = csr.values[p]
  /\ \A k \in Cardinality(Placed(br, i)) .. Cardinality(InBlock(br, i)) - 1 :
       values[Off(b) + k] = 0
  /\ at[br] # Todo => write_pos[br][i] = Off(b) + Cardinality(Placed(br, i))

FillInv ==
  /\ \A b \in 0 .. Total : block_val_ptr[b] = Off(b)
  /\ DOMAIN write_pos = BlockRows
  /\ \A br \in BlockRows :
       /\ at[br] \in {Todo} \cup (EntriesBegin(br) .. EntriesEnd(br))
       /\ br \in ended => at[br] = EntriesEnd(br)
       /\ at[br] # Todo => DOMAIN write_pos[br] = 0 .. Blocks(br) - 1
       /\ \A i \in 0 .. Blocks(br) - 1 : BlockInv(br, i)

IInv ==
  /\ csr \in CsrMatrices /\ ended \subseteq BlockRows
  /\ pc \in {"scan", "place", "fill", "done", "failed"}
  /\ pc = "scan" => ScanInv
  /\ pc \in {"place", "fill", "done"} => LayoutInv
  /\ pc = "place" => PlaceInv
  /\ pc \in {"fill", "done"} => FillInv
  /\ pc = "done" => ended = BlockRows
  /\ pc = "failed" => HasDuplicates(csr)

\* Nothing the proof says of the matrix changes while the matrix does not.
LEMMA MatrixStays ==
  ASSUME UNCHANGED csr
  PROVE  /\ num_block_rows' = num_block_rows /\ BlockRows' = BlockRows
         /\ \A br : /\ EntriesBegin(br)' = EntriesBegin(br) /\ EntriesEnd(br)' = EntriesEnd(br)
                    /\ Blocks(br)' = Blocks(br) /\ Cols(br)' = Cols(br)
                    /\ Counts(br)' = Counts(br) /\ BlockRowNnz(br)' = BlockRowNnz(br)
         /\ \A br, i : InBlock(br, i)' = InBlock(br, i)
         /\ \A br, p : BitOf(br, p)' = BitOf(br, p)
         /\ RowPtr' = RowPtr /\ ValPrefix' = ValPrefix /\ Total' = Total /\ Nnz' = Nnz
         /\ \A b : Off(b)' = Off(b)
         /\ HasDuplicates(csr)' = HasDuplicates(csr)
<1>1. num_block_rows' = num_block_rows /\ BlockRows' = BlockRows
  BY DEF num_block_rows, BlockRows
<1>2. \A br : EntriesBegin(br)' = EntriesBegin(br) /\ EntriesEnd(br)' = EntriesEnd(br)
  BY DEF EntriesBegin, EntriesEnd
<1>3. \A br : BlockRowEntries(br)' = BlockRowEntries(br)
  BY <1>2 DEF BlockRowEntries
<1>4. \A p : BlockCol(p)' = BlockCol(p)
  BY DEF BlockCol
<1>5. \A br : ColsOf(br)' = ColsOf(br)
  BY <1>3, <1>4 DEF ColsOf
<1>6. \A br : Cols(br)' = Cols(br) /\ Blocks(br)' = Blocks(br)
  BY <1>5 DEF Cols, Blocks
<1>7. \A br, i : InBlock(br, i)' = InBlock(br, i)
  BY <1>3, <1>4, <1>6 DEF InBlock
<1>8. \A br : Counts(br)' = Counts(br)
  BY <1>6, <1>7 DEF Counts
<1>9. \A br : BlockRowNnz(br)' = BlockRowNnz(br)
  BY <1>3 DEF BlockRowNnz
<1>10. RowPtr' = RowPtr
  BY <1>1, <1>6 DEF RowPtr
<1>11. ValPrefix' = ValPrefix
  BY <1>1, <1>9 DEF ValPrefix
<1>12. Total' = Total /\ Nnz' = Nnz
  BY <1>1, <1>10, <1>11 DEF Total, Nnz
<1>13. \A br, i : Before(br, i)' = Before(br, i)
  BY <1>8 DEF Before
<1>14. \A b, v : IsOffset(b, v)' <=> IsOffset(b, v)
  BY <1>1, <1>6, <1>10, <1>11, <1>12, <1>13 DEF IsOffset
<1>15. \A b : Off(b)' = Off(b)
  BY <1>14 DEF Off
<1>16. \A p : RowOf(p)' = RowOf(p)
  BY DEF RowOf
<1>17. \A br, p : BitOf(br, p)' = BitOf(br, p)
  BY <1>16 DEF BitOf
<1>18. HasDuplicates(csr)' = HasDuplicates(csr)
  BY DEF HasDuplicates
<1>. QED
  BY <1>1, <1>2, <1>6, <1>7, <1>8, <1>9, <1>10, <1>11, <1>12, <1>15, <1>17, <1>18

LEMMA MatrixIs ==
  ASSUME csr \in CsrMatrices
  PROVE  IsCsr(csr)
BY CsrAssumption

LEMMA InitInvariant == Init => IInv
<1>. SUFFICES ASSUME Init PROVE IInv
  OBVIOUS
<1>1. ScanInv
  BY DEF Init, ScanInv
<1>. QED
  BY <1>1 DEF Init, IInv

-----------------------------------------------------------------------------
(* Each step preserves it. *)

LEMMA ScanInvariant ==
  ASSUME IInv, NEW br \in BlockRows, Scan(br)
  PROVE  IInv'
<1>1. /\ csr \in CsrMatrices /\ ended \subseteq BlockRows /\ ScanInv
      /\ pc = "scan" /\ UNCHANGED <<csr, pc, at, write_pos, outVars>> /\ ended' = ended \cup {br}
  BY DEF IInv, Scan
<1>2. IsCsr(csr)
  BY <1>1, MatrixIs
<1>3. /\ num_block_rows \in Nat /\ BlockRows = 0 .. num_block_rows - 1
  BY <1>2, LayoutIs
<1>4. DOMAIN Cols(br) = 0 .. Blocks(br) - 1 /\ size(Cols(br)) = Blocks(br)
  BY <1>2, BlocksAre
<1>5. Cols(br) = Ascending({BlockCol(p) : p \in BlockRowEntries(br)})
  BY DEF Cols, ColsOf
<1>6. /\ active_cols' = [active_cols EXCEPT ![br] = Cols(br)]
      /\ block_counts' = [block_counts EXCEPT ![br] =
           [i \in DOMAIN Cols(br) |->
              Cardinality({p \in BlockRowEntries(br) : BlockCol(p) = Cols(br)[i]})]]
      /\ block_row_ptr' = [block_row_ptr EXCEPT ![br + 1] = size(Cols(br))]
      /\ nnz_prefix' = [nnz_prefix EXCEPT ![br + 1] = BlockRowNnz(br)]
  BY <1>5 DEF Scan
<1>7. Counts(br) = [i \in DOMAIN Cols(br) |->
              Cardinality({p \in BlockRowEntries(br) : BlockCol(p) = Cols(br)[i]})]
  BY <1>4 DEF Counts, InBlock
<1>8. /\ block_counts' = [block_counts EXCEPT ![br] = Counts(br)]
      /\ block_row_ptr' = [block_row_ptr EXCEPT ![br + 1] = Blocks(br)]
  BY <1>4, <1>6, <1>7
<1>9. /\ DOMAIN active_cols = BlockRows /\ DOMAIN block_counts = BlockRows
      /\ DOMAIN block_row_ptr = 0 .. num_block_rows /\ DOMAIN nnz_prefix = 0 .. num_block_rows
      /\ \A b \in ended : Scanned(b)
      /\ block_val_ptr = << >> /\ values = << >>
  BY <1>1 DEF ScanInv
<1>10. br + 1 \in 0 .. num_block_rows
  BY <1>3
<1>11. Scanned(br)'
  <2>1. /\ active_cols'[br] = Cols(br) /\ block_counts'[br] = Counts(br)
        /\ block_row_ptr'[br + 1] = Blocks(br) /\ nnz_prefix'[br + 1] = BlockRowNnz(br)
    BY <1>6, <1>8, <1>9, <1>10
  <2>. QED
    BY <1>1, <2>1, MatrixStays DEF Scanned
<1>12. ASSUME NEW b \in ended, b # br PROVE Scanned(b)'
  <2>1. b \in BlockRows /\ b + 1 # br + 1 /\ b + 1 \in 0 .. num_block_rows
    BY <1>1, <1>3, <1>12
  <2>2. /\ active_cols'[b] = active_cols[b] /\ block_counts'[b] = block_counts[b]
        /\ block_row_ptr'[b + 1] = block_row_ptr[b + 1] /\ nnz_prefix'[b + 1] = nnz_prefix[b + 1]
    BY <1>6, <1>8, <1>9, <1>12, <2>1
  <2>. QED
    BY <1>1, <1>9, <2>2, MatrixStays DEF Scanned
<1>13. \A b \in ended' : Scanned(b)'
  BY <1>1, <1>11, <1>12
<1>14. /\ DOMAIN active_cols' = BlockRows /\ DOMAIN block_counts' = BlockRows
       /\ DOMAIN block_row_ptr' = 0 .. num_block_rows /\ DOMAIN nnz_prefix' = 0 .. num_block_rows
  BY <1>6, <1>8, <1>9
<1>15. block_val_ptr' = << >> /\ values' = << >>
  BY <1>1, <1>9 DEF outVars
<1>16. ScanInv'
  BY <1>1, <1>13, <1>14, <1>15, MatrixStays DEF ScanInv
<1>. QED
  BY <1>1, <1>16, MatrixStays DEF IInv

LEMMA AllocateInvariant ==
  ASSUME IInv, Allocate
  PROVE  IInv'
<1>1. /\ csr \in CsrMatrices /\ ScanInv /\ pc = "scan" /\ ended = BlockRows
      /\ UNCHANGED <<csr, active_cols, block_counts>>
      /\ ended' = {} /\ pc' = "place" /\ at' = [br \in BlockRows |-> 0]
  BY DEF IInv, Allocate
<1>2. IsCsr(csr)
  BY <1>1, MatrixIs
<1>3. \A br \in BlockRows : Scanned(br)
  BY <1>1 DEF ScanInv
<1>4. /\ PrefixSum([br \in BlockRows |-> block_row_ptr[br + 1]], num_block_rows) = RowPtr
      /\ PrefixSum([br \in BlockRows |-> nnz_prefix[br + 1]], num_block_rows) = ValPrefix
  <2>1. /\ [br \in BlockRows |-> block_row_ptr[br + 1]] = [br \in BlockRows |-> Blocks(br)]
        /\ [br \in BlockRows |-> nnz_prefix[br + 1]] = [br \in BlockRows |-> BlockRowNnz(br)]
    BY <1>3 DEF Scanned
  <2>. QED
    BY <2>1 DEF RowPtr, ValPrefix
<1>5. /\ block_row_ptr' = RowPtr /\ nnz_prefix' = ValPrefix
      /\ block_col_idx' = [b \in 0 .. Total - 1 |-> 0]
      /\ bitmap_words' = [b \in 0 .. Total - 1 |-> {}]
      /\ block_val_ptr' = [b \in 0 .. Total |-> 0]
      /\ values' = [p \in 0 .. Nnz - 1 |-> 0]
  BY <1>4, Zenon DEF Allocate, Total, Nnz
<1>6. LayoutInv'
  <2>1. \A br \in BlockRows : active_cols'[br] = Cols(br) /\ block_counts'[br] = Counts(br)
    BY <1>1, <1>3 DEF Scanned
  <2>. QED
    BY <1>1, <1>5, <2>1, MatrixStays DEF LayoutInv
<1>7. \A br \in BlockRows : Blocks(br) \in Nat
  BY <1>2, CountsAdd
<1>8. PlaceInv'
  <2>1. ASSUME NEW br \in BlockRows
        PROVE  /\ at'[br] \in 0 .. Blocks(br)
               /\ ~(br \in ended') /\ 0 .. at'[br] - 1 = {}
    BY <1>1, <1>7
  <2>2. /\ \A b \in 0 .. Total : block_val_ptr'[b] \in {0, Off(b)}
        /\ \A b \in 0 .. Total - 1 : bitmap_words'[b] = {}
        /\ \A p \in 0 .. Nnz - 1 : values'[p] = 0
    BY <1>5
  <2>. QED
    BY <1>1, <2>1, <2>2, MatrixStays DEF PlaceInv
<1>. QED
  BY <1>1, <1>6, <1>8, MatrixStays DEF IInv

\* What the two later loops find in the arrays of the layout.
LEMMA LayoutFound ==
  ASSUME IInv, pc \in {"place", "fill", "done"}
  PROVE  /\ IsCsr(csr) /\ LayoutInv
         /\ \A br \in BlockRows :
              /\ Blocks(br) \in Nat /\ DOMAIN active_cols[br] = 0 .. Blocks(br) - 1
              /\ size(active_cols[br]) = Blocks(br)
              /\ \A i : CountsBefore(br, i) = Before(br, i)
         /\ size(block_col_idx) = Total /\ size(bitmap_words) = Total /\ size(values) = Nnz
         /\ Total \in Nat /\ Nnz \in Nat
<1>1. IsCsr(csr) /\ LayoutInv
  BY MatrixIs DEF IInv
<1>2. ASSUME NEW br \in BlockRows
      PROVE  /\ Blocks(br) \in Nat /\ DOMAIN active_cols[br] = 0 .. Blocks(br) - 1
             /\ size(active_cols[br]) = Blocks(br)
             /\ \A i : CountsBefore(br, i) = Before(br, i)
  <2>1. active_cols[br] = Cols(br) /\ block_counts[br] = Counts(br)
    BY <1>1 DEF LayoutInv
  <2>2. Blocks(br) \in Nat /\ DOMAIN Cols(br) = 0 .. Blocks(br) - 1 /\ size(Cols(br)) = Blocks(br)
    BY <1>1, BlocksAre
  <2>. QED
    BY <2>1, <2>2 DEF CountsBefore, Before
<1>3. Total \in Nat /\ Nnz \in Nat
  BY <1>1, LayoutIs
<1>4. size(block_col_idx) = Total /\ size(bitmap_words) = Total /\ size(values) = Nnz
  BY <1>1, <1>3, IntervalIs DEF size, LayoutInv
<1>. QED
  BY <1>1, <1>2, <1>3, <1>4

LEMMA PlaceInvariant ==
  ASSUME IInv, NEW br \in BlockRows, Place(br)
  PROVE  IInv'
<1>. DEFINE a == at[br]
            c == RowPtr[br] + a
<1>1. /\ csr \in CsrMatrices /\ ended \subseteq BlockRows /\ LayoutInv /\ PlaceInv /\ pc = "place"
      /\ UNCHANGED <<csr, pc, active_cols, block_counts, block_row_ptr, nnz_prefix,
                     ended, write_pos, bitmap_words, values>>
      /\ at' = [at EXCEPT ![br] = a + 1]
  BY DEF IInv, Place
<1>2. /\ IsCsr(csr) /\ a \in 0 .. Blocks(br) - 1 /\ Blocks(br) \in Nat
      /\ CountsBefore(br, a) = Before(br, a)
  BY <1>1, LayoutFound DEF Place
<1>3. /\ DOMAIN at = BlockRows /\ DOMAIN block_col_idx = 0 .. Total - 1
      /\ DOMAIN block_val_ptr = 0 .. Total
      /\ block_row_ptr = RowPtr /\ nnz_prefix = ValPrefix /\ active_cols[br] = Cols(br)
  BY <1>1 DEF LayoutInv
<1>4. c \in 0 .. Total - 1 /\ c \in 0 .. Total /\ Off(c) = ValPrefix[br] + Before(br, a)
  <2>1. a \in 0 .. Blocks(br) /\ a < Blocks(br)
    BY <1>2
  <2>. QED
    BY <1>2, <2>1, OffsetsAre
<1>5. /\ block_col_idx' = [block_col_idx EXCEPT ![c] = Cols(br)[a]]
      /\ block_val_ptr' = [block_val_ptr EXCEPT ![c] = Off(c)]
  BY <1>2, <1>3, <1>4 DEF Place
<1>. HIDE DEF a, c
<1>6. LayoutInv'
  <2>1. /\ DOMAIN at' = BlockRows /\ DOMAIN block_col_idx' = 0 .. Total - 1
        /\ DOMAIN block_val_ptr' = 0 .. Total
    BY <1>1, <1>3, <1>5
  <2>. QED
    BY <1>1, <2>1, MatrixStays DEF LayoutInv
<1>7. ASSUME NEW b \in 0 .. Total PROVE block_val_ptr'[b] \in {0, Off(b)}
                                        /\ (block_val_ptr[b] = Off(b) => block_val_ptr'[b] = Off(b))
  <2>1. block_val_ptr[b] \in {0, Off(b)}
    BY <1>1 DEF PlaceInv
  <2>. QED
    BY <1>3, <1>5, <2>1
<1>8. ASSUME NEW k \in BlockRows
      PROVE  /\ at'[k] \in 0 .. Blocks(k)
             /\ k \in ended => at'[k] = Blocks(k)
             /\ \A i \in 0 .. at'[k] - 1 :
                  /\ block_col_idx'[RowPtr[k] + i] = Cols(k)[i]
                  /\ block_val_ptr'[RowPtr[k] + i] = Off(RowPtr[k] + i)
  <2>1. /\ at[k] \in 0 .. Blocks(k) /\ (k \in ended => at[k] = Blocks(k))
        /\ \A i \in 0 .. at[k] - 1 :
             /\ block_col_idx[RowPtr[k] + i] = Cols(k)[i]
             /\ block_val_ptr[RowPtr[k] + i] = Off(RowPtr[k] + i)
    BY <1>1 DEF PlaceInv
  <2>2. Blocks(k) \in Nat
    BY <1>2, CountsAdd
  <2>3. ASSUME NEW i \in 0 .. at'[k] - 1, ~(k = br /\ i = a)
        PROVE  i \in 0 .. at[k] - 1
    BY <1>1, <1>2, <1>3, <2>1, <2>3 DEF a
  <2>4. ASSUME NEW i \in 0 .. at'[k] - 1, ~(k = br /\ i = a)
        PROVE  /\ block_col_idx'[RowPtr[k] + i] = Cols(k)[i]
               /\ block_val_ptr'[RowPtr[k] + i] = Off(RowPtr[k] + i)
    <3>1. i \in 0 .. at[k] - 1 /\ i \in 0 .. Blocks(k) - 1
      BY <2>1, <2>2, <2>3, <2>4
    <3>2. /\ RowPtr[k] + i \in 0 .. Total - 1
          /\ RowPtr[k] + i # c
      BY <1>2, <2>4, <3>1, BlockAt DEF c
    <3>3. RowPtr[k] + i \in 0 .. Total
      <4>1. Total \in Nat /\ \A b \in 0 .. Total - 1 : b \in 0 .. Total
        BY <1>2, LayoutIs
      <4>. QED
        BY <3>2, <4>1, Zenon
    <3>4. block_col_idx'[RowPtr[k] + i] = block_col_idx[RowPtr[k] + i]
      BY <1>3, <1>5, <3>2
    <3>. QED
      BY <1>7, <2>1, <3>1, <3>3, <3>4
  <2>5. k = br => /\ block_col_idx'[RowPtr[k] + a] = Cols(k)[a]
                  /\ block_val_ptr'[RowPtr[k] + a] = Off(RowPtr[k] + a)
    BY <1>3, <1>4, <1>5 DEF c
  <2>6. at'[k] \in 0 .. Blocks(k) /\ (k \in ended => at'[k] = Blocks(k))
    BY <1>1, <1>2, <1>3, <2>1, <2>2 DEF a
  <2>. QED
    BY <2>4, <2>5, <2>6
<1>9. PlaceInv'
  <2>1. /\ \A b \in 0 .. Total - 1 : bitmap_words'[b] = {}
        /\ \A p \in 0 .. Nnz - 1 : values'[p] = 0
    BY <1>1 DEF PlaceInv
  <2>. QED
    BY <1>1, <1>7, <1>8, <2>1, MatrixStays DEF PlaceInv
<1>. QED
  BY <1>1, <1>6, <1>9, MatrixStays DEF IInv

LEMMA PlaceEndInvariant ==
  ASSUME IInv, NEW br \in BlockRows, PlaceEnd(br)
  PROVE  IInv'
<1>. DEFINE c == RowPtr[br] + Blocks(br)
<1>1. /\ csr \in CsrMatrices /\ ended \subseteq BlockRows /\ LayoutInv /\ PlaceInv /\ pc = "place"
      /\ UNCHANGED <<csr, pc, active_cols, block_counts, block_row_ptr, nnz_prefix, at,
                     write_pos, block_col_idx, bitmap_words, values>>
      /\ ended' = ended \cup {br} /\ at[br] = size(active_cols[br])
  BY DEF IInv, PlaceEnd
<1>2. /\ IsCsr(csr) /\ size(active_cols[br]) = Blocks(br) /\ Blocks(br) \in Nat
      /\ CountsBefore(br, Blocks(br)) = Before(br, Blocks(br)) /\ Total \in Nat
  BY <1>1, LayoutFound
<1>3. /\ DOMAIN block_val_ptr = 0 .. Total
      /\ block_row_ptr = RowPtr /\ nnz_prefix = ValPrefix
  BY <1>1 DEF LayoutInv
<1>4. c \in 0 .. Total /\ Off(c) = ValPrefix[br] + Before(br, Blocks(br))
  <2>1. Blocks(br) \in 0 .. Blocks(br)
    BY <1>2
  <2>. QED
    BY <1>2, <2>1, OffsetsAre
<1>5. \/ block_val_ptr' = block_val_ptr
      \/ block_val_ptr' = [block_val_ptr EXCEPT ![c] = Off(c)]
  BY <1>2, <1>3, <1>4 DEF PlaceEnd, EndOfBlocks
<1>. HIDE DEF c
<1>6. LayoutInv'
  <2>1. DOMAIN block_val_ptr' = 0 .. Total
    BY <1>3, <1>5
  <2>. QED
    BY <1>1, <2>1, MatrixStays DEF LayoutInv
<1>7. ASSUME NEW b \in 0 .. Total PROVE block_val_ptr'[b] \in {0, Off(b)}
                                        /\ (block_val_ptr[b] = Off(b) => block_val_ptr'[b] = Off(b))
  <2>1. block_val_ptr[b] \in {0, Off(b)}
    BY <1>1 DEF PlaceInv
  <2>. QED
    BY <1>3, <1>5, <2>1
<1>8. ASSUME NEW k \in BlockRows
      PROVE  /\ at'[k] \in 0 .. Blocks(k)
             /\ k \in ended' => at'[k] = Blocks(k)
             /\ \A i \in 0 .. at'[k] - 1 :
                  /\ block_col_idx'[RowPtr[k] + i] = Cols(k)[i]
                  /\ block_val_ptr'[RowPtr[k] + i] = Off(RowPtr[k] + i)
  <2>1. /\ at[k] \in 0 .. Blocks(k) /\ (k \in ended => at[k] = Blocks(k))
        /\ \A i \in 0 .. at[k] - 1 :
             /\ block_col_idx[RowPtr[k] + i] = Cols(k)[i]
             /\ block_val_ptr[RowPtr[k] + i] = Off(RowPtr[k] + i)
    BY <1>1 DEF PlaceInv
  <2>2. Blocks(k) \in Nat
    BY <1>2, CountsAdd
  <2>3. ASSUME NEW i \in 0 .. at[k] - 1 PROVE RowPtr[k] + i \in 0 .. Total
    <3>1. i \in 0 .. Blocks(k)
      BY <2>1, <2>2
    <3>. QED
      BY <1>2, <3>1, OffsetsAre
  <2>. QED
    BY <1>1, <1>2, <1>7, <2>1, <2>3
<1>9. PlaceInv'
  <2>1. /\ \A b \in 0 .. Total - 1 : bitmap_words'[b] = {}
        /\ \A p \in 0 .. Nnz - 1 : values'[p] = 0
    BY <1>1 DEF PlaceInv
  <2>. QED
    BY <1>1, <1>7, <1>8, <2>1, MatrixStays DEF PlaceInv
<1>. QED
  BY <1>1, <1>6, <1>9, MatrixStays DEF IInv

\* The values of a block are cells of the values.
LEMMA CellsOfBlock ==
  ASSUME IsCsr(csr), NEW br \in BlockRows, NEW i \in 0 .. Blocks(br) - 1
  PROVE  /\ Cardinality(InBlock(br, i)) \in Nat \ {0} /\ Off(RowPtr[br] + i) \in Nat
         /\ \A k \in 0 .. Cardinality(InBlock(br, i)) - 1 : Off(RowPtr[br] + i) + k \in 0 .. Nnz - 1
<1>. DEFINE b == RowPtr[br] + i
            card == Cardinality(InBlock(br, i))
<1>1. /\ b \in 0 .. Total - 1 /\ Off(b + 1) = Off(b) + card
      /\ \A a \in 0 .. Total : Off(a) \in Nat
      /\ \A a, c \in 0 .. Total : a <= c => Off(a) <= Off(c)
  BY BlockAt
<1>2. card \in Nat \ {0} /\ Total \in Nat /\ Nnz \in Nat /\ Off(Total) = Nnz
  BY BlocksAre, LayoutIs, OffsetsAre
<1>. HIDE DEF b, card
<1>3. b \in 0 .. Total /\ b + 1 \in 0 .. Total /\ Total \in 0 .. Total /\ b + 1 <= Total
  BY <1>1, <1>2
<1>4. Off(b) \in Nat /\ Off(b) + card <= Nnz
  BY <1>1, <1>2, <1>3
<1>5. \A k \in 0 .. card - 1 : Off(b) + k \in 0 .. Nnz - 1
  BY <1>2, <1>4
<1>. QED
  BY <1>2, <1>4, <1>5 DEF b, card

LEMMA EndPlaceInvariant ==
  ASSUME IInv, EndPlace
  PROVE  IInv'
<1>1. /\ csr \in CsrMatrices /\ LayoutInv /\ PlaceInv /\ pc = "place" /\ ended = BlockRows
      /\ UNCHANGED <<csr, active_cols, block_counts, block_row_ptr, nnz_prefix,
                     block_col_idx, bitmap_words, values>>
      /\ at' = [br \in BlockRows |-> Todo] /\ write_pos' = [br \in BlockRows |-> << >>]
      /\ ended' = {} /\ pc' = "fill"
  BY DEF IInv, EndPlace
<1>2. IsCsr(csr) /\ size(block_col_idx) = Total /\ size(values) = Nnz /\ Total \in Nat
  BY <1>1, LayoutFound
<1>3. DOMAIN block_val_ptr = 0 .. Total /\ Off(Total) = Nnz
  BY <1>1, <1>2, OffsetsAre DEF LayoutInv
<1>4. block_val_ptr' = [block_val_ptr EXCEPT ![Total] = Off(Total)]
  BY <1>2, <1>3 DEF EndPlace
<1>5. ASSUME NEW br \in BlockRows, NEW i \in 0 .. Blocks(br) - 1
      PROVE  /\ block_col_idx[RowPtr[br] + i] = Cols(br)[i]
             /\ block_val_ptr[RowPtr[br] + i] = Off(RowPtr[br] + i)
  <2>1. at[br] = Blocks(br)
    BY <1>1 DEF PlaceInv
  <2>. QED
    BY <1>1, <2>1 DEF PlaceInv
<1>6. ASSUME NEW b \in 0 .. Total PROVE block_val_ptr'[b] = Off(b)
  <2>1. CASE b = Total
    BY <1>3, <1>4, <2>1
  <2>2. CASE b # Total
    <3>1. b \in 0 .. Total - 1
      BY <1>2, <2>2
    <3>2. PICK br \in BlockRows : \E i \in 0 .. Blocks(br) - 1 : b = RowPtr[br] + i
      BY <1>2, <3>1, BlockAt
    <3>3. block_val_ptr[b] = Off(b)
      BY <1>5, <3>2
    <3>. QED
      BY <1>3, <1>4, <2>2, <3>3
  <2>. QED
    BY <2>1, <2>2
<1>7. LayoutInv'
  <2>1. DOMAIN block_val_ptr' = 0 .. Total /\ DOMAIN at' = BlockRows
    BY <1>1, <1>3, <1>4
  <2>. QED
    BY <1>1, <2>1, MatrixStays DEF LayoutInv
<1>8. ASSUME NEW br \in BlockRows, NEW i \in 0 .. Blocks(br) - 1 PROVE BlockInv(br, i)'
  <2>. DEFINE b == RowPtr[br] + i
  <2>1. InBlock(br, i) \subseteq Nat
    BY <1>2, BlocksAre
  <2>2. at'[br] = Todo /\ Todo = -1
    BY <1>1 DEF Todo
  <2>3. Placed(br, i)' = {}
    <3>1. Placed(br, i)' = {p \in InBlock(br, i) : p < -1}
      BY <1>1, <2>2, MatrixStays DEF Placed
    <3>. QED
      BY <2>1, <3>1
  <2>4. b \in 0 .. Total - 1
    BY <1>2, BlockAt
  <2>5. block_col_idx'[b] = Cols(br)[i] /\ bitmap_words'[b] = {}
    BY <1>1, <1>5, <2>4 DEF PlaceInv
  <2>6. \A k \in 0 .. Cardinality(InBlock(br, i)) - 1 : values'[Off(b) + k] = 0
    BY <1>1, <1>2, CellsOfBlock DEF PlaceInv
  <2>7. Cardinality({}) = 0
    BY FS_EmptySet
  <2>8. /\ RowPtr' = RowPtr /\ Off(b)' = Off(b) /\ InBlock(br, i)' = InBlock(br, i)
        /\ Cols(br)' = Cols(br) /\ at'[br] = Todo /\ Todo' = Todo
    BY <1>1, <2>2, MatrixStays DEF Todo
  <2>. QED
    BY <2>3, <2>5, <2>6, <2>7, <2>8 DEF BlockInv
<1>9. FillInv'
  <2>1. /\ \A br \in BlockRows : at'[br] = Todo /\ ~(br \in ended')
        /\ DOMAIN write_pos' = BlockRows /\ Todo' = Todo
    BY <1>1 DEF Todo
  <2>. QED
    BY <1>1, <1>6, <1>8, <2>1, MatrixStays DEF FillInv
<1>. QED
  BY <1>1, <1>7, <1>9, MatrixStays DEF IInv

\* What was placed is a part of the block, and has ranks inside it.
LEMMA PlacedIs ==
  ASSUME IsCsr(csr), NEW br \in BlockRows, NEW i \in 0 .. Blocks(br) - 1
  PROVE  /\ Placed(br, i) \subseteq InBlock(br, i) /\ IsFiniteSet(Placed(br, i))
         /\ Placed(br, i) \subseteq Int
         /\ Cardinality(Placed(br, i)) \in Nat /\ Cardinality(InBlock(br, i)) \in Nat
         /\ Cardinality(Placed(br, i)) <= Cardinality(InBlock(br, i))
         /\ Cardinality(Placed(br, i)) = Cardinality(InBlock(br, i))
              => Placed(br, i) = InBlock(br, i)
         /\ \A p \in Placed(br, i) :
              Below(Placed(br, i), p) \in 0 .. Cardinality(Placed(br, i)) - 1
         /\ \A k \in 0 .. Cardinality(Placed(br, i)) - 1 :
              \E p \in Placed(br, i) : Below(Placed(br, i), p) = k
<1>1. Placed(br, i) \in SUBSET InBlock(br, i)
  BY DEF Placed
<1>2. IsFiniteSet(InBlock(br, i)) /\ InBlock(br, i) \subseteq Nat
  BY BlocksAre
<1>3. /\ IsFiniteSet(Placed(br, i)) /\ Cardinality(Placed(br, i)) <= Cardinality(InBlock(br, i))
      /\ Cardinality(InBlock(br, i)) = Cardinality(Placed(br, i))
           => InBlock(br, i) = Placed(br, i)
  BY <1>1, <1>2, FS_Subset
<1>4. Cardinality(Placed(br, i)) \in Nat /\ Cardinality(InBlock(br, i)) \in Nat
  BY <1>2, <1>3, FS_CardinalityType
<1>5. Placed(br, i) \subseteq Int
  BY <1>1, <1>2
<1>. QED
  BY <1>1, <1>3, <1>4, <1>5, Ranks

LEMMA BlockStays ==
  ASSUME UNCHANGED csr, IsCsr(csr), NEW br \in BlockRows, NEW i \in 0 .. Blocks(br) - 1,
         BlockInv(br, i), Placed(br, i)' = Placed(br, i),
         block_col_idx'[RowPtr[br] + i] = block_col_idx[RowPtr[br] + i],
         bitmap_words'[RowPtr[br] + i] = bitmap_words[RowPtr[br] + i],
         \A k \in 0 .. Cardinality(InBlock(br, i)) - 1 :
           values'[Off(RowPtr[br] + i) + k] = values[Off(RowPtr[br] + i) + k],
         at'[br] # Todo =>
           write_pos'[br][i] = Off(RowPtr[br] + i) + Cardinality(Placed(br, i))
  PROVE  BlockInv(br, i)'
<1>. DEFINE b == RowPtr[br] + i
<1>1. /\ block_col_idx[b] = Cols(br)[i]
      /\ bitmap_words[b] = {BitOf(br, p) : p \in Placed(br, i)}
      /\ \A p, q \in Placed(br, i) : BitOf(br, p) = BitOf(br, q) => p = q
      /\ \A p \in Placed(br, i) : values[Off(b) + Below(Placed(br, i), p)] = csr.values[p]
      /\ \A k \in Cardinality(Placed(br, i)) .. Cardinality(InBlock(br, i)) - 1 :
           values[Off(b) + k] = 0
  BY DEF BlockInv
<1>2. /\ Cardinality(Placed(br, i)) \in Nat /\ Cardinality(InBlock(br, i)) \in Nat
      /\ Cardinality(Placed(br, i)) <= Cardinality(InBlock(br, i))
      /\ \A p \in Placed(br, i) :
           Below(Placed(br, i), p) \in 0 .. Cardinality(Placed(br, i)) - 1
  BY PlacedIs
<1>. DEFINE card == Cardinality(InBlock(br, i))
            done == Cardinality(Placed(br, i))
<1>3. \A k \in 0 .. card - 1 : values'[Off(b) + k] = values[Off(b) + k]
  OBVIOUS
<1>4. \A p \in Placed(br, i) : Below(Placed(br, i), p) \in 0 .. card - 1
  <2>. HIDE DEF card, done
  <2>1. card \in Nat /\ done \in Nat /\ done <= card
    BY <1>2 DEF card, done
  <2>2. \A k \in 0 .. done - 1 : k \in 0 .. card - 1
    BY <2>1
  <2>3. \A p \in Placed(br, i) : Below(Placed(br, i), p) \in 0 .. done - 1
    BY <1>2 DEF done
  <2>. QED
    BY <2>2, <2>3
<1>5. \A p \in Placed(br, i) : values'[Off(b) + Below(Placed(br, i), p)] = csr.values[p]
  BY <1>1, <1>3, <1>4
<1>6. \A k \in done .. card - 1 : values'[Off(b) + k] = 0
  BY <1>1, <1>2, <1>3
<1>7. /\ (RowPtr[br] + i)' = b /\ Off(b)' = Off(b) /\ InBlock(br, i)' = InBlock(br, i)
      /\ Cols(br)' = Cols(br) /\ Todo' = Todo /\ \A p : BitOf(br, p)' = BitOf(br, p)
      /\ csr' = csr
  BY MatrixStays DEF Todo
<1>. HIDE DEF b
<1>8. \A S, p : Below(S, p)' = Below(S, p)
  BY DEF Below
<1>. QED
  BY <1>1, <1>5, <1>6, <1>7, <1>8 DEF BlockInv, b

LEMMA FillStartInvariant ==
  ASSUME IInv, NEW br \in BlockRows, FillStart(br)
  PROVE  IInv'
<1>1. /\ csr \in CsrMatrices /\ ended \subseteq BlockRows /\ LayoutInv /\ FillInv /\ pc = "fill"
      /\ UNCHANGED <<csr, pc, active_cols, block_counts, block_row_ptr, nnz_prefix, ended>>
      /\ UNCHANGED outVars
      /\ at[br] = Todo /\ at' = [at EXCEPT ![br] = EntriesBegin(br)]
  BY DEF IInv, FillStart
<1>2. /\ IsCsr(csr) /\ DOMAIN active_cols[br] = 0 .. Blocks(br) - 1
  BY <1>1, LayoutFound
<1>3. DOMAIN at = BlockRows /\ block_row_ptr = RowPtr /\ DOMAIN write_pos = BlockRows
      /\ \A b \in 0 .. Total : block_val_ptr[b] = Off(b)
  BY <1>1 DEF LayoutInv, FillInv
<1>4. write_pos' = [write_pos EXCEPT ![br] =
                      [i \in 0 .. Blocks(br) - 1 |-> block_val_ptr[RowPtr[br] + i]]]
  BY <1>2, <1>3 DEF FillStart
<1>5. EntriesBegin(br) \in Nat /\ EntriesEnd(br) \in Nat /\ EntriesBegin(br) <= EntriesEnd(br)
  BY <1>2, BlockRowIs
<1>6. LayoutInv'
  <2>1. DOMAIN at' = BlockRows
    BY <1>1, <1>3
  <2>. QED
    BY <1>1, <2>1, MatrixStays DEF LayoutInv, outVars
<1>7. ASSUME NEW k \in BlockRows, NEW i \in 0 .. Blocks(k) - 1 PROVE BlockInv(k, i)'
  <2>1. BlockInv(k, i)
    BY <1>1 DEF FillInv
  <2>2. CASE k # br
    <3>1. at'[k] = at[k] /\ write_pos'[k] = write_pos[k]
      BY <1>1, <1>3, <1>4, <2>2
    <3>2. Placed(k, i)' = Placed(k, i)
      BY <1>1, <3>1, MatrixStays DEF Placed
    <3>3. at'[k] # Todo =>
            write_pos'[k][i] = Off(RowPtr[k] + i) + Cardinality(Placed(k, i))
      BY <2>1, <3>1 DEF BlockInv
    <3>. QED
      BY <1>1, <1>2, <2>1, <3>2, <3>3, BlockStays DEF outVars
  <2>3. CASE k = br
    <3>1. \A p \in InBlock(k, i) : p \in Nat /\ EntriesBegin(k) <= p
      <4>1. InBlock(k, i) \subseteq BlockRowEntries(k)
        BY DEF InBlock
      <4>2. \A p \in BlockRowEntries(k) : p \in EntriesBegin(k) .. EntriesEnd(k) - 1
        BY DEF BlockRowEntries
      <4>. QED
        BY <1>5, <2>3, <4>1, <4>2
    <3>2. Placed(k, i) = {}
      <4>1. \A p \in Nat : ~(p < -1)
        OBVIOUS
      <4>. QED
        BY <1>1, <2>3, <3>1, <4>1 DEF Placed, Todo
    <3>3. at'[k] = EntriesBegin(k)
      BY <1>1, <1>3, <2>3
    <3>4. Placed(k, i)' = {p \in InBlock(k, i) : p < EntriesBegin(k)}
      BY <1>1, <3>3, MatrixStays DEF Placed
    <3>5. Placed(k, i)' = {}
      BY <1>5, <2>3, <3>1, <3>4
    <3>6. write_pos'[k][i] = Off(RowPtr[k] + i) + Cardinality(Placed(k, i))
      <4>1. RowPtr[k] + i \in 0 .. Total
        <5>1. RowPtr[k] + i \in 0 .. Total - 1 /\ Total \in Nat
          BY <1>2, BlockAt, LayoutIs
        <5>. QED
          BY <5>1
      <4>2. write_pos'[k][i] = Off(RowPtr[k] + i)
        BY <1>3, <1>4, <2>3, <4>1
      <4>3. Off(RowPtr[k] + i) \in Nat /\ Cardinality(Placed(k, i)) = 0
        BY <1>2, <3>2, CellsOfBlock, FS_EmptySet
      <4>. QED
        BY <4>2, <4>3
    <3>. QED
      BY <1>1, <1>2, <2>1, <3>2, <3>5, <3>6, BlockStays DEF outVars
  <2>. QED
    BY <2>2, <2>3
<1>8. ASSUME NEW k \in BlockRows
      PROVE  /\ at'[k] \in {Todo} \cup (EntriesBegin(k) .. EntriesEnd(k))
             /\ k \in ended => at'[k] = EntriesEnd(k)
             /\ at'[k] # Todo => DOMAIN write_pos'[k] = 0 .. Blocks(k) - 1
  <2>1. /\ at[k] \in {Todo} \cup (EntriesBegin(k) .. EntriesEnd(k))
        /\ k \in ended => at[k] = EntriesEnd(k)
        /\ at[k] # Todo => DOMAIN write_pos[k] = 0 .. Blocks(k) - 1
    BY <1>1 DEF FillInv
  <2>2. CASE k # br
    BY <1>1, <1>3, <1>4, <2>1, <2>2
  <2>3. CASE k = br
    <3>1. at'[k] = EntriesBegin(k) /\ DOMAIN write_pos'[k] = 0 .. Blocks(k) - 1
      BY <1>1, <1>3, <1>4, <2>3
    <3>2. k \notin ended
      BY <1>1, <1>5, <2>1, <2>3 DEF Todo
    <3>. QED
      BY <1>5, <2>3, <3>1, <3>2
  <2>. QED
    BY <2>2, <2>3
<1>9. FillInv'
  <2>1. DOMAIN write_pos' = BlockRows /\ Todo' = Todo
    BY <1>3, <1>4 DEF Todo
  <2>. QED
    BY <1>1, <1>3, <1>7, <1>8, <2>1, MatrixStays DEF FillInv, outVars
<1>. QED
  BY <1>1, <1>6, <1>9, MatrixStays DEF IInv

LEMMA SkipZeroInvariant ==
  ASSUME IInv, NEW br \in BlockRows, SkipZero(br)
  PROVE  IInv'
<1>1. /\ csr \in CsrMatrices /\ ended \subseteq BlockRows /\ LayoutInv /\ FillInv /\ pc = "fill"
      /\ UNCHANGED <<csr, pc, active_cols, block_counts, block_row_ptr, nnz_prefix, ended,
                     write_pos>>
      /\ UNCHANGED outVars
      /\ at[br] \in EntriesBegin(br) .. EntriesEnd(br) - 1 /\ csr.values[at[br]] = 0
      /\ at' = [at EXCEPT ![br] = at[br] + 1]
  BY DEF IInv, SkipZero, AfterZero
<1>2. IsCsr(csr)
  BY <1>1, LayoutFound
<1>3. DOMAIN at = BlockRows
  BY <1>1 DEF LayoutInv
<1>4. EntriesBegin(br) \in Nat /\ EntriesEnd(br) \in Nat /\ at[br] \in Nat
  BY <1>1, <1>2, BlockRowIs
<1>5. LayoutInv'
  <2>1. DOMAIN at' = BlockRows
    BY <1>1, <1>3
  <2>. QED
    BY <1>1, <2>1, MatrixStays DEF LayoutInv, outVars
<1>6. ASSUME NEW k \in BlockRows, NEW i \in 0 .. Blocks(k) - 1 PROVE BlockInv(k, i)'
  <2>1. BlockInv(k, i)
    BY <1>1 DEF FillInv
  <2>2. Placed(k, i)' = Placed(k, i)
    <3>1. CASE k # br
      BY <1>1, <1>3, <3>1, MatrixStays DEF Placed
    <3>2. CASE k = br
      <4>1. at[br] \notin InBlock(k, i)
        BY <1>1 DEF InBlock, BlockRowEntries
      <4>2. InBlock(k, i) \subseteq Nat
        BY <1>2, BlocksAre
      <4>3. \A p \in InBlock(k, i) : p < at[br] + 1 <=> p < at[br]
        BY <1>4, <4>1, <4>2
      <4>4. Placed(k, i)' = {p \in InBlock(k, i) : p < at[br] + 1}
        BY <1>1, <1>3, <3>2, MatrixStays DEF Placed
      <4>. QED
        BY <3>2, <4>3, <4>4 DEF Placed
    <3>. QED
      BY <3>1, <3>2
  <2>3. write_pos'[k] = write_pos[k] /\ (at'[k] # Todo => at[k] # Todo)
    BY <1>1, <1>3, <1>4 DEF Todo
  <2>4. at'[k] # Todo =>
          write_pos'[k][i] = Off(RowPtr[k] + i) + Cardinality(Placed(k, i))
    BY <2>1, <2>3 DEF BlockInv
  <2>. QED
    BY <1>1, <1>2, <2>1, <2>2, <2>4, BlockStays DEF outVars
<1>7. ASSUME NEW k \in BlockRows
      PROVE  /\ at'[k] \in {Todo} \cup (EntriesBegin(k) .. EntriesEnd(k))
             /\ k \in ended => at'[k] = EntriesEnd(k)
             /\ at'[k] # Todo => DOMAIN write_pos'[k] = 0 .. Blocks(k) - 1
  <2>1. /\ at[k] \in {Todo} \cup (EntriesBegin(k) .. EntriesEnd(k))
        /\ k \in ended => at[k] = EntriesEnd(k)
        /\ at[k] # Todo => DOMAIN write_pos[k] = 0 .. Blocks(k) - 1
    BY <1>1 DEF FillInv
  <2>2. CASE k # br
    BY <1>1, <1>3, <2>1, <2>2
  <2>3. CASE k = br
    BY <1>1, <1>3, <1>4, <2>1, <2>3 DEF Todo
  <2>. QED
    BY <2>2, <2>3
<1>8. FillInv'
  <2>1. Todo' = Todo
    BY DEF Todo
  <2>. QED
    BY <1>1, <1>6, <1>7, <2>1, MatrixStays DEF FillInv, outVars
<1>. QED
  BY <1>1, <1>5, <1>8, MatrixStays DEF IInv

\* No cell of the values is one of two blocks.
LEMMA CellsApart ==
  ASSUME IsCsr(csr), NEW br \in BlockRows, NEW i \in 0 .. Blocks(br) - 1,
         NEW k \in BlockRows, NEW j \in 0 .. Blocks(k) - 1,
         NEW u \in 0 .. Cardinality(InBlock(br, i)) - 1,
         NEW v \in 0 .. Cardinality(InBlock(k, j)) - 1,
         Off(RowPtr[br] + i) + u = Off(RowPtr[k] + j) + v
  PROVE  br = k /\ i = j
<1>. DEFINE b == RowPtr[br] + i
            c == RowPtr[k] + j
<1>1. /\ b \in 0 .. Total - 1 /\ Off(b + 1) = Off(b) + Cardinality(InBlock(br, i))
      /\ c \in 0 .. Total - 1 /\ Off(c + 1) = Off(c) + Cardinality(InBlock(k, j))
      /\ b = c => br = k /\ i = j
      /\ \A a \in 0 .. Total : Off(a) \in Nat
      /\ \A a, d \in 0 .. Total : a <= d => Off(a) <= Off(d)
      /\ Cardinality(InBlock(br, i)) \in Nat /\ Cardinality(InBlock(k, j)) \in Nat
      /\ Total \in Nat
  <2>1. /\ b \in 0 .. Total - 1 /\ Off(b + 1) = Off(b) + Cardinality(InBlock(br, i))
        /\ c \in 0 .. Total - 1 /\ Off(c + 1) = Off(c) + Cardinality(InBlock(k, j))
        /\ b = c => br = k /\ i = j
    BY BlockAt
  <2>2. /\ \A a \in 0 .. Total : Off(a) \in Nat
        /\ \A a, d \in 0 .. Total : a <= d => Off(a) <= Off(d)
    BY BlockAt
  <2>3. Cardinality(InBlock(br, i)) \in Nat /\ Cardinality(InBlock(k, j)) \in Nat
    BY BlocksAre
  <2>. QED
    BY <2>1, <2>2, <2>3, LayoutIs, Zenon
<1>2. Off(b) + u = Off(c) + v
  OBVIOUS
<1>. HIDE DEF b, c
<1>3. /\ b \in 0 .. Total /\ b + 1 \in 0 .. Total /\ c \in 0 .. Total /\ c + 1 \in 0 .. Total
  BY <1>1
<1>4. Off(b) \in Nat /\ Off(c) \in Nat /\ Off(b + 1) \in Nat /\ Off(c + 1) \in Nat
  BY <1>1, <1>3
<1>5. ~(b < c)
  <2>1. b < c => Off(b + 1) <= Off(c)
    <3>1. b < c => b + 1 <= c
      BY <1>3
    <3>. QED
      BY <1>1, <1>3, <3>1
  <2>. QED
    BY <1>1, <1>2, <1>4, <2>1
<1>6. ~(c < b)
  <2>1. c < b => Off(c + 1) <= Off(b)
    <3>1. c < b => c + 1 <= b
      BY <1>3
    <3>. QED
      BY <1>1, <1>3, <3>1
  <2>. QED
    BY <1>1, <1>2, <1>4, <2>1
<1>. QED
  BY <1>1, <1>3, <1>5, <1>6

\* Two entries at the same bit of a block are one stored twice.
LEMMA SameBit ==
  ASSUME IsCsr(csr), NEW br \in BlockRows,
         NEW p \in BlockRowEntries(br), NEW q \in BlockRowEntries(br),
         BlockCol(p) = BlockCol(q), BitOf(br, p) = BitOf(br, q), p # q
  PROVE  HasDuplicates(csr)
<1>1. /\ RowOf(p) \in 0 .. csr.rows - 1
      /\ p \in Positions(csr, RowOf(p)) /\ q \in Positions(csr, RowOf(q))
      /\ csr.values[p] # 0 /\ csr.values[q] # 0
      /\ RowOf(p) = br * block_rows + BitOf(br, p) \div block_cols
      /\ RowOf(q) = br * block_rows + BitOf(br, q) \div block_cols
      /\ csr.col_idx[p] = BlockCol(p) * block_cols + (BitOf(br, p) % block_cols)
      /\ csr.col_idx[q] = BlockCol(q) * block_cols + (BitOf(br, q) % block_cols)
  BY EntriesAre
<1>2. RowOf(p) = RowOf(q) /\ csr.col_idx[p] = csr.col_idx[q]
  BY <1>1, Zenon
<1>. QED
  BY <1>1, <1>2 DEF HasDuplicates

\* The entries of a row are in one block row.
LEMMA OneBlockRow ==
  ASSUME IsCsr(csr), NEW br \in BlockRows, NEW k \in BlockRows,
         NEW p \in EntriesBegin(br) .. EntriesEnd(br) - 1,
         NEW q \in EntriesBegin(k) .. EntriesEnd(k) - 1, RowOf(p) = RowOf(q)
  PROVE  br = k
<1>. DEFINE r == RowOf(p)
            m == br * block_rows
            n == k * block_rows
<1>1. /\ br \in Nat /\ k \in Nat /\ block_rows \in Nat \ {0} /\ r \in Int
      /\ m \in Nat /\ n \in Nat
      /\ r - m \in 0 .. block_rows - 1 /\ r - n \in 0 .. block_rows - 1
  BY RowsOfEntries, BlockShapeAssumption
<1>2. (br < k => m + block_rows <= n) /\ (k < br => n + block_rows <= m)
  BY <1>1, NextMultiple
<1>. HIDE DEF m, n, r
<1>. QED
  BY <1>1, <1>2

\* An entry stored twice is in one block, and at the same bit of it.
LEMMA TwiceIsSameBit ==
  ASSUME IsCsr(csr), NEW r \in 0 .. csr.rows - 1,
         NEW p \in Positions(csr, r), NEW q \in Positions(csr, r),
         csr.col_idx[p] = csr.col_idx[q], csr.values[p] # 0, csr.values[q] # 0
  PROVE  \E br \in BlockRows : \E i \in 0 .. Blocks(br) - 1 :
           p \in InBlock(br, i) /\ q \in InBlock(br, i) /\ BitOf(br, p) = BitOf(br, q)
<1>1. RowOf(p) = r /\ RowOf(q) = r
  BY RowOfPosition
<1>2. PICK br \in BlockRows : p \in EntriesBegin(br) .. EntriesEnd(br) - 1
  BY BlockRowOfEntry
<1>3. PICK k \in BlockRows : q \in EntriesBegin(k) .. EntriesEnd(k) - 1
  BY BlockRowOfEntry
<1>4. br = k
  BY <1>1, <1>2, <1>3, OneBlockRow
<1>5. p \in BlockRowEntries(br) /\ q \in BlockRowEntries(br)
  BY <1>2, <1>3, <1>4 DEF BlockRowEntries
<1>6. PICK i \in 0 .. Blocks(br) - 1 : p \in InBlock(br, i)
  BY <1>5, BlocksAre
<1>7. BlockCol(p) = BlockCol(q) /\ BitOf(br, p) = BitOf(br, q)
  BY <1>1 DEF BlockCol, BitOf
<1>8. q \in InBlock(br, i)
  BY <1>5, <1>6, <1>7 DEF InBlock
<1>. QED
  BY <1>6, <1>7, <1>8

\* An entry that is not at a bit of its block yet goes there, and its value
\* behind the others of the block.
LEMMA EntryPlaced ==
  ASSUME IInv, NEW br \in BlockRows, Fill(br), NEW i \in 0 .. Blocks(br) - 1,
         at[br] \in InBlock(br, i),
         BitOf(br, at[br]) \notin bitmap_words[RowPtr[br] + i],
         bitmap_words' = [bitmap_words EXCEPT ![RowPtr[br] + i] = @ \cup {BitOf(br, at[br])}],
         values' = [values EXCEPT ![write_pos[br][i]] = csr.values[at[br]]],
         write_pos' = [write_pos EXCEPT ![br][i] = @ + 1],
         at' = [at EXCEPT ![br] = at[br] + 1]
  PROVE  /\ BlockInv(br, i)'
         /\ write_pos[br][i] = Off(RowPtr[br] + i) + Cardinality(Placed(br, i))
         /\ Cardinality(Placed(br, i)) \in 0 .. Cardinality(InBlock(br, i)) - 1
         /\ values[write_pos[br][i]] = 0
<1>. DEFINE p    == at[br]
            b    == RowPtr[br] + i
            old  == Placed(br, i)
            new  == old \cup {p}
            done == Cardinality(old)
            card == Cardinality(InBlock(br, i))
            bit  == BitOf(br, p)
<1>1. /\ csr \in CsrMatrices /\ LayoutInv /\ FillInv /\ pc = "fill" /\ csr' = csr
      /\ block_col_idx' = block_col_idx
      /\ p \in EntriesBegin(br) .. EntriesEnd(br) - 1
  BY DEF IInv, Fill
<1>2. IsCsr(csr)
  BY <1>1, LayoutFound
<1>3. /\ DOMAIN at = BlockRows /\ DOMAIN bitmap_words = 0 .. Total - 1
      /\ DOMAIN values = 0 .. Nnz - 1 /\ DOMAIN write_pos = BlockRows
  BY <1>1 DEF LayoutInv, FillInv
<1>4. EntriesBegin(br) \in Nat /\ EntriesEnd(br) \in Nat /\ p \in Nat /\ p # Todo
  <2>1. EntriesBegin(br) \in Nat /\ EntriesEnd(br) \in Nat
    BY <1>2, BlockRowIs
  <2>. QED
    BY <1>1, <2>1 DEF Todo
<1>5. DOMAIN write_pos[br] = 0 .. Blocks(br) - 1
  BY <1>1, <1>4 DEF FillInv
<1>6. BlockInv(br, i)
  BY <1>1 DEF FillInv
<1>7. /\ block_col_idx[b] = Cols(br)[i]
      /\ bitmap_words[b] = {BitOf(br, q) : q \in old}
      /\ \A q, r \in old : BitOf(br, q) = BitOf(br, r) => q = r
      /\ \A q \in old : values[Off(b) + Below(old, q)] = csr.values[q]
      /\ \A k \in done .. card - 1 : values[Off(b) + k] = 0
      /\ write_pos[br][i] = Off(b) + done
  BY <1>4, <1>6 DEF BlockInv
<1>8. /\ InBlock(br, i) \subseteq Nat /\ IsFiniteSet(InBlock(br, i))
  BY <1>2, BlocksAre
<1>9. \A q \in old : q \in InBlock(br, i) /\ q < p /\ q \in Nat
  BY <1>8 DEF Placed
<1>10. p \notin old
  BY <1>4, <1>9
<1>11. /\ IsFiniteSet(old) /\ done \in Nat /\ card \in Nat /\ old \subseteq Int
       /\ \A q \in old : Below(old, q) \in 0 .. done - 1
  BY <1>2, PlacedIs
<1>12. Cardinality(new) = done + 1 /\ IsFiniteSet(new)
  BY <1>10, <1>11, FS_AddElement
<1>13. new \subseteq InBlock(br, i)
  BY <1>9
<1>14. done + 1 <= card
  BY <1>8, <1>12, <1>13, FS_Subset
<1>15. Placed(br, i)' = new
  <2>1. Placed(br, i)' = {q \in InBlock(br, i) : q < p + 1}
    BY <1>1, <1>3, MatrixStays DEF Placed
  <2>2. \A q \in InBlock(br, i) : q < p + 1 <=> (q < p \/ q = p)
    BY <1>4, <1>8
  <2>3. old = {q \in InBlock(br, i) : q < p}
    BY DEF Placed
  <2>. QED
    BY <2>1, <2>2, <2>3
<1>16. b \in 0 .. Total - 1 /\ Off(b) \in Nat /\ \A k \in 0 .. card - 1 : Off(b) + k \in 0 .. Nnz - 1
  BY <1>2, BlockAt, CellsOfBlock
<1>17. bitmap_words'[b] = {BitOf(br, q) : q \in new}
  BY <1>3, <1>7, <1>16
<1>18. \A q, r \in new : BitOf(br, q) = BitOf(br, r) => q = r
  BY <1>7
<1>19. values' = [values EXCEPT ![Off(b) + done] = csr.values[p]]
  BY <1>7
<1>20. done \in 0 .. card - 1 /\ Off(b) + done \in DOMAIN values
  BY <1>3, <1>11, <1>14, <1>16
<1>21. Below(new, p) = done
  <2>1. {d \in new : d < p} = old
    <3>1. ~(p < p)
      BY <1>4
    <3>. QED
      BY <1>9, <3>1
  <2>. QED
    BY <2>1 DEF Below
<1>22. \A q \in old : Below(new, q) = Below(old, q)
  <2>1. ASSUME NEW q \in old PROVE {d \in new : d < q} = {d \in old : d < q}
    <3>1. ~(p < q)
      BY <1>4, <1>9
    <3>. QED
      BY <3>1
  <2>. QED
    BY <2>1 DEF Below
<1>. HIDE DEF p, b, old, done, card, bit, new
<1>23. \A k \in 0 .. card - 1 : Off(b) + k \in DOMAIN values
  BY <1>3, <1>16
<1>30. ASSUME NEW q \in old
       PROVE  Off(b) + Below(old, q) \in DOMAIN values /\ Off(b) + Below(old, q) # Off(b) + done
  <2>1. Below(old, q) \in 0 .. done - 1
    BY <1>11
  <2>2. Below(old, q) \in 0 .. card - 1 /\ Off(b) + Below(old, q) # Off(b) + done
    BY <1>11, <1>14, <1>16, <2>1
  <2>. QED
    BY <1>23, <2>2
<1>24. \A q \in new : values'[Off(b) + Below(new, q)] = csr.values[q]
  <2>1. \A q \in old : values'[Off(b) + Below(new, q)] = csr.values[q]
    BY <1>7, <1>19, <1>22, <1>30
  <2>2. values'[Off(b) + Below(new, p)] = csr.values[p]
    BY <1>19, <1>20, <1>21
  <2>. QED
    BY <2>1, <2>2 DEF new
<1>25. \A k \in done + 1 .. card - 1 : values'[Off(b) + k] = 0
  <2>1. ASSUME NEW k \in done + 1 .. card - 1 PROVE values'[Off(b) + k] = 0
    <3>1. k \in done .. card - 1 /\ k \in 0 .. card - 1 /\ Off(b) + k # Off(b) + done
      BY <1>11, <1>16
    <3>2. Off(b) + k \in DOMAIN values
      BY <1>23, <3>1
    <3>. QED
      BY <1>7, <1>19, <3>1, <3>2
  <2>. QED
    BY <2>1
<1>26. write_pos'[br][i] = Off(b) + (done + 1)
  <2>1. write_pos'[br][i] = write_pos[br][i] + 1
    BY <1>3, <1>5
  <2>. QED
    BY <1>7, <1>11, <1>16, <2>1
<1>27. block_col_idx'[b] = Cols(br)[i]
  BY <1>1, <1>7
<1>28. BlockInv(br, i)'
  <2>1. /\ (RowPtr[br] + i)' = b /\ Off(RowPtr[br] + i)' = Off(b)
        /\ Cardinality(InBlock(br, i))' = card
        /\ Cols(br)' = Cols(br) /\ \A q : BitOf(br, q)' = BitOf(br, q)
        /\ csr' = csr
    BY <1>1, MatrixStays DEF b, card
  <2>2. \A S, q : Below(S, q)' = Below(S, q)
    BY DEF Below
  <2>3. Cardinality(Placed(br, i))' = done + 1
    BY <1>12, <1>15
  <2>4. \A q, r \in Placed(br, i)' : BitOf(br, q)' = BitOf(br, r)' => q = r
    BY <1>15, <1>18, <2>1
  <2>5. \A q \in Placed(br, i)' :
           values'[Off(b) + Below(Placed(br, i)', q)] = csr'.values[q]
    BY <1>15, <1>24, <2>1
  <2>6. \A k \in Cardinality(Placed(br, i))' .. card - 1 : values'[Off(b) + k] = 0
    BY <1>25, <2>3
  <2>7. write_pos'[br][i] = Off(b) + Cardinality(Placed(br, i))'
    BY <1>26, <2>3
  <2>8. bitmap_words'[b] = {BitOf(br, q)' : q \in Placed(br, i)'}
    BY <1>15, <1>17, <2>1
  <2>9. (block_col_idx[RowPtr[br] + i] = Cols(br)[i])'
    BY <1>27, <2>1
  <2>10. (bitmap_words[RowPtr[br] + i] = {BitOf(br, q) : q \in Placed(br, i)})'
    BY <2>1, <2>8
  <2>11. (\A q, r \in Placed(br, i) : BitOf(br, q) = BitOf(br, r) => q = r)'
    BY <2>4
  <2>12. (\A q \in Placed(br, i) :
            values[Off(RowPtr[br] + i) + Below(Placed(br, i), q)] = csr.values[q])'
    BY <2>1, <2>2, <2>5
  <2>13. (\A k \in Cardinality(Placed(br, i)) .. Cardinality(InBlock(br, i)) - 1 :
            values[Off(RowPtr[br] + i) + k] = 0)'
    BY <2>1, <2>6
  <2>14. (write_pos[br][i] = Off(RowPtr[br] + i) + Cardinality(Placed(br, i)))'
    BY <2>1, <2>7
  <2>. QED
    BY <2>9, <2>10, <2>11, <2>12, <2>13, <2>14 DEF BlockInv
<1>29. values[write_pos[br][i]] = 0
  <2>1. done \in done .. card - 1
    BY <1>20
  <2>. QED
    BY <1>7, <2>1
<1>. QED
  BY <1>7, <1>20, <1>28, <1>29 DEF b, old, done, card

\* An entry that fits into no block is one that is stored twice.
LEMMA MisfitIsTwice ==
  ASSUME IsCsr(csr), FillInv, NEW br \in BlockRows, NEW p \in BlockRowEntries(br), p = at[br],
         \A i \in 0 .. Blocks(br) - 1 :
           Cols(br)[i] = BlockCol(p) => BitOf(br, p) \in bitmap_words[RowPtr[br] + i]
  PROVE  HasDuplicates(csr)
<1>1. PICK i \in 0 .. Blocks(br) - 1 : p \in InBlock(br, i)
  BY BlocksAre
<1>2. BitOf(br, p) \in bitmap_words[RowPtr[br] + i]
  BY <1>1 DEF InBlock
<1>3. bitmap_words[RowPtr[br] + i] = {BitOf(br, q) : q \in Placed(br, i)}
  BY DEF FillInv, BlockInv
<1>4. PICK q \in Placed(br, i) : BitOf(br, p) = BitOf(br, q)
  BY <1>2, <1>3
<1>5. q \in InBlock(br, i) /\ q < p
  BY DEF Placed
<1>6. q \in BlockRowEntries(br) /\ BlockCol(q) = BlockCol(p)
  BY <1>1, <1>5 DEF InBlock
<1>7. p # q
  <2>1. p \in Nat /\ q \in Nat
    BY <1>1, <1>5, BlocksAre
  <2>. QED
    BY <1>5, <2>1
<1>. QED
  BY <1>4, <1>6, <1>7, SameBit

LEMMA FillInvariant ==
  ASSUME IInv, NEW br \in BlockRows, Fill(br)
  PROVE  IInv'
<1>. DEFINE p == at[br]
<1>1. /\ csr \in CsrMatrices /\ ended \subseteq BlockRows /\ LayoutInv /\ FillInv /\ pc = "fill"
      /\ UNCHANGED <<csr, active_cols, block_counts, block_row_ptr, nnz_prefix, ended,
                     block_col_idx, block_val_ptr>>
      /\ p \in EntriesBegin(br) .. EntriesEnd(br) - 1 /\ csr.values[p] # 0
  BY DEF IInv, Fill
<1>2. /\ IsCsr(csr) /\ DOMAIN active_cols[br] = 0 .. Blocks(br) - 1
      /\ active_cols[br] = Cols(br) /\ block_row_ptr = RowPtr
  BY <1>1, LayoutFound DEF LayoutInv
<1>3. p \in BlockRowEntries(br)
  BY <1>1 DEF BlockRowEntries
<1>. DEFINE fits == {i \in 0 .. Blocks(br) - 1 :
                       /\ Cols(br)[i] = BlockCol(p)
                       /\ BitOf(br, p) \notin bitmap_words[RowPtr[br] + i]}
<1>4. CASE fits = {} /\ pc' = "failed"
  <2>1. HasDuplicates(csr)
    BY <1>1, <1>2, <1>3, <1>4, MisfitIsTwice
  <2>. QED
    BY <1>1, <1>4, <2>1, MatrixStays DEF IInv
<1>5. CASE \E i \in fits :
             /\ bitmap_words' = [bitmap_words EXCEPT
                                   ![RowPtr[br] + i] = @ \cup {BitOf(br, p)}]
             /\ values' = [values EXCEPT ![write_pos[br][i]] = csr.values[p]]
             /\ write_pos' = [write_pos EXCEPT ![br][i] = @ + 1]
             /\ at' = [at EXCEPT ![br] = p + 1]
             /\ UNCHANGED pc
  <2>1. PICK i \in fits :
             /\ bitmap_words' = [bitmap_words EXCEPT
                                   ![RowPtr[br] + i] = @ \cup {BitOf(br, p)}]
             /\ values' = [values EXCEPT ![write_pos[br][i]] = csr.values[p]]
             /\ write_pos' = [write_pos EXCEPT ![br][i] = @ + 1]
             /\ at' = [at EXCEPT ![br] = p + 1]
             /\ UNCHANGED pc
    BY <1>5
  <2>2. i \in 0 .. Blocks(br) - 1 /\ p \in InBlock(br, i)
        /\ BitOf(br, p) \notin bitmap_words[RowPtr[br] + i]
    BY <1>3, <2>1 DEF InBlock
  <2>3. /\ BlockInv(br, i)'
        /\ write_pos[br][i] = Off(RowPtr[br] + i) + Cardinality(Placed(br, i))
        /\ Cardinality(Placed(br, i)) \in 0 .. Cardinality(InBlock(br, i)) - 1
    BY <2>1, <2>2, EntryPlaced
  <2>4. /\ DOMAIN at = BlockRows /\ DOMAIN bitmap_words = 0 .. Total - 1
        /\ DOMAIN values = 0 .. Nnz - 1 /\ DOMAIN write_pos = BlockRows
        /\ DOMAIN block_col_idx = 0 .. Total - 1 /\ DOMAIN block_val_ptr = 0 .. Total
    BY <1>1 DEF LayoutInv, FillInv
  <2>5. EntriesBegin(br) \in Nat /\ EntriesEnd(br) \in Nat /\ p \in Nat /\ p # Todo
    <3>1. EntriesBegin(br) \in Nat /\ EntriesEnd(br) \in Nat
      BY <1>2, BlockRowIs
    <3>. QED
      BY <1>1, <3>1 DEF Todo
  <2>6. DOMAIN write_pos[br] = 0 .. Blocks(br) - 1
    BY <1>1, <2>5 DEF FillInv
  <2>7. LayoutInv'
    <3>1. DOMAIN at' = BlockRows /\ DOMAIN bitmap_words' = 0 .. Total - 1
          /\ DOMAIN values' = 0 .. Nnz - 1
      BY <2>1, <2>4
    <3>. QED
      BY <1>1, <3>1, MatrixStays DEF LayoutInv
  <2>8. ASSUME NEW k \in BlockRows, NEW j \in 0 .. Blocks(k) - 1, ~(k = br /\ j = i)
        PROVE  BlockInv(k, j)'
    <3>1. BlockInv(k, j)
      BY <1>1 DEF FillInv
    <3>2. Placed(k, j)' = Placed(k, j)
      <4>1. CASE k # br
        BY <1>1, <2>1, <2>4, <4>1, MatrixStays DEF Placed
      <4>2. CASE k = br
        <5>1. p \notin InBlock(k, j)
          <6>1. Cols(br)[i] = Cols(br)[j] => i = j
            BY <1>2, <2>2, <2>8, <4>2, BlocksAre
          <6>. QED
            BY <2>2, <2>8, <4>2, <6>1 DEF InBlock
        <5>2. InBlock(k, j) \subseteq Nat
          BY <1>2, BlocksAre
        <5>3. \A q \in InBlock(k, j) : q < p + 1 <=> q < p
          BY <2>5, <5>1, <5>2
        <5>4. Placed(k, j)' = {q \in InBlock(k, j) : q < p + 1}
          BY <1>1, <2>1, <2>4, <4>2, MatrixStays DEF Placed
        <5>. QED
          BY <4>2, <5>3, <5>4 DEF Placed
      <4>. QED
        BY <4>1, <4>2
    <3>3. RowPtr[k] + j \in 0 .. Total - 1 /\ RowPtr[k] + j # RowPtr[br] + i
      BY <1>2, <2>2, <2>8, BlockAt
    <3>4. bitmap_words'[RowPtr[k] + j] = bitmap_words[RowPtr[k] + j]
      BY <2>1, <2>4, <3>3
    <3>5. ASSUME NEW u \in 0 .. Cardinality(InBlock(k, j)) - 1
          PROVE  values'[Off(RowPtr[k] + j) + u] = values[Off(RowPtr[k] + j) + u]
      <4>1. Off(RowPtr[k] + j) + u # write_pos[br][i]
        BY <1>2, <2>2, <2>3, <2>8, CellsApart
      <4>2. Off(RowPtr[k] + j) + u \in DOMAIN values
        BY <1>2, <2>4, CellsOfBlock
      <4>. QED
        BY <2>1, <4>1, <4>2
    <3>6. at'[k] # Todo =>
            write_pos'[k][j] = Off(RowPtr[k] + j) + Cardinality(Placed(k, j))
      <4>1. at'[k] # Todo => at[k] # Todo
        BY <2>1, <2>4, <2>5
      <4>2. at[k] # Todo => write_pos'[k][j] = write_pos[k][j]
        <5>1. CASE k # br
          BY <2>1, <2>4, <5>1
        <5>2. CASE k = br
          BY <2>1, <2>4, <2>6, <2>8, <5>2
        <5>. QED
          BY <5>1, <5>2
      <4>. QED
        BY <3>1, <4>1, <4>2 DEF BlockInv
    <3>. QED
      BY <1>1, <1>2, <3>1, <3>2, <3>4, <3>5, <3>6, BlockStays
  <2>9. ASSUME NEW k \in BlockRows
        PROVE  /\ at'[k] \in {Todo} \cup (EntriesBegin(k) .. EntriesEnd(k))
               /\ k \in ended => at'[k] = EntriesEnd(k)
               /\ at'[k] # Todo => DOMAIN write_pos'[k] = 0 .. Blocks(k) - 1
               /\ \A j \in 0 .. Blocks(k) - 1 : BlockInv(k, j)'
    <3>1. /\ at[k] \in {Todo} \cup (EntriesBegin(k) .. EntriesEnd(k))
          /\ k \in ended => at[k] = EntriesEnd(k)
          /\ at[k] # Todo => DOMAIN write_pos[k] = 0 .. Blocks(k) - 1
      BY <1>1 DEF FillInv
    <3>2. \A j \in 0 .. Blocks(k) - 1 : BlockInv(k, j)'
      BY <2>3, <2>8
    <3>3. CASE k # br
      BY <2>1, <2>4, <3>1, <3>2, <3>3
    <3>4. CASE k = br
      <4>1. at'[k] = p + 1 /\ p + 1 \in EntriesBegin(k) .. EntriesEnd(k)
        BY <1>1, <2>1, <2>4, <2>5, <3>4
      <4>2. k \notin ended
        BY <1>1, <2>5, <3>1, <3>4
      <4>3. DOMAIN write_pos'[k] = 0 .. Blocks(k) - 1
        BY <2>1, <2>4, <2>6, <3>4
      <4>. QED
        BY <3>2, <4>1, <4>2, <4>3
    <3>. QED
      BY <3>3, <3>4
  <2>10. FillInv'
    <3>1. DOMAIN write_pos' = BlockRows /\ Todo' = Todo
      BY <2>1, <2>4 DEF Todo
    <3>2. \A b \in 0 .. Total : block_val_ptr'[b] = Off(b)
      BY <1>1 DEF FillInv
    <3>. QED
      BY <1>1, <2>9, <3>1, <3>2, MatrixStays DEF FillInv
  <2>. QED
    BY <1>1, <2>1, <2>7, <2>10, MatrixStays DEF IInv
<1>. QED
  BY <1>1, <1>2, <1>4, <1>5 DEF Fill

\* An iteration that came to the end of its entries has filled its blocks.
LEMMA FillEndInvariant ==
  ASSUME IInv, NEW br \in BlockRows, FillEnd(br)
  PROVE  IInv'
<1>1. /\ csr \in CsrMatrices /\ ended \subseteq BlockRows /\ LayoutInv /\ FillInv /\ pc = "fill"
      /\ UNCHANGED <<csr, active_cols, block_counts, block_row_ptr, nnz_prefix, at,
                     write_pos>>
      /\ UNCHANGED outVars /\ at[br] = EntriesEnd(br)
  BY DEF IInv, FillEnd
<1>2. /\ IsCsr(csr) /\ DOMAIN active_cols[br] = 0 .. Blocks(br) - 1 /\ block_row_ptr = RowPtr
      /\ Total \in Nat
  BY <1>1, LayoutFound DEF LayoutInv
<1>3. EntriesBegin(br) \in Nat /\ EntriesEnd(br) \in Nat
  BY <1>2, BlockRowIs
<1>4. ASSUME NEW i \in 0 .. Blocks(br) - 1
      PROVE  write_pos[br][i] = block_val_ptr[RowPtr[br] + i + 1]
  <2>1. \A p \in InBlock(br, i) : p \in Nat /\ p < EntriesEnd(br)
    <3>1. \A p \in InBlock(br, i) : p \in EntriesBegin(br) .. EntriesEnd(br) - 1
      BY DEF InBlock, BlockRowEntries
    <3>. QED
      BY <1>3, <3>1
  <2>2. Placed(br, i) = InBlock(br, i)
    BY <1>1, <2>1 DEF Placed
  <2>3. write_pos[br][i] = Off(RowPtr[br] + i) + Cardinality(InBlock(br, i))
    BY <1>1, <1>3, <2>2 DEF FillInv, BlockInv, Todo
  <2>4. /\ RowPtr[br] + i \in 0 .. Total - 1
        /\ Off(RowPtr[br] + i + 1) = Off(RowPtr[br] + i) + Cardinality(InBlock(br, i))
    BY <1>2, BlockAt
  <2>5. RowPtr[br] + i + 1 \in 0 .. Total
    <3>. DEFINE b == RowPtr[br] + i
    <3>1. b \in 0 .. Total - 1
      BY <2>4
    <3>. HIDE DEF b
    <3>2. b + 1 \in 0 .. Total
      BY <1>2, <3>1
    <3>. QED
      BY <3>2 DEF b
  <2>. QED
    BY <1>1, <2>3, <2>4, <2>5 DEF FillInv
<1>5. ended' = ended \cup {br} /\ pc' = pc
  BY <1>2, <1>4 DEF FillEnd
<1>6. LayoutInv'
  BY <1>1, MatrixStays DEF LayoutInv, outVars
<1>7. ASSUME NEW k \in BlockRows, NEW i \in 0 .. Blocks(k) - 1 PROVE BlockInv(k, i)'
  <2>1. BlockInv(k, i)
    BY <1>1 DEF FillInv
  <2>2. Placed(k, i)' = Placed(k, i)
    BY <1>1, MatrixStays DEF Placed
  <2>3. at'[k] # Todo =>
          write_pos'[k][i] = Off(RowPtr[k] + i) + Cardinality(Placed(k, i))
    BY <1>1, <2>1 DEF BlockInv
  <2>. QED
    BY <1>1, <1>2, <2>1, <2>2, <2>3, BlockStays DEF outVars
<1>8. FillInv'
  <2>1. \A k \in BlockRows :
          /\ at'[k] \in {Todo} \cup (EntriesBegin(k) .. EntriesEnd(k))
          /\ k \in ended' => at'[k] = EntriesEnd(k)
          /\ at'[k] # Todo => DOMAIN write_pos'[k] = 0 .. Blocks(k) - 1
    BY <1>1, <1>5 DEF FillInv
  <2>2. DOMAIN write_pos' = BlockRows /\ Todo' = Todo
        /\ \A b \in 0 .. Total : block_val_ptr'[b] = Off(b)
    BY <1>1 DEF FillInv, Todo, outVars
  <2>. QED
    BY <1>1, <1>7, <2>1, <2>2, MatrixStays DEF FillInv
<1>. QED
  BY <1>1, <1>5, <1>6, <1>8, MatrixStays DEF IInv

\* Every cell of the values is one of a block.
LEMMA BlockOfCell ==
  ASSUME IsCsr(csr), NEW v \in 0 .. Nnz - 1
  PROVE  \E br \in BlockRows : \E i \in 0 .. Blocks(br) - 1 :
           \E k \in 0 .. Cardinality(InBlock(br, i)) - 1 : v = Off(RowPtr[br] + i) + k
<1>. DEFINE f == [b \in 0 .. Total |-> Off(b)]
<1>1. Total \in Nat /\ Nnz \in Nat /\ Off(Total) = Nnz /\ Off(0) = 0
  BY LayoutIs, OffsetsAre
<1>2. \A b \in 0 .. Total : Off(b) \in Nat
  BY BlockAt
<1>3. f \in [0 .. Total -> Int] /\ f[0] = 0 /\ f[Total] = Nnz
  <2>1. \A b \in 0 .. Total : Off(b) \in Int
    BY <1>2
  <2>. QED
    BY <1>1, <2>1
<1>4. PICK b \in 0 .. Total - 1 : f[b] <= v /\ v < f[b + 1]
  <2>. HIDE DEF f
  <2>1. v \in Int /\ f[0] <= v /\ v < f[Total]
    BY <1>1, <1>3
  <2>. QED
    BY <1>1, <1>3, <2>1, RowOfIndex, Zenon
<1>5. b \in 0 .. Total /\ b + 1 \in 0 .. Total
  BY <1>1
<1>6. Off(b) <= v /\ v < Off(b + 1) /\ Off(b) \in Nat /\ Off(b + 1) \in Nat
  BY <1>2, <1>4, <1>5
<1>7. PICK br \in BlockRows : \E i \in 0 .. Blocks(br) - 1 : b = RowPtr[br] + i
  BY BlockAt
<1>8. PICK i \in 0 .. Blocks(br) - 1 : b = RowPtr[br] + i
  BY <1>7
<1>9. /\ Off(b + 1) = Off(b) + Cardinality(InBlock(br, i))
      /\ Cardinality(InBlock(br, i)) \in Nat
  BY <1>8, BlockAt, BlocksAre
<1>10. v - Off(b) \in 0 .. Cardinality(InBlock(br, i)) - 1 /\ v = Off(b) + (v - Off(b))
  BY <1>6, <1>9
<1>. QED
  BY <1>8, <1>10

\* When all iterations are over, every block holds all of its entries.
LEMMA FilledBlock ==
  ASSUME IInv, pc \in {"fill", "done"}, ended = BlockRows,
         NEW br \in BlockRows, NEW i \in 0 .. Blocks(br) - 1
  PROVE  /\ block_col_idx[RowPtr[br] + i] = Cols(br)[i]
         /\ bitmap_words[RowPtr[br] + i] = {BitOf(br, p) : p \in InBlock(br, i)}
         /\ \A p, q \in InBlock(br, i) : BitOf(br, p) = BitOf(br, q) => p = q
         /\ \A p \in InBlock(br, i) :
              values[Off(RowPtr[br] + i) + Below(InBlock(br, i), p)] = csr.values[p]
         /\ Cardinality(bitmap_words[RowPtr[br] + i]) = Cardinality(InBlock(br, i))
<1>1. IsCsr(csr) /\ FillInv
  BY LayoutFound DEF IInv
<1>2. EntriesBegin(br) \in Nat /\ EntriesEnd(br) \in Nat
  BY <1>1, BlockRowIs
<1>3. at[br] = EntriesEnd(br)
  BY <1>1 DEF FillInv
<1>4. Placed(br, i) = InBlock(br, i)
  <2>1. \A p \in InBlock(br, i) : p \in EntriesBegin(br) .. EntriesEnd(br) - 1
    BY DEF InBlock, BlockRowEntries
  <2>2. \A p \in InBlock(br, i) : p < EntriesEnd(br)
    BY <1>2, <2>1
  <2>. QED
    BY <1>3, <2>2 DEF Placed
<1>5. BlockInv(br, i)
  BY <1>1 DEF FillInv
<1>6. /\ block_col_idx[RowPtr[br] + i] = Cols(br)[i]
      /\ bitmap_words[RowPtr[br] + i] = {BitOf(br, p) : p \in InBlock(br, i)}
      /\ \A p, q \in InBlock(br, i) : BitOf(br, p) = BitOf(br, q) => p = q
      /\ \A p \in InBlock(br, i) :
           values[Off(RowPtr[br] + i) + Below(InBlock(br, i), p)] = csr.values[p]
  BY <1>4, <1>5 DEF BlockInv
<1>7. Cardinality({BitOf(br, p) : p \in InBlock(br, i)}) = Cardinality(InBlock(br, i))
  <2>. DEFINE S == InBlock(br, i)
              T == {BitOf(br, p) : p \in S}
              f == [p \in S |-> BitOf(br, p)]
  <2>1. IsFiniteSet(S)
    BY <1>1, BlocksAre
  <2>2. \A p, q \in S : f[p] = f[q] => p = q
    BY <1>6
  <2>3. {f[p] : p \in S} = T
    OBVIOUS
  <2>. HIDE DEF f, S, T
  <2>4. DOMAIN f = S
    BY DEF f
  <2>. QED
    BY <2>1, <2>2, <2>3, <2>4, OneToOne DEF S, T
<1>. QED
  BY <1>6, <1>7

\* What the conversion leaves when it is over is a valid matrix.
LEMMA FilledIsValid ==
  ASSUME IInv, pc \in {"fill", "done"}, ended = BlockRows
  PROVE  IsBitBsr(out)
<1>1. /\ IsCsr(csr) /\ LayoutInv /\ FillInv
      /\ size(block_col_idx) = Total /\ size(bitmap_words) = Total /\ size(values) = Nnz
      /\ Total \in Nat /\ Nnz \in Nat
  BY LayoutFound DEF IInv
<1>2. /\ block_row_ptr = RowPtr /\ DOMAIN block_col_idx = 0 .. Total - 1
      /\ DOMAIN block_val_ptr = 0 .. Total /\ DOMAIN values = 0 .. Nnz - 1
      /\ \A b \in 0 .. Total : block_val_ptr[b] = Off(b)
  BY <1>1 DEF LayoutInv, FillInv
<1>3. /\ num_block_rows \in Nat /\ RowPtr \in [0 .. num_block_rows -> Nat] /\ RowPtr[0] = 0
      /\ \A k, l \in 0 .. num_block_rows : k <= l => RowPtr[k] <= RowPtr[l]
  BY <1>1, LayoutIs
<1>4. \A k \in 0 .. num_block_rows - 1 : RowPtr[k] <= RowPtr[k + 1]
  <2>1. \A k \in 0 .. num_block_rows - 1 :
          k \in 0 .. num_block_rows /\ k + 1 \in 0 .. num_block_rows /\ k <= k + 1
    BY <1>3
  <2>. QED
    BY <1>3, <2>1
<1>5. Off(Total) = Nnz /\ Off(0) = 0
  BY <1>1, OffsetsAre
<1>6. block_val_ptr[0] = 0 /\ block_val_ptr[Total] = Nnz
  <2>1. 0 \in 0 .. Total /\ Total \in 0 .. Total
    BY <1>1
  <2>. QED
    BY <1>2, <1>5, <2>1
<1>7. ASSUME NEW b \in 0 .. Total - 1
      PROVE  /\ block_col_idx[b] \in 0 .. ceil_div(csr.cols, block_cols) - 1
             /\ block_val_ptr[b] + Cardinality(bitmap_words[b]) = block_val_ptr[b + 1]
  <2>1. PICK br \in BlockRows : \E i \in 0 .. Blocks(br) - 1 : b = RowPtr[br] + i
    BY <1>1, BlockAt
  <2>2. PICK i \in 0 .. Blocks(br) - 1 : b = RowPtr[br] + i
    BY <2>1
  <2>3. /\ block_col_idx[b] = Cols(br)[i]
        /\ Cardinality(bitmap_words[b]) = Cardinality(InBlock(br, i))
    BY <2>2, FilledBlock
  <2>4. Cols(br)[i] \in 0 .. ceil_div(csr.cols, block_cols) - 1
    BY <1>1, BlocksAre
  <2>5. Off(b + 1) = Off(b) + Cardinality(InBlock(br, i))
    BY <1>1, <2>2, BlockAt
  <2>6. b \in 0 .. Total /\ b + 1 \in 0 .. Total
    BY <1>1
  <2>. QED
    BY <1>2, <2>3, <2>4, <2>5, <2>6
<1>8. ASSUME NEW v \in 0 .. Nnz - 1 PROVE values[v] # 0
  <2>1. PICK br \in BlockRows : \E i \in 0 .. Blocks(br) - 1 :
          \E k \in 0 .. Cardinality(InBlock(br, i)) - 1 : v = Off(RowPtr[br] + i) + k
    BY <1>1, BlockOfCell
  <2>2. PICK i \in 0 .. Blocks(br) - 1 :
          \E k \in 0 .. Cardinality(InBlock(br, i)) - 1 : v = Off(RowPtr[br] + i) + k
    BY <2>1
  <2>3. PICK k \in 0 .. Cardinality(InBlock(br, i)) - 1 : v = Off(RowPtr[br] + i) + k
    BY <2>2
  <2>4. InBlock(br, i) \subseteq Int /\ IsFiniteSet(InBlock(br, i))
    BY <1>1, BlocksAre
  <2>5. PICK p \in InBlock(br, i) : Below(InBlock(br, i), p) = k
    BY <2>4, Ranks
  <2>6. values[v] = csr.values[p]
    BY <2>3, <2>5, FilledBlock
  <2>7. csr.values[p] # 0
    BY DEF InBlock, BlockRowEntries
  <2>. QED
    BY <2>6, <2>7
<1>9. /\ out.rows = csr.rows /\ out.cols = csr.cols /\ out.num_block_rows = num_block_rows
      /\ out.num_block_cols = ceil_div(csr.cols, block_cols)
      /\ out.block_row_ptr = block_row_ptr /\ out.block_col_idx = block_col_idx
      /\ out.bitmap_words = bitmap_words /\ out.block_val_ptr = block_val_ptr
      /\ out.values = values
  BY DEF out
<1>10. num_block_rows = ceil_div(csr.rows, block_rows)
  BY DEF num_block_rows
<1>11. DOMAIN RowPtr = 0 .. num_block_rows /\ RowPtr[num_block_rows] = Total
  BY <1>3 DEF Total
<1>. HIDE DEF out
<1>. QED
  BY <1>1, <1>2, <1>3, <1>4, <1>6, <1>7, <1>8, <1>9, <1>10, <1>11 DEF IsBitBsr

\* The validation finds nothing to object to.
LEMMA ValidateInvariant ==
  ASSUME IInv, Validate
  PROVE  IInv'
<1>1. /\ csr \in CsrMatrices /\ ended \subseteq BlockRows /\ LayoutInv /\ FillInv /\ pc = "fill"
      /\ ended = BlockRows
      /\ UNCHANGED <<csr, active_cols, block_counts, block_row_ptr, nnz_prefix, at,
                     ended, write_pos>>
      /\ UNCHANGED outVars
  BY DEF IInv, Validate
<1>2. pc' = "done"
  BY <1>1, FilledIsValid DEF Validate
<1>3. LayoutInv'
  BY <1>1, MatrixStays DEF LayoutInv, outVars
<1>4. ASSUME NEW k \in BlockRows, NEW i \in 0 .. Blocks(k) - 1 PROVE BlockInv(k, i)'
  <2>1. BlockInv(k, i)
    BY <1>1 DEF FillInv
  <2>2. Placed(k, i)' = Placed(k, i)
    BY <1>1, MatrixStays DEF Placed
  <2>3. at'[k] # Todo =>
          write_pos'[k][i] = Off(RowPtr[k] + i) + Cardinality(Placed(k, i))
    BY <1>1, <2>1 DEF BlockInv
  <2>. QED
    BY <1>1, <2>1, <2>2, <2>3, BlockStays, MatrixIs DEF outVars
<1>5. FillInv'
  <2>1. /\ \A k \in BlockRows :
             /\ at'[k] \in {Todo} \cup (EntriesBegin(k) .. EntriesEnd(k))
             /\ k \in ended' => at'[k] = EntriesEnd(k)
             /\ at'[k] # Todo => DOMAIN write_pos'[k] = 0 .. Blocks(k) - 1
        /\ DOMAIN write_pos' = BlockRows /\ Todo' = Todo
        /\ \A b \in 0 .. Total : block_val_ptr'[b] = Off(b)
    BY <1>1 DEF FillInv, Todo, outVars
  <2>. QED
    BY <1>1, <1>4, <2>1, MatrixStays DEF FillInv
<1>. QED
  BY <1>1, <1>2, <1>3, <1>5, MatrixStays DEF IInv

\* A stutter keeps it.
LEMMA StutterInvariant ==
  ASSUME IInv, UNCHANGED vars
  PROVE  IInv'
<1>1. UNCHANGED <<csr, pc, active_cols, block_counts, block_row_ptr, nnz_prefix, at, ended,
                  write_pos, block_col_idx, bitmap_words, block_val_ptr, values>>
  BY DEF vars
<1>2. ScanInv => ScanInv'
  BY <1>1, MatrixStays DEF ScanInv, Scanned
<1>3. LayoutInv => LayoutInv'
  BY <1>1, MatrixStays DEF LayoutInv
<1>4. PlaceInv => PlaceInv'
  BY <1>1, MatrixStays DEF PlaceInv
<1>5. \A br, i : Placed(br, i)' = Placed(br, i)
  BY <1>1, MatrixStays DEF Placed
<1>6. ASSUME FillInv, IsCsr(csr) PROVE FillInv'
  <2>1. ASSUME NEW k \in BlockRows, NEW i \in 0 .. Blocks(k) - 1 PROVE BlockInv(k, i)'
    <3>1. BlockInv(k, i)
      BY <1>6 DEF FillInv
    <3>2. at'[k] # Todo =>
            write_pos'[k][i] = Off(RowPtr[k] + i) + Cardinality(Placed(k, i))
      BY <1>1, <3>1 DEF BlockInv
    <3>. QED
      BY <1>1, <1>5, <1>6, <3>1, <3>2, BlockStays
  <2>2. /\ \A k \in BlockRows :
             /\ at'[k] \in {Todo} \cup (EntriesBegin(k) .. EntriesEnd(k))
             /\ k \in ended' => at'[k] = EntriesEnd(k)
             /\ at'[k] # Todo => DOMAIN write_pos'[k] = 0 .. Blocks(k) - 1
        /\ DOMAIN write_pos' = BlockRows /\ Todo' = Todo
        /\ \A b \in 0 .. Total : block_val_ptr'[b] = Off(b)
    BY <1>1, <1>6 DEF FillInv, Todo
  <2>. QED
    BY <1>1, <2>1, <2>2, MatrixStays DEF FillInv
<1>. QED
  BY <1>1, <1>2, <1>3, <1>4, <1>6, MatrixStays, MatrixIs DEF IInv

\* The offsets and the blocks are right at every point of every loop, whatever
\* order the iterations run in.
THEOREM Inductive == Spec => []IInv
<1>1. Init => IInv
  BY InitInvariant
<1>2. IInv /\ [Next]_vars => IInv'
  <2>. SUFFICES ASSUME IInv, [Next]_vars PROVE IInv'
    OBVIOUS
  <2>1. CASE Allocate
    BY <2>1, AllocateInvariant
  <2>2. CASE EndPlace
    BY <2>2, EndPlaceInvariant
  <2>3. CASE Validate
    BY <2>3, ValidateInvariant
  <2>4. CASE \E br \in BlockRows : Loop(br)
    <3>1. PICK br \in BlockRows : Loop(br)
      BY <2>4
    <3>. QED
      BY <3>1, ScanInvariant, PlaceInvariant, PlaceEndInvariant, FillStartInvariant,
         SkipZeroInvariant, FillInvariant, FillEndInvariant DEF Loop
  <2>5. CASE Over \/ UNCHANGED vars
    BY <2>5, StutterInvariant DEF Over
  <2>. QED
    BY <2>1, <2>2, <2>3, <2>4, <2>5 DEF Next, Step
<1>. QED
  BY <1>1, <1>2, PTL DEF Spec

-----------------------------------------------------------------------------
(* What follows for the properties. *)

\* A conversion that succeeds was given no entry twice: both would have been at
\* one bit of one block.
LEMMA DoneHasNoDuplicates ==
  ASSUME IInv, pc = "done"
  PROVE  ~HasDuplicates(csr)
<1>. SUFFICES ASSUME HasDuplicates(csr) PROVE FALSE
  OBVIOUS
<1>1. IsCsr(csr) /\ ended = BlockRows
  BY MatrixIs DEF IInv
<1>2. PICK r \in 0 .. csr.rows - 1 : \E p, q \in Positions(csr, r) :
        /\ p # q /\ csr.col_idx[p] = csr.col_idx[q]
        /\ csr.values[p] # 0 /\ csr.values[q] # 0
  BY DEF HasDuplicates
<1>3. PICK p \in Positions(csr, r), q \in Positions(csr, r) :
        /\ p # q /\ csr.col_idx[p] = csr.col_idx[q]
        /\ csr.values[p] # 0 /\ csr.values[q] # 0
  BY <1>2
<1>4. PICK br \in BlockRows : \E i \in 0 .. Blocks(br) - 1 :
        p \in InBlock(br, i) /\ q \in InBlock(br, i) /\ BitOf(br, p) = BitOf(br, q)
  BY <1>1, <1>3, TwiceIsSameBit
<1>. QED
  BY <1>1, <1>3, <1>4, FilledBlock

\* The conversion fails on the matrices that store an entry twice and on no
\* others, for every matrix, every shape of the blocks and every order of the
\* iterations.
THEOREM FailureIsDuplicates == Spec => []FailsOnDuplicates
<1>1. IInv => FailsOnDuplicates
  BY DoneHasNoDuplicates DEF IInv, FailsOnDuplicates
<1>. QED
  BY <1>1, Inductive, PTL

\* What a step of an iteration may do to the offsets and the values.
Agree ==
  /\ \A b \in DOMAIN block_val_ptr : block_val_ptr[b] \in {0, block_val_ptr'[b]}
  /\ \A p \in DOMAIN values : values[p] \in {0, values'[p]}

\* An offset that the second loop or the barrier behind it writes is the right
\* one, so it is what any other iteration has written there.
LEMMA OffsetsAgree ==
  ASSUME IInv, NEW c \in 0 .. Total, pc = "place",
         block_val_ptr' = [block_val_ptr EXCEPT ![c] = Off(c)], UNCHANGED values
  PROVE  Agree
<1>1. LayoutInv /\ PlaceInv
  BY DEF IInv
<1>2. DOMAIN block_val_ptr = 0 .. Total /\ \A b \in 0 .. Total : block_val_ptr[b] \in {0, Off(b)}
  BY <1>1 DEF LayoutInv, PlaceInv
<1>3. ASSUME NEW b \in 0 .. Total PROVE block_val_ptr[b] \in {0, block_val_ptr'[b]}
  BY <1>2
<1>. QED
  BY <1>2, <1>3 DEF Agree

LEMMA StepsAgree ==
  ASSUME IInv, [Next]_vars
  PROVE  Agree \/ UNCHANGED <<block_val_ptr, values>>
<1>1. CASE pc = "scan"
  <2>1. block_val_ptr = << >> /\ values = << >>
    BY <1>1 DEF IInv, ScanInv
  <2>2. DOMAIN block_val_ptr = {} /\ DOMAIN values = {}
    BY <2>1
  <2>. QED
    BY <2>2 DEF Agree
<1>2. ASSUME NEW br \in BlockRows, Place(br) PROVE Agree
  <2>. DEFINE a == at[br]
              c == RowPtr[br] + a
  <2>1. /\ IsCsr(csr) /\ LayoutInv /\ a \in 0 .. Blocks(br) - 1 /\ Blocks(br) \in Nat
        /\ CountsBefore(br, a) = Before(br, a)
    BY <1>2, LayoutFound DEF Place
  <2>2. c \in 0 .. Total /\ Off(c) = ValPrefix[br] + Before(br, a)
    <3>1. a \in 0 .. Blocks(br)
      BY <2>1
    <3>. QED
      BY <2>1, <3>1, OffsetsAre
  <2>3. block_val_ptr' = [block_val_ptr EXCEPT ![c] = Off(c)] /\ UNCHANGED values /\ pc = "place"
    BY <1>2, <2>1, <2>2 DEF Place, LayoutInv
  <2>. QED
    BY <2>2, <2>3, OffsetsAgree
<1>3. ASSUME NEW br \in BlockRows, PlaceEnd(br)
      PROVE  Agree \/ UNCHANGED <<block_val_ptr, values>>
  <2>. DEFINE c == RowPtr[br] + Blocks(br)
  <2>1. /\ IsCsr(csr) /\ LayoutInv /\ size(active_cols[br]) = Blocks(br) /\ Blocks(br) \in Nat
        /\ CountsBefore(br, Blocks(br)) = Before(br, Blocks(br))
        /\ pc = "place" /\ UNCHANGED values
    BY <1>3, LayoutFound DEF PlaceEnd
  <2>2. c \in 0 .. Total /\ Off(c) = ValPrefix[br] + Before(br, Blocks(br))
    <3>1. Blocks(br) \in 0 .. Blocks(br)
      BY <2>1
    <3>. QED
      BY <2>1, <3>1, OffsetsAre
  <2>3. \/ UNCHANGED block_val_ptr
        \/ block_val_ptr' = [block_val_ptr EXCEPT ![c] = Off(c)]
    BY <1>3, <2>1, <2>2 DEF PlaceEnd, EndOfBlocks, LayoutInv
  <2>. QED
    BY <2>1, <2>2, <2>3, OffsetsAgree
<1>4. ASSUME EndPlace PROVE Agree
  <2>1. /\ IsCsr(csr) /\ size(block_col_idx) = Total /\ size(values) = Nnz /\ Total \in Nat
        /\ pc = "place" /\ UNCHANGED values
    BY <1>4, LayoutFound DEF EndPlace
  <2>2. Total \in 0 .. Total /\ Off(Total) = Nnz
    BY <2>1, OffsetsAre
  <2>3. block_val_ptr' = [block_val_ptr EXCEPT ![Total] = Off(Total)]
    BY <1>4, <2>1, <2>2 DEF EndPlace
  <2>. QED
    BY <2>1, <2>2, <2>3, OffsetsAgree
<1>5. ASSUME NEW br \in BlockRows, Fill(br)
      PROVE  Agree \/ UNCHANGED <<block_val_ptr, values>>
  <2>. DEFINE p == at[br]
  <2>1. /\ IsCsr(csr) /\ DOMAIN active_cols[br] = 0 .. Blocks(br) - 1
        /\ active_cols[br] = Cols(br) /\ block_row_ptr = RowPtr
        /\ p \in BlockRowEntries(br) /\ UNCHANGED block_val_ptr
    BY <1>5, LayoutFound DEF Fill, LayoutInv, BlockRowEntries
  <2>2. CASE UNCHANGED values
    BY <2>1, <2>2
  <2>3. CASE ~UNCHANGED values
    <3>1. PICK i \in 0 .. Blocks(br) - 1 :
             /\ Cols(br)[i] = BlockCol(p)
             /\ BitOf(br, p) \notin bitmap_words[RowPtr[br] + i]
             /\ bitmap_words' = [bitmap_words EXCEPT
                                   ![RowPtr[br] + i] = @ \cup {BitOf(br, p)}]
             /\ values' = [values EXCEPT ![write_pos[br][i]] = csr.values[p]]
             /\ write_pos' = [write_pos EXCEPT ![br][i] = @ + 1]
             /\ at' = [at EXCEPT ![br] = p + 1]
      BY <1>5, <2>1, <2>3 DEF Fill
    <3>2. p \in InBlock(br, i)
      BY <2>1, <3>1 DEF InBlock
    <3>3. values[write_pos[br][i]] = 0
      BY <1>5, <3>1, <3>2, EntryPlaced
    <3>. QED
      BY <2>1, <3>1, <3>3 DEF Agree
  <2>. QED
    BY <2>2, <2>3
<1>6. CASE pc # "scan" /\ Next
  <2>1. CASE \E br \in BlockRows : Loop(br)
    <3>1. PICK br \in BlockRows : Loop(br)
      BY <2>1
    <3>. QED
      BY <1>2, <1>3, <1>5, <1>6, <3>1
         DEF Loop, Scan, FillStart, SkipZero, FillEnd, outVars
  <2>2. CASE ~ \E br \in BlockRows : Loop(br)
    BY <1>4, <1>6, <2>2 DEF Next, Step, Allocate, Validate, Over, outVars, vars
  <2>. QED
    BY <2>1, <2>2
<1>. QED
  BY <1>1, <1>6 DEF vars

\* Two iterations that write the same offset write the same number, and no
\* value is written over another.
THEOREM WritesAgree == Spec => RacingWritesAgree
<1>1. IInv /\ [Next]_vars => [Agree]_<<block_val_ptr, values>>
  BY StepsAgree
<1>2. Spec => [][Agree]_<<block_val_ptr, values>>
  BY <1>1, Inductive, PTL DEF Spec
<1>. QED
  BY <1>2 DEF RacingWritesAgree, Agree

\* In a matrix with sorted rows the entries of a block have their bits in the
\* order in which they are stored.
LEMMA BitsInOrder ==
  ASSUME IsCsr(csr), HasSortedRows(csr), NEW br \in BlockRows, NEW i \in 0 .. Blocks(br) - 1,
         NEW p \in InBlock(br, i), NEW q \in InBlock(br, i), p < q
  PROVE  BitOf(br, p) < BitOf(br, q)
<1>. DEFINE bp == BitOf(br, p)
            bq == BitOf(br, q)
            dp == bp \div block_cols
            dq == bq \div block_cols
            mp == bp % block_cols
            mq == bq % block_cols
            first == br * block_rows
            col == BlockCol(p) * block_cols
<1>1. p \in BlockRowEntries(br) /\ q \in BlockRowEntries(br) /\ BlockCol(p) = BlockCol(q)
  BY DEF InBlock
<1>2. /\ RowOf(p) \in 0 .. csr.rows - 1 /\ p \in Positions(csr, RowOf(p))
      /\ RowOf(q) \in 0 .. csr.rows - 1 /\ q \in Positions(csr, RowOf(q))
      /\ bp \in Bits /\ bq \in Bits /\ BlockCol(p) \in 0 .. ceil_div(csr.cols, block_cols) - 1
      /\ RowOf(p) = first + dp /\ RowOf(q) = first + dq
      /\ csr.col_idx[p] = col + mp /\ csr.col_idx[q] = col + mq
  BY <1>1, EntriesAre, Zenon
<1>3. block_cols \in Nat \ {0} /\ block_rows \in Nat \ {0} /\ br \in Nat /\ csr.rows \in Nat
  BY BlockShapeAssumption, LayoutIs DEF IsCsr
<1>4. bp \in Nat /\ bq \in Nat /\ first \in Nat /\ col \in Nat
  BY <1>2, <1>3 DEF Bits
<1>5. /\ dp \in Nat /\ mp \in 0 .. block_cols - 1 /\ dp * block_cols + mp = bp
      /\ dq \in Nat /\ mq \in 0 .. block_cols - 1 /\ dq * block_cols + mq = bq
  BY <1>3, <1>4, QuotientAndRest, Zenon
<1>. HIDE DEF bp, bq, dp, dq, mp, mq, first, col
<1>6. p \in Nat /\ q \in Nat
  BY <1>1, BlocksAre
<1>7. RowOf(p) <= RowOf(q)
  <2>. DEFINE r == RowOf(p)
              t == RowOf(q)
  <2>1. /\ csr.row_ptr \in [0 .. csr.rows -> Nat]
        /\ \A k \in 0 .. csr.rows - 1 : csr.row_ptr[k] <= csr.row_ptr[k + 1]
    BY DEF IsCsr
  <2>2. \A k, l \in 0 .. csr.rows : k <= l => csr.row_ptr[k] <= csr.row_ptr[l]
    <3>1. csr.row_ptr \in [0 .. csr.rows -> Int]
      BY <2>1
    <3>. QED
      BY <1>3, <2>1, <3>1, StepwiseMonotone
  <2>3. /\ p \in csr.row_ptr[r] .. csr.row_ptr[r + 1] - 1
        /\ q \in csr.row_ptr[t] .. csr.row_ptr[t + 1] - 1
    BY <1>2 DEF Positions
  <2>4. r \in 0 .. csr.rows - 1 /\ t \in 0 .. csr.rows - 1
    BY <1>2
  <2>. HIDE DEF r, t
  <2>5. r \in 0 .. csr.rows /\ t \in 0 .. csr.rows /\ t + 1 \in 0 .. csr.rows
        /\ r + 1 \in 0 .. csr.rows
    BY <1>3, <2>4
  <2>6. /\ csr.row_ptr[r] \in Nat /\ csr.row_ptr[t] \in Nat
        /\ csr.row_ptr[r + 1] \in Nat /\ csr.row_ptr[t + 1] \in Nat
    BY <2>1, <2>5
  <2>7. ~(t < r)
    <3>1. t < r => csr.row_ptr[t + 1] <= csr.row_ptr[r]
      <4>1. t < r => t + 1 <= r
        BY <2>5
      <4>. QED
        BY <2>2, <2>5, <4>1
    <3>. QED
      BY <1>6, <2>3, <2>6, <3>1
  <2>8. r <= t
    BY <2>5, <2>7
  <2>. QED
    BY <2>8 DEF r, t
<1>8. CASE RowOf(p) = RowOf(q)
  <2>1. csr.col_idx[p] < csr.col_idx[q]
    BY <1>2, <1>8 DEF HasSortedRows
  <2>2. mp < mq
    BY <1>2, <1>3, <1>4, <1>5, <2>1
  <2>3. dp = dq
    BY <1>2, <1>4, <1>5, <1>8
  <2>. DEFINE m == dp * block_cols
  <2>4. m \in Nat /\ m + mp = bp /\ m + mq = bq
    BY <1>3, <1>5, <2>3
  <2>. HIDE DEF m
  <2>5. bp < bq
    BY <1>3, <1>5, <2>2, <2>4
  <2>. QED
    BY <2>5 DEF bp, bq
<1>9. CASE RowOf(p) < RowOf(q)
  <2>1. dp < dq
    BY <1>2, <1>4, <1>5, <1>9
  <2>. DEFINE m == dp * block_cols
              n == dq * block_cols
  <2>2. m \in Nat /\ n \in Nat /\ m + block_cols <= n
    BY <1>3, <1>5, <2>1, NextMultiple
  <2>3. m + mp = bp /\ n + mq = bq
    BY <1>5
  <2>. HIDE DEF m, n
  <2>4. bp < bq
    BY <1>3, <1>5, <2>2, <2>3
  <2>. QED
    BY <2>4 DEF bp, bq
<1>10. RowOf(p) = RowOf(q) \/ RowOf(p) < RowOf(q)
  BY <1>2, <1>3, <1>7
<1>. QED
  BY <1>8, <1>9, <1>10

\* So the bit of an entry is decoded to that entry.
LEMMA EntryDecoded ==
  ASSUME IInv, pc = "done", HasSortedRows(csr),
         NEW br \in BlockRows, NEW i \in 0 .. Blocks(br) - 1, NEW p \in InBlock(br, i)
  PROVE  EntryAt(out, br, RowPtr[br] + i, BitOf(br, p))
           = <<RowOf(p), csr.col_idx[p], csr.values[p]>>
<1>. DEFINE b == RowPtr[br] + i
            bit == BitOf(br, p)
            S == InBlock(br, i)
            f == [q \in {d \in S : d < p} |-> BitOf(br, q)]
<1>1. /\ IsCsr(csr) /\ LayoutInv /\ FillInv /\ ended = BlockRows
  BY LayoutFound DEF IInv
<1>2. /\ block_col_idx[b] = Cols(br)[i]
      /\ bitmap_words[b] = {BitOf(br, q) : q \in S}
      /\ \A q, r \in S : BitOf(br, q) = BitOf(br, r) => q = r
      /\ \A q \in S : values[Off(b) + Below(S, q)] = csr.values[q]
  BY <1>1, FilledBlock
<1>3. /\ IsFiniteSet(S) /\ S \subseteq Nat
      /\ b \in 0 .. Total - 1 /\ Total \in Nat
  BY <1>1, BlocksAre, BlockAt, LayoutIs
<1>4. S \subseteq BlockRowEntries(br) /\ BlockCol(p) = Cols(br)[i]
  BY DEF InBlock
<1>5. \A q \in S : BitOf(br, q) \in Int
  BY <1>1, <1>4, EntriesAre DEF Bits
<1>6. \A q \in S : BitOf(br, q) < bit <=> q < p
  <2>1. ASSUME NEW q \in S PROVE BitOf(br, q) < bit <=> q < p
    <3>1. q < p => BitOf(br, q) < bit
      BY <1>1, BitsInOrder
    <3>2. p < q => bit < BitOf(br, q)
      BY <1>1, BitsInOrder
    <3>. DEFINE x == BitOf(br, q)
    <3>3. x \in Int /\ bit \in Int /\ p \in Nat /\ q \in Nat /\ (p = q => x = bit)
      BY <1>3, <1>5
    <3>4. (q < p => x < bit) /\ (p < q => bit < x)
      BY <3>1, <3>2
    <3>. HIDE DEF x, bit
    <3>5. x < bit <=> q < p
      BY <3>3, <3>4
    <3>. QED
      BY <3>5 DEF x, bit
  <2>. QED
    BY <2>1
<1>7. Rank(out, b, bit) = Below(S, p)
  <2>1. {k \in bitmap_words[b] : k < bit} = {f[q] : q \in {d \in S : d < p}}
    BY <1>2, <1>6
  <2>2. IsFiniteSet({d \in S : d < p})
    <3>1. {d \in S : d < p} \in SUBSET S
      OBVIOUS
    <3>. QED
      BY <1>3, <3>1, FS_Subset
  <2>3. \A q, r \in {d \in S : d < p} : f[q] = f[r] => q = r
    BY <1>2
  <2>4. DOMAIN f = {d \in S : d < p}
    OBVIOUS
  <2>. HIDE DEF f
  <2>5. Cardinality({f[q] : q \in {d \in S : d < p}}) = Cardinality({d \in S : d < p})
    BY <2>2, <2>3, <2>4, OneToOne
  <2>6. Rank(out, b, bit) = Cardinality({k \in bitmap_words[b] : k < bit})
    BY DEF Rank, out
  <2>. QED
    BY <2>1, <2>5, <2>6 DEF Below
<1>8. block_val_ptr[b] = Off(b)
  BY <1>1, <1>3 DEF FillInv
<1>9. values[block_val_ptr[b] + Rank(out, b, bit)] = csr.values[p]
  BY <1>2, <1>7, <1>8
<1>10. /\ RowOf(p) = br * block_rows + bit \div block_cols
       /\ csr.col_idx[p] = block_col_idx[b] * block_cols + (bit % block_cols)
  BY <1>1, <1>2, <1>4, EntriesAre
<1>11. EntryAt(out, br, b, bit)
         = <<br * block_rows + bit \div block_cols,
             block_col_idx[b] * block_cols + (bit % block_cols),
             values[block_val_ptr[b] + Rank(out, b, bit)]>>
  BY DEF EntryAt, out
<1>. HIDE DEF b, bit
<1>12. EntryAt(out, br, b, bit) = <<RowOf(p), csr.col_idx[p], csr.values[p]>>
  BY <1>9, <1>10, <1>11, Zenon
<1>. QED
  BY <1>12 DEF b, bit

\* The entries of the matrix are those of the blocks.
LEMMA EntriesOfBlocks ==
  ASSUME IsCsr(csr)
  PROVE  /\ \A br \in BlockRows : \A i \in 0 .. Blocks(br) - 1 : \A p \in InBlock(br, i) :
              <<RowOf(p), csr.col_idx[p], csr.values[p]>> \in Entries(csr)
         /\ \A e \in Entries(csr) :
              \E br \in BlockRows : \E i \in 0 .. Blocks(br) - 1 : \E p \in InBlock(br, i) :
                e = <<RowOf(p), csr.col_idx[p], csr.values[p]>>
<1>1. ASSUME NEW br \in BlockRows, NEW i \in 0 .. Blocks(br) - 1, NEW p \in InBlock(br, i)
      PROVE  <<RowOf(p), csr.col_idx[p], csr.values[p]>> \in Entries(csr)
  <2>1. p \in BlockRowEntries(br)
    BY DEF InBlock
  <2>2. /\ RowOf(p) \in 0 .. csr.rows - 1 /\ p \in Positions(csr, RowOf(p))
        /\ p \in DOMAIN csr.values /\ csr.values[p] # 0
    BY <2>1, EntriesAre
  <2>. QED
    BY <2>2 DEF Entries
<1>2. ASSUME NEW e \in Entries(csr)
      PROVE  \E br \in BlockRows : \E i \in 0 .. Blocks(br) - 1 : \E p \in InBlock(br, i) :
                e = <<RowOf(p), csr.col_idx[p], csr.values[p]>>
  <2>1. PICK r \in 0 .. csr.rows - 1 :
          \E p \in Positions(csr, r) \cap DOMAIN csr.values :
            csr.values[p] # 0 /\ e = <<r, csr.col_idx[p], csr.values[p]>>
    BY DEF Entries
  <2>2. PICK p \in Positions(csr, r) :
          csr.values[p] # 0 /\ e = <<r, csr.col_idx[p], csr.values[p]>>
    BY <2>1
  <2>3. RowOf(p) = r
    BY RowOfPosition
  <2>4. PICK br \in BlockRows : p \in EntriesBegin(br) .. EntriesEnd(br) - 1
    BY BlockRowOfEntry
  <2>5. p \in BlockRowEntries(br)
    BY <2>2, <2>4 DEF BlockRowEntries
  <2>6. PICK i \in 0 .. Blocks(br) - 1 : p \in InBlock(br, i)
    BY <2>5, BlocksAre
  <2>. QED
    BY <2>2, <2>3, <2>6
<1>. QED
  BY <1>1, <1>2

\* The blocks of a block row are the cells its row pointer delimits.
LEMMA BlocksDelimited ==
  ASSUME IInv, pc = "done", NEW br \in BlockRows
  PROVE  /\ \A b \in BlocksOf(out, br) : \E i \in 0 .. Blocks(br) - 1 : b = RowPtr[br] + i
         /\ \A i \in 0 .. Blocks(br) - 1 :
              /\ RowPtr[br] + i \in BlocksOf(out, br)
              /\ RowPtr[br] + i \in DOMAIN out.block_col_idx
<1>1. IsCsr(csr) /\ LayoutInv /\ Blocks(br) \in Nat
  BY LayoutFound DEF IInv
<1>2. /\ RowPtr[br + 1] = RowPtr[br] + Blocks(br) /\ RowPtr[br] \in Nat
  <2>1. br \in 0 .. num_block_rows
    BY <1>1, LayoutIs
  <2>. QED
    BY <1>1, <2>1, LayoutIs
<1>3. BlocksOf(out, br) = RowPtr[br] .. RowPtr[br] + Blocks(br) - 1
  BY <1>1, <1>2 DEF BlocksOf, out, LayoutInv
<1>4. ASSUME NEW b \in BlocksOf(out, br)
      PROVE  \E i \in 0 .. Blocks(br) - 1 : b = RowPtr[br] + i
  <2>1. b - RowPtr[br] \in 0 .. Blocks(br) - 1 /\ b = RowPtr[br] + (b - RowPtr[br])
    BY <1>1, <1>2, <1>3
  <2>. QED
    BY <2>1
<1>5. \A i \in 0 .. Blocks(br) - 1 : RowPtr[br] + i \in BlocksOf(out, br)
  BY <1>1, <1>2, <1>3
<1>6. \A i \in 0 .. Blocks(br) - 1 : RowPtr[br] + i \in DOMAIN out.block_col_idx
  BY <1>1, BlockAt DEF out, LayoutInv
<1>. QED
  BY <1>4, <1>5, <1>6

\* What the result stands for is the entries of the matrix.
LEMMA DecodedIsEntries ==
  ASSUME IInv, pc = "done", HasSortedRows(csr)
  PROVE  Decode(out) = Entries(csr)
<1>1. /\ IsCsr(csr) /\ FillInv /\ ended = BlockRows
      /\ BlockRows = 0 .. out.num_block_rows - 1
      /\ out.rows = csr.rows /\ out.cols = csr.cols
  BY LayoutFound DEF IInv, BlockRows, out
<1>2. ASSUME NEW e \in Decode(out) PROVE e \in Entries(csr)
  <2>1. PICK br \in BlockRows : \E b \in BlocksOf(out, br) : e \in BlockEntries(out, br, b)
    BY <1>1 DEF Decode
  <2>2. PICK b \in BlocksOf(out, br) : e \in BlockEntries(out, br, b)
    BY <2>1
  <2>3. PICK i \in 0 .. Blocks(br) - 1 : b = RowPtr[br] + i
    BY BlocksDelimited
  <2>4. PICK bit \in out.bitmap_words[b] : e = EntryAt(out, br, b, bit)
    BY <2>2 DEF BlockEntries
  <2>5. out.bitmap_words[b] = {BitOf(br, p) : p \in InBlock(br, i)}
    BY <1>1, <2>3, FilledBlock DEF out
  <2>6. PICK p \in InBlock(br, i) : bit = BitOf(br, p)
    BY <2>4, <2>5
  <2>7. e = <<RowOf(p), csr.col_idx[p], csr.values[p]>>
    BY <2>3, <2>4, <2>6, EntryDecoded
  <2>. QED
    BY <1>1, <2>7, EntriesOfBlocks
<1>3. ASSUME NEW e \in Entries(csr) PROVE e \in Decode(out)
  <2>1. PICK br \in BlockRows : \E i \in 0 .. Blocks(br) - 1 : \E p \in InBlock(br, i) :
          e = <<RowOf(p), csr.col_idx[p], csr.values[p]>>
    BY <1>1, EntriesOfBlocks
  <2>2. PICK i \in 0 .. Blocks(br) - 1 : \E p \in InBlock(br, i) :
          e = <<RowOf(p), csr.col_idx[p], csr.values[p]>>
    BY <2>1
  <2>3. PICK p \in InBlock(br, i) : e = <<RowOf(p), csr.col_idx[p], csr.values[p]>>
    BY <2>2
  <2>. DEFINE b == RowPtr[br] + i
  <2>4. e = EntryAt(out, br, b, BitOf(br, p))
    BY <2>3, EntryDecoded
  <2>5. BitOf(br, p) \in out.bitmap_words[b]
    BY <1>1, FilledBlock DEF out
  <2>6. e[1] < out.rows /\ e[2] < out.cols
    <3>1. p \in BlockRowEntries(br)
      BY DEF InBlock
    <3>2. RowOf(p) \in 0 .. csr.rows - 1 /\ p \in DOMAIN csr.values
      BY <1>1, <3>1, EntriesAre
    <3>3. csr.col_idx[p] \in 0 .. csr.cols - 1 /\ csr.rows \in Nat /\ csr.cols \in Nat
      BY <1>1, <3>2 DEF IsCsr
    <3>4. RowOf(p) < csr.rows /\ csr.col_idx[p] < csr.cols
      BY <3>2, <3>3
    <3>. QED
      BY <1>1, <2>3, <3>4
  <2>7. e \in BlockEntries(out, br, b)
    BY <2>4, <2>5, <2>6 DEF BlockEntries
  <2>8. b \in BlocksOf(out, br) /\ b \in DOMAIN out.block_col_idx
    BY BlocksDelimited
  <2>. HIDE DEF b
  <2>. QED
    BY <1>1, <2>7, <2>8 DEF Decode
<1>. QED
  BY <1>2, <1>3

\* An entry and the cell of its value.
InCell(p, v) ==
  \E br \in BlockRows : \E i \in 0 .. Blocks(br) - 1 :
    p \in InBlock(br, i) /\ v = Off(RowPtr[br] + i) + Below(InBlock(br, i), p)

\* Every entry has one cell and every cell is that of one entry.
LEMMA CellsAndEntries ==
  ASSUME IsCsr(csr)
  PROVE  /\ \A v \in 0 .. Nnz - 1 : \E p : InCell(p, v)
         /\ \A br \in BlockRows : \A i \in 0 .. Blocks(br) - 1 : \A p \in InBlock(br, i) :
              \E v \in 0 .. Nnz - 1 : InCell(p, v)
         /\ \A p, v, w : InCell(p, v) /\ InCell(p, w) => v = w
         /\ \A p, q, v : InCell(p, v) /\ InCell(q, v) => p = q
<1>1. ASSUME NEW br \in BlockRows, NEW i \in 0 .. Blocks(br) - 1
      PROVE  /\ InBlock(br, i) \subseteq Int /\ IsFiniteSet(InBlock(br, i))
             /\ \A p \in InBlock(br, i) :
                  Below(InBlock(br, i), p) \in 0 .. Cardinality(InBlock(br, i)) - 1
             /\ \A k \in 0 .. Cardinality(InBlock(br, i)) - 1 :
                  \E p \in InBlock(br, i) : Below(InBlock(br, i), p) = k
             /\ \A p, q \in InBlock(br, i) :
                  Below(InBlock(br, i), p) = Below(InBlock(br, i), q) => p = q
  <2>. DEFINE S == InBlock(br, i)
  <2>1. S \subseteq Int /\ IsFiniteSet(S)
    BY BlocksAre
  <2>2. /\ Cardinality(S) \in Nat
        /\ \A c \in S : Below(S, c) \in 0 .. Cardinality(S) - 1
        /\ \A c, d \in S : c < d => Below(S, c) < Below(S, d)
        /\ \A k \in 0 .. Cardinality(S) - 1 : \E c \in S : Below(S, c) = k
    BY <2>1, Ranks
  <2>3. ASSUME NEW p \in S, NEW q \in S, Below(S, p) = Below(S, q) PROVE p = q
    <3>. DEFINE x == Below(S, p)
    <3>1. p \in Int /\ q \in Int /\ x \in Int /\ ~(x < x)
      BY <2>1, <2>2
    <3>2. ~(p < q) /\ ~(q < p)
      BY <2>2, <2>3, <3>1
    <3>. HIDE DEF S, x
    <3>. QED
      BY <3>1, <3>2
  <2>. QED
    BY <2>1, <2>2, <2>3
<1>2. ASSUME NEW v \in 0 .. Nnz - 1 PROVE \E p : InCell(p, v)
  <2>1. PICK br \in BlockRows : \E i \in 0 .. Blocks(br) - 1 :
          \E k \in 0 .. Cardinality(InBlock(br, i)) - 1 : v = Off(RowPtr[br] + i) + k
    BY BlockOfCell
  <2>2. PICK i \in 0 .. Blocks(br) - 1 :
          \E k \in 0 .. Cardinality(InBlock(br, i)) - 1 : v = Off(RowPtr[br] + i) + k
    BY <2>1
  <2>3. PICK k \in 0 .. Cardinality(InBlock(br, i)) - 1 : v = Off(RowPtr[br] + i) + k
    BY <2>2
  <2>4. PICK p \in InBlock(br, i) : Below(InBlock(br, i), p) = k
    BY <1>1
  <2>. QED
    BY <2>3, <2>4 DEF InCell
<1>3. ASSUME NEW br \in BlockRows, NEW i \in 0 .. Blocks(br) - 1, NEW p \in InBlock(br, i)
      PROVE  \E v \in 0 .. Nnz - 1 : InCell(p, v)
  <2>1. Off(RowPtr[br] + i) + Below(InBlock(br, i), p) \in 0 .. Nnz - 1
    BY <1>1, CellsOfBlock
  <2>. QED
    BY <2>1 DEF InCell
<1>4. ASSUME NEW p, NEW v, NEW w, InCell(p, v), InCell(p, w) PROVE v = w
  <2>1. PICK br \in BlockRows : \E i \in 0 .. Blocks(br) - 1 :
          p \in InBlock(br, i) /\ v = Off(RowPtr[br] + i) + Below(InBlock(br, i), p)
    BY <1>4 DEF InCell
  <2>2. PICK i \in 0 .. Blocks(br) - 1 :
          p \in InBlock(br, i) /\ v = Off(RowPtr[br] + i) + Below(InBlock(br, i), p)
    BY <2>1
  <2>3. PICK k \in BlockRows : \E j \in 0 .. Blocks(k) - 1 :
          p \in InBlock(k, j) /\ w = Off(RowPtr[k] + j) + Below(InBlock(k, j), p)
    BY <1>4 DEF InCell
  <2>4. PICK j \in 0 .. Blocks(k) - 1 :
          p \in InBlock(k, j) /\ w = Off(RowPtr[k] + j) + Below(InBlock(k, j), p)
    BY <2>3
  <2>5. br = k
    <3>1. /\ p \in EntriesBegin(br) .. EntriesEnd(br) - 1
          /\ p \in EntriesBegin(k) .. EntriesEnd(k) - 1
      BY <2>2, <2>4 DEF InBlock, BlockRowEntries
    <3>. QED
      BY <3>1, OneBlockRow
  <2>6. i = j
    <3>1. Cols(br)[i] = Cols(br)[j]
      BY <2>2, <2>4, <2>5 DEF InBlock
    <3>. QED
      BY <2>5, <3>1, BlocksAre
  <2>. QED
    BY <2>2, <2>4, <2>5, <2>6
<1>5. ASSUME NEW p, NEW q, NEW v, InCell(p, v), InCell(q, v) PROVE p = q
  <2>1. PICK br \in BlockRows : \E i \in 0 .. Blocks(br) - 1 :
          p \in InBlock(br, i) /\ v = Off(RowPtr[br] + i) + Below(InBlock(br, i), p)
    BY <1>5 DEF InCell
  <2>2. PICK i \in 0 .. Blocks(br) - 1 :
          p \in InBlock(br, i) /\ v = Off(RowPtr[br] + i) + Below(InBlock(br, i), p)
    BY <2>1
  <2>3. PICK k \in BlockRows : \E j \in 0 .. Blocks(k) - 1 :
          q \in InBlock(k, j) /\ v = Off(RowPtr[k] + j) + Below(InBlock(k, j), q)
    BY <1>5 DEF InCell
  <2>4. PICK j \in 0 .. Blocks(k) - 1 :
          q \in InBlock(k, j) /\ v = Off(RowPtr[k] + j) + Below(InBlock(k, j), q)
    BY <2>3
  <2>5. /\ Below(InBlock(br, i), p) \in 0 .. Cardinality(InBlock(br, i)) - 1
        /\ Below(InBlock(k, j), q) \in 0 .. Cardinality(InBlock(k, j)) - 1
    BY <1>1, <2>2, <2>4
  <2>6. br = k /\ i = j
    BY <2>2, <2>4, <2>5, CellsApart
  <2>7. Off(RowPtr[br] + i) \in Nat
    BY CellsOfBlock
  <2>8. Below(InBlock(br, i), p) = Below(InBlock(br, i), q)
    <3>. DEFINE x == Below(InBlock(br, i), p)
                y == Below(InBlock(br, i), q)
                o == Off(RowPtr[br] + i)
    <3>1. x \in Int /\ y \in Int /\ o \in Nat /\ o + x = o + y
      BY <2>2, <2>4, <2>5, <2>6, <2>7
    <3>. HIDE DEF x, y, o
    <3>2. x = y
      BY <3>1
    <3>. QED
      BY <3>2 DEF x, y
  <2>. QED
    BY <1>1, <2>2, <2>4, <2>6, <2>8
<1>. QED
  BY <1>2, <1>3, <1>4, <1>5

\* There are as many entries as values.
LEMMA EntriesCounted ==
  ASSUME IsCsr(csr), ~HasDuplicates(csr)
  PROVE  Cardinality(Entries(csr)) = Nnz
<1>. DEFINE At(v) == CHOOSE p : InCell(p, v)
            f == [v \in 0 .. Nnz - 1 |-> <<RowOf(At(v)), csr.col_idx[At(v)], csr.values[At(v)]>>]
<1>1. Nnz \in Nat
  BY LayoutIs
<1>2. \A v \in 0 .. Nnz - 1 : InCell(At(v), v)
  BY CellsAndEntries
<1>3. ASSUME NEW v \in 0 .. Nnz - 1
      PROVE  \E br \in BlockRows : \E i \in 0 .. Blocks(br) - 1 : At(v) \in InBlock(br, i)
  <2>1. InCell(At(v), v)
    BY <1>2
  <2>. HIDE DEF At
  <2>. QED
    BY <2>1 DEF InCell
<1>. HIDE DEF At
<1>4. ASSUME NEW v \in 0 .. Nnz - 1
      PROVE  /\ RowOf(At(v)) \in 0 .. csr.rows - 1 /\ At(v) \in Positions(csr, RowOf(At(v)))
             /\ csr.values[At(v)] # 0
  <2>1. PICK br \in BlockRows : \E i \in 0 .. Blocks(br) - 1 : At(v) \in InBlock(br, i)
    BY <1>3
  <2>2. At(v) \in BlockRowEntries(br)
    BY <2>1 DEF InBlock
  <2>. QED
    BY <2>2, EntriesAre
<1>5. ASSUME NEW v \in 0 .. Nnz - 1, NEW w \in 0 .. Nnz - 1, f[v] = f[w] PROVE v = w
  <2>1. RowOf(At(v)) = RowOf(At(w)) /\ csr.col_idx[At(v)] = csr.col_idx[At(w)]
    BY <1>5
  <2>2. At(v) = At(w)
    BY <1>4, <2>1 DEF HasDuplicates
  <2>. QED
    BY <1>2, <2>2, CellsAndEntries
<1>6. {f[v] : v \in 0 .. Nnz - 1} = Entries(csr)
  <2>1. ASSUME NEW v \in 0 .. Nnz - 1 PROVE f[v] \in Entries(csr)
    <3>1. PICK br \in BlockRows : \E i \in 0 .. Blocks(br) - 1 : At(v) \in InBlock(br, i)
      BY <1>3
    <3>. QED
      BY <3>1, EntriesOfBlocks
  <2>2. ASSUME NEW e \in Entries(csr) PROVE \E v \in 0 .. Nnz - 1 : e = f[v]
    <3>1. PICK br \in BlockRows : \E i \in 0 .. Blocks(br) - 1 : \E p \in InBlock(br, i) :
            e = <<RowOf(p), csr.col_idx[p], csr.values[p]>>
      BY EntriesOfBlocks
    <3>2. PICK i \in 0 .. Blocks(br) - 1 : \E p \in InBlock(br, i) :
            e = <<RowOf(p), csr.col_idx[p], csr.values[p]>>
      BY <3>1
    <3>3. PICK p \in InBlock(br, i) : e = <<RowOf(p), csr.col_idx[p], csr.values[p]>>
      BY <3>2
    <3>4. PICK v \in 0 .. Nnz - 1 : InCell(p, v)
      BY CellsAndEntries
    <3>5. At(v) = p
      BY <1>2, <3>4, CellsAndEntries
    <3>. QED
      BY <3>3, <3>5
  <2>. QED
    BY <2>1, <2>2
<1>7. IsFiniteSet(0 .. Nnz - 1) /\ Cardinality(0 .. Nnz - 1) = Nnz
  BY <1>1, IntervalIs
<1>8. DOMAIN f = 0 .. Nnz - 1
  OBVIOUS
<1>. HIDE DEF f
<1>9. Cardinality({f[v] : v \in 0 .. Nnz - 1}) = Cardinality(0 .. Nnz - 1)
  <2>. DEFINE S == 0 .. Nnz - 1
  <2>1. \A v, w \in S : f[v] = f[w] => v = w
    BY <1>5
  <2>2. IsFiniteSet(S) /\ DOMAIN f = S
    BY <1>7, <1>8
  <2>. HIDE DEF S
  <2>3. Cardinality({f[v] : v \in S}) = Cardinality(S)
    BY <2>1, <2>2, OneToOne
  <2>. QED
    BY <2>3 DEF S
<1>. QED
  BY <1>6, <1>7, <1>9

LEMMA ConvertedHolds ==
  ASSUME IInv, pc = "done", HasSortedRows(csr)
  PROVE  Represents(out, csr)
<1>1. /\ IsCsr(csr) /\ LayoutInv /\ ended = BlockRows /\ size(values) = Nnz
      /\ ~HasDuplicates(csr)
  BY LayoutFound, DoneHasNoDuplicates DEF IInv
<1>2. IsBitBsr(out)
  BY <1>1, FilledIsValid
<1>3. Decode(out) = Entries(csr)
  BY DecodedIsEntries
<1>4. size(out.values) = Cardinality(Entries(csr))
  BY <1>1, EntriesCounted DEF out
<1>5. ASSUME NEW br \in 0 .. out.num_block_rows - 1,
             NEW a \in BlocksOf(out, br), NEW b \in BlocksOf(out, br), a < b
      PROVE  out.block_col_idx[a] < out.block_col_idx[b]
  <2>1. br \in BlockRows
    BY DEF out, BlockRows
  <2>2. PICK i \in 0 .. Blocks(br) - 1 : a = RowPtr[br] + i
    BY <2>1, BlocksDelimited
  <2>3. PICK j \in 0 .. Blocks(br) - 1 : b = RowPtr[br] + j
    BY <2>1, BlocksDelimited
  <2>4. i < j
    <3>1. RowPtr[br] \in Nat
      <4>1. br \in 0 .. num_block_rows
        BY <1>1, <2>1, LayoutIs
      <4>. QED
        BY <1>1, <4>1, LayoutIs
    <3>2. i \in Int /\ j \in Int
      OBVIOUS
    <3>. QED
      BY <1>5, <2>2, <2>3, <3>1, <3>2
  <2>5. Cols(br)[i] < Cols(br)[j]
    BY <1>1, <2>1, <2>4, BlocksAre
  <2>6. block_col_idx[a] = Cols(br)[i] /\ block_col_idx[b] = Cols(br)[j]
    BY <1>1, <2>1, <2>2, <2>3, FilledBlock
  <2>. QED
    BY <2>5, <2>6 DEF out
<1>6. ASSUME NEW b \in DOMAIN out.block_col_idx PROVE out.bitmap_words[b] # {}
  <2>1. b \in 0 .. Total - 1
    BY <1>1 DEF out, LayoutInv
  <2>2. PICK br \in BlockRows : \E i \in 0 .. Blocks(br) - 1 : b = RowPtr[br] + i
    BY <1>1, <2>1, BlockAt
  <2>3. PICK i \in 0 .. Blocks(br) - 1 : b = RowPtr[br] + i
    BY <2>2
  <2>4. Cardinality(InBlock(br, i)) # 0
    BY <1>1, BlocksAre
  <2>5. InBlock(br, i) # {}
    BY <2>4, FS_EmptySet
  <2>. QED
    BY <1>1, <2>3, <2>5, FilledBlock DEF out
<1>7. out.rows = csr.rows /\ out.cols = csr.cols
  BY DEF out
<1>. QED
  BY <1>2, <1>3, <1>4, <1>5, <1>6, <1>7 DEF Represents

\* The result of converting a matrix with sorted rows stands for it, stored
\* zeros or not, for every matrix, every shape of the blocks and every order of
\* the iterations of the three loops.
THEOREM ConversionRepresents == Spec => []Converted
<1>1. IInv => Converted
  BY ConvertedHolds DEF Converted
<1>. QED
  BY <1>1, Inductive, PTL
=============================================================================
