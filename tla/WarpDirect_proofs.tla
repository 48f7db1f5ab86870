------------------------- MODULE WarpDirect_proofs --------------------------
(***************************************************************************)
(* The two kernels of the GPU converter meet nowhere but in the numbers    *)
(* the first leaves for the second: a block row's blocks.  That the warps  *)
(* of the second stay inside what the first counted, for every matrix and  *)
(* every order of the warps' turns, is the theorem WarpsKeepToTheirRows;   *)
(* that what they write stands for the matrix, ConversionRepresents; that  *)
(* the host and the device agree about it, CopiedBackIsSame.               *)
(*                                                                         *)
(* A warp's positions depend on nothing but the matrix, so a warp of       *)
(* either kernel is on the same walk: the invariant says of each where on  *)
(* it it is, of each finished count that the walk ends there, and of each  *)
(* turn that was made what block and which values it wrote.  The values    *)
(* are counted by the entries the lanes have passed; the host counts the   *)
(* bits of the blocks, and in a row in order a turn has one for each of    *)
(* its entries exactly when none is stored twice.                          *)
(***************************************************************************)
EXTENDS WarpDirect, PrefixSums_proofs, FiniteSetTheorems, TLAPS

-----------------------------------------------------------------------------
(* Sets of numbers. *)

LEMMA IntervalIs ==
  ASSUME NEW a \in Int, NEW n \in Nat
  PROVE  IsFiniteSet(a .. a + n - 1) /\ Cardinality(a .. a + n - 1) = n
<1>1. a \in Int /\ a + n - 1 \in Int /\ (a > a + n - 1 <=> n = 0)
      /\ (a + n - 1) - a + 1 = n
  OBVIOUS
<1>2. /\ IsFiniteSet(a .. a + n - 1)
      /\ Cardinality(a .. a + n - 1) = IF a > a + n - 1 THEN 0 ELSE (a + n - 1) - a + 1
  BY <1>1, FS_Interval, Zenon
<1>. QED
  BY <1>1, <1>2

\* A part of an interval that holds, with a number, all before it, is the
\* interval's beginning.
LEMMA BeginningOfInterval ==
  ASSUME NEW a \in Int, NEW b \in Int, a <= b, NEW S \in SUBSET (a .. b - 1),
         \A p \in S : a .. p \subseteq S
  PROVE  /\ IsFiniteSet(S) /\ Cardinality(S) \in Nat
         /\ S = a .. a + Cardinality(S) - 1
         /\ a + Cardinality(S) <= b
<1>. DEFINE T == {k \in Nat : a + k \notin S}
<1>1. b - a \in T
  OBVIOUS
<1>2. PICK n \in T : \A k \in T : n <= k
  BY <1>1, LeastNatural
<1>3. n \in Nat /\ n <= b - a /\ a + n \notin S
  BY <1>1, <1>2
<1>4. S = a .. a + n - 1
  <2>1. ASSUME NEW p \in a .. a + n - 1 PROVE p \in S
    <3>1. p - a \in Nat /\ p - a < n /\ a + (p - a) = p
      BY <1>3
    <3>. QED
      BY <1>2, <1>3, <3>1
  <2>2. ASSUME NEW p \in S PROVE p \in a .. a + n - 1
    <3>1. p \in Int /\ a <= p /\ a + n \notin a .. p
      BY <1>3
    <3>. QED
      BY <1>3, <3>1
  <2>. QED
    BY <2>1, <2>2
<1>5. IsFiniteSet(S) /\ Cardinality(S) = n
  BY <1>3, <1>4, IntervalIs
<1>. QED
  BY <1>3, <1>4, <1>5

-----------------------------------------------------------------------------
(* The upload. *)

LEMMA KeptSteps ==
  ASSUME NEW v, NEW n \in Nat
  PROVE  /\ Kept(v, n) \in Nat
         /\ Kept(v, 0) = 0
         /\ Kept(v, n + 1) = Kept(v, n) + IF v[n] # 0 THEN 1 ELSE 0
<1>. DEFINE S == {p \in 0 .. n - 1 : v[p] # 0}
<1>1. IsFiniteSet(0 .. n - 1) /\ S \in SUBSET (0 .. n - 1)
  BY FS_Interval
<1>2. IsFiniteSet(S)
  BY <1>1, FS_Subset
<1>3. Cardinality(S) \in Nat
  BY <1>2, FS_CardinalityType
<1>4. {p \in 0 .. 0 - 1 : v[p] # 0} = {}
  OBVIOUS
<1>5. {p \in 0 .. (n + 1) - 1 : v[p] # 0} = IF v[n] # 0 THEN S \cup {n} ELSE S
  OBVIOUS
<1>6. n \notin S
  OBVIOUS
<1>7. Cardinality(S \cup {n}) = Cardinality(S) + 1
  BY <1>2, <1>6, FS_AddElement
<1>8. Kept(v, 0) = 0
  BY <1>4, FS_EmptySet DEF Kept
<1>9. Kept(v, n) = Cardinality(S)
  BY DEF Kept
<1>10. Kept(v, n + 1) = Cardinality(IF v[n] # 0 THEN S \cup {n} ELSE S)
  BY <1>5 DEF Kept
<1>. HIDE DEF S
<1>. QED
  BY <1>3, <1>7, <1>8, <1>9, <1>10

\* How the counts of kept values grow.
LEMMA KeptGrows ==
  ASSUME NEW v, NEW n \in Nat
  PROVE  /\ \A k \in 0 .. n : Kept(v, k) \in Nat
         /\ Kept(v, 0) = 0
         /\ \A k \in 0 .. n - 1 : Kept(v, k + 1) = Kept(v, k) + IF v[k] # 0 THEN 1 ELSE 0
         /\ \A k, l \in 0 .. n : k <= l => Kept(v, k) <= Kept(v, l)
<1>. DEFINE f == [k \in 0 .. n |-> Kept(v, k)]
<1>1. \A k \in 0 .. n : k \in Nat /\ Kept(v, k) \in Nat
  <2>1. \A k \in 0 .. n : k \in Nat
    OBVIOUS
  <2>. QED
    BY <2>1, KeptSteps
<1>2. Kept(v, 0) = 0
  BY KeptSteps
<1>3. \A k \in 0 .. n - 1 : Kept(v, k + 1) = Kept(v, k) + IF v[k] # 0 THEN 1 ELSE 0
  <2>1. \A k \in 0 .. n - 1 : k \in Nat
    OBVIOUS
  <2>. QED
    BY <2>1, KeptSteps
<1>4. f \in [0 .. n -> Int] /\ \A k \in 0 .. n : f[k] = Kept(v, k)
  BY <1>1
<1>5. \A k \in 0 .. n - 1 : f[k] <= f[k + 1]
  <2>1. SUFFICES ASSUME NEW k \in 0 .. n - 1 PROVE f[k] <= f[k + 1]
    OBVIOUS
  <2>2. k \in 0 .. n /\ k + 1 \in 0 .. n
    OBVIOUS
  <2>. HIDE DEF f
  <2>3. f[k] = Kept(v, k) /\ f[k + 1] = Kept(v, k + 1) /\ Kept(v, k) \in Nat
    BY <1>1, <1>4, <2>2
  <2>4. Kept(v, k + 1) = Kept(v, k) + IF v[k] # 0 THEN 1 ELSE 0
    BY <1>3
  <2>. QED
    BY <2>3, <2>4
<1>. HIDE DEF f
<1>6. \A k, l \in 0 .. n : k <= l => f[k] <= f[l]
  BY <1>4, <1>5, StepwiseMonotone
<1>. QED
  BY <1>1, <1>2, <1>3, <1>4, <1>6

\* Where the kept values come from.
OldPositions(v) ==
  [k \in 0 .. Kept(v, size(v)) - 1 |-> CHOOSE p \in DOMAIN v : v[p] # 0 /\ Kept(v, p) = k]

\* They are all that are not zero, in their order.
AllThatAreKept(v, n, old) ==
  /\ DOMAIN old = 0 .. Kept(v, n) - 1
  /\ \A k \in DOMAIN old :
       /\ old[k] \in DOMAIN v /\ v[old[k]] # 0
       /\ \A b \in 0 .. n : old[k] < b <=> k < Kept(v, b)
  /\ \A k, l \in DOMAIN old : k < l => old[k] < old[l]
  /\ \A p \in DOMAIN v : v[p] # 0 => \E k \in DOMAIN old : old[k] = p

LEMMA KeptPositions ==
  ASSUME NEW v, NEW n \in Nat, DOMAIN v = 0 .. n - 1, NEW old, old = OldPositions(v)
  PROVE  AllThatAreKept(v, n, old)
<1>. DEFINE f == [k \in 0 .. n |-> Kept(v, k)]
<1>1. size(v) = n
  <2>1. 0 \in Int /\ 0 .. 0 + n - 1 = 0 .. n - 1
    OBVIOUS
  <2>2. Cardinality(0 .. 0 + n - 1) = n
    BY <2>1, IntervalIs, Zenon
  <2>. QED
    BY <2>1, <2>2 DEF size
<1>2. DOMAIN old = 0 .. Kept(v, n) - 1
  BY <1>1 DEF OldPositions
<1>3. /\ f \in [0 .. n -> Int] /\ \A k \in 0 .. n : f[k] = Kept(v, k) /\ f[k] \in Nat
      /\ f[0] = 0
      /\ \A k \in 0 .. n - 1 : f[k + 1] = f[k] + IF v[k] # 0 THEN 1 ELSE 0
      /\ \A k, l \in 0 .. n : k <= l => f[k] <= f[l]
  <2>1. \A k \in 0 .. n : f[k] = Kept(v, k)
    OBVIOUS
  <2>2. \A k \in 0 .. n - 1 : k \in 0 .. n /\ k + 1 \in 0 .. n
    OBVIOUS
  <2>3. 0 \in 0 .. n
    OBVIOUS
  <2>4. \A k \in 0 .. n : Kept(v, k) \in Nat
    BY KeptGrows
  <2>5. f \in [0 .. n -> Int]
    BY <2>4
  <2>6. /\ Kept(v, 0) = 0
        /\ \A k \in 0 .. n - 1 : Kept(v, k + 1) = Kept(v, k) + IF v[k] # 0 THEN 1 ELSE 0
        /\ \A k, l \in 0 .. n : k <= l => Kept(v, k) <= Kept(v, l)
    BY KeptGrows
  <2>. HIDE DEF f
  <2>7. f[0] = 0
    BY <2>1, <2>3, <2>6
  <2>8. \A k \in 0 .. n - 1 : f[k + 1] = f[k] + IF v[k] # 0 THEN 1 ELSE 0
    BY <2>1, <2>2, <2>6
  <2>9. \A k, l \in 0 .. n : k <= l => f[k] <= f[l]
    BY <2>1, <2>6
  <2>. QED
    BY <2>1, <2>4, <2>5, <2>7, <2>8, <2>9
<1>4. \A p \in DOMAIN v : p \in 0 .. n /\ p + 1 \in 0 .. n /\ p \in 0 .. n - 1
  OBVIOUS
<1>. HIDE DEF f
<1>5. ASSUME NEW p \in DOMAIN v, v[p] # 0, NEW q \in DOMAIN v, v[q] # 0, f[p] = f[q]
      PROVE  p = q
  <2>1. f[p + 1] = f[p] + 1 /\ f[q + 1] = f[q] + 1 /\ f[p] \in Nat /\ f[q] \in Nat
    BY <1>3, <1>4, <1>5
  <2>2. ~(p < q)
    <3>1. p < q => p + 1 <= q
      BY <1>4
    <3>2. p < q => f[p + 1] <= f[q]
      BY <1>3, <1>4, <3>1
    <3>. QED
      BY <1>5, <2>1, <3>2
  <2>3. ~(q < p)
    <3>1. q < p => q + 1 <= p
      BY <1>4
    <3>2. q < p => f[q + 1] <= f[p]
      BY <1>3, <1>4, <3>1
    <3>. QED
      BY <1>5, <2>1, <3>2
  <2>. QED
    BY <1>4, <2>2, <2>3
<1>6. ASSUME NEW k \in DOMAIN old
      PROVE  old[k] \in DOMAIN v /\ v[old[k]] # 0 /\ f[old[k]] = k
  <2>1. k \in Int /\ f[0] <= k /\ k < f[n]
    <3>1. k \in 0 .. Kept(v, n) - 1
      BY <1>2
    <3>2. n \in 0 .. n
      OBVIOUS
    <3>. QED
      BY <1>3, <3>1, <3>2
  <2>2. PICK i \in 0 .. n - 1 : f[i] <= k /\ k < f[i + 1]
    BY <1>3, <2>1, RowOfIndex
  <2>3. v[i] # 0 /\ f[i] = k
    <3>1. i \in 0 .. n /\ f[i] \in Nat
      BY <1>3
    <3>. QED
      BY <1>3, <2>1, <2>2, <3>1
  <2>4. i \in DOMAIN v /\ Kept(v, i) = k
    BY <1>3, <1>4, <2>3
  <2>5. \E p \in DOMAIN v : v[p] # 0 /\ Kept(v, p) = k
    BY <2>3, <2>4
  <2>6. k \in 0 .. Kept(v, size(v)) - 1
    BY <1>1, <1>2
  <2>7. old[k] = CHOOSE p \in DOMAIN v : v[p] # 0 /\ Kept(v, p) = k
    BY <2>6 DEF OldPositions
  <2>8. old[k] \in DOMAIN v /\ v[old[k]] # 0 /\ Kept(v, old[k]) = k
    BY <2>5, <2>7
  <2>. QED
    BY <1>3, <1>4, <2>8
<1>7. ASSUME NEW k \in DOMAIN old, NEW b \in 0 .. n
      PROVE  old[k] < b <=> k < Kept(v, b)
  <2>. DEFINE p == old[k]
  <2>1. p \in DOMAIN v /\ v[p] # 0 /\ f[p] = k
    BY <1>6
  <2>. HIDE DEF p
  <2>2. p \in 0 .. n /\ p + 1 \in 0 .. n /\ f[p + 1] = f[p] + 1 /\ f[p] \in Nat /\ f[b] \in Nat
    BY <1>3, <1>4, <2>1
  <2>3. p < b => f[p + 1] <= f[b]
    <3>1. p < b => p + 1 <= b
      BY <2>2
    <3>. QED
      BY <1>3, <2>2, <3>1
  <2>4. ~(p < b) => f[b] <= f[p]
    <3>1. ~(p < b) => b <= p
      BY <2>2
    <3>. QED
      BY <1>3, <2>2, <3>1
  <2>5. p < b <=> k < f[b]
    BY <2>1, <2>2, <2>3, <2>4
  <2>. QED
    BY <1>3, <2>5 DEF p
<1>8. ASSUME NEW k \in DOMAIN old, NEW l \in DOMAIN old, k < l
      PROVE  old[k] < old[l]
  <2>1. old[k] \in 0 .. n /\ old[l] \in 0 .. n /\ f[old[k]] = k /\ f[old[l]] = l
    BY <1>4, <1>6
  <2>2. ~(old[k] < old[l]) => old[l] <= old[k]
    BY <2>1
  <2>3. ~(old[k] < old[l]) => l <= k
    BY <1>3, <2>1, <2>2
  <2>4. k \in Int /\ l \in Int
    BY <1>3, <2>1
  <2>. QED
    BY <1>8, <2>3, <2>4
<1>9. ASSUME NEW p \in DOMAIN v, v[p] # 0
      PROVE  \E k \in DOMAIN old : old[k] = p
  <2>1. p \in 0 .. n /\ p + 1 \in 0 .. n /\ f[p + 1] = f[p] + 1 /\ f[p] \in Nat
        /\ n \in 0 .. n /\ p + 1 <= n
    BY <1>3, <1>4, <1>9
  <2>2. f[p + 1] <= f[n] /\ f[n] = Kept(v, n) /\ f[n] \in Nat
    BY <1>3, <2>1
  <2>3. f[p] \in DOMAIN old
    BY <1>2, <2>1, <2>2
  <2>4. old[f[p]] = p
    BY <1>5, <1>6, <1>9, <2>3
  <2>. QED
    BY <2>3, <2>4
<1>. QED
  BY <1>2, <1>6, <1>7, <1>8, <1>9 DEF AllThatAreKept

LEMMA PositionsInside ==
  ASSUME NEW m, IsCsr(m), NEW r \in 0 .. m.rows - 1
  PROVE  Positions(m, r) \subseteq DOMAIN m.values
<1>1. /\ m.rows \in Nat /\ m.row_ptr \in [0 .. m.rows -> Nat]
      /\ \A i \in 0 .. m.rows - 1 : m.row_ptr[i] <= m.row_ptr[i + 1]
      /\ DOMAIN m.values = 0 .. m.row_ptr[m.rows] - 1
  BY DEF IsCsr
<1>2. r \in 0 .. m.rows /\ r + 1 \in 0 .. m.rows /\ m.rows \in 0 .. m.rows /\ r + 1 <= m.rows
  BY <1>1
<1>3. m.row_ptr \in [0 .. m.rows -> Int]
  BY <1>1
<1>4. m.row_ptr[r + 1] <= m.row_ptr[m.rows]
  BY <1>1, <1>2, <1>3, StepwiseMonotone
<1>5. m.row_ptr[r] \in Nat /\ m.row_ptr[r + 1] \in Nat /\ m.row_ptr[m.rows] \in Nat
  BY <1>1, <1>2
<1>6. SUFFICES ASSUME NEW p \in Positions(m, r) PROVE p \in DOMAIN m.values
  OBVIOUS
<1>7. p \in m.row_ptr[r] .. m.row_ptr[r + 1] - 1
  BY DEF Positions
<1>8. p \in 0 .. m.row_ptr[m.rows] - 1
  BY <1>4, <1>5, <1>7
<1>. QED
  BY <1>1, <1>8

LEMMA EntriesAre ==
  ASSUME NEW m, NEW x
  PROVE  x \in Entries(m) <=>
           \E r \in 0 .. m.rows - 1 : \E p \in Positions(m, r) :
             /\ p \in DOMAIN m.values /\ m.values[p] # 0
             /\ x = <<r, m.col_idx[p], m.values[p]>>
<1>. DEFINE F(r) == {<<r, m.col_idx[p], m.values[p]>> :
                       p \in {p \in Positions(m, r) \cap DOMAIN m.values : m.values[p] # 0}}
<1>1. Entries(m) = UNION {F(r) : r \in 0 .. m.rows - 1}
  BY DEF Entries
<1>2. \A r : x \in F(r) <=> \E p \in Positions(m, r) :
               /\ p \in DOMAIN m.values /\ m.values[p] # 0
               /\ x = <<r, m.col_idx[p], m.values[p]>>
  OBVIOUS
<1>. HIDE DEF F
<1>3. x \in Entries(m) <=> \E r \in 0 .. m.rows - 1 : x \in F(r)
  BY <1>1, Zenon
<1>. QED
  BY <1>2, <1>3

\* What is uploaded of a matrix with stored zeros is a matrix again, with the
\* entries of each row that are not zero, in their order.
LEMMA RemovedEntries ==
  ASSUME NEW m, IsCsr(m)
  PROVE  LET e == remove_stored_zeros(m) IN
         /\ IsCsr(e) /\ e.rows = m.rows /\ e.cols = m.cols
         /\ \E old :
              /\ \A k \in DOMAIN e.values :
                   /\ old[k] \in DOMAIN m.values /\ m.values[old[k]] # 0
                   /\ e.values[k] = m.values[old[k]] /\ e.col_idx[k] = m.col_idx[old[k]]
                   /\ \A r \in 0 .. m.rows - 1 :
                        k \in Positions(e, r) <=> old[k] \in Positions(m, r)
              /\ \A k, l \in DOMAIN e.values : k < l => old[k] < old[l]
              /\ \A p \in DOMAIN m.values :
                   m.values[p] # 0 => \E k \in DOMAIN e.values : old[k] = p
<1>. DEFINE n == m.row_ptr[m.rows]
            old == OldPositions(m.values)
            e == remove_stored_zeros(m)
<1>1. n \in Nat /\ m.rows \in Nat /\ m.cols \in Nat /\ m.row_ptr \in [0 .. m.rows -> Nat]
      /\ DOMAIN m.values = 0 .. n - 1 /\ m.row_ptr[0] = 0
      /\ \A r \in 0 .. m.rows - 1 : m.row_ptr[r] <= m.row_ptr[r + 1]
  BY DEF IsCsr
<1>2. /\ DOMAIN old = 0 .. Kept(m.values, n) - 1
      /\ \A k \in DOMAIN old :
           /\ old[k] \in DOMAIN m.values /\ m.values[old[k]] # 0
           /\ \A b \in 0 .. n : old[k] < b <=> k < Kept(m.values, b)
      /\ \A k, l \in DOMAIN old : k < l => old[k] < old[l]
      /\ \A p \in DOMAIN m.values : m.values[p] # 0 => \E k \in DOMAIN old : old[k] = p
  <2>. HIDE DEF n, old, e
  <2>1. n \in Nat /\ DOMAIN m.values = 0 .. n - 1 /\ old = OldPositions(m.values)
    BY <1>1 DEF old
  <2>2. AllThatAreKept(m.values, n, old)
    BY <2>1, KeptPositions
  <2>. QED
    BY <2>2, Zenon DEF AllThatAreKept
<1>3. e = [m EXCEPT !.row_ptr = [r \in 0 .. m.rows |-> Kept(m.values, m.row_ptr[r])],
                    !.col_idx = [k \in DOMAIN old |-> m.col_idx[old[k]]],
                    !.values  = [k \in DOMAIN old |-> m.values[old[k]]]]
  <2>1. DOMAIN old = 0 .. Kept(m.values, size(m.values)) - 1
    BY DEF OldPositions
  <2>. QED
    BY <2>1, Zenon DEF remove_stored_zeros, OldPositions
<1>4. /\ DOMAIN e = {"rows", "cols", "row_ptr", "col_idx", "values"}
      /\ e.rows = m.rows /\ e.cols = m.cols
      /\ e.row_ptr = [r \in 0 .. m.rows |-> Kept(m.values, m.row_ptr[r])]
      /\ e.col_idx = [k \in DOMAIN old |-> m.col_idx[old[k]]]
      /\ e.values  = [k \in DOMAIN old |-> m.values[old[k]]]
  <2>. HIDE DEF old, e
  <2>. QED
    BY <1>3 DEF IsCsr
<1>. HIDE DEF e, n, old
<1>5. \A r \in 0 .. m.rows : m.row_ptr[r] \in 0 .. n
  <2>1. \A i, j \in 0 .. m.rows : i <= j => m.row_ptr[i] <= m.row_ptr[j]
    <3>1. m.row_ptr \in [0 .. m.rows -> Int]
      BY <1>1
    <3>. QED
      BY <1>1, <3>1, StepwiseMonotone
  <2>2. \A r \in 0 .. m.rows : r <= m.rows /\ m.rows \in 0 .. m.rows /\ m.row_ptr[r] \in Nat
    BY <1>1
  <2>3. \A r \in 0 .. m.rows : m.row_ptr[r] <= m.row_ptr[m.rows]
    BY <2>1, <2>2
  <2>. QED
    BY <1>1, <2>2, <2>3 DEF n
<1>6. /\ Kept(m.values, 0) = 0
      /\ \A k \in 0 .. n : Kept(m.values, k) \in Nat
      /\ \A k, l \in 0 .. n : k <= l => Kept(m.values, k) <= Kept(m.values, l)
  BY <1>1, KeptGrows
<1>7. /\ e.row_ptr \in [0 .. e.rows -> Nat] /\ e.row_ptr[0] = 0
      /\ \A r \in 0 .. e.rows - 1 : e.row_ptr[r] <= e.row_ptr[r + 1]
      /\ e.row_ptr[e.rows] = Kept(m.values, n)
      /\ \A r \in 0 .. m.rows : e.row_ptr[r] = Kept(m.values, m.row_ptr[r])
  <2>1. \A r \in 0 .. m.rows : e.row_ptr[r] = Kept(m.values, m.row_ptr[r])
    BY <1>4
  <2>2. e.row_ptr \in [0 .. m.rows -> Nat]
    <3>1. \A r \in 0 .. m.rows : e.row_ptr[r] \in Nat
      BY <1>5, <1>6, <2>1
    <3>. QED
      BY <1>4, <3>1
  <2>3. e.row_ptr[0] = 0
    <3>1. 0 \in 0 .. m.rows
      BY <1>1
    <3>. QED
      BY <1>1, <1>6, <2>1, <3>1
  <2>4. \A r \in 0 .. m.rows - 1 : e.row_ptr[r] <= e.row_ptr[r + 1]
    <3>1. \A r \in 0 .. m.rows - 1 : r \in 0 .. m.rows /\ r + 1 \in 0 .. m.rows
      BY <1>1
    <3>. QED
      BY <1>1, <1>5, <1>6, <2>1, <3>1
  <2>5. e.row_ptr[m.rows] = Kept(m.values, n)
    BY <1>1, <1>4 DEF n
  <2>. QED
    BY <1>4, <2>1, <2>2, <2>3, <2>4, <2>5
<1>8. DOMAIN e.values = DOMAIN old /\ DOMAIN e.col_idx = DOMAIN old
  BY <1>4
<1>9. ASSUME NEW k \in DOMAIN e.values
      PROVE  /\ old[k] \in DOMAIN m.values /\ m.values[old[k]] # 0
             /\ e.values[k] = m.values[old[k]] /\ e.col_idx[k] = m.col_idx[old[k]]
             /\ e.col_idx[k] \in 0 .. e.cols - 1
             /\ \A r \in 0 .. m.rows - 1 : k \in Positions(e, r) <=> old[k] \in Positions(m, r)
  <2>1. old[k] \in DOMAIN m.values /\ m.values[old[k]] # 0
        /\ \A b \in 0 .. n : old[k] < b <=> k < Kept(m.values, b)
    BY <1>2, <1>8
  <2>2. e.values[k] = m.values[old[k]] /\ e.col_idx[k] = m.col_idx[old[k]]
    BY <1>4, <1>8
  <2>3. m.col_idx[old[k]] \in 0 .. m.cols - 1
    BY <2>1 DEF IsCsr
  <2>4. ASSUME NEW r \in 0 .. m.rows - 1
        PROVE  k \in Positions(e, r) <=> old[k] \in Positions(m, r)
    <3>1. r \in 0 .. m.rows /\ r + 1 \in 0 .. m.rows
      BY <1>1
    <3>2. /\ m.row_ptr[r] \in 0 .. n /\ m.row_ptr[r + 1] \in 0 .. n
          /\ e.row_ptr[r] = Kept(m.values, m.row_ptr[r])
          /\ e.row_ptr[r + 1] = Kept(m.values, m.row_ptr[r + 1])
      BY <1>5, <1>7, <3>1
    <3>3. e.row_ptr[r] \in Nat /\ e.row_ptr[r + 1] \in Nat
      BY <1>6, <3>2
    <3>4. /\ old[k] < m.row_ptr[r] <=> k < e.row_ptr[r]
          /\ old[k] < m.row_ptr[r + 1] <=> k < e.row_ptr[r + 1]
      BY <2>1, <3>2
    <3>5. k \in Int /\ old[k] \in Int
      <4>1. k \in 0 .. Kept(m.values, n) - 1 /\ old[k] \in 0 .. n - 1
        BY <1>1, <1>2, <1>8, <2>1
      <4>. QED
        BY <4>1
    <3>. QED
      BY <3>2, <3>3, <3>4, <3>5 DEF Positions
  <2>. QED
    BY <1>4, <2>1, <2>2, <2>3, <2>4
<1>10. IsCsr(e)
  BY <1>1, <1>2, <1>4, <1>7, <1>8, <1>9 DEF IsCsr
<1>11. /\ \A k, l \in DOMAIN e.values : k < l => old[k] < old[l]
       /\ \A p \in DOMAIN m.values :
            m.values[p] # 0 => \E k \in DOMAIN e.values : old[k] = p
  BY <1>2, <1>8
<1>. QED
  BY <1>4, <1>9, <1>10, <1>11 DEF e

\* What is uploaded of a matrix.
Uploaded(m) == IF has_stored_zeros(m) THEN remove_stored_zeros(m) ELSE m

\* The upload is a matrix without stored zeros and with the same entries, rows
\* that were in order are, and duplicates that are not zero still are there.
LEMMA UploadKeeps ==
  ASSUME NEW m, IsCsr(m)
  PROVE  LET e == Uploaded(m) IN
         /\ IsCsr(e) /\ e.rows = m.rows /\ e.cols = m.cols
         /\ \A p \in DOMAIN e.values : e.values[p] # 0
         /\ Entries(e) = Entries(m)
         /\ HasSortedRows(m) => HasSortedRows(e)
         /\ HasOrderedRows(m) => HasOrderedRows(e)
         /\ HasDuplicates(m) => HasDuplicates(e)
<1>1. CASE ~has_stored_zeros(m)
  <2>1. Uploaded(m) = m
    BY <1>1 DEF Uploaded
  <2>. QED
    BY <1>1, <2>1 DEF has_stored_zeros
<1>2. CASE has_stored_zeros(m)
  <2>. DEFINE e == remove_stored_zeros(m)
  <2>1. Uploaded(m) = e
    BY <1>2 DEF Uploaded
  <2>2. IsCsr(e) /\ e.rows = m.rows /\ e.cols = m.cols
    BY RemovedEntries
  <2>3. PICK old :
          /\ \A k \in DOMAIN e.values :
               /\ old[k] \in DOMAIN m.values /\ m.values[old[k]] # 0
               /\ e.values[k] = m.values[old[k]] /\ e.col_idx[k] = m.col_idx[old[k]]
               /\ \A r \in 0 .. m.rows - 1 :
                    k \in Positions(e, r) <=> old[k] \in Positions(m, r)
          /\ \A k, l \in DOMAIN e.values : k < l => old[k] < old[l]
          /\ \A p \in DOMAIN m.values :
               m.values[p] # 0 => \E k \in DOMAIN e.values : old[k] = p
    BY RemovedEntries
  <2>4. \A r \in 0 .. m.rows - 1 :
          Positions(e, r) \subseteq DOMAIN e.values /\ Positions(m, r) \subseteq DOMAIN m.values
    BY <2>2, PositionsInside
  <2>. HIDE DEF e
  <2>5. \A p \in DOMAIN e.values : e.values[p] # 0
    BY <2>3
  <2>6. HasSortedRows(m) => HasSortedRows(e)
    BY <2>2, <2>3, <2>4 DEF HasSortedRows
  <2>7. HasOrderedRows(m) => HasOrderedRows(e)
    BY <2>2, <2>3, <2>4 DEF HasOrderedRows
  <2>8. HasDuplicates(m) => HasDuplicates(e)
    <3>. SUFFICES ASSUME HasDuplicates(m) PROVE HasDuplicates(e)
      OBVIOUS
    <3>1. PICK r \in 0 .. m.rows - 1 : \E p, q \in Positions(m, r) :
            /\ p # q /\ m.col_idx[p] = m.col_idx[q] /\ m.values[p] # 0 /\ m.values[q] # 0
      BY DEF HasDuplicates
    <3>2. PICK p \in Positions(m, r), q \in Positions(m, r) :
            /\ p # q /\ m.col_idx[p] = m.col_idx[q] /\ m.values[p] # 0 /\ m.values[q] # 0
      BY <3>1
    <3>3. PICK k \in DOMAIN e.values : old[k] = p
      BY <2>3, <2>4, <3>2
    <3>4. PICK l \in DOMAIN e.values : old[l] = q
      BY <2>3, <2>4, <3>2
    <3>5. k \in Positions(e, r) /\ l \in Positions(e, r) /\ k # l
      BY <2>3, <3>2, <3>3, <3>4
    <3>6. e.col_idx[k] = e.col_idx[l] /\ e.values[k] # 0 /\ e.values[l] # 0
      BY <2>3, <3>2, <3>3, <3>4
    <3>. QED
      BY <2>2, <3>5, <3>6 DEF HasDuplicates
  <2>9. Entries(e) = Entries(m)
    <3>1. ASSUME NEW x \in Entries(e) PROVE x \in Entries(m)
      <4>1. PICK r \in 0 .. m.rows - 1 : \E k \in Positions(e, r) :
              k \in DOMAIN e.values /\ x = <<r, e.col_idx[k], e.values[k]>>
        BY <2>2, EntriesAre
      <4>2. PICK k \in Positions(e, r) :
              k \in DOMAIN e.values /\ x = <<r, e.col_idx[k], e.values[k]>>
        BY <4>1
      <4>3. /\ old[k] \in Positions(m, r) /\ old[k] \in DOMAIN m.values /\ m.values[old[k]] # 0
            /\ x = <<r, m.col_idx[old[k]], m.values[old[k]]>>
        BY <2>3, <4>2
      <4>. QED
        BY <4>3, EntriesAre
    <3>2. ASSUME NEW x \in Entries(m) PROVE x \in Entries(e)
      <4>1. PICK r \in 0 .. m.rows - 1 : \E p \in Positions(m, r) :
              p \in DOMAIN m.values /\ m.values[p] # 0 /\ x = <<r, m.col_idx[p], m.values[p]>>
        BY EntriesAre
      <4>2. PICK p \in Positions(m, r) :
              p \in DOMAIN m.values /\ m.values[p] # 0 /\ x = <<r, m.col_idx[p], m.values[p]>>
        BY <4>1
      <4>3. PICK k \in DOMAIN e.values : old[k] = p
        BY <2>3, <4>2
      <4>4. k \in Positions(e, r) /\ x = <<r, e.col_idx[k], e.values[k]>> /\ e.values[k] # 0
        BY <2>3, <4>2, <4>3
      <4>. QED
        BY <2>2, <4>3, <4>4, EntriesAre
    <3>. QED
      BY <3>1, <3>2
  <2>. QED
    BY <2>1, <2>2, <2>5, <2>6, <2>7, <2>8, <2>9
<1>. QED
  BY <1>1, <1>2

-----------------------------------------------------------------------------
(* The lanes of a block row. *)

NumBlockRows == ceil_div(effective_csr.rows, block_rows)

\* Where the entries of a block row begin and end.
EntriesEnd(br) == effective_csr.row_ptr[Smaller(effective_csr.rows, (br + 1) * block_rows)]

\* The rows of a block row follow each other, and so do their entries.
LEMMA RowsOf ==
  ASSUME IsCsr(effective_csr), NEW br \in 0 .. NumBlockRows - 1
  PROVE  \E first \in Nat, last \in Nat :
           /\ first = br * block_rows /\ last = Smaller(effective_csr.rows, (br + 1) * block_rows)
           /\ first < last /\ last <= effective_csr.rows
           /\ first = Smaller(effective_csr.rows, br * block_rows)
           /\ Rows(br) = first .. last - 1
           /\ ValueStart(br) = effective_csr.row_ptr[first]
           /\ EntriesEnd(br) = effective_csr.row_ptr[last]
           /\ \A i, j \in 0 .. effective_csr.rows :
                i <= j => effective_csr.row_ptr[i] <= effective_csr.row_ptr[j]
           /\ \A i \in 0 .. effective_csr.rows : effective_csr.row_ptr[i] \in Nat
<1>. DEFINE first == br * block_rows
            last  == Smaller(effective_csr.rows, (br + 1) * block_rows)
<1>1. /\ effective_csr.rows \in Nat /\ block_rows \in Nat \ {0}
      /\ effective_csr.row_ptr \in [0 .. effective_csr.rows -> Nat]
      /\ \A r \in 0 .. effective_csr.rows - 1 :
           effective_csr.row_ptr[r] <= effective_csr.row_ptr[r + 1]
  BY BlockShapeAssumption DEF IsCsr
<1>2. /\ NumBlockRows \in Nat
      /\ \A k \in Nat : k * block_rows < effective_csr.rows <=> k < NumBlockRows
  BY <1>1, CeilDivCounts DEF NumBlockRows
<1>3. br \in Nat /\ first < effective_csr.rows
  BY <1>2
<1>4. first \in Nat /\ (br + 1) * block_rows = first + block_rows
  BY <1>1, <1>3
<1>5. /\ last = IF effective_csr.rows <= first + block_rows THEN effective_csr.rows
                ELSE first + block_rows
      /\ first = Smaller(effective_csr.rows, br * block_rows)
  <2>. HIDE DEF first
  <2>1. Smaller(effective_csr.rows, first) = first
    BY <1>1, <1>3, <1>4 DEF Smaller
  <2>. QED
    BY <1>4, <2>1 DEF Smaller, first
<1>6. last \in Nat /\ first < last /\ last <= effective_csr.rows
  <2>. HIDE DEF first, last
  <2>. QED
    BY <1>1, <1>3, <1>4, <1>5
<1>7. /\ Rows(br) = first .. last - 1 /\ ValueStart(br) = effective_csr.row_ptr[first]
      /\ EntriesEnd(br) = effective_csr.row_ptr[last]
  BY DEF Rows, BlockRowRows, ValueStart, EntriesEnd
<1>8. \A i, j \in 0 .. effective_csr.rows :
        i <= j => effective_csr.row_ptr[i] <= effective_csr.row_ptr[j]
  <2>1. effective_csr.row_ptr \in [0 .. effective_csr.rows -> Int]
    BY <1>1
  <2>. QED
    BY <1>1, <2>1, StepwiseMonotone
<1>. HIDE DEF first, last
<1>. QED
  BY <1>1, <1>4, <1>5, <1>6, <1>7, <1>8 DEF first, last

\* Every lane is in its row.
Lanes(br, pos) ==
  /\ pos = [row \in Rows(br) |-> pos[row]]
  /\ \A row \in Rows(br) :
       /\ pos[row] \in Nat
       /\ effective_csr.row_ptr[row] <= pos[row] /\ pos[row] <= effective_csr.row_ptr[row + 1]

\* The entries the lanes are past.
Behind(pos) == UNION {effective_csr.row_ptr[row] .. pos[row] - 1 : row \in DOMAIN pos}

\* The entries they pass in a turn.
PassedInTurn(pos, c) == UNION {Passed(pos, row, c) : row \in DOMAIN pos}

LEMMA LanesStart ==
  ASSUME IsCsr(effective_csr), NEW br \in 0 .. NumBlockRows - 1
  PROVE  Lanes(br, LaneStart(br)) /\ Behind(LaneStart(br)) = {}
<1>1. PICK first \in Nat, last \in Nat :
        /\ last <= effective_csr.rows /\ Rows(br) = first .. last - 1
        /\ \A i, j \in 0 .. effective_csr.rows :
             i <= j => effective_csr.row_ptr[i] <= effective_csr.row_ptr[j]
        /\ \A i \in 0 .. effective_csr.rows : effective_csr.row_ptr[i] \in Nat
  BY RowsOf
<1>2. effective_csr.rows \in Nat
  BY DEF IsCsr
<1>3. \A row \in Rows(br) : row \in 0 .. effective_csr.rows /\ row + 1 \in 0 .. effective_csr.rows
                            /\ row <= row + 1
  BY <1>1, <1>2
<1>4. \A row \in Rows(br) :
        /\ effective_csr.row_ptr[row] \in Nat
        /\ effective_csr.row_ptr[row] <= effective_csr.row_ptr[row + 1]
  BY <1>1, <1>3
<1>5. \A row \in Rows(br) : LaneStart(br)[row] = effective_csr.row_ptr[row]
  BY DEF LaneStart
<1>6. LaneStart(br) = [row \in Rows(br) |-> LaneStart(br)[row]] /\ DOMAIN LaneStart(br) = Rows(br)
  BY DEF LaneStart
<1>7. \A row \in Rows(br) : effective_csr.row_ptr[row] .. LaneStart(br)[row] - 1 = {}
  BY <1>4, <1>5
<1>. QED
  BY <1>4, <1>5, <1>6, <1>7 DEF Lanes, Behind

\* A lane passes the next entries of its row, as many as AfterTurn adds.
LEMMA LanePasses ==
  ASSUME IsCsr(effective_csr), NEW br \in 0 .. NumBlockRows - 1,
         NEW pos, Lanes(br, pos), NEW c, NEW row \in Rows(br)
  PROVE  /\ AfterTurn(pos, c)[row] \in Nat
         /\ pos[row] <= AfterTurn(pos, c)[row]
         /\ AfterTurn(pos, c)[row] <= effective_csr.row_ptr[row + 1]
         /\ Passed(pos, row, c) = pos[row] .. AfterTurn(pos, c)[row] - 1
<1>. DEFINE S == Passed(pos, row, c)
            end == effective_csr.row_ptr[row + 1]
<1>1. /\ pos[row] \in Nat /\ pos[row] <= end /\ DOMAIN pos = Rows(br)
  BY DEF Lanes
<1>2. end \in Nat
  <2>1. PICK first \in Nat, last \in Nat :
          /\ last <= effective_csr.rows /\ Rows(br) = first .. last - 1
          /\ \A i \in 0 .. effective_csr.rows : effective_csr.row_ptr[i] \in Nat
    BY RowsOf
  <2>2. row + 1 \in 0 .. effective_csr.rows
    BY <2>1 DEF IsCsr
  <2>. QED
    BY <2>1, <2>2
<1>3. S \in SUBSET (pos[row] .. end - 1)
  BY DEF Passed
<1>4. \A p \in S : pos[row] .. p \subseteq S
  <2>1. S = {p \in pos[row] .. end - 1 :
               \A q \in pos[row] .. p : Col(q) \div block_cols = c}
    BY DEF Passed
  <2>. HIDE DEF S, end
  <2>. QED
    BY <1>1, <1>2, <2>1
<1>5. /\ Cardinality(S) \in Nat /\ S = pos[row] .. pos[row] + Cardinality(S) - 1
      /\ pos[row] + Cardinality(S) <= end
  <2>. HIDE DEF S, end
  <2>1. pos[row] \in Int /\ end \in Int
    BY <1>1, <1>2
  <2>. QED
    BY <1>1, <1>3, <1>4, <2>1, BeginningOfInterval
<1>6. AfterTurn(pos, c)[row] = pos[row] + Cardinality(S)
  BY <1>1 DEF AfterTurn
<1>. HIDE DEF S
<1>. QED
  BY <1>1, <1>5, <1>6 DEF S

\* After a turn the lanes are in their rows, and past what they were past and
\* what they passed, no entry of which they were past before.
LEMMA LanesTurn ==
  ASSUME IsCsr(effective_csr), NEW br \in 0 .. NumBlockRows - 1,
         NEW pos, Lanes(br, pos), NEW c
  PROVE  /\ Lanes(br, AfterTurn(pos, c))
         /\ Behind(AfterTurn(pos, c)) = Behind(pos) \cup PassedInTurn(pos, c)
         /\ Behind(pos) \cap PassedInTurn(pos, c) = {}
<1>. DEFINE next == AfterTurn(pos, c)
            rp(row) == effective_csr.row_ptr[row]
<1>1. PICK first \in Nat, last \in Nat :
        /\ last <= effective_csr.rows /\ Rows(br) = first .. last - 1
        /\ \A i, j \in 0 .. effective_csr.rows : i <= j => rp(i) <= rp(j)
        /\ \A i \in 0 .. effective_csr.rows : rp(i) \in Nat
  BY RowsOf
<1>2. DOMAIN pos = Rows(br) /\ next = [row \in Rows(br) |-> next[row]] /\ DOMAIN next = Rows(br)
  BY DEF Lanes, AfterTurn
<1>3. \A row \in Rows(br) :
        /\ pos[row] \in Nat /\ rp(row) <= pos[row] /\ pos[row] <= rp(row + 1)
  BY DEF Lanes
<1>4. \A row \in Rows(br) :
        /\ next[row] \in Nat /\ pos[row] <= next[row] /\ next[row] <= rp(row + 1)
        /\ Passed(pos, row, c) = pos[row] .. next[row] - 1
  BY LanePasses
<1>5. \A row \in Rows(br) : row \in 0 .. effective_csr.rows /\ row + 1 \in 0 .. effective_csr.rows
  BY <1>1 DEF IsCsr
<1>6. \A row \in Rows(br) : rp(row) \in Nat /\ rp(row + 1) \in Nat
  BY <1>1, <1>5
<1>. HIDE DEF next, rp
<1>7. Lanes(br, next)
  <2>1. \A row \in Rows(br) : next[row] \in Nat /\ rp(row) <= next[row] /\ next[row] <= rp(row + 1)
    BY <1>3, <1>4, <1>6
  <2>. QED
    BY <1>2, <2>1 DEF Lanes, rp
<1>8. \A e : e \in Behind(pos) <=> \E row \in Rows(br) : e \in rp(row) .. pos[row] - 1
  BY <1>2, Zenon DEF Behind, rp
<1>9. \A e : e \in Behind(next) <=> \E row \in Rows(br) : e \in rp(row) .. next[row] - 1
  BY <1>2, Zenon DEF Behind, rp
<1>10. \A e : e \in PassedInTurn(pos, c) <=> \E row \in Rows(br) : e \in pos[row] .. next[row] - 1
  <2>1. \A e : e \in PassedInTurn(pos, c) <=> \E row \in Rows(br) : e \in Passed(pos, row, c)
    BY <1>2, Zenon DEF PassedInTurn
  <2>. QED
    BY <1>4, <2>1
<1>11. \A e : \A row \in Rows(br) :
         e \in rp(row) .. next[row] - 1
         <=> e \in rp(row) .. pos[row] - 1 \/ e \in pos[row] .. next[row] - 1
  BY <1>3, <1>4, <1>6
<1>12. Behind(next) = Behind(pos) \cup PassedInTurn(pos, c)
  <2>1. \A e : e \in Behind(next) <=> e \in Behind(pos) \/ e \in PassedInTurn(pos, c)
    BY <1>8, <1>9, <1>10, <1>11
  <2>. QED
    BY <2>1, Zenon
<1>13. Behind(pos) \cap PassedInTurn(pos, c) = {}
  <2>1. SUFFICES ASSUME NEW e, NEW r \in Rows(br), NEW s \in Rows(br),
                        e \in rp(r) .. pos[r] - 1, e \in pos[s] .. next[s] - 1
                 PROVE  FALSE
    BY <1>8, <1>10
  <2>2. e \in Int /\ rp(r) <= e /\ e < pos[r] /\ pos[s] <= e /\ e < next[s]
    BY <1>3, <1>4, <1>6, <2>1
  <2>3. /\ pos[r] \in Nat /\ pos[r] <= rp(r + 1) /\ pos[s] \in Nat /\ rp(s) <= pos[s]
        /\ next[s] \in Nat /\ next[s] <= rp(s + 1)
        /\ rp(r) \in Nat /\ rp(s) \in Nat /\ rp(r + 1) \in Nat /\ rp(s + 1) \in Nat
    BY <1>3, <1>4, <1>6
  <2>4. r \in Int /\ s \in Int
    BY <1>1
  <2>5. CASE r < s
    <3>1. rp(r + 1) <= rp(s)
      BY <1>1, <1>5, <2>4, <2>5
    <3>. QED
      BY <2>2, <2>3, <3>1
  <2>6. CASE s < r
    <3>1. s + 1 <= r /\ s + 1 \in 0 .. effective_csr.rows /\ r \in 0 .. effective_csr.rows
      BY <1>5, <2>4, <2>6
    <3>2. rp(s + 1) <= rp(r)
      BY <1>1, <3>1
    <3>. QED
      BY <2>2, <2>3, <3>2
  <2>7. CASE r = s
    BY <2>2, <2>3, <2>7
  <2>. QED
    BY <2>4, <2>5, <2>6, <2>7
<1>. QED
  BY <1>7, <1>12, <1>13 DEF next

\* The lanes are past entries of the block row only, and past all of them when
\* none is at work.
LEMMA BehindCounts ==
  ASSUME IsCsr(effective_csr), NEW br \in 0 .. NumBlockRows - 1,
         NEW pos, Lanes(br, pos)
  PROVE  /\ IsFiniteSet(Behind(pos)) /\ Cardinality(Behind(pos)) \in Nat
         /\ ValueStart(br) \in Nat /\ EntriesEnd(br) \in Nat
         /\ ValueStart(br) + Cardinality(Behind(pos)) <= EntriesEnd(br)
         /\ AtWork(pos) = {} => ValueStart(br) + Cardinality(Behind(pos)) = EntriesEnd(br)
<1>. DEFINE rp(row) == effective_csr.row_ptr[row]
            start == ValueStart(br)
            end == EntriesEnd(br)
            all == start .. end - 1
<1>1. PICK first \in Nat, last \in Nat :
        /\ last <= effective_csr.rows /\ first < last /\ Rows(br) = first .. last - 1
        /\ start = rp(first) /\ end = rp(last)
        /\ \A i, j \in 0 .. effective_csr.rows : i <= j => rp(i) <= rp(j)
        /\ \A i \in 0 .. effective_csr.rows : rp(i) \in Nat
  BY RowsOf
<1>2. effective_csr.rows \in Nat
  BY DEF IsCsr
<1>3. DOMAIN pos = Rows(br)
  BY DEF Lanes
<1>4. \A row \in Rows(br) :
        /\ pos[row] \in Nat /\ rp(row) <= pos[row] /\ pos[row] <= rp(row + 1)
  BY DEF Lanes
<1>5. \A e : e \in Behind(pos) <=> \E row \in Rows(br) : e \in rp(row) .. pos[row] - 1
  BY <1>3, Zenon DEF Behind
<1>6. AtWork(pos) = {row \in Rows(br) : pos[row] < rp(row + 1)}
  BY <1>3 DEF AtWork
<1>. HIDE DEF rp, start, end
<1>7. first \in 0 .. effective_csr.rows /\ last \in 0 .. effective_csr.rows /\ first <= last
  BY <1>1, <1>2
<1>8. start \in Nat /\ end \in Nat /\ start <= end
  BY <1>1, <1>7
<1>9. \A row \in Rows(br) :
        /\ rp(row) \in Nat /\ rp(row + 1) \in Nat
        /\ start <= rp(row) /\ rp(row + 1) <= end
  <2>1. \A row \in Rows(br) :
          /\ row \in 0 .. effective_csr.rows /\ row + 1 \in 0 .. effective_csr.rows
          /\ first <= row /\ row + 1 <= last
    BY <1>1, <1>2
  <2>. QED
    BY <1>1, <1>7, <2>1
<1>10. Behind(pos) \in SUBSET all
  <2>1. ASSUME NEW e, NEW row \in Rows(br), e \in rp(row) .. pos[row] - 1
        PROVE  e \in all
    BY <1>4, <1>8, <1>9, <2>1
  <2>. HIDE DEF all
  <2>. QED
    BY <1>5, <2>1
<1>11. IsFiniteSet(all) /\ Cardinality(all) = end - start
  <2>1. start \in Int /\ end - start \in Nat /\ all = start .. start + (end - start) - 1
    BY <1>8
  <2>. HIDE DEF all
  <2>. QED
    BY <2>1, IntervalIs
<1>12. /\ IsFiniteSet(Behind(pos)) /\ Cardinality(Behind(pos)) <= Cardinality(all)
       /\ Cardinality(Behind(pos)) \in Nat
  <2>. HIDE DEF all
  <2>. QED
    BY <1>10, <1>11, FS_Subset, FS_CardinalityType
<1>13. ASSUME AtWork(pos) = {} PROVE Behind(pos) = all
  <2>1. SUFFICES ASSUME NEW e \in all PROVE e \in Behind(pos)
    BY <1>10
  <2>. DEFINE f == [i \in 0 .. last - first |-> rp(first + i)]
  <2>2. /\ last - first \in Nat /\ f \in [0 .. last - first -> Int]
        /\ f[0] = start /\ f[last - first] = end
    <3>1. \A i \in 0 .. last - first : first + i \in 0 .. effective_csr.rows
      BY <1>1, <1>2
    <3>2. \A i \in 0 .. last - first : f[i] = rp(first + i) /\ f[i] \in Int
      BY <1>1, <3>1
    <3>3. 0 \in 0 .. last - first /\ last - first \in 0 .. last - first
          /\ first + 0 = first /\ first + (last - first) = last
      BY <1>1
    <3>4. f[0] = start /\ f[last - first] = end
      BY <1>1, <3>2, <3>3
    <3>5. last - first \in Nat
      BY <1>1
    <3>6. f \in [0 .. last - first -> Int]
      BY <3>2, Zenon
    <3>. HIDE DEF f
    <3>. QED
      BY <3>4, <3>5, <3>6
  <2>3. e \in Int /\ start <= e /\ e < end
    BY <1>8, <2>1
  <2>4. PICK i \in 0 .. last - first - 1 : f[i] <= e /\ e < f[i + 1]
    <3>. HIDE DEF f
    <3>. QED
      BY <2>2, <2>3, RowOfIndex
  <2>. DEFINE row == first + i
  <2>5. row \in Rows(br) /\ f[i] = rp(row) /\ f[i + 1] = rp(row + 1)
    BY <1>1, <2>4
  <2>. HIDE DEF row, f
  <2>6. pos[row] = rp(row + 1)
    BY <1>4, <1>6, <1>9, <1>13, <2>5
  <2>7. e \in rp(row) .. pos[row] - 1
    BY <1>9, <2>3, <2>4, <2>5, <2>6
  <2>. QED
    BY <1>5, <2>5, <2>7
<1>. QED
  BY <1>8, <1>11, <1>12, <1>13 DEF start, end

-----------------------------------------------------------------------------
(* Turns. *)

\* The row of a position, and the bit of its entry in its block.
RowOf(p) == CHOOSE r \in 0 .. effective_csr.rows - 1 : p \in Positions(effective_csr, r)

BitAt(br, p) == (RowOf(p) - br * block_rows) * block_cols + (Col(p) % block_cols)

\* A position is one of one row only: the row that RowOf gives.
LEMMA RowOfPosition ==
  ASSUME IsCsr(effective_csr), NEW r \in 0 .. effective_csr.rows - 1,
         NEW p \in Positions(effective_csr, r)
  PROVE  /\ RowOf(p) = r /\ p \in DOMAIN effective_csr.values /\ p \in Nat
         /\ Col(p) \in 0 .. effective_csr.cols - 1
<1>1. /\ effective_csr.rows \in Nat /\ effective_csr.row_ptr \in [0 .. effective_csr.rows -> Nat]
      /\ \A i \in 0 .. effective_csr.rows - 1 :
           effective_csr.row_ptr[i] <= effective_csr.row_ptr[i + 1]
      /\ DOMAIN effective_csr.values = 0 .. effective_csr.row_ptr[effective_csr.rows] - 1
  BY DEF IsCsr
<1>2. effective_csr.row_ptr \in [0 .. effective_csr.rows -> Int]
  BY <1>1
<1>3. \A q \in 0 .. effective_csr.rows - 1 :
        effective_csr.row_ptr[q] \in Nat /\ effective_csr.row_ptr[q + 1] \in Nat
  <2>1. \A q \in 0 .. effective_csr.rows - 1 :
          q \in 0 .. effective_csr.rows /\ q + 1 \in 0 .. effective_csr.rows
    BY <1>1
  <2>. QED
    BY <1>1, <2>1
<1>4. p \in Int /\ effective_csr.row_ptr[r] <= p /\ p < effective_csr.row_ptr[r + 1]
  BY <1>3 DEF Positions
<1>5. ASSUME NEW q \in 0 .. effective_csr.rows - 1, p \in Positions(effective_csr, q)
      PROVE  q = r
  <2>1. effective_csr.row_ptr[q] <= p /\ p < effective_csr.row_ptr[q + 1]
    BY <1>3, <1>4, <1>5 DEF Positions
  <2>. QED
    BY <1>1, <1>2, <1>4, <2>1, RowOfIndexUnique
<1>6. RowOf(p) = r
  BY <1>5 DEF RowOf
<1>7. p \in DOMAIN effective_csr.values
  <2>1. \A i, j \in 0 .. effective_csr.rows :
          i <= j => effective_csr.row_ptr[i] <= effective_csr.row_ptr[j]
    BY <1>1, <1>2, StepwiseMonotone
  <2>2. /\ r + 1 \in 0 .. effective_csr.rows /\ effective_csr.rows \in 0 .. effective_csr.rows
        /\ r + 1 <= effective_csr.rows
    BY <1>1
  <2>3. effective_csr.row_ptr[r + 1] <= effective_csr.row_ptr[effective_csr.rows]
    BY <2>1, <2>2
  <2>4. /\ effective_csr.row_ptr[r + 1] \in Nat /\ effective_csr.row_ptr[r] \in Nat
        /\ effective_csr.row_ptr[effective_csr.rows] \in Nat
    BY <1>1, <1>3, <2>2
  <2>5. p \in 0 .. effective_csr.row_ptr[effective_csr.rows] - 1
    BY <1>4, <2>3, <2>4
  <2>. QED
    BY <1>1, <2>5
<1>8. p \in Nat
  BY <1>3, <1>4
<1>9. Col(p) \in 0 .. effective_csr.cols - 1
  BY <1>7 DEF IsCsr, Col
<1>. QED
  BY <1>6, <1>7, <1>8, <1>9

\* What a lane passes are entries of its row in the block column.
LEMMA PassedEntry ==
  ASSUME IsCsr(effective_csr), NEW br \in 0 .. NumBlockRows - 1,
         NEW pos, Lanes(br, pos), NEW c, NEW row \in Rows(br), NEW p \in Passed(pos, row, c)
  PROVE  /\ row \in 0 .. effective_csr.rows - 1 /\ p \in Positions(effective_csr, row)
         /\ pos[row] <= p /\ Col(p) \div block_cols = c
<1>1. PICK first \in Nat, last \in Nat :
        /\ last <= effective_csr.rows /\ Rows(br) = first .. last - 1
        /\ \A i \in 0 .. effective_csr.rows : effective_csr.row_ptr[i] \in Nat
  BY RowsOf
<1>2. effective_csr.rows \in Nat
  BY DEF IsCsr
<1>3. row \in 0 .. effective_csr.rows - 1 /\ row \in 0 .. effective_csr.rows
      /\ row + 1 \in 0 .. effective_csr.rows
  BY <1>1, <1>2
<1>4. effective_csr.row_ptr[row] \in Nat /\ effective_csr.row_ptr[row + 1] \in Nat
  BY <1>1, <1>3
<1>5. pos[row] \in Nat /\ effective_csr.row_ptr[row] <= pos[row]
  BY DEF Lanes
<1>6. /\ p \in pos[row] .. effective_csr.row_ptr[row + 1] - 1
      /\ \A q \in pos[row] .. p : Col(q) \div block_cols = c
  BY DEF Passed
<1>7. p \in Int /\ pos[row] <= p /\ p <= effective_csr.row_ptr[row + 1] - 1 /\ p \in pos[row] .. p
  BY <1>4, <1>5, <1>6
<1>. QED
  BY <1>3, <1>4, <1>5, <1>6, <1>7 DEF Positions

\* The block column of a turn is the smallest that a lane stands at.
LEMMA MinBlockColIs ==
  ASSUME IsCsr(effective_csr), NEW br \in 0 .. NumBlockRows - 1,
         NEW pos, Lanes(br, pos), AtWork(pos) # {}
  PROVE  /\ MinBlockCol(pos) \in 0 .. ceil_div(effective_csr.cols, block_cols) - 1
         /\ \A row \in AtWork(pos) : /\ row \in Rows(br)
                                     /\ Col(pos[row]) \in Nat
                                     /\ MinBlockCol(pos) <= Col(pos[row]) \div block_cols
         /\ PassedInTurn(pos, MinBlockCol(pos)) # {}
<1>. DEFINE B(row) == Col(pos[row]) \div block_cols
            T == {B(row) : row \in AtWork(pos)}
            n == ceil_div(effective_csr.cols, block_cols)
<1>1. DOMAIN pos = Rows(br)
  BY DEF Lanes
<1>2. block_cols \in Nat \ {0} /\ effective_csr.cols \in Nat
  BY BlockShapeAssumption DEF IsCsr
<1>3. ASSUME NEW row \in AtWork(pos)
      PROVE  /\ row \in Rows(br) /\ Col(pos[row]) \in 0 .. effective_csr.cols - 1
             /\ pos[row] \in pos[row] .. effective_csr.row_ptr[row + 1] - 1
             /\ pos[row] \in Nat
  <2>1. row \in Rows(br) /\ pos[row] < effective_csr.row_ptr[row + 1]
    BY <1>1 DEF AtWork
  <2>2. PICK first \in Nat, last \in Nat :
          /\ last <= effective_csr.rows /\ Rows(br) = first .. last - 1
          /\ \A i \in 0 .. effective_csr.rows : effective_csr.row_ptr[i] \in Nat
    BY RowsOf
  <2>3. row \in 0 .. effective_csr.rows - 1 /\ row + 1 \in 0 .. effective_csr.rows
        /\ row \in 0 .. effective_csr.rows
    <3>1. row \in first .. last - 1
      BY <2>1, <2>2
    <3>2. first \in Nat /\ last \in Nat /\ last <= effective_csr.rows
      BY <2>2
    <3>3. effective_csr.rows \in Nat
      BY DEF IsCsr
    <3>. QED
      BY <3>1, <3>2, <3>3
  <2>4. effective_csr.row_ptr[row + 1] \in Nat /\ effective_csr.row_ptr[row] \in Nat
    BY <2>2, <2>3
  <2>5. pos[row] \in Nat /\ effective_csr.row_ptr[row] <= pos[row]
    BY <2>1 DEF Lanes
  <2>6. pos[row] \in Positions(effective_csr, row)
    BY <2>1, <2>4, <2>5 DEF Positions
  <2>. QED
    BY <2>1, <2>3, <2>4, <2>5, <2>6, RowOfPosition
<1>4. ASSUME NEW row \in AtWork(pos)
      PROVE  Col(pos[row]) \in Nat /\ B(row) \in 0 .. n - 1
  <2>1. Col(pos[row]) \in Nat /\ Col(pos[row]) < effective_csr.cols
    BY <1>2, <1>3
  <2>2. B(row) \in Nat /\ B(row) * block_cols <= Col(pos[row])
    <3>1. /\ B(row) \in Nat /\ Col(pos[row]) % block_cols \in 0 .. block_cols - 1
          /\ B(row) * block_cols + (Col(pos[row]) % block_cols) = Col(pos[row])
      BY <1>2, <2>1, QuotientAndRest
    <3>2. B(row) * block_cols \in Nat
      BY <1>2, <3>1
    <3>. HIDE DEF B
    <3>. QED
      BY <1>2, <3>1, <3>2
  <2>3. B(row) * block_cols < effective_csr.cols
    <3>1. B(row) * block_cols \in Nat
      BY <1>2, <2>2
    <3>. HIDE DEF B
    <3>. QED
      BY <1>2, <2>1, <2>2, <3>1
  <2>4. n \in Nat /\ B(row) < n
    BY <1>2, <2>2, <2>3, CeilDivCounts
  <2>. HIDE DEF B, n
  <2>. QED
    BY <2>1, <2>2, <2>4
<1>5. T \subseteq Nat /\ T # {}
  <2>. HIDE DEF B
  <2>1. \A row \in AtWork(pos) : B(row) \in Nat
    BY <1>4
  <2>. QED
    BY <2>1
<1>6. PICK m \in T : \A x \in T : m <= x
  <2>. HIDE DEF T
  <2>. QED
    BY <1>5, LeastNatural
<1>7. /\ MinBlockCol(pos) \in T
      /\ \A row \in AtWork(pos) : MinBlockCol(pos) <= B(row)
  <2>1. \E c \in T : \A row \in AtWork(pos) : c <= B(row)
    BY <1>6
  <2>2. MinBlockCol(pos) = CHOOSE c \in T : \A row \in AtWork(pos) : c <= B(row)
    BY DEF MinBlockCol
  <2>. HIDE DEF T, B
  <2>. QED
    BY <2>1, <2>2
<1>8. PICK lane \in AtWork(pos) : MinBlockCol(pos) = B(lane)
  BY <1>7
<1>9. pos[lane] \in Passed(pos, lane, MinBlockCol(pos))
  <2>1. \A q \in pos[lane] .. pos[lane] : q = pos[lane]
    BY <1>3
  <2>. QED
    BY <1>3, <1>8, <2>1 DEF Passed
<1>10. PassedInTurn(pos, MinBlockCol(pos)) # {}
  BY <1>1, <1>3, <1>9 DEF PassedInTurn
<1>11. MinBlockCol(pos) \in 0 .. n - 1
  BY <1>4, <1>8
<1>. HIDE DEF n
<1>. QED
  BY <1>3, <1>4, <1>7, <1>10, <1>11 DEF n

\* A turn passes entries of the block row in its block column; their bits are
\* the bits of the block, and tell row and column.
LEMMA TurnIs ==
  ASSUME IsCsr(effective_csr), NEW br \in 0 .. NumBlockRows - 1,
         NEW pos, Lanes(br, pos), NEW c \in Nat
  PROVE  /\ \A p \in PassedInTurn(pos, c) :
              /\ p \in DOMAIN effective_csr.values /\ p \in Nat
              /\ RowOf(p) \in Rows(br) /\ p \in Passed(pos, RowOf(p), c)
              /\ RowOf(p) \in 0 .. effective_csr.rows - 1
              /\ p \in Positions(effective_csr, RowOf(p))
              /\ Col(p) \in 0 .. effective_csr.cols - 1 /\ Col(p) \div block_cols = c
              /\ BitAt(br, p) \in Bits
              /\ RowOf(p) = br * block_rows + BitAt(br, p) \div block_cols
              /\ Col(p) = c * block_cols + (BitAt(br, p) % block_cols)
         /\ TurnBits(br, pos, c) = {BitAt(br, p) : p \in PassedInTurn(pos, c)}
<1>. DEFINE P == PassedInTurn(pos, c)
<1>1. /\ block_rows \in Nat \ {0} /\ block_cols \in Nat \ {0} /\ effective_csr.cols \in Nat
      /\ DOMAIN pos = Rows(br)
  BY BlockShapeAssumption DEF IsCsr, Lanes
<1>2. PICK first \in Nat, last \in Nat :
        /\ first = br * block_rows /\ last = Smaller(effective_csr.rows, (br + 1) * block_rows)
        /\ first < last /\ last <= effective_csr.rows
        /\ Rows(br) = first .. last - 1
  BY RowsOf
<1>3. NumBlockRows \in Nat /\ br \in Nat
  <2>1. effective_csr.rows \in Nat
    BY DEF IsCsr
  <2>2. NumBlockRows \in Nat
    BY <1>1, <2>1, CeilDivCounts DEF NumBlockRows
  <2>. QED
    BY <2>2
<1>4. last <= first + block_rows
  <2>1. (br + 1) * block_rows = first + block_rows
    BY <1>1, <1>2, <1>3
  <2>2. effective_csr.rows \in Nat
    BY DEF IsCsr
  <2>. QED
    BY <1>1, <1>2, <2>1, <2>2 DEF Smaller
<1>5. ASSUME NEW row \in Rows(br), NEW p \in Passed(pos, row, c)
      PROVE  /\ p \in P
             /\ p \in DOMAIN effective_csr.values /\ p \in Nat
             /\ RowOf(p) = row /\ row \in 0 .. effective_csr.rows - 1
             /\ p \in Positions(effective_csr, row)
             /\ Col(p) \in 0 .. effective_csr.cols - 1 /\ Col(p) \div block_cols = c
             /\ BitAt(br, p) \in Bits
             /\ row = br * block_rows + BitAt(br, p) \div block_cols
             /\ Col(p) = c * block_cols + (BitAt(br, p) % block_cols)
             /\ (row - br * block_rows) * block_cols + Col(p) - c * block_cols = BitAt(br, p)
  <2>1. /\ row \in 0 .. effective_csr.rows - 1 /\ p \in Positions(effective_csr, row)
        /\ Col(p) \div block_cols = c
    BY PassedEntry
  <2>2. /\ RowOf(p) = row /\ p \in DOMAIN effective_csr.values /\ p \in Nat
        /\ Col(p) \in 0 .. effective_csr.cols - 1
    BY <2>1, RowOfPosition
  <2>. DEFINE a == row - first
              x == Col(p) % block_cols
  <2>3. a \in 0 .. block_rows - 1 /\ row = first + a
    BY <1>1, <1>2, <1>4
  <2>4. x \in 0 .. block_cols - 1 /\ c * block_cols + x = Col(p)
    <3>1. Col(p) \in Nat
      BY <1>1, <2>2
    <3>. QED
      BY <1>1, <2>1, <3>1, QuotientAndRest
  <2>5. BitAt(br, p) = a * block_cols + x
    BY <1>2, <2>2 DEF BitAt
  <2>. HIDE DEF a, x
  <2>6. /\ a * block_cols + x \in Nat /\ (a * block_cols + x) \div block_cols = a
        /\ (a * block_cols + x) % block_cols = x
    <3>1. a \in Nat
      BY <1>1, <2>3
    <3>. QED
      BY <1>1, <2>4, <3>1, Coordinates
  <2>7. a * block_cols + x < block_rows * block_cols
    <3>1. a \in Nat /\ a < block_rows
      BY <1>1, <2>3
    <3>2. a * block_cols \in Nat /\ block_rows * block_cols \in Nat
          /\ a * block_cols + block_cols <= block_rows * block_cols
      BY <1>1, <3>1, NextMultiple
    <3>. QED
      BY <1>1, <2>4, <3>2
  <2>8. BitAt(br, p) \in Bits
    <3>1. block_rows * block_cols \in Nat
      BY <1>1
    <3>. QED
      BY <2>5, <2>6, <2>7, <3>1 DEF Bits
  <2>9. (row - br * block_rows) * block_cols + Col(p) - c * block_cols = BitAt(br, p)
    <3>1. row - br * block_rows = a
      BY <1>2, <2>3
    <3>2. a * block_cols \in Int /\ c * block_cols \in Int /\ x \in Int
      BY <1>1, <2>3, <2>4
    <3>3. a * block_cols + Col(p) - c * block_cols = a * block_cols + x
      BY <2>4, <3>2
    <3>. QED
      BY <2>5, <3>1, <3>3
  <2>10. p \in P
    BY <1>1 DEF PassedInTurn
  <2>11. row = br * block_rows + BitAt(br, p) \div block_cols
    BY <1>2, <2>3, <2>5, <2>6
  <2>12. Col(p) = c * block_cols + (BitAt(br, p) % block_cols)
    BY <2>4, <2>5, <2>6
  <2>. QED
    BY <2>1, <2>2, <2>8, <2>9, <2>10, <2>11, <2>12
<1>6. \A p : p \in P <=> \E row \in Rows(br) : p \in Passed(pos, row, c)
  BY <1>1, Zenon DEF PassedInTurn
<1>7. TurnBits(br, pos, c) = {BitAt(br, p) : p \in P}
  <2>1. TurnBits(br, pos, c) =
          UNION {{(row - br * block_rows) * block_cols + Col(p) - c * block_cols :
                    p \in Passed(pos, row, c)} : row \in Rows(br)}
    BY <1>1 DEF TurnBits
  <2>2. ASSUME NEW row \in Rows(br), NEW p \in Passed(pos, row, c)
        PROVE  (row - br * block_rows) * block_cols + Col(p) - c * block_cols
                 \in {BitAt(br, q) : q \in P}
    <3>1. (row - br * block_rows) * block_cols + Col(p) - c * block_cols = BitAt(br, p)
      BY <1>5
    <3>2. p \in P
      BY <1>5
    <3>. QED
      BY <3>1, <3>2
  <2>3. ASSUME NEW p \in P
        PROVE  \E row \in Rows(br) : \E q \in Passed(pos, row, c) :
                 BitAt(br, p) = (row - br * block_rows) * block_cols + Col(q) - c * block_cols
    <3>1. PICK row \in Rows(br) : p \in Passed(pos, row, c)
      BY <1>6
    <3>2. (row - br * block_rows) * block_cols + Col(p) - c * block_cols = BitAt(br, p)
      BY <1>5, <3>1
    <3>. QED
      BY <3>1, <3>2
  <2>. HIDE DEF P
  <2>. QED
    BY <2>1, <2>2, <2>3
<1>8. ASSUME NEW p \in P
      PROVE  /\ p \in DOMAIN effective_csr.values /\ p \in Nat
             /\ RowOf(p) \in Rows(br) /\ p \in Passed(pos, RowOf(p), c)
             /\ RowOf(p) \in 0 .. effective_csr.rows - 1
             /\ p \in Positions(effective_csr, RowOf(p))
             /\ Col(p) \in 0 .. effective_csr.cols - 1 /\ Col(p) \div block_cols = c
             /\ BitAt(br, p) \in Bits
             /\ RowOf(p) = br * block_rows + BitAt(br, p) \div block_cols
             /\ Col(p) = c * block_cols + (BitAt(br, p) % block_cols)
  <2>1. PICK row \in Rows(br) : p \in Passed(pos, row, c)
    BY <1>6
  <2>2. RowOf(p) = row
    BY <1>5, <2>1
  <2>. QED
    BY <1>5, <2>1, <2>2
<1>. QED
  BY <1>7, <1>8

\* A lane's values go behind those of the lanes before it: a value's cell is
\* told by how many entries of the turn come before its own.
LEMMA OffsetIsRank ==
  ASSUME IsCsr(effective_csr), NEW br \in 0 .. NumBlockRows - 1,
         NEW pos, Lanes(br, pos), NEW c,
         NEW row \in Rows(br), NEW p \in Passed(pos, row, c)
  PROVE  LaneOffset(pos, c, row) + (p - pos[row]) = Below(PassedInTurn(pos, c), p)
<1>. DEFINE next == AfterTurn(pos, c)
            rp(r) == effective_csr.row_ptr[r]
            P == PassedInTurn(pos, c)
            before == PassedBefore(pos, c, row)
            mine == pos[row] .. p - 1
<1>1. PICK first \in Nat, last \in Nat :
        /\ last <= effective_csr.rows /\ Rows(br) = first .. last - 1
        /\ \A i, j \in 0 .. effective_csr.rows : i <= j => rp(i) <= rp(j)
        /\ \A i \in 0 .. effective_csr.rows : rp(i) \in Nat
  BY RowsOf
<1>2. DOMAIN pos = Rows(br)
  BY DEF Lanes
<1>3. \A r \in Rows(br) :
        /\ pos[r] \in Nat /\ rp(r) <= pos[r] /\ pos[r] <= rp(r + 1)
        /\ next[r] \in Nat /\ pos[r] <= next[r] /\ next[r] <= rp(r + 1)
        /\ Passed(pos, r, c) = pos[r] .. next[r] - 1
  BY LanePasses DEF Lanes
<1>4. \A r \in Rows(br) :
        /\ r \in 0 .. effective_csr.rows /\ r + 1 \in 0 .. effective_csr.rows /\ r \in Int
        /\ rp(r) \in Nat /\ rp(r + 1) \in Nat
  <2>1. \A r \in Rows(br) : r \in 0 .. effective_csr.rows /\ r + 1 \in 0 .. effective_csr.rows
    BY <1>1 DEF IsCsr
  <2>. QED
    BY <1>1, <2>1
<1>5. \A q : q \in P <=> \E r \in Rows(br) : q \in Passed(pos, r, c)
  BY <1>2, Zenon DEF PassedInTurn
<1>6. \A q : q \in before <=> \E r \in Rows(br) : r < row /\ q \in Passed(pos, r, c)
  BY <1>2, Zenon DEF PassedBefore
<1>. HIDE DEF next, rp, P, before
<1>7. p \in Int /\ pos[row] <= p /\ p < next[row]
  BY <1>3
<1>8. ASSUME NEW q \in before PROVE q \in P /\ q \in Int /\ q < pos[row]
  <2>1. PICK r \in Rows(br) : r < row /\ q \in Passed(pos, r, c)
    BY <1>6
  <2>2. q \in Int /\ q < next[r] /\ next[r] \in Nat /\ next[r] <= rp(r + 1)
    BY <1>3, <2>1
  <2>3. r + 1 <= row
    BY <1>4, <2>1
  <2>4. rp(r + 1) <= rp(row)
    BY <1>1, <1>4, <2>3
  <2>5. rp(row) <= pos[row] /\ pos[row] \in Nat /\ rp(row) \in Nat /\ rp(r + 1) \in Nat
    BY <1>3, <1>4
  <2>. QED
    BY <1>5, <2>1, <2>2, <2>4, <2>5
<1>9. ASSUME NEW q \in P, q < p PROVE q \in before \cup mine
  <2>1. PICK r \in Rows(br) : q \in Passed(pos, r, c)
    BY <1>5
  <2>2. CASE r < row
    BY <1>6, <2>1, <2>2
  <2>3. CASE r = row
    BY <1>3, <1>7, <1>9, <2>1, <2>3
  <2>4. CASE row < r
    <3>1. q \in Int /\ pos[r] <= q
      BY <1>3, <2>1
    <3>2. row + 1 <= r
      BY <1>4, <2>4
    <3>3. rp(row + 1) <= rp(r)
      BY <1>1, <1>4, <3>2
    <3>4. /\ rp(r) <= pos[r] /\ pos[r] \in Nat /\ rp(r) \in Nat /\ rp(row + 1) \in Nat
          /\ next[row] <= rp(row + 1) /\ next[row] \in Nat
      BY <1>3, <1>4
    <3>. QED
      BY <1>7, <1>9, <3>1, <3>3, <3>4
  <2>. QED
    BY <1>4, <2>2, <2>3, <2>4
<1>10. ASSUME NEW q \in mine PROVE q \in P /\ q \in Int /\ q < p /\ pos[row] <= q
  <2>1. q \in Int /\ q < p /\ pos[row] <= q
    BY <1>3, <1>7
  <2>2. q \in pos[row] .. next[row] - 1
    BY <1>3, <1>7, <2>1
  <2>. QED
    BY <1>3, <1>5, <2>1, <2>2
<1>11. {q \in P : q < p} = before \cup mine
  <2>1. \A q \in before : q < p
    <3>1. \A q \in before : q \in Int /\ q < pos[row]
      BY <1>8
    <3>2. pos[row] \in Int
      BY <1>3
    <3>. QED
      BY <1>7, <3>1, <3>2
  <2>. QED
    BY <1>8, <1>9, <1>10, <2>1
<1>12. before \cap mine = {}
  <2>1. pos[row] \in Int
    BY <1>3
  <2>. HIDE DEF mine
  <2>. QED
    BY <1>8, <1>10, <2>1
<1>13. IsFiniteSet(before) /\ Cardinality(before) \in Nat
  <2>1. P \subseteq Behind(next) /\ IsFiniteSet(Behind(next))
    <3>1. Lanes(br, next) /\ Behind(next) = Behind(pos) \cup P
      BY LanesTurn DEF next, P
    <3>2. IsFiniteSet(Behind(next))
      BY <3>1, BehindCounts
    <3>. QED
      BY <3>1, <3>2
  <2>2. before \in SUBSET Behind(next)
    BY <1>8, <2>1
  <2>. QED
    BY <2>1, <2>2, FS_Subset, FS_CardinalityType
<1>14. IsFiniteSet(mine) /\ Cardinality(mine) = p - pos[row]
  <2>1. pos[row] \in Int /\ p - pos[row] \in Nat /\ pos[row] + (p - pos[row]) - 1 = p - 1
    BY <1>3, <1>7
  <2>2. /\ IsFiniteSet(pos[row] .. pos[row] + (p - pos[row]) - 1)
        /\ Cardinality(pos[row] .. pos[row] + (p - pos[row]) - 1) = p - pos[row]
    BY <2>1, IntervalIs, Zenon
  <2>. QED
    BY <2>1, <2>2
<1>15. Cardinality(before \cup mine) = Cardinality(before) + Cardinality(mine) - Cardinality({})
  <2>. HIDE DEF mine
  <2>. QED
    BY <1>12, <1>13, <1>14, FS_Union
<1>16. Cardinality(before \cup mine) = Cardinality(before) + (p - pos[row])
  <2>1. pos[row] \in Int /\ p - pos[row] \in Int
    BY <1>3, <1>7
  <2>. HIDE DEF mine
  <2>. QED
    BY <1>13, <1>14, <1>15, <2>1, FS_EmptySet
<1>. QED
  BY <1>11, <1>16 DEF LaneOffset, Below, before, P

\* The values that a turn writes, each at its rank among them.
LEMMA WrittenIs ==
  ASSUME IsCsr(effective_csr), NEW br \in 0 .. NumBlockRows - 1,
         NEW w, Lanes(br, w.pos), NEW c \in Nat, w.value_pos \in Nat
  PROVE  Written(w, c) =
           {<<w.value_pos + Below(PassedInTurn(w.pos, c), p), effective_csr.values[p]>> :
              p \in PassedInTurn(w.pos, c)}
<1>. DEFINE P == PassedInTurn(w.pos, c)
            V(p) == <<w.value_pos + Below(P, p), effective_csr.values[p]>>
<1>1. DOMAIN w.pos = Rows(br)
  BY DEF Lanes
<1>2. \A p : p \in P <=> \E row \in Rows(br) : p \in Passed(w.pos, row, c)
  BY <1>1, Zenon DEF PassedInTurn
<1>3. ASSUME NEW row \in Rows(br), NEW p \in Passed(w.pos, row, c)
      PROVE  Target(w, c, row, p) = w.value_pos + Below(P, p)
  <2>1. LaneOffset(w.pos, c, row) + (p - w.pos[row]) = Below(P, p)
    BY OffsetIsRank
  <2>2. w.pos[row] \in Nat /\ p \in Int
    <3>1. /\ w.pos[row] \in Nat /\ AfterTurn(w.pos, c)[row] \in Nat
          /\ Passed(w.pos, row, c) = w.pos[row] .. AfterTurn(w.pos, c)[row] - 1
      BY LanePasses DEF Lanes
    <3>. QED
      BY <3>1
  <2>3. PassedBefore(w.pos, c, row) \subseteq P
    BY <1>1, <1>2, Zenon DEF PassedBefore
  <2>4. IsFiniteSet(PassedBefore(w.pos, c, row))
    <3>1. Lanes(br, AfterTurn(w.pos, c)) /\ Behind(AfterTurn(w.pos, c)) = Behind(w.pos) \cup P
      BY LanesTurn
    <3>2. IsFiniteSet(Behind(AfterTurn(w.pos, c)))
      BY <3>1, BehindCounts
    <3>3. PassedBefore(w.pos, c, row) \in SUBSET Behind(AfterTurn(w.pos, c))
      BY <2>3, <3>1
    <3>. QED
      BY <3>2, <3>3, FS_Subset
  <2>5. LaneOffset(w.pos, c, row) \in Nat
    BY <2>4, FS_CardinalityType DEF LaneOffset
  <2>. HIDE DEF P
  <2>. QED
    BY <2>1, <2>2, <2>5 DEF Target
<1>4. Written(w, c) = UNION {{<<Target(w, c, row, p), effective_csr.values[p]>> :
                                p \in Passed(w.pos, row, c)} : row \in Rows(br)}
  BY <1>1 DEF Written
<1>5. \A v : v \in Written(w, c) <=>
        \E row \in Rows(br) : \E p \in Passed(w.pos, row, c) :
          v = <<Target(w, c, row, p), effective_csr.values[p]>>
  <2>. DEFINE F(row) == {<<Target(w, c, row, p), effective_csr.values[p]>> :
                            p \in Passed(w.pos, row, c)}
  <2>1. \A v : v \in Written(w, c) <=> \E row \in Rows(br) : v \in F(row)
    <3>1. Written(w, c) = UNION {F(row) : row \in Rows(br)}
      BY <1>4
    <3>. HIDE DEF F
    <3>. QED
      BY <3>1, Zenon
  <2>2. \A v, row : v \in F(row) <=> \E p \in Passed(w.pos, row, c) :
                      v = <<Target(w, c, row, p), effective_csr.values[p]>>
    OBVIOUS
  <2>. HIDE DEF F
  <2>. QED
    BY <2>1, <2>2
<1>. HIDE DEF P
<1>6. ASSUME NEW v \in Written(w, c) PROVE v \in {V(p) : p \in P}
  <2>1. PICK row \in Rows(br) : \E p \in Passed(w.pos, row, c) :
          v = <<Target(w, c, row, p), effective_csr.values[p]>>
    BY <1>5
  <2>2. PICK p \in Passed(w.pos, row, c) :
          v = <<Target(w, c, row, p), effective_csr.values[p]>>
    BY <2>1
  <2>3. v = V(p) /\ p \in P
    BY <1>2, <1>3, <2>2
  <2>. QED
    BY <2>3
<1>7. ASSUME NEW p \in P PROVE V(p) \in Written(w, c)
  <2>1. PICK row \in Rows(br) : p \in Passed(w.pos, row, c)
    BY <1>2
  <2>2. V(p) = <<Target(w, c, row, p), effective_csr.values[p]>>
    BY <1>3, <2>1
  <2>. QED
    BY <1>5, <2>1, <2>2
<1>8. Written(w, c) = {V(p) : p \in P}
  <2>. HIDE DEF V
  <2>. QED
    BY <1>6, <1>7
<1>. QED
  BY <1>8 DEF P

-----------------------------------------------------------------------------
(* Walks. *)

Turn(pos) == AfterTurn(pos, MinBlockCol(pos))

\* The entries a turn passes, and the cells their values go to.
Turned(pos) == PassedInTurn(pos, MinBlockCol(pos))

Cell(br, pos, p) == ValueStart(br) + Cardinality(Behind(pos)) + Below(Turned(pos), p)

\* n turns of the warp of a block row, and where its lanes stand between them.
IsWalk(br, walk, n) ==
  /\ DOMAIN walk = 0 .. n
  /\ walk[0] = LaneStart(br)
  /\ \A k \in 0 .. n - 1 : AtWork(walk[k]) # {} /\ walk[k + 1] = Turn(walk[k])

\* The walk of a warp that has nothing left to do.
IsWholeWalk(br, walk, n) == IsWalk(br, walk, n) /\ AtWork(walk[n]) = {}

LEMMA WalkBegins ==
  ASSUME NEW br
  PROVE  IsWalk(br, [k \in 0 .. 0 |-> LaneStart(br)], 0)
<1>. DEFINE walk == [k \in 0 .. 0 |-> LaneStart(br)]
<1>1. DOMAIN walk = 0 .. 0 /\ walk[0] = LaneStart(br) /\ 0 .. 0 - 1 = {}
  OBVIOUS
<1>. QED
  BY <1>1, Zenon DEF IsWalk

LEMMA WalkGoesOn ==
  ASSUME NEW br, NEW n \in Nat, NEW walk, IsWalk(br, walk, n), AtWork(walk[n]) # {}
  PROVE  \E longer : IsWalk(br, longer, n + 1) /\ longer[n + 1] = Turn(walk[n])
<1>. DEFINE longer == [k \in 0 .. n + 1 |-> IF k <= n THEN walk[k] ELSE Turn(walk[n])]
<1>1. /\ walk[0] = LaneStart(br)
      /\ \A k \in 0 .. n - 1 : AtWork(walk[k]) # {} /\ walk[k + 1] = Turn(walk[k])
  BY DEF IsWalk
<1>2. /\ DOMAIN longer = 0 .. n + 1 /\ longer[n + 1] = Turn(walk[n])
      /\ \A k \in 0 .. n : longer[k] = walk[k]
  OBVIOUS
<1>. HIDE DEF longer
<1>3. longer[0] = LaneStart(br)
  BY <1>1, <1>2
<1>4. ASSUME NEW k \in 0 .. n PROVE AtWork(longer[k]) # {} /\ longer[k + 1] = Turn(longer[k])
  <2>1. CASE k = n
    BY <1>2, <2>1
  <2>2. CASE k # n
    <3>1. k \in 0 .. n - 1 /\ k + 1 \in 0 .. n
      BY <2>2
    <3>. QED
      BY <1>1, <1>2, <3>1
  <2>. QED
    BY <2>1, <2>2
<1>5. IsWalk(br, longer, n + 1)
  <2>1. (n + 1) - 1 = n
    OBVIOUS
  <2>. QED
    BY <1>2, <1>3, <1>4, <2>1 DEF IsWalk
<1>. QED
  BY <1>2, <1>5

\* On a walk the lanes stay in their rows.
LEMMA WalkLanes ==
  ASSUME IsCsr(effective_csr), NEW br \in 0 .. NumBlockRows - 1,
         NEW n \in Nat, NEW walk, IsWalk(br, walk, n)
  PROVE  \A k \in 0 .. n : Lanes(br, walk[k])
<1>. DEFINE T == {k \in 0 .. n : ~Lanes(br, walk[k])}
<1>1. SUFFICES ASSUME T # {} PROVE FALSE
  OBVIOUS
<1>2. T \subseteq Nat
  OBVIOUS
<1>3. PICK k \in T : \A l \in T : k <= l
  <2>. HIDE DEF T
  <2>. QED
    BY <1>1, <1>2, LeastNatural
<1>4. k # 0
  BY <1>3, LanesStart DEF IsWalk
<1>5. k - 1 \in 0 .. n /\ k - 1 \in 0 .. n - 1 /\ k - 1 \notin T /\ (k - 1) + 1 = k
  BY <1>3, <1>4
<1>6. Lanes(br, walk[k - 1]) /\ walk[k] = Turn(walk[k - 1])
  BY <1>5 DEF IsWalk
<1>. QED
  BY <1>3, <1>6, LanesTurn DEF Turn

\* The entries of the turns of a walk are counted one turn after the other.
LEMMA WalkCounts ==
  ASSUME IsCsr(effective_csr), NEW br \in 0 .. NumBlockRows - 1,
         NEW n \in Nat, NEW walk, IsWalk(br, walk, n)
  PROVE  /\ \A k \in 0 .. n : Cardinality(Behind(walk[k])) \in Nat
         /\ Cardinality(Behind(walk[0])) = 0
         /\ \A k \in 0 .. n - 1 : LET P == Turned(walk[k]) IN
              /\ IsFiniteSet(P) /\ Cardinality(P) \in Nat
              /\ P \cap Behind(walk[k]) = {} /\ Behind(walk[k + 1]) = Behind(walk[k]) \cup P
              /\ Cardinality(Behind(walk[k + 1])) = Cardinality(Behind(walk[k])) + Cardinality(P)
         /\ \A i, j \in 0 .. n :
              i <= j => Cardinality(Behind(walk[i])) <= Cardinality(Behind(walk[j]))
<1>. DEFINE f == [k \in 0 .. n |-> Cardinality(Behind(walk[k]))]
            P(k) == Turned(walk[k])
<1>1. \A k \in 0 .. n : Lanes(br, walk[k])
  BY WalkLanes
<1>2. \A k \in 0 .. n : IsFiniteSet(Behind(walk[k])) /\ Cardinality(Behind(walk[k])) \in Nat
  BY <1>1, BehindCounts
<1>3. Cardinality(Behind(walk[0])) = 0
  <2>1. walk[0] = LaneStart(br)
    BY DEF IsWalk
  <2>. QED
    BY <2>1, LanesStart, FS_EmptySet
<1>4. ASSUME NEW k \in 0 .. n - 1
      PROVE  /\ IsFiniteSet(P(k)) /\ Cardinality(P(k)) \in Nat
             /\ P(k) \cap Behind(walk[k]) = {} /\ Behind(walk[k + 1]) = Behind(walk[k]) \cup P(k)
             /\ Cardinality(Behind(walk[k + 1])) = Cardinality(Behind(walk[k])) + Cardinality(P(k))
  <2>1. k \in 0 .. n /\ k + 1 \in 0 .. n
    OBVIOUS
  <2>2. walk[k + 1] = AfterTurn(walk[k], MinBlockCol(walk[k]))
    BY DEF IsWalk, Turn
  <2>3. /\ Behind(walk[k + 1]) = Behind(walk[k]) \cup P(k)
        /\ Behind(walk[k]) \cap P(k) = {}
    BY <1>1, <2>1, <2>2, LanesTurn DEF Turned
  <2>. HIDE DEF P
  <2>4. P(k) \in SUBSET Behind(walk[k + 1])
    BY <2>3
  <2>5. IsFiniteSet(P(k)) /\ Cardinality(P(k)) \in Nat
    BY <1>2, <2>1, <2>4, FS_Subset, FS_CardinalityType
  <2>6. Cardinality(Behind(walk[k]) \cup P(k))
          = Cardinality(Behind(walk[k])) + Cardinality(P(k)) - Cardinality({})
    BY <1>2, <2>1, <2>3, <2>5, FS_Union
  <2>7. Cardinality(Behind(walk[k + 1])) = Cardinality(Behind(walk[k])) + Cardinality(P(k))
    BY <1>2, <2>1, <2>3, <2>5, <2>6, FS_EmptySet
  <2>. QED
    BY <2>3, <2>5, <2>7
<1>. HIDE DEF P
<1>5. \A i, j \in 0 .. n : i <= j => f[i] <= f[j]
  <2>1. f \in [0 .. n -> Int] /\ \A k \in 0 .. n : f[k] = Cardinality(Behind(walk[k]))
    BY <1>2
  <2>2. \A k \in 0 .. n - 1 : f[k] <= f[k + 1]
    <3>1. \A k \in 0 .. n - 1 : k \in 0 .. n /\ k + 1 \in 0 .. n
      OBVIOUS
    <3>2. \A k \in 0 .. n - 1 : f[k] = Cardinality(Behind(walk[k]))
                              /\ f[k + 1] = Cardinality(Behind(walk[k + 1]))
      BY <2>1, <3>1
    <3>. HIDE DEF f
    <3>. QED
      BY <1>2, <1>4, <3>1, <3>2
  <2>. HIDE DEF f
  <2>. QED
    BY <2>1, <2>2, StepwiseMonotone
<1>6. \A i, j \in 0 .. n :
        i <= j => Cardinality(Behind(walk[i])) <= Cardinality(Behind(walk[j]))
  BY <1>5
<1>. QED
  BY <1>2, <1>3, <1>4, <1>6 DEF P

\* The cells of the values of a turn lie behind those of the turns before it,
\* in the block row's part of the values.
LEMMA CellsOfTurn ==
  ASSUME IsCsr(effective_csr), NEW br \in 0 .. NumBlockRows - 1,
         NEW n \in Nat, NEW walk, IsWalk(br, walk, n), NEW k \in 0 .. n - 1,
         NEW p \in Turned(walk[k])
  PROVE  LET P == Turned(walk[k])
             cell == ValueStart(br) + Cardinality(Behind(walk[k])) + Below(P, p)
         IN  /\ Below(P, p) \in 0 .. Cardinality(P) - 1
             /\ cell \in Nat /\ ValueStart(br) <= cell
             /\ ValueStart(br) + Cardinality(Behind(walk[k])) <= cell
             /\ cell < ValueStart(br) + Cardinality(Behind(walk[k + 1]))
             /\ cell < EntriesEnd(br)
<1>. DEFINE P == Turned(walk[k])
            b == Cardinality(Behind(walk[k]))
            next == Cardinality(Behind(walk[k + 1]))
<1>1. k \in 0 .. n /\ k + 1 \in 0 .. n
  OBVIOUS
<1>2. Lanes(br, walk[k]) /\ Lanes(br, walk[k + 1])
  BY <1>1, WalkLanes
<1>3. /\ ValueStart(br) \in Nat /\ EntriesEnd(br) \in Nat /\ b \in Nat /\ next \in Nat
      /\ ValueStart(br) + next <= EntriesEnd(br)
  BY <1>2, BehindCounts
<1>4. IsFiniteSet(P) /\ Cardinality(P) \in Nat /\ next = b + Cardinality(P)
  BY WalkCounts
<1>5. P \subseteq Int
  <2>1. ASSUME NEW row \in Rows(br)
        PROVE  Passed(walk[k], row, MinBlockCol(walk[k])) \subseteq Int
    <3>. DEFINE first == walk[k][row]
                last == AfterTurn(walk[k], MinBlockCol(walk[k]))[row]
    <3>1. Passed(walk[k], row, MinBlockCol(walk[k])) = first .. last - 1
      BY <1>2, LanePasses
    <3>2. first \in Nat /\ last \in Nat
      BY <1>2, LanePasses DEF Lanes
    <3>. HIDE DEF first, last
    <3>. QED
      BY <3>1, <3>2
  <2>2. DOMAIN walk[k] = Rows(br)
    BY <1>2 DEF Lanes
  <2>. QED
    BY <2>1, <2>2, Zenon DEF PassedInTurn, Turned
<1>6. Below(P, p) \in 0 .. Cardinality(P) - 1
  <2>. HIDE DEF P
  <2>1. p \in P
    BY DEF P
  <2>. QED
    BY <1>4, <1>5, <2>1, Ranks
<1>. HIDE DEF P, b, next
<1>. QED
  BY <1>3, <1>4, <1>6 DEF P, b, next

\* The values of the block rows follow each other.
LEMMA EntriesFollow ==
  ASSUME IsCsr(effective_csr), NEW a \in 0 .. NumBlockRows - 1, NEW b \in 0 .. NumBlockRows - 1
  PROVE  /\ a < b => EntriesEnd(a) <= ValueStart(b)
         /\ EntriesEnd(a) <= size(effective_csr.values)
         /\ ValueStart(a) \in Nat /\ EntriesEnd(a) \in Nat /\ ValueStart(a) <= EntriesEnd(a)
         /\ size(effective_csr.values) \in Nat
         /\ DOMAIN effective_csr.values = 0 .. size(effective_csr.values) - 1
<1>1. PICK fa \in Nat, la \in Nat :
        /\ la = Smaller(effective_csr.rows, (a + 1) * block_rows)
        /\ fa < la /\ la <= effective_csr.rows
        /\ ValueStart(a) = effective_csr.row_ptr[fa]
        /\ EntriesEnd(a) = effective_csr.row_ptr[la]
        /\ \A i, j \in 0 .. effective_csr.rows :
             i <= j => effective_csr.row_ptr[i] <= effective_csr.row_ptr[j]
        /\ \A i \in 0 .. effective_csr.rows : effective_csr.row_ptr[i] \in Nat
  BY RowsOf
<1>2. PICK fb \in Nat, lb \in Nat :
        /\ fb = b * block_rows /\ fb < lb /\ lb <= effective_csr.rows
        /\ ValueStart(b) = effective_csr.row_ptr[fb]
  BY RowsOf
<1>3. /\ effective_csr.rows \in Nat /\ block_rows \in Nat \ {0}
      /\ DOMAIN effective_csr.values = 0 .. effective_csr.row_ptr[effective_csr.rows] - 1
  BY BlockShapeAssumption DEF IsCsr
<1>4. a \in Nat /\ b \in Nat
  <2>1. NumBlockRows \in Nat
    BY <1>3, CeilDivCounts DEF NumBlockRows
  <2>. QED
    BY <2>1
<1>5. effective_csr.rows \in 0 .. effective_csr.rows
      /\ fa \in 0 .. effective_csr.rows /\ la \in 0 .. effective_csr.rows
      /\ fb \in 0 .. effective_csr.rows /\ fa <= la /\ la <= effective_csr.rows
  BY <1>1, <1>2, <1>3
<1>6. /\ effective_csr.row_ptr[fa] <= effective_csr.row_ptr[la]
      /\ effective_csr.row_ptr[la] <= effective_csr.row_ptr[effective_csr.rows]
      /\ effective_csr.row_ptr[effective_csr.rows] \in Nat
      /\ effective_csr.row_ptr[fa] \in Nat /\ effective_csr.row_ptr[la] \in Nat
  BY <1>1, <1>5
<1>7. size(effective_csr.values) = effective_csr.row_ptr[effective_csr.rows]
  <2>. DEFINE m == effective_csr.row_ptr[effective_csr.rows]
  <2>1. 0 \in Int /\ m \in Nat /\ 0 + m - 1 = m - 1
    BY <1>6
  <2>2. Cardinality(0 .. 0 + m - 1) = m
    BY <2>1, IntervalIs, Zenon
  <2>. QED
    BY <1>3, <2>1, <2>2 DEF size
<1>8. ASSUME a < b PROVE EntriesEnd(a) <= ValueStart(b)
  <2>1. (a + 1) * block_rows <= b * block_rows /\ (a + 1) * block_rows \in Nat
    <3>1. a * block_rows \in Nat /\ a * block_rows + block_rows <= b * block_rows
      BY <1>3, <1>4, <1>8, NextMultiple
    <3>2. (a + 1) * block_rows = a * block_rows + block_rows
      BY <1>3, <1>4
    <3>. QED
      BY <1>3, <3>1, <3>2
  <2>. DEFINE m == (a + 1) * block_rows
  <2>2. la <= fb
    <3>1. la = Smaller(effective_csr.rows, m) /\ m <= fb /\ m \in Nat
      BY <1>1, <1>2, <2>1
    <3>. HIDE DEF m
    <3>2. la <= m
      BY <1>3, <3>1 DEF Smaller
    <3>. QED
      BY <3>1, <3>2
  <2>. QED
    BY <1>1, <1>2, <1>5, <2>2
<1>. QED
  BY <1>1, <1>3, <1>6, <1>7, <1>8

\* A warp's walk does not depend on what the warps write.
LEMMA WalkStays ==
  ASSUME UNCHANGED effective_csr
  PROVE  /\ NumBlockRows' = NumBlockRows
         /\ \A pos : AtWork(pos)' = AtWork(pos)
         /\ \A br, walk, n : IsWalk(br, walk, n)' <=> IsWalk(br, walk, n)
         /\ \A br, walk, n : IsWholeWalk(br, walk, n)' <=> IsWholeWalk(br, walk, n)
         /\ \A pos : Behind(pos)' = Behind(pos) /\ MinBlockCol(pos)' = MinBlockCol(pos)
         /\ \A br : /\ LaneStart(br)' = LaneStart(br) /\ ValueStart(br)' = ValueStart(br)
                    /\ EntriesEnd(br)' = EntriesEnd(br)
         /\ \A pos : Turned(pos)' = Turned(pos)
         /\ \A br, pos, c : TurnBits(br, pos, c)' = TurnBits(br, pos, c)
         /\ \A br, pos, p : Cell(br, pos, p)' = Cell(br, pos, p)
<1>1. NumBlockRows' = NumBlockRows
  BY DEF NumBlockRows
<1>2. \A pos : AtWork(pos)' = AtWork(pos)
  BY DEF AtWork
<1>3. \A pos : MinBlockCol(pos)' = MinBlockCol(pos)
  BY <1>2 DEF MinBlockCol, Col
<1>4. \A pos, row, c : Passed(pos, row, c)' = Passed(pos, row, c)
  BY DEF Passed, Col
<1>5. \A pos, c : AfterTurn(pos, c)' = AfterTurn(pos, c)
  BY <1>4 DEF AfterTurn
<1>6. \A pos : Turn(pos)' = Turn(pos)
  BY <1>3, <1>5 DEF Turn
<1>7. \A br : /\ LaneStart(br)' = LaneStart(br) /\ ValueStart(br)' = ValueStart(br)
              /\ EntriesEnd(br)' = EntriesEnd(br)
  BY DEF LaneStart, Rows, BlockRowRows, ValueStart, EntriesEnd
<1>8. \A br, walk, n : IsWalk(br, walk, n)' <=> IsWalk(br, walk, n)
  BY <1>2, <1>6, <1>7 DEF IsWalk
<1>9. \A br, walk, n : IsWholeWalk(br, walk, n)' <=> IsWholeWalk(br, walk, n)
  BY <1>2, <1>8 DEF IsWholeWalk
<1>10. \A pos : Behind(pos)' = Behind(pos)
  BY DEF Behind
<1>11. \A pos : Turned(pos)' = Turned(pos)
  BY <1>3, <1>4 DEF Turned, PassedInTurn
<1>12. \A br, pos, c : TurnBits(br, pos, c)' = TurnBits(br, pos, c)
  BY <1>4 DEF TurnBits, Col
<1>13. \A br, pos, p : Cell(br, pos, p)' = Cell(br, pos, p)
  BY <1>7, <1>10, <1>11 DEF Cell
<1>. QED
  BY <1>1, <1>2, <1>3, <1>7, <1>8, <1>9, <1>10, <1>11, <1>12, <1>13

-----------------------------------------------------------------------------
(* The inductive invariant. *)

DeviceFields ==
  {"rows", "cols", "num_block_rows", "num_block_cols", "num_blocks", "nnz",
   "block_row_ptr", "block_row_val_ptr", "block_col_idx", "bitmap_words", "values"}

IsDevice(d) == DOMAIN d = DeviceFields /\ d = [f \in DeviceFields |-> d[f]]

\* The upload is a matrix, the device has its shape, and so has a kernel.
ShapeInv ==
  /\ csr \in CsrMatrices /\ IsCsr(effective_csr)
  /\ IsDevice(device)
  /\ pc # "idle" =>
       /\ effective_csr = Uploaded(csr)
       /\ device.rows = effective_csr.rows /\ device.cols = effective_csr.cols
       /\ device.num_block_rows = NumBlockRows
       /\ device.num_block_cols = ceil_div(effective_csr.cols, block_cols)
       /\ device.nnz = size(effective_csr.values)
       /\ DOMAIN device.values = 0 .. size(effective_csr.values) - 1
  /\ pc \in {"count", "fill"} => DOMAIN warp = BlockRows /\ left \subseteq BlockRows
  /\ pc = "count" => block_counts = [br \in BlockRows |-> block_counts[br]]

\* A counting warp has made as many turns as it has counted blocks; what a
\* warp that is over has left in the workspace is the length of its walk.
Counting(br) ==
  \E n \in Nat : \E walk :
    IsWalk(br, walk, n) /\ warp[br].count = n /\ warp[br].pos = walk[n]

Counted(br) == \E n \in Nat : \E walk : IsWholeWalk(br, walk, n) /\ block_counts[br] = n

CountInv ==
  pc = "count" =>
    \A br \in 0 .. NumBlockRows - 1 : Counting(br) /\ (br \notin left => Counted(br))

\* The arrays of blocks have room for what was counted.
LayoutInv ==
  pc \in {"fill", "done"} =>
    /\ device.block_row_ptr \in [0 .. NumBlockRows -> Nat] /\ device.block_row_ptr[0] = 0
    /\ device.num_blocks = device.block_row_ptr[NumBlockRows]
    /\ DOMAIN device.block_col_idx = 0 .. device.num_blocks - 1
    /\ DOMAIN device.bitmap_words = 0 .. device.num_blocks - 1
    /\ device.block_row_val_ptr =
         [k \in 0 .. NumBlockRows |->
            effective_csr.row_ptr[Smaller(effective_csr.rows, k * block_rows)]]

\* Block b is what a turn from these positions writes.
BlockWritten(br, pos, b) ==
  /\ device.block_col_idx[b] = MinBlockCol(pos)
  /\ device.bitmap_words[b] = TurnBits(br, pos, MinBlockCol(pos))
  /\ \A p \in Turned(pos) : device.values[Cell(br, pos, p)] = effective_csr.values[p]

\* The block row has room for the n blocks of its whole walk, and the first k
\* are written.
RowWritten(br, n, walk, k) ==
  /\ IsWholeWalk(br, walk, n)
  /\ device.block_row_ptr[br] \in Nat
  /\ device.block_row_ptr[br + 1] = device.block_row_ptr[br] + n
  /\ \A j \in 0 .. k - 1 : BlockWritten(br, walk[j], device.block_row_ptr[br] + j)

\* A filling warp is on the walk that was counted: its next block is as far
\* behind the row's first as it has made turns, its next value as it has
\* passed entries.
FillingAt(br, n, walk, k) ==
  /\ RowWritten(br, n, walk, k)
  /\ warp[br].pos = walk[k]
  /\ warp[br].block_id = device.block_row_ptr[br] + k
  /\ warp[br].value_pos = ValueStart(br) + Cardinality(Behind(walk[k]))
  /\ br \notin left => k = n

Filling(br) == \E n \in Nat : \E walk : \E k \in 0 .. n : FillingAt(br, n, walk, k)

Filled(br) == \E n \in Nat : \E walk : RowWritten(br, n, walk, n)

FillInv ==
  /\ pc = "fill" => \A br \in 0 .. NumBlockRows - 1 : Filling(br)
  /\ pc = "done" => \A br \in 0 .. NumBlockRows - 1 : Filled(br)

IInv == ShapeInv /\ CountInv /\ LayoutInv /\ FillInv

LEMMA InitInv == Init => IInv
<1>1. IsDevice(EmptyDevice)
  BY DEF IsDevice, EmptyDevice, DeviceFields
<1>. QED
  BY <1>1, CsrAssumption DEF Init, IInv, ShapeInv, CountInv, LayoutInv, FillInv

\* A matrix without entries: no lane ever is at work.
LEMMA NoEntries ==
  IsCsr(effective_csr) /\ size(effective_csr.values) = 0 =>
    /\ NumBlockRows \in Nat
    /\ \A i \in 0 .. effective_csr.rows : effective_csr.row_ptr[i] = 0
    /\ \A br \in 0 .. NumBlockRows - 1 : \E walk : IsWholeWalk(br, walk, 0)
<1>. SUFFICES ASSUME IsCsr(effective_csr), size(effective_csr.values) = 0
              PROVE  /\ NumBlockRows \in Nat
                     /\ \A i \in 0 .. effective_csr.rows : effective_csr.row_ptr[i] = 0
                     /\ \A br \in 0 .. NumBlockRows - 1 : \E walk : IsWholeWalk(br, walk, 0)
  OBVIOUS
<1>1. /\ effective_csr.rows \in Nat /\ block_rows \in Nat \ {0}
      /\ effective_csr.row_ptr \in [0 .. effective_csr.rows -> Nat]
      /\ \A r \in 0 .. effective_csr.rows - 1 :
           effective_csr.row_ptr[r] <= effective_csr.row_ptr[r + 1]
      /\ DOMAIN effective_csr.values = 0 .. effective_csr.row_ptr[effective_csr.rows] - 1
  BY BlockShapeAssumption DEF IsCsr
<1>2. effective_csr.row_ptr[effective_csr.rows] = 0
  <2>. DEFINE m == effective_csr.row_ptr[effective_csr.rows]
  <2>1. 0 \in Int /\ m \in Nat /\ 0 + m - 1 = m - 1
    BY <1>1
  <2>2. Cardinality(0 .. 0 + m - 1) = m
    BY <2>1, IntervalIs, Zenon
  <2>. QED
    BY <1>1, <2>1, <2>2 DEF size
<1>3. ASSUME NEW i \in 0 .. effective_csr.rows PROVE effective_csr.row_ptr[i] = 0
  <2>1. effective_csr.row_ptr \in [0 .. effective_csr.rows -> Int]
    BY <1>1
  <2>2. \A k, l \in 0 .. effective_csr.rows :
          k <= l => effective_csr.row_ptr[k] <= effective_csr.row_ptr[l]
    BY <1>1, <2>1, StepwiseMonotone
  <2>3. i <= effective_csr.rows /\ effective_csr.rows \in 0 .. effective_csr.rows
    BY <1>1
  <2>4. effective_csr.row_ptr[i] \in Nat
    BY <1>1
  <2>5. effective_csr.row_ptr[i] <= effective_csr.row_ptr[effective_csr.rows]
    BY <2>2, <2>3
  <2>. QED
    BY <1>2, <2>4, <2>5
<1>4. NumBlockRows \in Nat
  BY <1>1, CeilDivCounts DEF NumBlockRows
<1>5. ASSUME NEW br \in 0 .. NumBlockRows - 1
      PROVE  \E walk : IsWholeWalk(br, walk, 0)
  <2>1. PICK walk : IsWalk(br, walk, 0)
    BY WalkBegins, Zenon
  <2>2. AtWork(LaneStart(br)) = {}
    <3>1. \A row \in Rows(br) : row \in 0 .. effective_csr.rows /\ row + 1 \in 0 .. effective_csr.rows
      <4>1. PICK first \in Nat, last \in Nat :
              last <= effective_csr.rows /\ Rows(br) = first .. last - 1
        BY RowsOf
      <4>. QED
        BY <1>1, <4>1
    <3>2. \A row \in Rows(br) : /\ LaneStart(br)[row] = 0
                                /\ effective_csr.row_ptr[row + 1] = 0
      BY <1>3, <3>1 DEF LaneStart
    <3>3. DOMAIN LaneStart(br) = Rows(br)
      BY DEF LaneStart
    <3>. QED
      BY <3>2, <3>3 DEF AtWork
  <2>. QED
    BY <2>1, <2>2 DEF IsWholeWalk, IsWalk
<1>. QED
  BY <1>3, <1>4, <1>5

\* The launch of the counting kernel: no warp has moved.  Without entries the
\* device is left as a matrix without blocks.
LEMMA ConvertInv ==
  ASSUME IInv, NEW matrix \in CsrMatrices, Convert(matrix)
  PROVE  IInv'
<1>. DEFINE e == Uploaded(matrix)
            n == ceil_div(e.rows, block_rows)
            nnz == size(e.values)
<1>1. IsCsr(matrix)
  BY CsrAssumption
<1>2. IsCsr(e)
  BY <1>1, UploadKeeps
<1>3. /\ effective_csr' = e /\ csr' = matrix
      /\ block_counts' = Resize(block_counts, n)
      /\ IsDevice(device')
      /\ device'.rows = e.rows /\ device'.cols = e.cols
      /\ device'.num_block_rows = n /\ device'.num_block_cols = ceil_div(e.cols, block_cols)
      /\ device'.nnz = nnz /\ device'.num_blocks = 0
      /\ device'.values = Resize(device.values, nnz)
      /\ device'.block_row_ptr = ZeroFilled(device.block_row_ptr, n + 1)
      /\ device'.block_row_val_ptr = ZeroFilled(device.block_row_val_ptr, n + 1)
      /\ nnz = 0 => device'.block_col_idx = << >> /\ device'.bitmap_words = << >>
      /\ pc' = IF nnz = 0 THEN "done" ELSE "count"
      /\ nnz # 0 => left' = 0 .. n - 1
      /\ nnz # 0 => warp' = [br \in 0 .. n - 1 |->
                              [pos |-> [row \in BlockRowRows(e, br) |-> e.row_ptr[row]],
                               count |-> 0]]
  <2>. DEFINE eff == IF has_stored_zeros(matrix) THEN remove_stored_zeros(matrix) ELSE matrix
  <2>1. e = eff
    BY Zenon DEF Uploaded
  <2>2. /\ effective_csr' = eff /\ csr' = matrix
        /\ block_counts' = Resize(block_counts, ceil_div(eff.rows, block_rows))
        /\ device' =
              [rows |-> eff.rows, cols |-> eff.cols,
               num_block_rows |-> ceil_div(eff.rows, block_rows),
               num_block_cols |-> ceil_div(eff.cols, block_cols),
               num_blocks |-> 0, nnz |-> size(eff.values),
               block_row_ptr     |-> ZeroFilled(device.block_row_ptr,
                                                ceil_div(eff.rows, block_rows) + 1),
               block_row_val_ptr |-> ZeroFilled(device.block_row_val_ptr,
                                                ceil_div(eff.rows, block_rows) + 1),
               values            |-> Resize(device.values, size(eff.values)),
               block_col_idx |-> IF size(eff.values) = 0 THEN << >> ELSE device.block_col_idx,
               bitmap_words  |-> IF size(eff.values) = 0 THEN << >> ELSE device.bitmap_words]
        /\ pc' = (IF size(eff.values) = 0 THEN "done" ELSE "count")
        /\ left' = (IF size(eff.values) = 0 THEN {}
                    ELSE 0 .. ceil_div(eff.rows, block_rows) - 1)
        /\ warp' = (IF size(eff.values) = 0 THEN << >>
                    ELSE [br \in 0 .. ceil_div(eff.rows, block_rows) - 1 |->
                            [pos |-> [row \in BlockRowRows(eff, br) |-> eff.row_ptr[row]],
                             count |-> 0]])
    BY Zenon DEF Convert
  <2>. HIDE DEF eff, e
  <2>3. IsDevice(device')
    BY <2>2 DEF IsDevice, DeviceFields
  <2>. QED
    BY <2>1, <2>2, <2>3
<1>. HIDE DEF e
<1>4. NumBlockRows' = n /\ BlockRows' = 0 .. n - 1
  BY <1>3 DEF NumBlockRows, BlockRows
<1>5. nnz \in Nat /\ DOMAIN e.values = 0 .. nnz - 1 /\ n \in Nat /\ e.rows \in Nat
      /\ block_rows \in Nat \ {0}
  <2>. DEFINE m == e.row_ptr[e.rows]
  <2>1. /\ e.rows \in Nat /\ block_rows \in Nat \ {0} /\ e.row_ptr \in [0 .. e.rows -> Nat]
        /\ DOMAIN e.values = 0 .. m - 1
    BY <1>2, BlockShapeAssumption DEF IsCsr
  <2>2. 0 \in Int /\ m \in Nat /\ 0 + m - 1 = m - 1
    BY <2>1
  <2>3. Cardinality(0 .. 0 + m - 1) = m
    BY <2>2, IntervalIs, Zenon
  <2>4. nnz = m
    BY <2>1, <2>2, <2>3 DEF size
  <2>5. n \in Nat
    BY <2>1, CeilDivCounts
  <2>. QED
    BY <2>1, <2>2, <2>4, <2>5
<1>. HIDE DEF n, nnz
<1>6. ShapeInv'
  <2>1. block_counts' = [br \in 0 .. n - 1 |-> block_counts'[br]]
    BY <1>3 DEF Resize
  <2>2. DOMAIN device'.values = 0 .. nnz - 1
    BY <1>3 DEF Resize
  <2>3. effective_csr' = Uploaded(matrix)
    BY <1>3 DEF e
  <2>4. /\ device'.rows = effective_csr'.rows /\ device'.cols = effective_csr'.cols
        /\ device'.num_block_rows = NumBlockRows'
        /\ device'.num_block_cols = ceil_div(effective_csr'.cols, block_cols)
        /\ device'.nnz = size(effective_csr'.values)
        /\ DOMAIN device'.values = 0 .. size(effective_csr'.values) - 1
    BY <1>3, <1>4, <2>2 DEF nnz
  <2>5. pc' \in {"count", "fill"} => DOMAIN warp' = BlockRows' /\ left' \subseteq BlockRows'
    BY <1>3, <1>4
  <2>6. pc' = "count" => block_counts' = [br \in BlockRows' |-> block_counts'[br]]
    BY <1>4, <2>1
  <2>. QED
    BY <1>2, <1>3, <2>3, <2>4, <2>5, <2>6 DEF ShapeInv
<1>7. CountInv'
  <2>1. SUFFICES ASSUME pc' = "count", NEW br \in 0 .. n - 1
                 PROVE  Counting(br)' /\ br \in left'
    BY <1>4 DEF CountInv
  <2>2. nnz # 0
    BY <1>3, <2>1
  <2>. DEFINE start == [row \in BlockRowRows(e, br) |-> e.row_ptr[row]]
              walk == [k \in 0 .. 0 |-> start]
  <2>3. warp'[br].count = 0 /\ warp'[br].pos = start /\ br \in left'
    BY <1>3, <2>2
  <2>4. LaneStart(br)' = start
    BY <1>3 DEF LaneStart, Rows
  <2>. HIDE DEF start
  <2>5. DOMAIN walk = 0 .. 0 /\ walk[0] = start /\ 0 .. 0 - 1 = {}
    OBVIOUS
  <2>. HIDE DEF walk
  <2>6. IsWalk(br, walk, 0)'
    BY <2>4, <2>5, Zenon DEF IsWalk
  <2>. QED
    BY <2>3, <2>5, <2>6 DEF Counting
<1>8. ASSUME nnz # 0 PROVE LayoutInv' /\ FillInv'
  BY <1>3, <1>8 DEF LayoutInv, FillInv
<1>9. ASSUME nnz = 0 PROVE LayoutInv' /\ FillInv'
  <2>1. /\ NumBlockRows' \in Nat
        /\ \A i \in 0 .. effective_csr'.rows : effective_csr'.row_ptr[i] = 0
        /\ \A br \in 0 .. NumBlockRows' - 1 : \E walk : IsWholeWalk(br, walk, 0)'
    <3>1. (IsCsr(effective_csr) /\ size(effective_csr.values) = 0)'
      BY <1>2, <1>3, <1>9 DEF nnz
    <3>2. (IsCsr(effective_csr) /\ size(effective_csr.values) = 0 =>
             /\ NumBlockRows \in Nat
             /\ \A i \in 0 .. effective_csr.rows : effective_csr.row_ptr[i] = 0
             /\ \A br \in 0 .. NumBlockRows - 1 : \E walk : IsWholeWalk(br, walk, 0))'
      BY NoEntries, PTL
    <3>. QED
      BY <3>1, <3>2
  <2>2. /\ device'.block_row_ptr = [i \in 0 .. n |-> 0] /\ device'.num_blocks = 0
        /\ device'.block_row_val_ptr = [i \in 0 .. n |-> 0]
        /\ device'.block_col_idx = << >> /\ device'.bitmap_words = << >>
    <3>1. (n + 1) - 1 = n
      BY <1>5
    <3>. QED
      BY <1>3, <1>9, <3>1 DEF ZeroFilled
  <2>3. DOMAIN device'.block_col_idx = 0 .. 0 - 1 /\ DOMAIN device'.bitmap_words = 0 .. 0 - 1
    BY <2>2
  <2>4. \A k \in 0 .. n : effective_csr'.row_ptr[Smaller(effective_csr'.rows, k * block_rows)] = 0
    <3>1. ASSUME NEW k \in 0 .. n
          PROVE  Smaller(e.rows, k * block_rows) \in 0 .. e.rows
      <4>1. k * block_rows \in Nat
        BY <1>5
      <4>. QED
        BY <1>5, <4>1 DEF Smaller
    <3>. QED
      BY <1>3, <2>1, <3>1
  <2>5. LayoutInv'
    <3>1. device'.block_row_ptr \in [0 .. n -> Nat] /\ device'.block_row_ptr[0] = 0
          /\ device'.block_row_ptr[n] = 0
      BY <1>5, <2>2
    <3>2. device'.block_row_val_ptr =
            [k \in 0 .. n |-> effective_csr'.row_ptr[Smaller(effective_csr'.rows, k * block_rows)]]
      BY <2>2, <2>4
    <3>. QED
      BY <1>4, <2>2, <2>3, <3>1, <3>2 DEF LayoutInv
  <2>6. ASSUME NEW br \in 0 .. n - 1 PROVE Filled(br)'
    <3>1. br \in 0 .. n /\ br + 1 \in 0 .. n
      BY <1>5
    <3>2. device'.block_row_ptr[br] = 0 /\ device'.block_row_ptr[br + 1] = 0
      BY <2>2, <3>1
    <3>3. PICK walk : IsWholeWalk(br, walk, 0)'
      BY <1>4, <2>1
    <3>4. 0 .. 0 - 1 = {}
      OBVIOUS
    <3>5. RowWritten(br, 0, walk, 0)'
      BY <3>2, <3>3, <3>4 DEF RowWritten
    <3>. QED
      BY <3>5 DEF Filled
  <2>7. FillInv'
    BY <1>3, <1>4, <1>9, <2>6 DEF FillInv
  <2>. QED
    BY <2>5, <2>7
<1>. QED
  BY <1>6, <1>7, <1>8, <1>9 DEF IInv

\* A turn of a counting warp, or its end.
LEMMA CountInvariant ==
  ASSUME IInv, NEW br \in BlockRows, Count(br)
  PROVE  IInv'
<1>1. /\ pc = "count" /\ br \in left
      /\ UNCHANGED <<csr, pc, effective_csr, device, conversions>>
  BY DEF Count
<1>2. /\ IsCsr(effective_csr) /\ BlockRows = 0 .. NumBlockRows - 1 /\ DOMAIN warp = BlockRows
      /\ left \subseteq BlockRows /\ BlockRows' = BlockRows
      /\ block_counts = [b \in BlockRows |-> block_counts[b]] /\ DOMAIN block_counts = BlockRows
  BY <1>1 DEF IInv, ShapeInv, BlockRows
<1>3. \A b \in BlockRows : Counting(b) /\ (b \notin left => Counted(b))
  <2>1. BlockRows = 0 .. NumBlockRows - 1
    BY <1>2
  <2>2. \A b \in 0 .. NumBlockRows - 1 : Counting(b) /\ (b \notin left => Counted(b))
    BY <1>1 DEF IInv, CountInv
  <2>. QED
    BY <2>1, <2>2
<1>0. PICK n \in Nat : \E walk : IsWalk(br, walk, n) /\ warp[br].count = n /\ warp[br].pos = walk[n]
  BY <1>3 DEF Counting
<1>4. PICK walk : IsWalk(br, walk, n) /\ warp[br].count = n /\ warp[br].pos = walk[n]
  BY <1>0
<1>5. LayoutInv' /\ FillInv'
  BY <1>1 DEF LayoutInv, FillInv
<1>6. CASE AtWork(warp[br].pos) = {}
  <2>1. /\ block_counts' = [block_counts EXCEPT ![br] = n] /\ left' = left \ {br}
        /\ warp' = warp
    BY <1>4, <1>6 DEF Count
  <2>2. ShapeInv'
    <3>1. block_counts' = [b \in BlockRows |-> block_counts'[b]]
      BY <1>2, <2>1
    <3>2. ShapeInv /\ NumBlockRows' = NumBlockRows
      BY <1>1, WalkStays DEF IInv
    <3>. QED
      BY <1>1, <1>2, <2>1, <3>1, <3>2 DEF ShapeInv
  <2>3. Counted(br)'
    <3>1. IsWholeWalk(br, walk, n)
      BY <1>4, <1>6 DEF IsWholeWalk
    <3>2. IsWholeWalk(br, walk, n)' /\ block_counts'[br] = n
      BY <1>1, <1>2, <2>1, <3>1, WalkStays
    <3>. QED
      BY <3>2 DEF Counted
  <2>4. ASSUME NEW b \in BlockRows PROVE Counting(b)'
    <3>0. PICK m \in Nat : \E w : IsWalk(b, w, m) /\ warp[b].count = m /\ warp[b].pos = w[m]
      BY <1>3 DEF Counting
    <3>1. PICK w : IsWalk(b, w, m) /\ warp[b].count = m /\ warp[b].pos = w[m]
      BY <3>0
    <3>2. IsWalk(b, w, m)'
      BY <1>1, <3>1, WalkStays
    <3>. QED
      BY <2>1, <3>1, <3>2 DEF Counting
  <2>5. ASSUME NEW b \in BlockRows, b \notin left', b # br PROVE Counted(b)'
    <3>0. PICK m \in Nat : \E w : IsWholeWalk(b, w, m) /\ block_counts[b] = m
      BY <1>3, <2>1, <2>5 DEF Counted
    <3>1. PICK w : IsWholeWalk(b, w, m) /\ block_counts[b] = m
      BY <3>0
    <3>2. IsWholeWalk(b, w, m)' /\ block_counts'[b] = m
      BY <1>1, <1>2, <2>1, <2>5, <3>1, WalkStays
    <3>. QED
      BY <3>2 DEF Counted
  <2>. QED
    BY <1>1, <1>2, <1>5, <2>2, <2>3, <2>4, <2>5, WalkStays DEF IInv, CountInv
<1>7. CASE AtWork(warp[br].pos) # {}
  <2>. DEFINE new == [pos |-> Turn(walk[n]), count |-> n + 1]
  <2>1. warp' = [warp EXCEPT ![br] = new] /\ UNCHANGED <<block_counts, left>>
    BY <1>4, <1>7 DEF Count, Turn
  <2>2. DOMAIN warp' = BlockRows /\ warp'[br] = new /\ \A b \in BlockRows \ {br} : warp'[b] = warp[b]
    <3>. HIDE DEF new
    <3>. QED
      BY <1>2, <2>1
  <2>3. ShapeInv'
    <3>1. ShapeInv /\ NumBlockRows' = NumBlockRows
      BY <1>1, WalkStays DEF IInv
    <3>. QED
      BY <1>1, <1>2, <2>1, <2>2, <3>1 DEF ShapeInv
  <2>4. Counting(br)'
    <3>0. br \in BlockRows /\ n \in Nat /\ IsWalk(br, walk, n) /\ AtWork(walk[n]) # {}
      BY <1>4, <1>7
    <3>1. PICK longer : IsWalk(br, longer, n + 1) /\ longer[n + 1] = Turn(walk[n])
      BY <3>0, WalkGoesOn, Zenon
    <3>2. IsWalk(br, longer, n + 1)'
      BY <1>1, <3>1, WalkStays
    <3>3. warp'[br].count = n + 1 /\ warp'[br].pos = longer[n + 1] /\ n + 1 \in Nat
      BY <2>2, <3>1
    <3>. QED
      BY <3>2, <3>3 DEF Counting
  <2>5. ASSUME NEW b \in BlockRows, b # br PROVE Counting(b)'
    <3>0. PICK m \in Nat : \E w : IsWalk(b, w, m) /\ warp[b].count = m /\ warp[b].pos = w[m]
      BY <1>3 DEF Counting
    <3>1. PICK w : IsWalk(b, w, m) /\ warp[b].count = m /\ warp[b].pos = w[m]
      BY <3>0
    <3>2. IsWalk(b, w, m)'
      BY <1>1, <3>1, WalkStays
    <3>. QED
      BY <2>2, <2>5, <3>1, <3>2 DEF Counting
  <2>6. ASSUME NEW b \in BlockRows, b \notin left' PROVE Counted(b)'
    <3>0. PICK m \in Nat : \E w : IsWholeWalk(b, w, m) /\ block_counts[b] = m
      BY <1>3, <2>1, <2>6 DEF Counted
    <3>1. PICK w : IsWholeWalk(b, w, m) /\ block_counts[b] = m
      BY <3>0
    <3>2. IsWholeWalk(b, w, m)' /\ block_counts'[b] = m
      BY <1>1, <2>1, <3>1, WalkStays
    <3>. QED
      BY <3>2 DEF Counted
  <2>. QED
    BY <1>1, <1>2, <1>5, <2>3, <2>4, <2>5, <2>6, WalkStays DEF IInv, CountInv
<1>. QED
  BY <1>6, <1>7

\* The launch of the filling kernel: what was counted is laid out, and the
\* warps stand at the beginning of their walks again.
LEMMA ScanInv ==
  ASSUME IInv, Scan
  PROVE  IInv'
<1>. DEFINE n == device.num_block_rows
            ptr == PrefixSum(block_counts, n)
            val == [br \in 0 .. n |-> effective_csr.row_ptr[Smaller(device.rows, br * block_rows)]]
<1>1. /\ pc = "count" /\ left = {} /\ UNCHANGED <<csr, effective_csr, block_counts, conversions>>
      /\ left' = BlockRows /\ pc' = "fill"
  BY DEF Scan, LastWarp
<1>2. /\ IsCsr(effective_csr) /\ n = NumBlockRows /\ BlockRows = 0 .. n - 1
      /\ device.rows = effective_csr.rows /\ DOMAIN device = DeviceFields
      /\ block_counts = [b \in BlockRows |-> block_counts[b]] /\ ShapeInv
  BY <1>1 DEF IInv, ShapeInv, BlockRows, IsDevice
<1>3. /\ device' = [device EXCEPT
           !.block_row_ptr = ptr,
           !.num_blocks = ptr[n],
           !.block_col_idx = Resize(device.block_col_idx, ptr[n]),
           !.bitmap_words = [b \in 0 .. ptr[n] - 1 |-> {}],
           !.block_row_val_ptr = val]
      /\ warp' = [br \in BlockRows |-> [pos |-> LaneStart(br), block_id |-> ptr[br],
                                         value_pos |-> ValueStart(br)]]
  BY Zenon DEF Scan
<1>4. /\ device'.block_row_ptr = ptr /\ device'.num_blocks = ptr[n]
      /\ device'.block_col_idx = Resize(device.block_col_idx, ptr[n])
      /\ device'.bitmap_words = [b \in 0 .. ptr[n] - 1 |-> {}]
      /\ device'.block_row_val_ptr = val
      /\ device'.rows = device.rows /\ device'.cols = device.cols
      /\ device'.num_block_rows = n /\ device'.num_block_cols = device.num_block_cols
      /\ device'.nnz = device.nnz /\ device'.values = device.values
      /\ IsDevice(device')
  <2>. HIDE DEF ptr, val
  <2>1. IsDevice(device')
    <3>1. IsDevice(device)
      BY <1>2 DEF ShapeInv
    <3>. QED
      BY <1>3, <3>1 DEF IsDevice
  <2>. QED
    BY <1>2, <1>3, <2>1 DEF DeviceFields
<1>5. n \in Nat
  <2>1. effective_csr.rows \in Nat /\ block_rows \in Nat \ {0}
    BY <1>2, BlockShapeAssumption DEF IsCsr
  <2>. QED
    BY <1>2, <2>1, CeilDivCounts DEF NumBlockRows
<1>6. BlockRows' = BlockRows /\ NumBlockRows' = NumBlockRows
  BY <1>1, <1>4, WalkStays DEF BlockRows
<1>. HIDE DEF n, ptr
<1>7. \A br \in BlockRows : Counted(br)
  BY <1>1, <1>2 DEF IInv, CountInv
<1>8. /\ ptr \in [0 .. n -> Nat] /\ ptr[0] = 0
      /\ \A br \in 0 .. n - 1 : ptr[br + 1] = ptr[br] + block_counts[br]
  <2>1. \A br \in BlockRows : block_counts[br] \in Nat
    BY <1>7 DEF Counted
  <2>2. block_counts \in [BlockRows -> Nat]
    BY <1>2, <2>1, Zenon
  <2>3. block_counts \in [0 .. n - 1 -> Nat]
    BY <1>2, <2>2
  <2>. QED
    BY <1>5, <2>3, PrefixSumSteps DEF ptr
<1>9. ShapeInv'
  <2>1. DOMAIN warp' = BlockRows
    BY <1>3
  <2>2. pc # "idle"
    BY <1>1
  <2>. QED
    BY <1>1, <1>2, <1>4, <1>6, <2>1, <2>2 DEF ShapeInv
<1>10. LayoutInv'
  <2>1. DOMAIN device'.block_col_idx = 0 .. ptr[n] - 1 /\ DOMAIN device'.bitmap_words = 0 .. ptr[n] - 1
    BY <1>4 DEF Resize
  <2>2. device'.block_row_val_ptr =
          [k \in 0 .. n |-> effective_csr'.row_ptr[Smaller(effective_csr'.rows, k * block_rows)]]
    BY <1>1, <1>2, <1>4
  <2>. QED
    BY <1>2, <1>4, <1>6, <1>8, <2>1, <2>2 DEF LayoutInv
<1>11. ASSUME NEW br \in 0 .. NumBlockRows - 1
       PROVE  Filling(br)'
  <2>1. br \in BlockRows /\ br \in 0 .. n /\ br + 1 \in 0 .. n /\ br \in 0 .. n - 1
    BY <1>2, <1>5
  <2>2. PICK m \in Nat : \E walk : IsWholeWalk(br, walk, m) /\ block_counts[br] = m
    BY <1>7, <2>1 DEF Counted
  <2>3. PICK walk : IsWholeWalk(br, walk, m) /\ block_counts[br] = m
    BY <2>2
  <2>4. IsWholeWalk(br, walk, m)'
    BY <1>1, <2>3, WalkStays
  <2>5. walk[0] = LaneStart(br) /\ Behind(LaneStart(br)) = {}
    BY <1>2, <2>3, LanesStart DEF IsWholeWalk, IsWalk
  <2>6. /\ warp'[br].pos = walk[0] /\ warp'[br].block_id = ptr[br]
        /\ warp'[br].value_pos = ValueStart(br) /\ br \in left'
    BY <1>1, <1>3, <2>1, <2>5
  <2>7. ptr[br] \in Nat /\ ptr[br + 1] = ptr[br] + m
    BY <1>8, <2>1, <2>3
  <2>8. /\ Cardinality(Behind(walk[0])') = 0 /\ ValueStart(br)' = ValueStart(br)
    BY <1>1, <2>5, WalkStays, FS_EmptySet
  <2>9. ValueStart(br) \in Nat
    BY <1>2, EntriesFollow
  <2>10. 0 \in 0 .. m /\ ptr[br] = ptr[br] + 0 /\ ValueStart(br) = ValueStart(br) + 0
         /\ 0 .. 0 - 1 = {}
    BY <2>7, <2>9
  <2>11. RowWritten(br, m, walk, 0)'
    BY <1>4, <2>4, <2>7, <2>10 DEF RowWritten
  <2>12. FillingAt(br, m, walk, 0)'
    BY <1>4, <2>6, <2>8, <2>10, <2>11 DEF FillingAt
  <2>. QED
    BY <2>10, <2>12 DEF Filling
<1>12. CountInv'
  BY <1>1 DEF CountInv
<1>13. FillInv'
  BY <1>1, <1>6, <1>11 DEF FillInv
<1>. QED
  BY <1>9, <1>10, <1>12, <1>13 DEF IInv

\* What a row's warps have written stays when its blocks and its values do.
LEMMA RowStays ==
  ASSUME UNCHANGED effective_csr, IsCsr(effective_csr), device'.block_row_ptr = device.block_row_ptr,
         NEW b \in 0 .. NumBlockRows - 1, NEW m \in Nat, NEW w, NEW l \in 0 .. m,
         RowWritten(b, m, w, l),
         \A x \in device.block_row_ptr[b] .. device.block_row_ptr[b] + l - 1 :
           /\ device'.block_col_idx[x] = device.block_col_idx[x]
           /\ device'.bitmap_words[x] = device.bitmap_words[x],
         \A x \in ValueStart(b) .. ValueStart(b) + Cardinality(Behind(w[l])) - 1 :
           device'.values[x] = device.values[x]
  PROVE  RowWritten(b, m, w, l)'
<1>1. /\ IsWholeWalk(b, w, m) /\ IsWalk(b, w, m) /\ device.block_row_ptr[b] \in Nat
      /\ device.block_row_ptr[b + 1] = device.block_row_ptr[b] + m
      /\ \A j \in 0 .. l - 1 : BlockWritten(b, w[j], device.block_row_ptr[b] + j)
  BY DEF RowWritten, IsWholeWalk
<1>2. ASSUME NEW j \in 0 .. l - 1
      PROVE  BlockWritten(b, w[j], device.block_row_ptr[b] + j)'
  <2>. DEFINE x == device.block_row_ptr[b] + j
  <2>1. j \in 0 .. m - 1 /\ j + 1 \in 0 .. m /\ j + 1 <= l /\ l \in 0 .. m
    OBVIOUS
  <2>2. x \in device.block_row_ptr[b] .. device.block_row_ptr[b] + l - 1
    BY <1>1
  <2>3. BlockWritten(b, w[j], x)
    BY <1>1
  <2>4. ASSUME NEW p \in Turned(w[j])
        PROVE  device'.values[Cell(b, w[j], p)] = effective_csr.values[p]
    <3>1. /\ Cell(b, w[j], p) \in Nat /\ ValueStart(b) <= Cell(b, w[j], p)
          /\ Cell(b, w[j], p) < ValueStart(b) + Cardinality(Behind(w[j + 1]))
      BY <1>1, <2>1, CellsOfTurn DEF Cell
    <3>2. /\ Cardinality(Behind(w[j + 1])) \in Nat /\ Cardinality(Behind(w[l])) \in Nat
          /\ Cardinality(Behind(w[j + 1])) <= Cardinality(Behind(w[l]))
      BY <1>1, <2>1, WalkCounts
    <3>3. ValueStart(b) \in Nat
      BY EntriesFollow
    <3>4. Cell(b, w[j], p) \in ValueStart(b) .. ValueStart(b) + Cardinality(Behind(w[l])) - 1
      BY <3>1, <3>2, <3>3
    <3>. QED
      BY <2>3, <3>4 DEF BlockWritten
  <2>5. /\ device'.block_col_idx[x] = MinBlockCol(w[j])
        /\ device'.bitmap_words[x] = TurnBits(b, w[j], MinBlockCol(w[j]))
    BY <2>2, <2>3 DEF BlockWritten
  <2>. HIDE DEF x
  <2>6. /\ (device.block_col_idx[x] = MinBlockCol(w[j]))'
        /\ (device.bitmap_words[x] = TurnBits(b, w[j], MinBlockCol(w[j])))'
        /\ (\A p \in Turned(w[j]) : device.values[Cell(b, w[j], p)] = effective_csr.values[p])'
    <3>1. /\ MinBlockCol(w[j])' = MinBlockCol(w[j]) /\ Turned(w[j])' = Turned(w[j])
          /\ \A c : TurnBits(b, w[j], c)' = TurnBits(b, w[j], c)
          /\ \A p : Cell(b, w[j], p)' = Cell(b, w[j], p)
      BY WalkStays
    <3>. QED
      BY <2>4, <2>5, <3>1 DEF x
  <2>. QED
    BY <2>6 DEF BlockWritten, x
<1>3. IsWholeWalk(b, w, m)'
  BY <1>1, WalkStays
<1>. QED
  BY <1>1, <1>2, <1>3 DEF RowWritten

\* Values with those of a turn written into them.
WithWritten(values, written) ==
  [i \in DOMAIN values |-> IF \E v \in written : v[1] = i
                           THEN (CHOOSE v \in written : v[1] = i)[2] ELSE values[i]]

\* A turn writes every value it passes into its cell, and no cell outside what
\* is left of its block row.
LEMMA TurnWritten ==
  ASSUME IsCsr(effective_csr), NEW br \in 0 .. NumBlockRows - 1,
         NEW n \in Nat, NEW walk, IsWalk(br, walk, n), NEW k \in 0 .. n - 1,
         NEW w, w.pos = walk[k], w.value_pos = ValueStart(br) + Cardinality(Behind(walk[k])),
         NEW values, DOMAIN values = DOMAIN effective_csr.values
  PROVE  LET new == WithWritten(values, Written(w, MinBlockCol(walk[k]))) IN
         /\ DOMAIN new = DOMAIN values
         /\ \A p \in Turned(walk[k]) : new[Cell(br, walk[k], p)] = effective_csr.values[p]
         /\ \A i \in DOMAIN values :
              \/ i < ValueStart(br) + Cardinality(Behind(walk[k])) \/ EntriesEnd(br) <= i
              => new[i] = values[i]
<1>. DEFINE c == MinBlockCol(walk[k])
            P == Turned(walk[k])
            vp == ValueStart(br) + Cardinality(Behind(walk[k]))
            written == Written(w, c)
            new == WithWritten(values, written)
<1>1. k \in 0 .. n
  OBVIOUS
<1>2. Lanes(br, walk[k]) /\ AtWork(walk[k]) # {}
  BY <1>1, WalkLanes DEF IsWalk
<1>3. c \in Nat
  BY <1>2, MinBlockColIs
<1>4. vp \in Nat
  <2>1. Cardinality(Behind(walk[k])) \in Nat
    BY <1>1, WalkCounts
  <2>2. ValueStart(br) \in Nat
    BY EntriesFollow
  <2>. QED
    BY <2>1, <2>2
<1>5. written = {<<vp + Below(P, p), effective_csr.values[p]>> : p \in P}
  BY <1>2, <1>3, <1>4, WrittenIs DEF Turned
<1>6. \A p \in P : /\ Below(P, p) \in Nat /\ vp + Below(P, p) = Cell(br, walk[k], p)
                   /\ vp + Below(P, p) \in Nat /\ vp <= vp + Below(P, p)
                   /\ vp + Below(P, p) < EntriesEnd(br)
  <2>1. SUFFICES ASSUME NEW p \in P
                 PROVE  /\ Below(P, p) \in Nat /\ vp + Below(P, p) = Cell(br, walk[k], p)
                        /\ vp + Below(P, p) \in Nat /\ vp <= vp + Below(P, p)
                        /\ vp + Below(P, p) < EntriesEnd(br)
    OBVIOUS
  <2>2. /\ Below(P, p) \in 0 .. Cardinality(P) - 1
        /\ Cell(br, walk[k], p) < EntriesEnd(br)
    BY CellsOfTurn DEF Cell
  <2>3. Cardinality(P) \in Nat
    BY WalkCounts
  <2>4. vp + Below(P, p) = Cell(br, walk[k], p)
    BY DEF Cell
  <2>. HIDE DEF P, vp
  <2>5. Below(P, p) \in Nat
    BY <2>2, <2>3
  <2>. QED
    BY <1>4, <2>2, <2>4, <2>5
<1>7. \A p, q \in P : Below(P, p) = Below(P, q) => p = q
  <2>1. IsFiniteSet(P)
    BY WalkCounts
  <2>2. \A p \in P : p \in Int
    BY <1>2, <1>3, TurnIs DEF Turned
  <2>. HIDE DEF P
  <2>3. P \subseteq Int
    BY <2>2
  <2>4. \A p, q \in P : p < q => Below(P, p) < Below(P, q)
    BY <2>1, <2>3, Ranks
  <2>5. \A p \in P : Below(P, p) \in Nat
    BY <1>6
  <2>. QED
    BY <2>2, <2>4, <2>5
<1>8. EntriesEnd(br) \in Nat /\ EntriesEnd(br) <= size(effective_csr.values)
      /\ DOMAIN values = 0 .. size(effective_csr.values) - 1 /\ size(effective_csr.values) \in Nat
  BY EntriesFollow
<1>. HIDE DEF c, P, vp, written
<1>9. DOMAIN new = DOMAIN values
      /\ \A i \in DOMAIN values :
           new[i] = IF \E v \in written : v[1] = i
                    THEN (CHOOSE v \in written : v[1] = i)[2] ELSE values[i]
  BY DEF WithWritten
<1>. HIDE DEF new
<1>10. ASSUME NEW p \in P PROVE new[Cell(br, walk[k], p)] = effective_csr.values[p]
  <2>. DEFINE i == vp + Below(P, p)
              v0 == <<i, effective_csr.values[p]>>
  <2>1. v0 \in written /\ v0[1] = i
    BY <1>5
  <2>2. ASSUME NEW v \in written, v[1] = i PROVE v = v0
    <3>1. PICK q \in P : v = <<vp + Below(P, q), effective_csr.values[q]>>
      BY <1>5, <2>2
    <3>2. vp + Below(P, q) = vp + Below(P, p)
      BY <2>2, <3>1
    <3>3. Below(P, q) = Below(P, p)
      BY <1>4, <1>6, <3>2
    <3>. QED
      BY <1>7, <3>1, <3>3
  <2>3. i \in DOMAIN values
    BY <1>6, <1>8
  <2>. HIDE DEF i, v0
  <2>4. (CHOOSE v \in written : v[1] = i) = v0
    BY <2>1, <2>2
  <2>5. new[i] = v0[2]
    BY <1>9, <2>1, <2>3, <2>4
  <2>. QED
    BY <1>6, <2>5 DEF i, v0
<1>11. ASSUME NEW i \in DOMAIN values, i < vp \/ EntriesEnd(br) <= i
       PROVE  new[i] = values[i]
  <2>1. ASSUME NEW v \in written, v[1] = i PROVE FALSE
    <3>1. PICK q \in P : v = <<vp + Below(P, q), effective_csr.values[q]>>
      BY <1>5, <2>1
    <3>2. vp + Below(P, q) = i
      BY <2>1, <3>1
    <3>3. i \in Nat
      BY <1>8
    <3>. QED
      BY <1>4, <1>6, <1>8, <1>11, <3>2, <3>3
  <2>. QED
    BY <1>9, <2>1
<1>. QED
  BY <1>9, <1>10, <1>11 DEF new, c, P, vp, written

\* A filling warp that is not over writes a block and moves on along its walk.
LEMMA FillStep ==
  ASSUME IInv, NEW br \in BlockRows, Fill(br)
  PROVE  IInv'
<1>1. /\ pc = "fill" /\ br \in left
      /\ UNCHANGED <<csr, pc, effective_csr, block_counts, conversions>>
  BY DEF Fill
<1>2. /\ IsCsr(effective_csr) /\ DOMAIN warp = BlockRows /\ left \subseteq BlockRows
      /\ DOMAIN device = DeviceFields /\ ShapeInv /\ LayoutInv
      /\ device.num_block_rows = NumBlockRows
      /\ DOMAIN device.values = DOMAIN effective_csr.values
  <2>1. IsCsr(effective_csr) /\ ShapeInv /\ LayoutInv
    BY DEF IInv, ShapeInv
  <2>2. /\ DOMAIN warp = BlockRows /\ left \subseteq BlockRows
        /\ DOMAIN device = DeviceFields /\ device.num_block_rows = NumBlockRows
        /\ DOMAIN device.values = 0 .. size(effective_csr.values) - 1
    BY <1>1, <2>1 DEF ShapeInv, IsDevice
  <2>3. BlockRows = 0 .. NumBlockRows - 1
    BY <2>2 DEF BlockRows
  <2>4. DOMAIN effective_csr.values = 0 .. size(effective_csr.values) - 1
    BY <2>1, <2>3, EntriesFollow
  <2>. QED
    BY <2>1, <2>2, <2>4
<1>3. BlockRows = 0 .. NumBlockRows - 1 /\ br \in 0 .. NumBlockRows - 1
  BY <1>2 DEF BlockRows
<1>4. \A b \in BlockRows : Filling(b)
  BY <1>1, <1>3 DEF IInv, FillInv
<1>5. PICK n \in Nat : \E walk : \E k \in 0 .. n : FillingAt(br, n, walk, k)
  BY <1>4 DEF Filling
<1>6. PICK walk : \E k \in 0 .. n : FillingAt(br, n, walk, k)
  BY <1>5
<1>7. PICK k \in 0 .. n : FillingAt(br, n, walk, k)
  BY <1>6
<1>8. /\ RowWritten(br, n, walk, k) /\ IsWholeWalk(br, walk, n) /\ IsWalk(br, walk, n)
      /\ device.block_row_ptr[br] \in Nat
      /\ device.block_row_ptr[br + 1] = device.block_row_ptr[br] + n
      /\ warp[br].pos = walk[k]
      /\ warp[br].block_id = device.block_row_ptr[br] + k
      /\ warp[br].value_pos = ValueStart(br) + Cardinality(Behind(walk[k]))
  BY <1>7 DEF FillingAt, RowWritten, IsWholeWalk
<1>9. CountInv'
  BY <1>1 DEF CountInv
<1>10. CASE AtWork(warp[br].pos) = {}
  <2>1. left' = left \ {br} /\ UNCHANGED <<device, warp>>
    BY <1>10, Zenon DEF Fill
  <2>2. BlockRows' = BlockRows /\ NumBlockRows' = NumBlockRows
    BY <1>1, <2>1, WalkStays DEF BlockRows
  <2>3. ShapeInv' /\ LayoutInv'
    <3>1. ShapeInv'
      BY <1>1, <1>2, <2>1, <2>2 DEF ShapeInv
    <3>2. LayoutInv'
      BY <1>1, <1>2, <2>1, <2>2 DEF LayoutInv
    <3>. QED
      BY <3>1, <3>2
  <2>4. k = n
    <3>1. k # n => k \in 0 .. n - 1
      OBVIOUS
    <3>. QED
      BY <1>8, <1>10, <3>1 DEF IsWalk
  <2>5. ASSUME NEW b \in BlockRows PROVE Filling(b)'
    <3>1. PICK m \in Nat : \E w : \E l \in 0 .. m : FillingAt(b, m, w, l)
      BY <1>4 DEF Filling
    <3>2. PICK w : \E l \in 0 .. m : FillingAt(b, m, w, l)
      BY <3>1
    <3>3. PICK l \in 0 .. m : FillingAt(b, m, w, l)
      BY <3>2
    <3>4. CASE b = br
      <4>1. RowWritten(br, n, walk, k)'
        BY <1>1, <1>2, <1>3, <1>8, <2>1, RowStays
      <4>2. Behind(walk[k])' = Behind(walk[k]) /\ ValueStart(br)' = ValueStart(br)
        BY <1>1, WalkStays
      <4>3. FillingAt(br, n, walk, k)'
        BY <1>8, <2>1, <2>4, <4>1, <4>2 DEF FillingAt
      <4>. QED
        BY <3>4, <4>3 DEF Filling
    <3>5. CASE b # br
      <4>1. RowWritten(b, m, w, l)
        BY <3>3 DEF FillingAt
      <4>2. RowWritten(b, m, w, l)'
        BY <1>1, <1>2, <1>3, <2>1, <4>1, RowStays
      <4>3. Behind(w[l])' = Behind(w[l]) /\ ValueStart(b)' = ValueStart(b)
        BY <1>1, WalkStays
      <4>4. b \notin left' => b \notin left
        BY <2>1, <3>5
      <4>5. FillingAt(b, m, w, l)'
        BY <2>1, <3>3, <4>2, <4>3, <4>4 DEF FillingAt
      <4>. QED
        BY <4>5 DEF Filling
    <3>. QED
      BY <3>4, <3>5
  <2>6. FillInv'
    BY <1>1, <1>3, <2>2, <2>5 DEF FillInv
  <2>. QED
    BY <1>9, <2>3, <2>6 DEF IInv
<1>11. CASE AtWork(warp[br].pos) # {}
  <2>. DEFINE c == MinBlockCol(walk[k])
              x == device.block_row_ptr[br] + k
              cols == [device.block_col_idx EXCEPT ![x] = c]
              words == [device.bitmap_words EXCEPT ![x] = TurnBits(br, walk[k], c)]
              values == WithWritten(device.values, Written(warp[br], c))
              new == [pos |-> Turn(walk[k]), block_id |-> x + 1,
                      value_pos |-> warp[br].value_pos + Cardinality(Turned(walk[k]))]
  <2>1. /\ warp' = [warp EXCEPT ![br] = new] /\ UNCHANGED left
        /\ device' = [device EXCEPT !.block_col_idx = cols, !.bitmap_words = words,
                                    !.values = values]
    <3>1. /\ UNCHANGED left
          /\ warp' = [warp EXCEPT ![br] =
               [pos |-> AfterTurn(warp[br].pos, MinBlockCol(warp[br].pos)),
                block_id |-> warp[br].block_id + 1,
                value_pos |-> warp[br].value_pos
                   + Cardinality(UNION {Passed(warp[br].pos, row, MinBlockCol(warp[br].pos)) :
                                          row \in DOMAIN warp[br].pos})]]
      BY <1>11, Zenon DEF Fill
    <3>2. warp' = [warp EXCEPT ![br] = new]
      BY <1>8, <3>1, Zenon DEF PassedInTurn, Turned, Turn
    <3>3. device' = [device EXCEPT
             !.block_col_idx[warp[br].block_id] = MinBlockCol(warp[br].pos),
             !.bitmap_words[warp[br].block_id] =
                 TurnBits(br, warp[br].pos, MinBlockCol(warp[br].pos)),
             !.values = WithWritten(device.values, Written(warp[br], MinBlockCol(warp[br].pos)))]
      BY <1>11, Zenon DEF Fill, WithWritten
    <3>4. device' = [device EXCEPT !.block_col_idx = cols, !.bitmap_words = words,
                                   !.values = values]
      BY <1>8, <3>3, Zenon
    <3>. QED
      BY <3>1, <3>2, <3>4
  <2>. HIDE DEF c, cols, words, values, new
  <2>2. /\ IsDevice(device')
        /\ device'.block_col_idx = cols /\ device'.bitmap_words = words
        /\ device'.values = values
        /\ device'.rows = device.rows /\ device'.cols = device.cols
        /\ device'.num_block_rows = device.num_block_rows
        /\ device'.num_block_cols = device.num_block_cols
        /\ device'.num_blocks = device.num_blocks /\ device'.nnz = device.nnz
        /\ device'.block_row_ptr = device.block_row_ptr
        /\ device'.block_row_val_ptr = device.block_row_val_ptr
    <3>1. IsDevice(device')
      <4>1. IsDevice(device)
        BY <1>2 DEF ShapeInv
      <4>. QED
        BY <2>1, <4>1 DEF IsDevice
    <3>. QED
      BY <1>2, <2>1, <3>1 DEF DeviceFields
  <2>3. DOMAIN warp' = BlockRows /\ warp'[br] = new /\ \A b \in BlockRows \ {br} : warp'[b] = warp[b]
    BY <1>2, <2>1
  <2>4. BlockRows' = BlockRows /\ NumBlockRows' = NumBlockRows
    BY <1>1, <2>2, WalkStays DEF BlockRows
  <2>5. k \in 0 .. n - 1 /\ k + 1 \in 0 .. n /\ walk[k + 1] = Turn(walk[k])
    <3>1. k # n
      BY <1>8, <1>11 DEF IsWholeWalk
    <3>2. k \in 0 .. n - 1 /\ k + 1 \in 0 .. n
      BY <3>1
    <3>. QED
      BY <1>8, <3>2 DEF IsWalk
  <2>6. /\ DOMAIN values = DOMAIN device.values
        /\ \A p \in Turned(walk[k]) : values[Cell(br, walk[k], p)] = effective_csr.values[p]
        /\ \A i \in DOMAIN device.values :
             \/ i < ValueStart(br) + Cardinality(Behind(walk[k])) \/ EntriesEnd(br) <= i
             => values[i] = device.values[i]
    BY <1>2, <1>3, <1>8, <2>5, TurnWritten DEF values, c
  <2>7. /\ DOMAIN cols = DOMAIN device.block_col_idx /\ DOMAIN words = DOMAIN device.bitmap_words
        /\ \A y \in DOMAIN device.block_col_idx : y # x => cols[y] = device.block_col_idx[y]
        /\ \A y \in DOMAIN device.bitmap_words : y # x => words[y] = device.bitmap_words[y]
        /\ x \in DOMAIN device.block_col_idx => cols[x] = c
        /\ x \in DOMAIN device.bitmap_words => words[x] = TurnBits(br, walk[k], c)
    <3>. HIDE DEF x
    <3>. QED
      BY DEF cols, words
  <2>8. /\ device.block_row_ptr \in [0 .. NumBlockRows -> Nat]
        /\ DOMAIN device.block_col_idx = 0 .. device.block_row_ptr[NumBlockRows] - 1
        /\ DOMAIN device.bitmap_words = 0 .. device.block_row_ptr[NumBlockRows] - 1
    BY <1>1, <1>2 DEF LayoutInv
  <2>9. NumBlockRows \in Nat
    <3>1. effective_csr.rows \in Nat /\ block_rows \in Nat \ {0}
      BY <1>2, BlockShapeAssumption DEF IsCsr
    <3>. QED
      BY <3>1, CeilDivCounts DEF NumBlockRows
  <2>10. \A a, b \in 0 .. NumBlockRows :
           a <= b => device.block_row_ptr[a] <= device.block_row_ptr[b]
    <3>1. ASSUME NEW b \in 0 .. NumBlockRows - 1
          PROVE  device.block_row_ptr[b] <= device.block_row_ptr[b + 1]
      <4>1. PICK m \in Nat : \E w : \E l \in 0 .. m : FillingAt(b, m, w, l)
        BY <1>3, <1>4 DEF Filling
      <4>2. device.block_row_ptr[b + 1] = device.block_row_ptr[b] + m /\ device.block_row_ptr[b] \in Nat
        BY <4>1 DEF FillingAt, RowWritten
      <4>. QED
        BY <4>2
    <3>2. device.block_row_ptr \in [0 .. NumBlockRows -> Int]
      BY <2>8
    <3>. QED
      BY <2>9, <3>1, <3>2, StepwiseMonotone
  <2>11. ASSUME NEW b \in 0 .. NumBlockRows - 1
         PROVE  /\ b \in 0 .. NumBlockRows /\ b + 1 \in 0 .. NumBlockRows
                /\ device.block_row_ptr[b] \in Nat
                /\ device.block_row_ptr[b + 1] \in Nat
                /\ device.block_row_ptr[b + 1] <= device.block_row_ptr[NumBlockRows]
                /\ device.block_row_ptr[NumBlockRows] \in Nat
    <3>1. b \in 0 .. NumBlockRows /\ b + 1 \in 0 .. NumBlockRows
          /\ NumBlockRows \in 0 .. NumBlockRows /\ b + 1 <= NumBlockRows
      BY <2>9
    <3>. QED
      BY <2>8, <2>10, <3>1
  <2>12. x \in DOMAIN device.block_col_idx /\ x \in DOMAIN device.bitmap_words
    <3>1. /\ device.block_row_ptr[br + 1] <= device.block_row_ptr[NumBlockRows]
          /\ device.block_row_ptr[NumBlockRows] \in Nat
      BY <1>3, <2>11
    <3>2. x \in 0 .. device.block_row_ptr[NumBlockRows] - 1
      BY <1>8, <2>5, <3>1
    <3>. HIDE DEF x
    <3>. QED
      BY <2>8, <3>2
  <2>13. ShapeInv'
    <3>1. pc # "idle" /\ DOMAIN values = DOMAIN device.values
      BY <1>1, <2>6
    <3>. QED
      BY <1>1, <1>2, <2>1, <2>2, <2>3, <2>4, <3>1 DEF ShapeInv
  <2>14. LayoutInv'
    BY <1>1, <1>2, <2>2, <2>4, <2>7 DEF LayoutInv
  <2>15. ASSUME NEW b \in 0 .. NumBlockRows - 1, NEW m \in Nat, NEW w, NEW l \in 0 .. m,
                RowWritten(b, m, w, l), b = br => l = k /\ w = walk
         PROVE  RowWritten(b, m, w, l)'
    <3>1. device.block_row_ptr[b + 1] = device.block_row_ptr[b] + m /\ IsWalk(b, w, m)
      BY <2>15 DEF RowWritten, IsWholeWalk
    <3>2. ASSUME NEW y \in device.block_row_ptr[b] .. device.block_row_ptr[b] + l - 1
          PROVE  /\ y # x /\ y \in DOMAIN device.block_col_idx /\ y \in DOMAIN device.bitmap_words
      <4>1. /\ y \in Nat /\ device.block_row_ptr[b] <= y
            /\ y < device.block_row_ptr[b] + l /\ y < device.block_row_ptr[b + 1]
        BY <2>11, <3>1
      <4>2. y < device.block_row_ptr[NumBlockRows]
        BY <2>11, <4>1
      <4>3. b = br => y # x
        BY <1>8, <2>15, <4>1
      <4>4. b < br => y # x
        <5>1. b < br => b + 1 <= br
          BY <1>3, <2>9
        <5>2. b < br => device.block_row_ptr[b + 1] <= device.block_row_ptr[br]
          BY <1>3, <2>10, <2>11, <5>1
        <5>. QED
          BY <1>8, <2>11, <4>1, <5>2
      <4>5. br < b => y # x
        <5>1. br < b => br + 1 <= b
          BY <1>3, <2>9
        <5>2. br < b => device.block_row_ptr[br + 1] <= device.block_row_ptr[b]
          BY <1>3, <2>10, <2>11, <5>1
        <5>. QED
          BY <1>8, <2>5, <2>11, <4>1, <5>2
      <4>6. b < br \/ b = br \/ br < b
        BY <1>3, <2>9
      <4>. HIDE DEF x
      <4>7. y # x
        BY <4>3, <4>4, <4>5, <4>6
      <4>8. y \in 0 .. device.block_row_ptr[NumBlockRows] - 1
        BY <2>11, <4>1, <4>2
      <4>. QED
        BY <2>8, <4>7, <4>8
    <3>3. ASSUME NEW y \in ValueStart(b) .. ValueStart(b) + Cardinality(Behind(w[l])) - 1
          PROVE  values[y] = device.values[y]
      <4>1. /\ Cardinality(Behind(w[l])) \in Nat /\ ValueStart(b) \in Nat /\ EntriesEnd(b) \in Nat
            /\ ValueStart(b) + Cardinality(Behind(w[l])) <= EntriesEnd(b)
        BY <1>2, <3>1, WalkLanes, BehindCounts
      <4>2. /\ EntriesEnd(b) <= size(effective_csr.values)
            /\ size(effective_csr.values) \in Nat
            /\ DOMAIN effective_csr.values = 0 .. size(effective_csr.values) - 1
            /\ b < br => EntriesEnd(b) <= ValueStart(br)
            /\ br < b => EntriesEnd(br) <= ValueStart(b)
            /\ ValueStart(br) \in Nat /\ EntriesEnd(br) \in Nat
        BY <1>2, <1>3, EntriesFollow
      <4>3. Cardinality(Behind(walk[k])) \in Nat
        BY <1>2, <1>3, <1>8, WalkCounts
      <4>4. y \in Nat /\ ValueStart(b) <= y /\ y < ValueStart(b) + Cardinality(Behind(w[l]))
            /\ y < EntriesEnd(b) /\ y \in DOMAIN device.values
        BY <1>2, <4>1, <4>2
      <4>5. \/ y < ValueStart(br) + Cardinality(Behind(walk[k])) \/ EntriesEnd(br) <= y
        <5>1. CASE b = br
          BY <2>15, <4>4, <5>1
        <5>2. CASE b < br
          <6>1. y < EntriesEnd(b) /\ EntriesEnd(b) <= ValueStart(br)
            BY <4>2, <4>4, <5>2
          <6>2. EntriesEnd(b) \in Nat
            BY <4>2, EntriesFollow, <1>2
          <6>. QED
            BY <4>2, <4>3, <4>4, <6>1, <6>2
        <5>3. CASE br < b
          BY <4>1, <4>2, <4>4, <5>3
        <5>. QED
          BY <1>3, <2>9, <5>1, <5>2, <5>3
      <4>. QED
        BY <2>6, <4>4, <4>5
    <3>4. \A y \in device.block_row_ptr[b] .. device.block_row_ptr[b] + l - 1 :
            /\ device'.block_col_idx[y] = device.block_col_idx[y]
            /\ device'.bitmap_words[y] = device.bitmap_words[y]
      BY <2>2, <2>7, <3>2
    <3>5. \A y \in ValueStart(b) .. ValueStart(b) + Cardinality(Behind(w[l])) - 1 :
            device'.values[y] = device.values[y]
      BY <2>2, <3>3
    <3>. QED
      BY <1>1, <1>2, <2>2, <2>15, <3>4, <3>5, RowStays
  <2>16. Filling(br)'
    <3>1. RowWritten(br, n, walk, k)'
      BY <1>3, <1>8, <2>15
    <3>2. BlockWritten(br, walk[k], x)'
      <4>1. /\ MinBlockCol(walk[k])' = c /\ Turned(walk[k])' = Turned(walk[k])
            /\ TurnBits(br, walk[k], c)' = TurnBits(br, walk[k], c)
            /\ \A p : Cell(br, walk[k], p)' = Cell(br, walk[k], p)
        BY <1>1, WalkStays DEF c
      <4>. HIDE DEF x
      <4>2. /\ device'.block_col_idx[x] = c
            /\ device'.bitmap_words[x] = TurnBits(br, walk[k], c)
            /\ \A p \in Turned(walk[k]) : device'.values[Cell(br, walk[k], p)] = effective_csr.values[p]
        BY <2>2, <2>6, <2>7, <2>12
      <4>3. /\ (device.block_col_idx[x] = MinBlockCol(walk[k]))'
            /\ (\A p \in Turned(walk[k]) :
                  device.values[Cell(br, walk[k], p)] = effective_csr.values[p])'
        <5>1. x' = x
          BY <2>2 DEF x
        <5>2. device'.block_col_idx[x'] = MinBlockCol(walk[k])'
          BY <4>1, <4>2, <5>1
        <5>. QED
          BY <1>1, <4>1, <4>2, <5>2
      <4>4. (device.bitmap_words[x] = TurnBits(br, walk[k], MinBlockCol(walk[k])))'
        <5>1. TurnBits(br, walk[k], MinBlockCol(walk[k]))' = TurnBits(br, walk[k], c)
          BY <1>1, WalkStays DEF c
        <5>. QED
          BY <2>2, <4>2, <5>1 DEF x
      <4>. QED
        BY <2>2, <4>3, <4>4 DEF BlockWritten, x
    <3>3. RowWritten(br, n, walk, k + 1)'
      <4>1. \A j \in 0 .. (k + 1) - 1 : j \in 0 .. k - 1 \/ j = k
        OBVIOUS
      <4>2. \A j \in 0 .. k - 1 : BlockWritten(br, walk[j], device.block_row_ptr[br] + j)'
        BY <3>1 DEF RowWritten
      <4>3. BlockWritten(br, walk[k], device.block_row_ptr[br] + k)'
        BY <2>2, <3>2
      <4>. QED
        BY <3>1, <4>1, <4>2, <4>3 DEF RowWritten
    <3>4. Behind(walk[k + 1])' = Behind(walk[k + 1]) /\ ValueStart(br)' = ValueStart(br)
      BY <1>1, WalkStays
    <3>5. /\ warp'[br].pos = walk[k + 1]
          /\ warp'[br].block_id = device.block_row_ptr[br] + (k + 1)
      BY <1>8, <2>3, <2>5 DEF new
    <3>6. warp'[br].value_pos = ValueStart(br) + Cardinality(Behind(walk[k + 1]))
      <4>1. /\ Cardinality(Turned(walk[k])) \in Nat
            /\ Cardinality(Behind(walk[k + 1]))
                 = Cardinality(Behind(walk[k])) + Cardinality(Turned(walk[k]))
        BY <1>2, <1>3, <1>8, <2>5, WalkCounts
      <4>2. Cardinality(Behind(walk[k])) \in Nat
        BY <1>2, <1>3, <1>8, WalkCounts
      <4>3. ValueStart(br) \in Nat
        BY <1>2, <1>3, EntriesFollow
      <4>. QED
        BY <1>8, <2>3, <4>1, <4>2, <4>3 DEF new
    <3>7. br \in left'
      BY <1>1, <2>1
    <3>8. FillingAt(br, n, walk, k + 1)'
      BY <2>2, <3>3, <3>4, <3>5, <3>6, <3>7 DEF FillingAt
    <3>. QED
      BY <2>5, <3>8 DEF Filling
  <2>17. ASSUME NEW b \in BlockRows, b # br PROVE Filling(b)'
    <3>1. PICK m \in Nat : \E w : \E l \in 0 .. m : FillingAt(b, m, w, l)
      BY <1>4 DEF Filling
    <3>2. PICK w : \E l \in 0 .. m : FillingAt(b, m, w, l)
      BY <3>1
    <3>3. PICK l \in 0 .. m : FillingAt(b, m, w, l)
      BY <3>2
    <3>4. RowWritten(b, m, w, l)'
      BY <1>3, <2>15, <2>17, <3>3 DEF FillingAt
    <3>5. Behind(w[l])' = Behind(w[l]) /\ ValueStart(b)' = ValueStart(b)
      BY <1>1, WalkStays
    <3>6. warp'[b] = warp[b]
      BY <2>3, <2>17
    <3>7. FillingAt(b, m, w, l)'
      BY <2>1, <2>2, <3>3, <3>4, <3>5, <3>6 DEF FillingAt
    <3>. QED
      BY <3>7 DEF Filling
  <2>18. FillInv'
    BY <1>1, <1>3, <2>4, <2>16, <2>17 DEF FillInv
  <2>. QED
    BY <1>9, <2>13, <2>14, <2>18 DEF IInv
<1>. QED
  BY <1>10, <1>11

\* The end of the filling kernel: every warp has walked all its way.
LEMMA SyncInv ==
  ASSUME IInv, Sync
  PROVE  IInv'
<1>1. /\ pc = "fill" /\ left = {} /\ pc' = "done"
      /\ UNCHANGED <<csr, effective_csr, block_counts, device, warp, left, conversions>>
  BY DEF Sync, LastWarp
<1>2. NumBlockRows' = NumBlockRows /\ BlockRows' = BlockRows
  BY <1>1, WalkStays DEF BlockRows
<1>3. ShapeInv' /\ CountInv' /\ LayoutInv'
  <2>1. ShapeInv /\ LayoutInv
    BY DEF IInv
  <2>2. ShapeInv'
    BY <1>1, <1>2, <2>1 DEF ShapeInv
  <2>3. LayoutInv'
    BY <1>1, <1>2, <2>1 DEF LayoutInv
  <2>. QED
    BY <1>1, <2>2, <2>3 DEF CountInv
<1>4. ASSUME NEW b \in 0 .. NumBlockRows - 1 PROVE Filled(b)'
  <2>1. Filling(b) /\ IsCsr(effective_csr)
    BY <1>1 DEF IInv, ShapeInv, FillInv
  <2>2. PICK m \in Nat : \E w : \E l \in 0 .. m : FillingAt(b, m, w, l)
    BY <2>1 DEF Filling
  <2>3. PICK w : \E l \in 0 .. m : FillingAt(b, m, w, l)
    BY <2>2
  <2>4. PICK l \in 0 .. m : FillingAt(b, m, w, l)
    BY <2>3
  <2>5. RowWritten(b, m, w, m)
    BY <1>1, <2>4 DEF FillingAt
  <2>6. m \in 0 .. m
    OBVIOUS
  <2>7. RowWritten(b, m, w, m)'
    BY <1>1, <2>1, <2>5, <2>6, RowStays
  <2>. QED
    BY <2>7 DEF Filled
<1>5. FillInv'
  BY <1>1, <1>2, <1>4 DEF FillInv
<1>. QED
  BY <1>3, <1>5 DEF IInv

LEMMA StutterInv ==
  ASSUME IInv, UNCHANGED vars
  PROVE  IInv'
<1>1. /\ UNCHANGED <<csr, pc, effective_csr, block_counts, device, warp, left>>
      /\ NumBlockRows' = NumBlockRows /\ BlockRows' = BlockRows
  BY DEF vars, NumBlockRows, BlockRows
<1>2. ShapeInv'
  BY <1>1 DEF IInv, ShapeInv
<1>3. CountInv'
  <2>1. \A b : (Counting(b)' <=> Counting(b)) /\ (Counted(b)' <=> Counted(b))
    BY <1>1, WalkStays DEF Counting, Counted
  <2>. QED
    BY <1>1, <2>1 DEF IInv, CountInv
<1>4. LayoutInv'
  BY <1>1 DEF IInv, LayoutInv
<1>5. FillInv'
  <2>1. \A b, pos, x : BlockWritten(b, pos, x)' <=> BlockWritten(b, pos, x)
    BY <1>1, WalkStays DEF BlockWritten
  <2>2. \A b, m, w, l : RowWritten(b, m, w, l)' <=> RowWritten(b, m, w, l)
    BY <1>1, <2>1, WalkStays DEF RowWritten
  <2>3. \A b, m, w, l : FillingAt(b, m, w, l)' <=> FillingAt(b, m, w, l)
    BY <1>1, <2>2, WalkStays DEF FillingAt
  <2>4. \A b : (Filling(b)' <=> Filling(b)) /\ (Filled(b)' <=> Filled(b))
    BY <2>2, <2>3 DEF Filling, Filled
  <2>. QED
    BY <1>1, <2>4 DEF IInv, FillInv
<1>. QED
  BY <1>2, <1>3, <1>4, <1>5 DEF IInv

LEMMA StepInv == IInv /\ [Next]_vars => IInv'
<1>. SUFFICES ASSUME IInv, [Next]_vars PROVE IInv'
  OBVIOUS
<1>1. ASSUME NEW matrix \in CsrMatrices, Convert(matrix) PROVE IInv'
  BY <1>1, ConvertInv
<1>2. ASSUME NEW br \in BlockRows, Count(br) PROVE IInv'
  BY <1>2, CountInvariant
<1>3. ASSUME NEW br \in BlockRows, Fill(br) PROVE IInv'
  BY <1>3, FillStep
<1>4. CASE Scan
  BY <1>4, ScanInv
<1>5. CASE Sync
  BY <1>5, SyncInv
<1>6. CASE UNCHANGED vars
  BY <1>6, StutterInv
<1>. QED
  BY <1>1, <1>2, <1>3, <1>4, <1>5, <1>6 DEF Next, KernelStep, Finished

-----------------------------------------------------------------------------
(* The result. *)

LEMMA SizeIs ==
  ASSUME NEW n \in Nat, NEW f, DOMAIN f = 0 .. n - 1
  PROVE  size(f) = n
<1>1. 0 \in Int /\ 0 .. 0 + n - 1 = 0 .. n - 1
  OBVIOUS
<1>2. Cardinality(0 .. 0 + n - 1) = n
  BY <1>1, IntervalIs, Zenon
<1>. QED
  BY <1>1, <1>2 DEF size

\* The block rows follow each other in the blocks, and every block is of one.
LEMMA BlocksFollow ==
  ASSUME IInv, pc = "done"
  PROVE  /\ NumBlockRows \in Nat /\ device.num_blocks \in Nat /\ IsCsr(effective_csr)
         /\ device.block_row_ptr \in [0 .. NumBlockRows -> Nat] /\ device.block_row_ptr[0] = 0
         /\ device.num_blocks = device.block_row_ptr[NumBlockRows]
         /\ \A a, b \in 0 .. NumBlockRows :
              a <= b => device.block_row_ptr[a] <= device.block_row_ptr[b]
         /\ \A b \in 0 .. device.num_blocks - 1 : \E br \in 0 .. NumBlockRows - 1 :
              device.block_row_ptr[br] <= b /\ b < device.block_row_ptr[br + 1]
         /\ \A b \in Int : \A p, q \in 0 .. NumBlockRows - 1 :
              /\ device.block_row_ptr[p] <= b /\ b < device.block_row_ptr[p + 1]
              /\ device.block_row_ptr[q] <= b /\ b < device.block_row_ptr[q + 1]
              => p = q
         /\ \A br \in 0 .. NumBlockRows - 1 : \E n \in Nat : \E walk :
              /\ RowWritten(br, n, walk, n) /\ IsWalk(br, walk, n) /\ AtWork(walk[n]) = {}
              /\ device.block_row_ptr[br + 1] = device.block_row_ptr[br] + n
              /\ \A j \in 0 .. n - 1 : BlockWritten(br, walk[j], device.block_row_ptr[br] + j)
<1>1. IsCsr(effective_csr) /\ LayoutInv /\ \A br \in 0 .. NumBlockRows - 1 : Filled(br)
  BY DEF IInv, ShapeInv, FillInv
<1>2. NumBlockRows \in Nat
  <2>1. effective_csr.rows \in Nat /\ block_rows \in Nat \ {0}
    BY <1>1, BlockShapeAssumption DEF IsCsr
  <2>. QED
    BY <2>1, CeilDivCounts DEF NumBlockRows
<1>3. /\ device.block_row_ptr \in [0 .. NumBlockRows -> Nat] /\ device.block_row_ptr[0] = 0
      /\ device.num_blocks = device.block_row_ptr[NumBlockRows]
  BY <1>1 DEF LayoutInv
<1>4. device.num_blocks \in Nat /\ device.block_row_ptr \in [0 .. NumBlockRows -> Int]
  BY <1>2, <1>3
<1>5. ASSUME NEW br \in 0 .. NumBlockRows - 1
      PROVE  \E n \in Nat : \E walk :
               /\ RowWritten(br, n, walk, n) /\ IsWalk(br, walk, n) /\ AtWork(walk[n]) = {}
               /\ device.block_row_ptr[br + 1] = device.block_row_ptr[br] + n
               /\ \A j \in 0 .. n - 1 : BlockWritten(br, walk[j], device.block_row_ptr[br] + j)
  BY <1>1 DEF Filled, RowWritten, IsWholeWalk
<1>6. \A br \in 0 .. NumBlockRows - 1 : device.block_row_ptr[br] <= device.block_row_ptr[br + 1]
  <2>1. SUFFICES ASSUME NEW br \in 0 .. NumBlockRows - 1
                 PROVE  device.block_row_ptr[br] <= device.block_row_ptr[br + 1]
    OBVIOUS
  <2>2. PICK n \in Nat : device.block_row_ptr[br + 1] = device.block_row_ptr[br] + n
    BY <1>5
  <2>3. device.block_row_ptr[br] \in Nat
    BY <1>2, <1>3
  <2>. QED
    BY <2>2, <2>3
<1>7. \A a, b \in 0 .. NumBlockRows :
        a <= b => device.block_row_ptr[a] <= device.block_row_ptr[b]
  BY <1>2, <1>4, <1>6, StepwiseMonotone
<1>8. ASSUME NEW b \in 0 .. device.num_blocks - 1
      PROVE  \E br \in 0 .. NumBlockRows - 1 :
               device.block_row_ptr[br] <= b /\ b < device.block_row_ptr[br + 1]
  <2>1. b \in Int /\ device.block_row_ptr[0] <= b /\ b < device.block_row_ptr[NumBlockRows]
    BY <1>3, <1>4
  <2>. QED
    BY <1>2, <1>4, <2>1, RowOfIndex
<1>9. \A b \in Int : \A p, q \in 0 .. NumBlockRows - 1 :
        /\ device.block_row_ptr[p] <= b /\ b < device.block_row_ptr[p + 1]
        /\ device.block_row_ptr[q] <= b /\ b < device.block_row_ptr[q + 1]
        => p = q
  BY <1>2, <1>4, <1>6, RowOfIndexUnique
<1>. QED
  BY <1>1, <1>2, <1>3, <1>4, <1>5, <1>7, <1>8, <1>9

\* A turn's bits are finitely many, no more than its entries.
LEMMA BitsOfTurn ==
  ASSUME IsCsr(effective_csr), NEW br \in 0 .. NumBlockRows - 1,
         NEW n \in Nat, NEW walk, IsWalk(br, walk, n), NEW k \in 0 .. n - 1
  PROVE  LET P == Turned(walk[k])
             bits == TurnBits(br, walk[k], MinBlockCol(walk[k]))
         IN  /\ bits = {BitAt(br, p) : p \in P} /\ bits \subseteq Bits
             /\ IsFiniteSet(P) /\ Cardinality(P) \in Nat /\ P # {}
             /\ IsFiniteSet(bits) /\ Cardinality(bits) \in Nat
             /\ Cardinality(bits) <= Cardinality(P)
             /\ (\A p, q \in P : BitAt(br, p) = BitAt(br, q) => p = q)
                  => Cardinality(bits) = Cardinality(P)
             /\ (\E p, q \in P : p # q /\ BitAt(br, p) = BitAt(br, q))
                  => Cardinality(bits) < Cardinality(P)
<1>. DEFINE P == Turned(walk[k])
            bits == TurnBits(br, walk[k], MinBlockCol(walk[k]))
            f == [p \in P |-> BitAt(br, p)]
<1>1. k \in 0 .. n
  OBVIOUS
<1>2. Lanes(br, walk[k]) /\ AtWork(walk[k]) # {}
  BY <1>1, WalkLanes DEF IsWalk
<1>3. MinBlockCol(walk[k]) \in Nat /\ P # {}
  BY <1>2, MinBlockColIs DEF Turned
<1>4. bits = {BitAt(br, p) : p \in P} /\ \A p \in P : BitAt(br, p) \in Bits
  BY <1>2, <1>3, TurnIs DEF Turned
<1>5. IsFiniteSet(P) /\ Cardinality(P) \in Nat
  BY WalkCounts
<1>. HIDE DEF P, bits
<1>6. bits \subseteq Bits
  BY <1>4
<1>7. f \in Surjection(P, bits) /\ DOMAIN f = P /\ \A p \in P : f[p] = BitAt(br, p)
  BY <1>4 DEF Surjection
<1>. HIDE DEF f
<1>8. IsFiniteSet(bits) /\ Cardinality(bits) <= Cardinality(P)
      /\ (Cardinality(bits) = Cardinality(P) <=> f \in Injection(P, bits))
  BY <1>5, <1>7, FS_Surjection
<1>9. Cardinality(bits) \in Nat
  BY <1>8, FS_CardinalityType
<1>10. ASSUME \A p, q \in P : BitAt(br, p) = BitAt(br, q) => p = q
       PROVE  Cardinality(bits) = Cardinality(P)
  <2>1. \A p, q \in P : f[p] = f[q] => p = q
    BY <1>7, <1>10
  <2>2. f \in Injection(P, bits)
    BY <1>7, <2>1 DEF Surjection, Injection, IsInjective
  <2>. QED
    BY <1>8, <2>2
<1>11. ASSUME \E p, q \in P : p # q /\ BitAt(br, p) = BitAt(br, q)
       PROVE  Cardinality(bits) < Cardinality(P)
  <2>1. f \notin Injection(P, bits)
    BY <1>7, <1>11 DEF Injection, IsInjective
  <2>. QED
    BY <1>5, <1>8, <1>9, <2>1
<1>. QED
  BY <1>3, <1>4, <1>5, <1>6, <1>8, <1>9, <1>10, <1>11 DEF P, bits

\* How many bits the blocks before a block have, those of the rows before left out.
BitsBefore(br) ==
  PrefixSum([i \in 0 .. device.num_blocks - 1 |->
               IF i < device.block_row_ptr[br] THEN 0 ELSE Cardinality(device.bitmap_words[i])],
            device.num_blocks)

LEMMA BlockBits ==
  ASSUME IInv, pc = "done", NEW b \in 0 .. device.num_blocks - 1
  PROVE  Cardinality(device.bitmap_words[b]) \in Nat /\ device.bitmap_words[b] \subseteq Bits
<1>1. PICK br \in 0 .. NumBlockRows - 1 :
        device.block_row_ptr[br] <= b /\ b < device.block_row_ptr[br + 1]
  BY BlocksFollow
<1>2. PICK n \in Nat : \E walk :
        /\ IsWalk(br, walk, n)
        /\ device.block_row_ptr[br + 1] = device.block_row_ptr[br] + n
        /\ \A j \in 0 .. n - 1 : BlockWritten(br, walk[j], device.block_row_ptr[br] + j)
  BY BlocksFollow
<1>3. PICK walk :
        /\ IsWalk(br, walk, n)
        /\ device.block_row_ptr[br + 1] = device.block_row_ptr[br] + n
        /\ \A j \in 0 .. n - 1 : BlockWritten(br, walk[j], device.block_row_ptr[br] + j)
  BY <1>2
<1>4. device.block_row_ptr[br] \in Nat /\ device.num_blocks \in Nat
  <2>1. NumBlockRows \in Nat /\ device.block_row_ptr \in [0 .. NumBlockRows -> Nat]
        /\ device.num_blocks \in Nat
    BY BlocksFollow
  <2>. QED
    BY <2>1
<1>. DEFINE j == b - device.block_row_ptr[br]
<1>5. j \in 0 .. n - 1 /\ device.block_row_ptr[br] + j = b
  BY <1>1, <1>3, <1>4
<1>. HIDE DEF j
<1>6. device.bitmap_words[b] = TurnBits(br, walk[j], MinBlockCol(walk[j]))
  BY <1>3, <1>5 DEF BlockWritten
<1>7. IsCsr(effective_csr)
  BY BlocksFollow
<1>. QED
  BY <1>3, <1>5, <1>6, <1>7, BitsOfTurn

LEMMA BlockSums ==
  ASSUME IInv, pc = "done", NEW br \in 0 .. NumBlockRows - 1
  PROVE  /\ BitsBefore(br) \in [0 .. device.num_blocks -> Nat]
         /\ BitsBefore(br)[device.block_row_ptr[br]] = 0
         /\ \A i \in device.block_row_ptr[br] .. device.num_blocks - 1 :
              BitsBefore(br)[i + 1] = BitsBefore(br)[i] + Cardinality(device.bitmap_words[i])
         /\ \A b \in device.block_row_ptr[br] .. device.block_row_ptr[br + 1] - 1 :
              /\ b \in 0 .. device.num_blocks - 1
              /\ BlockValPtr(device)[b] = device.block_row_val_ptr[br] + BitsBefore(br)[b]
<1>. DEFINE ptr(i) == device.block_row_ptr[i]
            nb == device.num_blocks
            bits == [i \in 0 .. nb - 1 |-> IF i < ptr(br) THEN 0
                                           ELSE Cardinality(device.bitmap_words[i])]
            S == BitsBefore(br)
<1>1. /\ NumBlockRows \in Nat /\ nb \in Nat /\ nb = ptr(NumBlockRows)
      /\ device.block_row_ptr \in [0 .. NumBlockRows -> Nat]
      /\ \A a, b \in 0 .. NumBlockRows : a <= b => ptr(a) <= ptr(b)
  BY BlocksFollow
<1>2. /\ br \in 0 .. NumBlockRows /\ br + 1 \in 0 .. NumBlockRows
      /\ ptr(br) \in Nat /\ ptr(br + 1) \in Nat /\ ptr(br + 1) <= nb /\ ptr(br) <= nb
  <2>1. br \in 0 .. NumBlockRows /\ br + 1 \in 0 .. NumBlockRows
        /\ NumBlockRows \in 0 .. NumBlockRows /\ br + 1 <= NumBlockRows /\ br <= NumBlockRows
    BY <1>1
  <2>. QED
    BY <1>1, <2>1
<1>3. \A i \in 0 .. nb - 1 : Cardinality(device.bitmap_words[i]) \in Nat
  BY BlockBits
<1>. HIDE DEF nb, ptr
<1>4. bits \in [0 .. nb - 1 -> Nat]
  BY <1>3
<1>5. \A i \in 0 .. nb - 1 : bits[i] = IF i < ptr(br) THEN 0
                                       ELSE Cardinality(device.bitmap_words[i])
  OBVIOUS
<1>6. S = PrefixSum(bits, nb)
  BY DEF BitsBefore, nb, ptr
<1>. HIDE DEF bits, S
<1>7. /\ S \in [0 .. nb -> Nat] /\ S[0] = 0
      /\ \A i \in 0 .. nb - 1 : S[i + 1] = S[i] + bits[i]
  BY <1>1, <1>4, <1>6, PrefixSumSteps
<1>8. S[ptr(br)] = 0
  <2>1. \A i \in 0 .. ptr(br) - 1 : S[i + 1] = S[i]
    <3>1. SUFFICES ASSUME NEW i \in 0 .. ptr(br) - 1 PROVE S[i + 1] = S[i]
      OBVIOUS
    <3>2. i \in 0 .. nb - 1 /\ i < ptr(br) /\ i \in 0 .. nb
      BY <1>1, <1>2
    <3>3. S[i] \in Nat /\ S[i + 1] = S[i] + 0
      BY <1>5, <1>7, <3>2
    <3>. QED
      BY <3>3
  <2>2. S \in [0 .. nb -> Int] /\ 0 \in 0 .. nb /\ ptr(br) \in 0 .. nb /\ 0 <= ptr(br)
    BY <1>1, <1>2, <1>7
  <2>. QED
    BY <1>1, <1>7, <2>1, <2>2, NoSteps
<1>9. ASSUME NEW i \in ptr(br) .. nb - 1
      PROVE  S[i + 1] = S[i] + Cardinality(device.bitmap_words[i])
  <2>1. i \in 0 .. nb - 1 /\ ~(i < ptr(br))
    BY <1>1, <1>2
  <2>. QED
    BY <1>5, <1>7, <2>1
<1>10. ASSUME NEW b \in ptr(br) .. ptr(br + 1) - 1
       PROVE  /\ b \in 0 .. nb - 1
              /\ BlockValPtr(device)[b] = device.block_row_val_ptr[br] + S[b]
  <2>1. b \in 0 .. nb - 1 /\ b \in 0 .. nb /\ b # nb /\ b \in Nat
        /\ ptr(br) <= b /\ b < ptr(br + 1)
    BY <1>1, <1>2
  <2>. DEFINE mine == [i \in 0 .. b - 1 |-> IF i < ptr(br) THEN 0
                                            ELSE Cardinality(device.bitmap_words[i])]
              T == PrefixSum(mine, b)
              row == CHOOSE r \in 0 .. NumBlockRows - 1 : b \in ptr(r) .. ptr(r + 1) - 1
  <2>2. row = br
    <3>1. ASSUME NEW r \in 0 .. NumBlockRows - 1, b \in ptr(r) .. ptr(r + 1) - 1
          PROVE  r = br
      <4>1. ptr(r) \in Nat /\ ptr(r + 1) \in Nat
        <5>1. r \in 0 .. NumBlockRows /\ r + 1 \in 0 .. NumBlockRows
          BY <1>1
        <5>. QED
          BY <1>1, <5>1 DEF ptr
      <4>2. b \in Int /\ ptr(r) <= b /\ b < ptr(r + 1)
        BY <2>1, <3>1, <4>1
      <4>. QED
        BY <2>1, <4>2, BlocksFollow DEF ptr
    <3>. QED
      BY <3>1
  <2>3. device.num_block_rows = NumBlockRows
    BY DEF IInv, ShapeInv
  <2>4. BlockValPtr(device)[b] = device.block_row_val_ptr[br] + T[b]
    <3>. DEFINE V(x) ==
           IF x = device.num_blocks THEN device.nnz
           ELSE LET r0 == CHOOSE r0 \in 0 .. device.num_block_rows - 1 :
                            x \in device.block_row_ptr[r0] .. device.block_row_ptr[r0 + 1] - 1
                    c0 == [i \in 0 .. x - 1 |-> IF i < device.block_row_ptr[r0] THEN 0
                                                ELSE Cardinality(device.bitmap_words[i])]
                IN  device.block_row_val_ptr[r0] + PrefixSum(c0, x)[x]
    <3>1. BlockValPtr(device) = [x \in 0 .. device.num_blocks |-> V(x)]
      BY DEF BlockValPtr
    <3>2. V(b) = device.block_row_val_ptr[row] + PrefixSum(mine, b)[b]
      <4>1. V(b) =
              LET r0 == CHOOSE r0 \in 0 .. NumBlockRows - 1 :
                          b \in device.block_row_ptr[r0] .. device.block_row_ptr[r0 + 1] - 1
                  c0 == [i \in 0 .. b - 1 |-> IF i < device.block_row_ptr[r0] THEN 0
                                              ELSE Cardinality(device.bitmap_words[i])]
              IN  device.block_row_val_ptr[r0] + PrefixSum(c0, b)[b]
        BY <2>1, <2>3 DEF nb
      <4>2. row = CHOOSE r0 \in 0 .. NumBlockRows - 1 :
                    b \in device.block_row_ptr[r0] .. device.block_row_ptr[r0 + 1] - 1
        BY DEF ptr
      <4>. HIDE DEF V, row
      <4>3. V(b) =
              LET c0 == [i \in 0 .. b - 1 |-> IF i < device.block_row_ptr[row] THEN 0
                                              ELSE Cardinality(device.bitmap_words[i])]
              IN  device.block_row_val_ptr[row] + PrefixSum(c0, b)[b]
        BY <4>1, <4>2
      <4>4. mine = [i \in 0 .. b - 1 |-> IF i < device.block_row_ptr[row] THEN 0
                                         ELSE Cardinality(device.bitmap_words[i])]
        BY <2>2 DEF ptr
      <4>. QED
        BY <4>3, <4>4
    <3>. HIDE DEF V
    <3>3. BlockValPtr(device)[b] = V(b)
      BY <2>1, <3>1 DEF nb
    <3>. QED
      BY <2>2, <3>2, <3>3
  <2>5. mine \in [0 .. b - 1 -> Nat] /\ \A i \in 0 .. b - 1 : mine[i] = bits[i]
    <3>1. \A i \in 0 .. b - 1 : i \in 0 .. nb - 1
      BY <1>1, <2>1
    <3>. QED
      BY <1>3, <1>5, <3>1
  <2>. HIDE DEF mine, T
  <2>6. /\ T \in [0 .. b -> Nat] /\ T[0] = 0
        /\ \A i \in 0 .. b - 1 : T[i + 1] = T[i] + mine[i]
    BY <2>1, <2>5, PrefixSumSteps DEF T
  <2>7. T[b] = S[b]
    <3>. DEFINE g == [i \in 0 .. b |-> S[i]]
    <3>1. \A i \in 0 .. b : i \in 0 .. nb
      BY <1>1, <2>1
    <3>2. g \in [0 .. b -> Int] /\ T \in [0 .. b -> Int] /\ \A i \in 0 .. b : g[i] = S[i]
      <4>1. \A i \in 0 .. b : S[i] \in Int
        BY <1>7, <3>1
      <4>2. T \in [0 .. b -> Int]
        BY <2>6
      <4>. QED
        BY <4>1, <4>2
    <3>3. T[0] = g[0]
      BY <1>7, <2>1, <2>6, <3>2
    <3>4. ASSUME NEW i \in 0 .. b - 1 PROVE T[i + 1] - T[i] = g[i + 1] - g[i]
      <4>1. i \in 0 .. b /\ i + 1 \in 0 .. b /\ i \in 0 .. nb - 1
        BY <1>1, <2>1
      <4>2. T[i + 1] = T[i] + mine[i] /\ g[i + 1] = g[i] + bits[i] /\ mine[i] = bits[i]
        BY <1>7, <2>5, <2>6, <3>2, <4>1
      <4>3. T[i] \in Int /\ g[i] \in Int /\ mine[i] \in Int
        BY <2>5, <3>2, <4>1
      <4>. QED
        BY <4>2, <4>3
    <3>. HIDE DEF g
    <3>5. \A i \in 0 .. b : T[i] = g[i]
      BY <2>1, <3>2, <3>3, <3>4, SameSteps
    <3>. QED
      BY <2>1, <3>2, <3>5
  <2>. QED
    BY <2>1, <2>4, <2>7
<1>. QED
  BY <1>7, <1>8, <1>9, <1>10 DEF S, nb, ptr

\* The value start of the next block row is where the entries of a row end.
LEMMA ValueStarts ==
  ASSUME ShapeInv, LayoutInv, pc \in {"fill", "done"}, NEW br \in 0 .. NumBlockRows - 1
  PROVE  /\ device.block_row_val_ptr[br + 1] = EntriesEnd(br)
         /\ device.block_row_val_ptr[br] = ValueStart(br)
<1>1. IsCsr(effective_csr)
  BY DEF ShapeInv
<1>2. NumBlockRows \in Nat
  <2>1. effective_csr.rows \in Nat /\ block_rows \in Nat \ {0}
    BY <1>1, BlockShapeAssumption DEF IsCsr
  <2>. QED
    BY <2>1, CeilDivCounts DEF NumBlockRows
<1>3. br \in 0 .. NumBlockRows /\ br + 1 \in 0 .. NumBlockRows
  BY <1>2
<1>4. device.block_row_val_ptr =
        [k \in 0 .. NumBlockRows |->
           effective_csr.row_ptr[Smaller(effective_csr.rows, k * block_rows)]]
  BY DEF LayoutInv
<1>5. device.block_row_val_ptr[br + 1] = EntriesEnd(br)
  BY <1>3, <1>4 DEF EntriesEnd
<1>6. device.block_row_val_ptr[br]
        = effective_csr.row_ptr[Smaller(effective_csr.rows, br * block_rows)]
  BY <1>3, <1>4
<1>7. Smaller(effective_csr.rows, br * block_rows) = br * block_rows
  BY <1>1, RowsOf
<1>. QED
  BY <1>5, <1>6, <1>7 DEF ValueStart

\* The value starts of the block rows are those of their first blocks: a block
\* row without blocks is one without entries.
LEMMA RowStarts ==
  ASSUME IInv, pc = "done"
  PROVE  /\ BlockRowValPtr(to_host(device)) = device.block_row_val_ptr
         /\ device.block_row_val_ptr \in [0 .. NumBlockRows -> Nat]
         /\ device.block_row_val_ptr[NumBlockRows] = device.nnz
         /\ device.nnz \in Nat
<1>. DEFINE ptr(i) == device.block_row_ptr[i]
            val == device.block_row_val_ptr
            nb == device.num_blocks
<1>1. /\ NumBlockRows \in Nat /\ nb \in Nat /\ IsCsr(effective_csr)
      /\ device.block_row_ptr \in [0 .. NumBlockRows -> Nat]
      /\ nb = ptr(NumBlockRows)
      /\ \A a, b \in 0 .. NumBlockRows : a <= b => ptr(a) <= ptr(b)
  BY BlocksFollow
<1>2. /\ device.num_block_rows = NumBlockRows /\ device.nnz = size(effective_csr.values)
      /\ val = [k \in 0 .. NumBlockRows |->
                  effective_csr.row_ptr[Smaller(effective_csr.rows, k * block_rows)]]
      /\ ShapeInv /\ LayoutInv
  BY DEF IInv, ShapeInv, LayoutInv
<1>3. /\ effective_csr.rows \in Nat /\ block_rows \in Nat \ {0}
      /\ effective_csr.row_ptr \in [0 .. effective_csr.rows -> Nat]
      /\ DOMAIN effective_csr.values = 0 .. effective_csr.row_ptr[effective_csr.rows] - 1
  BY <1>1, BlockShapeAssumption DEF IsCsr
<1>4. ASSUME NEW k \in 0 .. NumBlockRows
      PROVE  val[k] \in Nat /\ (k = NumBlockRows => val[k] = device.nnz)
  <2>1. k * block_rows \in Nat
    BY <1>3
  <2>2. Smaller(effective_csr.rows, k * block_rows) \in 0 .. effective_csr.rows
    BY <1>3, <2>1 DEF Smaller
  <2>3. k = NumBlockRows => Smaller(effective_csr.rows, k * block_rows) = effective_csr.rows
    <3>1. ~(NumBlockRows * block_rows < effective_csr.rows)
      <4>1. \A i \in Nat : i * block_rows < effective_csr.rows <=> i < NumBlockRows
        BY <1>3, CeilDivCounts DEF NumBlockRows
      <4>. QED
        BY <1>1, <4>1
    <3>. DEFINE m == k * block_rows
    <3>2. k = NumBlockRows => ~(m < effective_csr.rows)
      BY <3>1
    <3>. HIDE DEF m
    <3>3. k = NumBlockRows => Smaller(effective_csr.rows, m) = effective_csr.rows
      <4>1. m \in Nat
        BY <2>1 DEF m
      <4>. QED
        BY <1>3, <3>2, <4>1 DEF Smaller
    <3>. QED
      BY <3>3 DEF m
  <2>4. effective_csr.row_ptr[effective_csr.rows] = device.nnz
    <3>1. effective_csr.row_ptr[effective_csr.rows] \in Nat
      BY <1>3
    <3>. QED
      BY <1>2, <1>3, <3>1, SizeIs
  <2>5. val[k] = effective_csr.row_ptr[Smaller(effective_csr.rows, k * block_rows)]
    BY <1>2
  <2>. QED
    BY <1>3, <2>2, <2>3, <2>4, <2>5
<1>5. val \in [0 .. NumBlockRows -> Nat] /\ val[NumBlockRows] = device.nnz /\ device.nnz \in Nat
  <2>1. NumBlockRows \in 0 .. NumBlockRows
    BY <1>1
  <2>. QED
    BY <1>2, <1>4, <2>1
<1>. HIDE DEF ptr, val, nb
<1>6. ASSUME NEW r \in 0 .. NumBlockRows - 1, ptr(r + 1) = ptr(r)
      PROVE  val[r + 1] = val[r]
  <2>1. PICK n \in Nat : \E walk :
          /\ IsWalk(r, walk, n) /\ AtWork(walk[n]) = {}
          /\ device.block_row_ptr[r + 1] = device.block_row_ptr[r] + n
    BY BlocksFollow
  <2>2. PICK walk :
          /\ IsWalk(r, walk, n) /\ AtWork(walk[n]) = {}
          /\ device.block_row_ptr[r + 1] = device.block_row_ptr[r] + n
    BY <2>1
  <2>3. device.block_row_ptr[r] \in Nat
    BY <1>1
  <2>4. n = 0
    BY <1>6, <2>2, <2>3 DEF ptr
  <2>5. walk[n] = LaneStart(r)
    BY <2>2, <2>4 DEF IsWalk
  <2>6. ValueStart(r) + Cardinality({}) = EntriesEnd(r) /\ ValueStart(r) \in Nat
    BY <1>1, <2>2, <2>5, LanesStart, BehindCounts
  <2>7. ValueStart(r) = EntriesEnd(r)
    BY <2>6, FS_EmptySet
  <2>. QED
    BY <1>2, <2>7, ValueStarts DEF val
<1>7. ASSUME NEW lo \in 0 .. NumBlockRows, NEW hi \in 0 .. NumBlockRows, lo <= hi,
             ptr(lo) = ptr(hi)
      PROVE  val[lo] = val[hi]
  <2>1. ASSUME NEW i \in lo .. hi - 1 PROVE val[i + 1] = val[i]
    <3>1. i \in 0 .. NumBlockRows - 1 /\ i \in 0 .. NumBlockRows /\ i + 1 \in 0 .. NumBlockRows
          /\ lo <= i /\ i <= i + 1 /\ i + 1 <= hi
      BY <1>1
    <3>2. ptr(lo) <= ptr(i) /\ ptr(i) <= ptr(i + 1) /\ ptr(i + 1) <= ptr(hi)
      BY <1>1, <3>1
    <3>3. ptr(lo) \in Nat /\ ptr(i) \in Nat /\ ptr(i + 1) \in Nat
      BY <1>1, <3>1 DEF ptr
    <3>4. ptr(i + 1) = ptr(i)
      BY <1>7, <3>2, <3>3
    <3>. QED
      BY <1>6, <3>1, <3>4
  <2>2. val \in [0 .. NumBlockRows -> Int]
    BY <1>5
  <2>3. val[hi] = val[lo]
    BY <1>1, <1>7, <2>1, <2>2, NoSteps
  <2>. QED
    BY <2>3
<1>8. ASSUME NEW br \in 0 .. NumBlockRows PROVE BlockValPtr(device)[ptr(br)] = val[br]
  <2>1. ptr(br) \in 0 .. nb
    <3>1. br <= NumBlockRows /\ NumBlockRows \in 0 .. NumBlockRows /\ ptr(br) \in Nat
      BY <1>1 DEF ptr
    <3>. QED
      BY <1>1, <3>1
  <2>2. CASE ptr(br) = nb
    <3>1. BlockValPtr(device)[ptr(br)] = device.nnz
      BY <2>1, <2>2 DEF BlockValPtr, nb
    <3>2. val[br] = val[NumBlockRows]
      <4>1. NumBlockRows \in 0 .. NumBlockRows /\ br <= NumBlockRows
        BY <1>1
      <4>. QED
        BY <1>1, <1>7, <2>2, <4>1
    <3>. QED
      BY <1>5, <3>1, <3>2
  <2>3. CASE ptr(br) # nb
    <3>1. ptr(br) \in 0 .. nb - 1
      BY <1>1, <2>1, <2>3
    <3>2. PICK r \in 0 .. NumBlockRows - 1 : ptr(r) <= ptr(br) /\ ptr(br) < ptr(r + 1)
      BY <3>1, BlocksFollow DEF ptr, nb
    <3>3. r \in 0 .. NumBlockRows /\ r + 1 \in 0 .. NumBlockRows
      BY <1>1
    <3>4. ptr(r) \in Nat /\ ptr(r + 1) \in Nat /\ ptr(br) \in Nat
      BY <1>1, <3>3 DEF ptr
    <3>5. br <= r
      <4>1. r + 1 <= br => ptr(r + 1) <= ptr(br)
        BY <1>1, <3>3
      <4>. QED
        BY <1>1, <3>2, <3>4, <4>1
    <3>6. ptr(br) = ptr(r)
      <4>1. ptr(br) <= ptr(r)
        BY <1>1, <3>3, <3>5
      <4>. QED
        BY <3>2, <3>4, <4>1
    <3>7. val[br] = val[r]
      BY <1>7, <3>3, <3>5, <3>6
    <3>8. ptr(r) \in ptr(r) .. ptr(r + 1) - 1
      BY <3>2, <3>4, <3>6
    <3>9. BlockValPtr(device)[ptr(r)] = val[r] + 0
      BY <3>8, BlockSums DEF ptr, val
    <3>10. val[r] \in Nat
      BY <1>5, <3>3
    <3>. QED
      BY <3>6, <3>7, <3>9, <3>10
  <2>. QED
    BY <2>2, <2>3
<1>9. BlockRowValPtr(to_host(device)) = [br \in 0 .. NumBlockRows |-> BlockValPtr(device)[ptr(br)]]
  BY <1>2 DEF BlockRowValPtr, to_host, ptr
<1>10. BlockRowValPtr(to_host(device)) = val
  BY <1>5, <1>8, <1>9
<1>. QED
  BY <1>5, <1>10 DEF val

-----------------------------------------------------------------------------
(* What the result stands for. *)

\* A larger number has no smaller quotient.
LEMMA QuotientGrows ==
  ASSUME NEW a \in Nat, NEW b \in Nat, NEW c \in Nat \ {0}, a <= b
  PROVE  a \div c <= b \div c
<1>. DEFINE x == a \div c
            y == b \div c
<1>1. /\ x \in Nat /\ a % c \in 0 .. c - 1 /\ x * c + (a % c) = a
      /\ y \in Nat /\ b % c \in 0 .. c - 1 /\ y * c + (b % c) = b
  BY QuotientAndRest
<1>. HIDE DEF x, y
<1>2. ASSUME y < x PROVE FALSE
  <2>. DEFINE m == y * c
              n == x * c
  <2>1. m \in Nat /\ n \in Nat /\ m + c <= n
    BY <1>1, <1>2, NextMultiple
  <2>2. n + (a % c) = a /\ m + (b % c) = b
    BY <1>1
  <2>. HIDE DEF m, n
  <2>. QED
    BY <1>1, <2>1, <2>2
<1>3. x <= y
  BY <1>1, <1>2
<1>. QED
  BY <1>3 DEF x, y

\* In rows in order the turns of a warp go from block column to block column.
LEMMA NextColumn ==
  ASSUME IsCsr(effective_csr), HasOrderedRows(effective_csr), NEW br \in 0 .. NumBlockRows - 1,
         NEW pos, Lanes(br, pos), AtWork(pos) # {}, AtWork(Turn(pos)) # {}
  PROVE  MinBlockCol(pos) < MinBlockCol(Turn(pos))
<1>. DEFINE c == MinBlockCol(pos)
            next == Turn(pos)
            d == MinBlockCol(next)
<1>1. Lanes(br, next) /\ next = AfterTurn(pos, c)
  BY LanesTurn DEF Turn
<1>2. c \in Nat /\ d \in Nat /\ PassedInTurn(next, d) # {}
  BY <1>1, MinBlockColIs
<1>3. \A row \in AtWork(pos) : /\ row \in Rows(br) /\ Col(pos[row]) \in Nat
                               /\ c <= Col(pos[row]) \div block_cols
  BY MinBlockColIs
<1>. HIDE DEF c, next, d
<1>4. PICK p \in PassedInTurn(next, d) : TRUE
  BY <1>2
<1>5. PICK row : row = RowOf(p)
  OBVIOUS
<1>6. /\ row \in Rows(br) /\ p \in Passed(next, row, d) /\ p \in Nat
      /\ row \in 0 .. effective_csr.rows - 1 /\ p \in Positions(effective_csr, row)
      /\ Col(p) \in 0 .. effective_csr.cols - 1 /\ Col(p) \div block_cols = d
  BY <1>1, <1>2, <1>4, <1>5, TurnIs
<1>7. next[row] <= p
  BY <1>1, <1>6, PassedEntry
<1>8. /\ next[row] \in Nat /\ pos[row] <= next[row]
      /\ Passed(pos, row, c) = pos[row] .. next[row] - 1
  BY <1>1, <1>6, LanePasses
<1>9. /\ pos[row] \in Nat /\ effective_csr.row_ptr[row] <= pos[row] /\ DOMAIN pos = Rows(br)
  BY <1>6 DEF Lanes
<1>10. /\ effective_csr.row_ptr[row] \in Nat /\ effective_csr.row_ptr[row + 1] \in Nat
       /\ effective_csr.row_ptr[row] <= p /\ p < effective_csr.row_ptr[row + 1]
  <2>1. row \in 0 .. effective_csr.rows /\ row + 1 \in 0 .. effective_csr.rows
    BY <1>6 DEF IsCsr
  <2>2. effective_csr.row_ptr[row] \in Nat /\ effective_csr.row_ptr[row + 1] \in Nat
    BY <2>1 DEF IsCsr
  <2>. QED
    BY <1>6, <2>2 DEF Positions
<1>11. row \in AtWork(pos)
  BY <1>6, <1>7, <1>8, <1>9, <1>10 DEF AtWork
<1>12. \A q \in pos[row] .. p :
         /\ Col(q) \in Nat /\ Col(pos[row]) \in Nat /\ Col(p) \in Nat
         /\ Col(pos[row]) <= Col(q) /\ Col(q) <= Col(p)
  <2>. SUFFICES ASSUME NEW q \in pos[row] .. p
                PROVE  /\ Col(q) \in Nat /\ Col(pos[row]) \in Nat /\ Col(p) \in Nat
                       /\ Col(pos[row]) <= Col(q) /\ Col(q) <= Col(p)
    OBVIOUS
  <2>1. q \in Positions(effective_csr, row) /\ pos[row] \in Positions(effective_csr, row)
        /\ q \in Int /\ pos[row] <= q /\ q <= p
    <3>1. q \in Int /\ pos[row] <= q /\ q <= p /\ pos[row] <= p
      BY <1>6, <1>7, <1>8, <1>9
    <3>2. \A x \in Int : effective_csr.row_ptr[row] <= x /\ x < effective_csr.row_ptr[row + 1]
            => x \in Positions(effective_csr, row)
      BY <1>10 DEF Positions
    <3>3. /\ effective_csr.row_ptr[row] <= q /\ q < effective_csr.row_ptr[row + 1]
          /\ pos[row] < effective_csr.row_ptr[row + 1]
      BY <1>6, <1>9, <1>10, <3>1
    <3>. QED
      BY <1>9, <3>1, <3>2, <3>3
  <2>2. Col(q) \in Nat /\ Col(pos[row]) \in Nat /\ Col(p) \in Nat
    <3>1. /\ Col(q) \in 0 .. effective_csr.cols - 1
          /\ Col(pos[row]) \in 0 .. effective_csr.cols - 1
      BY <1>6, <2>1, RowOfPosition
    <3>2. effective_csr.cols \in Nat
      BY DEF IsCsr
    <3>. QED
      BY <1>6, <3>1, <3>2
  <2>3. Col(pos[row]) <= Col(q)
    <3>1. pos[row] < q => Col(pos[row]) <= Col(q)
      BY <1>6, <2>1 DEF HasOrderedRows, Col
    <3>2. pos[row] = q => Col(pos[row]) <= Col(q)
      BY <2>2
    <3>. QED
      BY <1>9, <2>1, <3>1, <3>2
  <2>4. Col(q) <= Col(p)
    <3>1. q < p => Col(q) <= Col(p)
      BY <1>6, <2>1 DEF HasOrderedRows, Col
    <3>2. q = p => Col(q) <= Col(p)
      BY <2>2
    <3>. QED
      BY <1>6, <2>1, <3>1, <3>2
  <2>. QED
    BY <2>2, <2>3, <2>4
<1>13. \A q \in pos[row] .. p :
         /\ Col(pos[row]) \div block_cols <= Col(q) \div block_cols
         /\ Col(q) \div block_cols <= d
         /\ Col(q) \div block_cols \in Nat /\ Col(pos[row]) \div block_cols \in Nat
  <2>. SUFFICES ASSUME NEW q \in pos[row] .. p
                PROVE  /\ Col(pos[row]) \div block_cols <= Col(q) \div block_cols
                       /\ Col(q) \div block_cols <= d
                       /\ Col(q) \div block_cols \in Nat /\ Col(pos[row]) \div block_cols \in Nat
    OBVIOUS
  <2>1. /\ Col(q) \in Nat /\ Col(pos[row]) \in Nat /\ Col(p) \in Nat
        /\ Col(pos[row]) <= Col(q) /\ Col(q) <= Col(p)
    BY <1>12
  <2>2. Col(pos[row]) \div block_cols <= Col(q) \div block_cols
    BY <2>1, QuotientGrows, BlockShapeAssumption
  <2>3. Col(q) \div block_cols <= Col(p) \div block_cols
    BY <2>1, QuotientGrows, BlockShapeAssumption
  <2>4. Col(q) \div block_cols \in Nat /\ Col(pos[row]) \div block_cols \in Nat
    BY <2>1, QuotientAndRest, BlockShapeAssumption
  <2>. QED
    BY <1>6, <2>2, <2>3, <2>4
<1>14. c <= Col(pos[row]) \div block_cols /\ pos[row] \in pos[row] .. p /\ p \in pos[row] .. p
  BY <1>3, <1>6, <1>7, <1>8, <1>9, <1>11
<1>15. c <= d
  BY <1>2, <1>13, <1>14
<1>16. c # d
  <2>. SUFFICES ASSUME c = d PROVE FALSE
    OBVIOUS
  <2>1. \A q \in pos[row] .. p : Col(q) \div block_cols = c
    BY <1>2, <1>13, <1>14
  <2>2. p \in pos[row] .. effective_csr.row_ptr[row + 1] - 1
    BY <1>6, <1>10, <1>14
  <2>3. p \in Passed(pos, row, c)
    BY <2>1, <2>2 DEF Passed
  <2>. QED
    BY <1>6, <1>7, <1>8, <1>9, <2>3
<1>17. c < d
  BY <1>2, <1>15, <1>16
<1>. QED
  BY <1>17 DEF c, d, next

LEMMA TurnsAscend ==
  ASSUME IsCsr(effective_csr), HasOrderedRows(effective_csr), NEW br \in 0 .. NumBlockRows - 1,
         NEW n \in Nat, NEW walk, IsWalk(br, walk, n)
  PROVE  \A j, k \in 0 .. n - 1 : j < k => MinBlockCol(walk[j]) < MinBlockCol(walk[k])
<1>. DEFINE f == [j \in 0 .. n - 1 |-> MinBlockCol(walk[j])]
<1>1. \A j \in 0 .. n - 1 : /\ Lanes(br, walk[j]) /\ AtWork(walk[j]) # {}
                            /\ walk[j + 1] = Turn(walk[j]) /\ j \in 0 .. n
  <2>1. \A j \in 0 .. n - 1 : j \in 0 .. n
    OBVIOUS
  <2>. QED
    BY <2>1, WalkLanes DEF IsWalk
<1>2. \A j \in 0 .. n - 1 : MinBlockCol(walk[j]) \in Nat
  BY <1>1, MinBlockColIs
<1>3. \A j \in 0 .. n - 1 : j + 1 < n => MinBlockCol(walk[j]) < MinBlockCol(walk[j + 1])
  <2>1. ASSUME NEW j \in 0 .. n - 1, j + 1 < n
        PROVE  MinBlockCol(walk[j]) < MinBlockCol(walk[j + 1])
    <3>1. j + 1 \in 0 .. n - 1
      BY <2>1
    <3>2. AtWork(walk[j + 1]) # {} /\ walk[j + 1] = Turn(walk[j])
      BY <1>1, <3>1
    <3>3. Lanes(br, walk[j]) /\ AtWork(walk[j]) # {} /\ AtWork(Turn(walk[j])) # {}
      BY <1>1, <3>2
    <3>. QED
      BY <3>2, <3>3, NextColumn
  <2>. QED
    BY <2>1
<1>4. \A j \in 0 .. n - 1 : f[j] = MinBlockCol(walk[j]) /\ f[j] \in Nat
  BY <1>2
<1>5. f \in [0 .. n - 1 -> Int]
  BY <1>4
<1>. HIDE DEF f
<1>6. SUFFICES ASSUME NEW j \in 0 .. n - 1, NEW k \in 0 .. n - 1, j < k
               PROVE  f[j] < f[k]
  BY <1>4
<1>7. j + 1 \in 0 .. n - 1 /\ j + 1 <= k /\ n - 1 \in Nat
  BY <1>6
<1>8. f[j] < f[j + 1]
  BY <1>3, <1>4, <1>7
<1>9. \A i \in 0 .. (n - 1) - 1 : f[i] <= f[i + 1]
  <2>1. \A i \in 0 .. (n - 1) - 1 : i \in 0 .. n - 1 /\ i + 1 \in 0 .. n - 1 /\ i + 1 < n
    OBVIOUS
  <2>2. \A i \in 0 .. (n - 1) - 1 : f[i] < f[i + 1] /\ f[i] \in Nat /\ f[i + 1] \in Nat
    BY <1>3, <1>4, <2>1
  <2>. QED
    BY <2>2
<1>10. f[j + 1] <= f[k]
  <2>. DEFINE m == n - 1
  <2>1. m \in Nat /\ f \in [0 .. m -> Int] /\ \A i \in 0 .. m - 1 : f[i] <= f[i + 1]
    BY <1>5, <1>7, <1>9
  <2>2. j + 1 \in 0 .. m /\ k \in 0 .. m /\ j + 1 <= k
    BY <1>7
  <2>. HIDE DEF m
  <2>3. \A i, l \in 0 .. m : i <= l => f[i] <= f[l]
    BY <2>1, StepwiseMonotone
  <2>. QED
    BY <2>2, <2>3
<1>11. f[j] \in Nat /\ f[j + 1] \in Nat /\ f[k] \in Nat
  BY <1>4, <1>7
<1>. QED
  BY <1>8, <1>10, <1>11

\* Positions of the rows are in the order of the rows.
LEMMA RowsInOrder ==
  ASSUME IsCsr(effective_csr), NEW r \in 0 .. effective_csr.rows - 1,
         NEW s \in 0 .. effective_csr.rows - 1,
         NEW p \in Positions(effective_csr, r), NEW q \in Positions(effective_csr, s), p <= q
  PROVE  r <= s
<1>1. /\ effective_csr.row_ptr \in [0 .. effective_csr.rows -> Nat] /\ effective_csr.rows \in Nat
      /\ \A i \in 0 .. effective_csr.rows - 1 :
           effective_csr.row_ptr[i] <= effective_csr.row_ptr[i + 1]
  BY DEF IsCsr
<1>2. \A i, j \in 0 .. effective_csr.rows :
        i <= j => effective_csr.row_ptr[i] <= effective_csr.row_ptr[j]
  <2>1. effective_csr.row_ptr \in [0 .. effective_csr.rows -> Int]
    BY <1>1
  <2>. QED
    BY <1>1, <2>1, StepwiseMonotone
<1>3. s < r => effective_csr.row_ptr[s + 1] <= effective_csr.row_ptr[r]
  <2>1. s < r => s + 1 \in 0 .. effective_csr.rows /\ r \in 0 .. effective_csr.rows /\ s + 1 <= r
    BY <1>1
  <2>. QED
    BY <1>2, <2>1
<1>4. /\ effective_csr.row_ptr[r] <= p /\ q < effective_csr.row_ptr[s + 1]
      /\ p \in Int /\ q \in Int
      /\ effective_csr.row_ptr[r] \in Nat /\ effective_csr.row_ptr[s + 1] \in Nat
  <2>1. r \in 0 .. effective_csr.rows /\ r + 1 \in 0 .. effective_csr.rows
        /\ s \in 0 .. effective_csr.rows /\ s + 1 \in 0 .. effective_csr.rows
    BY <1>1
  <2>2. effective_csr.row_ptr[r] \in Nat /\ effective_csr.row_ptr[s + 1] \in Nat
        /\ effective_csr.row_ptr[r + 1] \in Nat /\ effective_csr.row_ptr[s] \in Nat
    BY <1>1, <2>1
  <2>3. p \in effective_csr.row_ptr[r] .. effective_csr.row_ptr[r + 1] - 1
    BY DEF Positions
  <2>4. q \in effective_csr.row_ptr[s] .. effective_csr.row_ptr[s + 1] - 1
    BY DEF Positions
  <2>. QED
    BY <2>2, <2>3, <2>4
<1>. QED
  BY <1>3, <1>4

\* In sorted rows the bits of a turn are in the order of its entries.
LEMMA BitsInOrder ==
  ASSUME IsCsr(effective_csr), HasSortedRows(effective_csr), NEW br \in 0 .. NumBlockRows - 1,
         NEW pos, Lanes(br, pos), NEW c \in Nat,
         NEW p \in PassedInTurn(pos, c), NEW q \in PassedInTurn(pos, c), p < q
  PROVE  BitAt(br, p) < BitAt(br, q)
<1>. DEFINE bp == BitAt(br, p)
            bq == BitAt(br, q)
            b == br * block_rows
            d == c * block_cols
<1>1. /\ p \in Nat /\ RowOf(p) \in 0 .. effective_csr.rows - 1
      /\ p \in Positions(effective_csr, RowOf(p)) /\ bp \in Bits
      /\ RowOf(p) = b + bp \div block_cols /\ Col(p) = d + (bp % block_cols)
  BY TurnIs
<1>2. /\ q \in Nat /\ RowOf(q) \in 0 .. effective_csr.rows - 1
      /\ q \in Positions(effective_csr, RowOf(q)) /\ bq \in Bits
      /\ RowOf(q) = b + bq \div block_cols /\ Col(q) = d + (bq % block_cols)
  BY TurnIs
<1>3. b \in Nat /\ d \in Nat /\ block_cols \in Nat \ {0}
  <2>1. \A i, j \in Nat : i * j \in Nat
    OBVIOUS
  <2>2. br \in Nat /\ block_rows \in Nat /\ block_cols \in Nat \ {0}
    BY BlockShapeAssumption
  <2>. QED
    BY <2>1, <2>2
<1>4. bp \in Nat /\ bq \in Nat
  BY <1>1, <1>2 DEF Bits
<1>. HIDE DEF bp, bq, b, d
<1>. DEFINE dp == bp \div block_cols
            mp == bp % block_cols
            dq == bq \div block_cols
            mq == bq % block_cols
<1>5. /\ dp \in Nat /\ mp \in 0 .. block_cols - 1 /\ dp * block_cols + mp = bp
      /\ dq \in Nat /\ mq \in 0 .. block_cols - 1 /\ dq * block_cols + mq = bq
  BY <1>3, <1>4, QuotientAndRest
<1>6. /\ RowOf(p) = b + dp /\ Col(p) = d + mp
      /\ RowOf(q) = b + dq /\ Col(q) = d + mq
  BY <1>1, <1>2
<1>. HIDE DEF dp, mp, dq, mq
<1>7. RowOf(p) <= RowOf(q)
  BY <1>1, <1>2, RowsInOrder
<1>8. CASE RowOf(p) = RowOf(q)
  <2>1. Col(p) < Col(q)
    BY <1>1, <1>2, <1>8 DEF HasSortedRows, Col
  <2>2. dp = dq /\ mp < mq
    BY <1>3, <1>5, <1>6, <1>8, <2>1
  <2>. DEFINE m == dp * block_cols
  <2>3. m \in Int /\ m + mp = bp /\ m + mq = bq
    BY <1>3, <1>5, <2>2
  <2>. HIDE DEF m
  <2>4. bp < bq
    BY <1>3, <1>5, <2>2, <2>3
  <2>. QED
    BY <2>4 DEF bp, bq
<1>9. CASE RowOf(p) # RowOf(q)
  <2>1. dp < dq
    BY <1>3, <1>5, <1>6, <1>7, <1>9
  <2>. DEFINE m == dp * block_cols
              n == dq * block_cols
  <2>2. m \in Nat /\ n \in Nat /\ m + block_cols <= n
    BY <1>3, <1>5, <2>1, NextMultiple
  <2>3. m + mp = bp /\ n + mq = bq
    BY <1>5
  <2>. HIDE DEF m, n
  <2>4. bp < bq
    BY <1>3, <1>5, <2>2, <2>3
  <2>. QED
    BY <2>4 DEF bp, bq
<1>. QED
  BY <1>8, <1>9

\* In sorted rows a turn has a bit for each of its entries, in their order.
LEMMA SortedTurn ==
  ASSUME IsCsr(effective_csr), HasSortedRows(effective_csr), NEW br \in 0 .. NumBlockRows - 1,
         NEW n \in Nat, NEW walk, IsWalk(br, walk, n), NEW k \in 0 .. n - 1
  PROVE  LET P == Turned(walk[k])
             bits == TurnBits(br, walk[k], MinBlockCol(walk[k]))
         IN  /\ Cardinality(bits) = Cardinality(P)
             /\ \A p \in P : Cardinality({b \in bits : b < BitAt(br, p)}) = Below(P, p)
<1>. DEFINE P == Turned(walk[k])
            bits == TurnBits(br, walk[k], MinBlockCol(walk[k]))
<1>1. bits = {BitAt(br, p) : p \in P} /\ bits \subseteq Bits /\ IsFiniteSet(P)
  BY BitsOfTurn
<1>2. Lanes(br, walk[k]) /\ MinBlockCol(walk[k]) \in Nat
  <2>1. k \in 0 .. n /\ AtWork(walk[k]) # {}
    BY DEF IsWalk
  <2>2. Lanes(br, walk[k])
    BY <2>1, WalkLanes
  <2>. QED
    BY <2>1, <2>2, MinBlockColIs
<1>3. \A p, q \in P : p < q => BitAt(br, p) < BitAt(br, q)
  BY <1>2, BitsInOrder DEF Turned
<1>4. \A p \in P : p \in Nat /\ BitAt(br, p) \in Int
  <2>1. \A p \in P : p \in Nat /\ BitAt(br, p) \in Bits
    BY <1>2, TurnIs DEF Turned
  <2>2. Bits \subseteq Int
    BY DEF Bits
  <2>. QED
    BY <2>1, <2>2
<1>. HIDE DEF P, bits
<1>5. \A p, q \in P : BitAt(br, p) = BitAt(br, q) => p = q
  <2>1. ASSUME NEW p \in P, NEW q \in P, BitAt(br, p) = BitAt(br, q) PROVE p = q
    <3>. DEFINE x == BitAt(br, p)
    <3>1. x \in Int /\ ~(p < q) /\ ~(q < p)
      <4>1. x \in Int /\ (p < q => x < x) /\ (q < p => x < x)
        BY <1>3, <1>4, <2>1
      <4>. HIDE DEF x
      <4>. QED
        BY <4>1
    <3>. QED
      BY <1>4, <3>1
  <2>. QED
    BY <2>1
<1>6. \A p, q \in P : BitAt(br, q) < BitAt(br, p) <=> q < p
  <2>1. ASSUME NEW p \in P, NEW q \in P PROVE BitAt(br, q) < BitAt(br, p) <=> q < p
    <3>. DEFINE x == BitAt(br, q)
                y == BitAt(br, p)
    <3>1. /\ x \in Int /\ y \in Int /\ p \in Nat /\ q \in Nat
          /\ (p = q => x = y) /\ (q < p => x < y) /\ (p < q => y < x)
      BY <1>3, <1>4
    <3>. HIDE DEF x, y
    <3>2. x < y <=> q < p
      BY <3>1
    <3>. QED
      BY <3>2 DEF x, y
  <2>. QED
    BY <2>1
<1>7. ASSUME NEW p \in P
      PROVE  Cardinality({b \in bits : b < BitAt(br, p)}) = Below(P, p)
  <2>. DEFINE S == {q \in P : q < p}
              f == [q \in S |-> BitAt(br, q)]
  <2>1. {b \in bits : b < BitAt(br, p)} = {f[q] : q \in S}
    BY <1>1, <1>6
  <2>2. IsFiniteSet(S)
    <3>1. S \in SUBSET P
      OBVIOUS
    <3>. QED
      BY <1>1, <3>1, FS_Subset
  <2>3. \A q, r \in S : f[q] = f[r] => q = r
    BY <1>5
  <2>4. DOMAIN f = S
    OBVIOUS
  <2>5. Below(P, p) = Cardinality(S)
    BY DEF Below
  <2>. HIDE DEF f, S
  <2>6. Cardinality({f[q] : q \in S}) = Cardinality(S)
    BY <2>2, <2>3, <2>4, OneToOne
  <2>. QED
    BY <2>1, <2>5, <2>6
<1>8. Cardinality(bits) = Cardinality(P)
  BY <1>5, BitsOfTurn DEF P, bits
<1>. QED
  BY <1>7, <1>8 DEF P, bits

\* The blocks of a row that is done, and where their values begin and end.
LEMMA RowBlocks ==
  ASSUME IInv, pc = "done", NEW br \in 0 .. NumBlockRows - 1, NEW n \in Nat, NEW walk,
         RowWritten(br, n, walk, n)
  PROVE  LET first == device.block_row_ptr[br] IN
         /\ IsCsr(effective_csr) /\ IsWalk(br, walk, n) /\ AtWork(walk[n]) = {}
         /\ first \in Nat /\ device.block_row_ptr[br + 1] = first + n
         /\ first + n <= device.num_blocks /\ device.num_blocks \in Nat
         /\ \A j \in 0 .. n - 1 : BlockWritten(br, walk[j], first + j)
         /\ ValueStart(br) \in Nat
         /\ BlockValPtr(device)[first] = ValueStart(br)
         /\ BlockValPtr(device)[first + n] = ValueStart(br) + Cardinality(Behind(walk[n]))
<1>. DEFINE first == device.block_row_ptr[br]
<1>1. /\ NumBlockRows \in Nat /\ device.num_blocks \in Nat /\ IsCsr(effective_csr)
      /\ device.block_row_ptr \in [0 .. NumBlockRows -> Nat]
      /\ device.num_blocks = device.block_row_ptr[NumBlockRows]
      /\ \A a, b \in 0 .. NumBlockRows :
           a <= b => device.block_row_ptr[a] <= device.block_row_ptr[b]
  BY BlocksFollow
<1>2. /\ br \in 0 .. NumBlockRows /\ br + 1 \in 0 .. NumBlockRows
      /\ NumBlockRows \in 0 .. NumBlockRows /\ br + 1 <= NumBlockRows
  BY <1>1
<1>3. /\ IsWalk(br, walk, n) /\ AtWork(walk[n]) = {}
      /\ device.block_row_ptr[br + 1] = first + n
      /\ \A j \in 0 .. n - 1 : BlockWritten(br, walk[j], first + j)
  BY DEF RowWritten, IsWholeWalk
<1>4. first \in Nat /\ first + n <= device.num_blocks
  <2>1. first \in Nat
    BY <1>1, <1>2
  <2>2. device.block_row_ptr[br + 1] <= device.num_blocks
    BY <1>1, <1>2
  <2>. QED
    BY <1>3, <2>1, <2>2
<1>5. /\ ValueStart(br) \in Nat
      /\ ValueStart(br) + Cardinality(Behind(walk[n])) = EntriesEnd(br)
  <2>1. Lanes(br, walk[n])
    <3>1. n \in 0 .. n
      OBVIOUS
    <3>. QED
      BY <1>1, <1>3, <3>1, WalkLanes
  <2>. QED
    BY <1>1, <1>3, <2>1, BehindCounts
<1>6. \A k \in 0 .. NumBlockRows :
        BlockValPtr(device)[device.block_row_ptr[k]] = device.block_row_val_ptr[k]
  <2>1. BlockRowValPtr(to_host(device)) = device.block_row_val_ptr
    BY RowStarts
  <2>2. device.num_block_rows = NumBlockRows
    BY DEF IInv, ShapeInv
  <2>3. BlockRowValPtr(to_host(device)) =
          [k \in 0 .. NumBlockRows |-> BlockValPtr(device)[device.block_row_ptr[k]]]
    BY <2>2 DEF BlockRowValPtr, to_host
  <2>. QED
    BY <2>1, <2>3
<1>7. /\ device.block_row_val_ptr[br + 1] = EntriesEnd(br)
      /\ device.block_row_val_ptr[br] = ValueStart(br)
  BY ValueStarts DEF IInv
<1>8. /\ BlockValPtr(device)[first] = ValueStart(br)
      /\ BlockValPtr(device)[device.block_row_ptr[br + 1]] = EntriesEnd(br)
  BY <1>2, <1>6, <1>7
<1>. QED
  BY <1>1, <1>3, <1>4, <1>5, <1>8

\* In sorted rows the values of a block begin where its turn wrote them.
LEMMA BlockStarts ==
  ASSUME IInv, pc = "done", HasSortedRows(effective_csr), NEW br \in 0 .. NumBlockRows - 1,
         NEW n \in Nat, NEW walk, RowWritten(br, n, walk, n)
  PROVE  \A j \in 0 .. n : BlockValPtr(device)[device.block_row_ptr[br] + j]
                             = ValueStart(br) + Cardinality(Behind(walk[j]))
<1>. DEFINE first == device.block_row_ptr[br]
            sum == BitsBefore(br)
            f == [j \in 0 .. n |-> sum[first + j]]
            g == [j \in 0 .. n |-> Cardinality(Behind(walk[j]))]
<1>1. /\ IsCsr(effective_csr) /\ IsWalk(br, walk, n)
      /\ first \in Nat /\ device.block_row_ptr[br + 1] = first + n
      /\ first + n <= device.num_blocks /\ device.num_blocks \in Nat
      /\ \A j \in 0 .. n - 1 : BlockWritten(br, walk[j], first + j)
      /\ ValueStart(br) \in Nat
      /\ BlockValPtr(device)[first + n] = ValueStart(br) + Cardinality(Behind(walk[n]))
  BY RowBlocks
<1>2. /\ sum \in [0 .. device.num_blocks -> Nat] /\ sum[first] = 0
      /\ \A i \in first .. device.num_blocks - 1 :
           sum[i + 1] = sum[i] + Cardinality(device.bitmap_words[i])
      /\ \A b \in first .. device.block_row_ptr[br + 1] - 1 :
           BlockValPtr(device)[b] = device.block_row_val_ptr[br] + sum[b]
  BY BlockSums
<1>3. device.block_row_val_ptr[br] = ValueStart(br)
  BY ValueStarts DEF IInv
<1>4. /\ \A j \in 0 .. n : Cardinality(Behind(walk[j])) \in Nat
      /\ Cardinality(Behind(walk[0])) = 0
      /\ \A j \in 0 .. n - 1 :
           /\ Cardinality(Turned(walk[j])) \in Nat
           /\ Cardinality(Behind(walk[j + 1]))
                = Cardinality(Behind(walk[j])) + Cardinality(Turned(walk[j]))
  BY <1>1, WalkCounts
<1>5. \A j \in 0 .. n - 1 :
        Cardinality(device.bitmap_words[first + j]) = Cardinality(Turned(walk[j]))
  BY <1>1, SortedTurn DEF BlockWritten
<1>. HIDE DEF first, sum
<1>6. \A j \in 0 .. n : first + j \in 0 .. device.num_blocks
  BY <1>1
<1>7. /\ f \in [0 .. n -> Int] /\ g \in [0 .. n -> Int]
      /\ \A j \in 0 .. n : f[j] = sum[first + j] /\ g[j] = Cardinality(Behind(walk[j]))
  BY <1>2, <1>4, <1>6
<1>8. f[0] = 0 /\ g[0] = 0
  <2>1. 0 \in 0 .. n /\ first + 0 = first
    BY <1>1
  <2>. HIDE DEF f, g
  <2>. QED
    BY <1>2, <1>4, <1>7, <2>1
<1>. HIDE DEF f, g
<1>9. \A j \in 0 .. n - 1 : f[j + 1] - f[j] = g[j + 1] - g[j]
  <2>1. ASSUME NEW j \in 0 .. n - 1 PROVE f[j + 1] - f[j] = g[j + 1] - g[j]
    <3>1. /\ j \in 0 .. n /\ j + 1 \in 0 .. n /\ first + (j + 1) = (first + j) + 1
          /\ first + j \in first .. device.num_blocks - 1
      BY <1>1
    <3>2. sum[(first + j) + 1] = sum[first + j] + Cardinality(device.bitmap_words[first + j])
      BY <1>2, <3>1
    <3>3. f[j + 1] = f[j] + Cardinality(Turned(walk[j]))
      BY <1>5, <1>7, <3>1, <3>2
    <3>4. g[j + 1] = g[j] + Cardinality(Turned(walk[j]))
      BY <1>4, <1>7, <3>1
    <3>5. f[j] \in Int /\ g[j] \in Int /\ Cardinality(Turned(walk[j])) \in Nat
      BY <1>4, <1>7, <3>1
    <3>. QED
      BY <3>3, <3>4, <3>5
  <2>. QED
    BY <2>1
<1>10. \A j \in 0 .. n : f[j] = g[j]
  BY <1>7, <1>8, <1>9, SameSteps
<1>11. ASSUME NEW j \in 0 .. n
       PROVE  BlockValPtr(device)[first + j] = ValueStart(br) + Cardinality(Behind(walk[j]))
  <2>1. CASE j = n
    BY <1>1, <2>1
  <2>2. CASE j # n
    <3>1. first + j \in first .. device.block_row_ptr[br + 1] - 1
      BY <1>1, <2>2
    <3>2. BlockValPtr(device)[first + j] = ValueStart(br) + sum[first + j]
      BY <1>2, <1>3, <3>1
    <3>. QED
      BY <1>7, <1>10, <3>2
  <2>. QED
    BY <2>1, <2>2
<1>. QED
  BY <1>11 DEF first

\* Every row is one of a block row.
LEMMA BlockRowOfRow ==
  ASSUME IsCsr(effective_csr), NEW r \in 0 .. effective_csr.rows - 1
  PROVE  \E br \in 0 .. NumBlockRows - 1 : r \in Rows(br)
<1>. DEFINE br == r \div block_rows
            m == br * block_rows
<1>1. effective_csr.rows \in Nat /\ block_rows \in Nat \ {0} /\ r \in Nat
  BY BlockShapeAssumption DEF IsCsr
<1>2. br \in Nat /\ r % block_rows \in 0 .. block_rows - 1 /\ m + (r % block_rows) = r
  BY <1>1, QuotientAndRest
<1>3. \A k \in Nat : k * block_rows < effective_csr.rows <=> k < NumBlockRows
  BY <1>1, CeilDivCounts DEF NumBlockRows
<1>4. NumBlockRows \in Nat
  BY <1>1, CeilDivCounts DEF NumBlockRows
<1>5. (br + 1) * block_rows = m + block_rows
  <2>. HIDE DEF br
  <2>. QED
    BY <1>1, <1>2
<1>6. m \in Nat
  <2>. HIDE DEF br
  <2>1. \A i, j \in Nat : i * j \in Nat
    OBVIOUS
  <2>. QED
    BY <1>1, <1>2, <2>1
<1>7. m < effective_csr.rows <=> br < NumBlockRows
  BY <1>2, <1>3
<1>. HIDE DEF br, m
<1>8. m <= r /\ r < m + block_rows /\ m < effective_csr.rows
  BY <1>1, <1>2, <1>6
<1>9. br \in 0 .. NumBlockRows - 1
  BY <1>2, <1>4, <1>7, <1>8
<1>10. r \in Rows(br)
  BY <1>1, <1>5, <1>6, <1>8 DEF Rows, BlockRowRows, Smaller, m
<1>. QED
  BY <1>9, <1>10

\* On its whole walk a warp turns over every entry of its rows.
LEMMA PositionTurned ==
  ASSUME IsCsr(effective_csr), NEW br \in 0 .. NumBlockRows - 1,
         NEW n \in Nat, NEW walk, IsWalk(br, walk, n), AtWork(walk[n]) = {},
         NEW r \in Rows(br), NEW p \in Positions(effective_csr, r)
  PROVE  \E j \in 0 .. n - 1 : p \in Turned(walk[j])
<1>. DEFINE T == {j \in 0 .. n : p \in Behind(walk[j])}
<1>1. Lanes(br, walk[n])
  <2>1. n \in 0 .. n
    OBVIOUS
  <2>. QED
    BY <2>1, WalkLanes
<1>2. p \in Behind(walk[n])
  <2>1. /\ DOMAIN walk[n] = Rows(br) /\ walk[n][r] \in Nat
        /\ walk[n][r] <= effective_csr.row_ptr[r + 1]
    BY <1>1 DEF Lanes
  <2>2. ~(walk[n][r] < effective_csr.row_ptr[r + 1])
    BY <2>1 DEF AtWork
  <2>3. effective_csr.row_ptr[r + 1] \in Nat
    <3>1. PICK first \in Nat, last \in Nat :
            /\ last <= effective_csr.rows /\ Rows(br) = first .. last - 1
            /\ \A i \in 0 .. effective_csr.rows : effective_csr.row_ptr[i] \in Nat
      BY RowsOf
    <3>2. effective_csr.rows \in Nat
      BY DEF IsCsr
    <3>3. r + 1 \in 0 .. effective_csr.rows
      BY <3>1, <3>2
    <3>. QED
      BY <3>1, <3>3
  <2>4. walk[n][r] = effective_csr.row_ptr[r + 1]
    BY <2>1, <2>2, <2>3
  <2>5. p \in effective_csr.row_ptr[r] .. walk[n][r] - 1
    BY <2>4 DEF Positions
  <2>. QED
    BY <2>1, <2>5, Zenon DEF Behind
<1>3. /\ Behind(walk[0]) = {}
      /\ \A k \in 0 .. n - 1 : Behind(walk[k + 1]) = Behind(walk[k]) \cup Turned(walk[k])
  <2>1. Behind(walk[0]) = {}
    BY LanesStart DEF IsWalk
  <2>. QED
    BY <2>1, WalkCounts
<1>4. T # {} /\ T \subseteq Nat
  <2>1. n \in T
    BY <1>2
  <2>. QED
    BY <2>1
<1>5. PICK j \in T : \A k \in T : j <= k
  BY <1>4, LeastNatural
<1>6. j \in 0 .. n /\ p \in Behind(walk[j])
  BY <1>5
<1>7. j # 0
  BY <1>3, <1>6
<1>8. j - 1 \in 0 .. n - 1 /\ j - 1 \in 0 .. n /\ (j - 1) + 1 = j
  BY <1>6, <1>7
<1>9. p \notin Behind(walk[j - 1])
  <2>1. p \in Behind(walk[j - 1]) => j <= j - 1
    BY <1>5, <1>8
  <2>2. ~(j <= j - 1)
    BY <1>6
  <2>. QED
    BY <2>1, <2>2
<1>10. Behind(walk[(j - 1) + 1]) = Behind(walk[j - 1]) \cup Turned(walk[j - 1])
  BY <1>3, <1>8
<1>11. p \in Turned(walk[j - 1])
  BY <1>6, <1>8, <1>9, <1>10
<1>. QED
  BY <1>8, <1>11

\* The bit that a turn sets for an entry is decoded to that entry.
LEMMA EntryDecoded ==
  ASSUME IInv, pc = "done", HasSortedRows(effective_csr), NEW br \in 0 .. NumBlockRows - 1,
         NEW n \in Nat, NEW walk, RowWritten(br, n, walk, n), NEW j \in 0 .. n - 1,
         NEW p \in Turned(walk[j])
  PROVE  LET b == device.block_row_ptr[br] + j IN
         /\ BitAt(br, p) \in device.bitmap_words[b]
         /\ RowOf(p) \in 0 .. effective_csr.rows - 1 /\ p \in Positions(effective_csr, RowOf(p))
         /\ EntryAt(to_host(device), br, b, BitAt(br, p))
              = <<RowOf(p), Col(p), effective_csr.values[p]>>
<1>. DEFINE b == device.block_row_ptr[br] + j
            bit == BitAt(br, p)
            P == Turned(walk[j])
            c == MinBlockCol(walk[j])
            rank == Cardinality({k \in device.bitmap_words[b] : k < bit})
<1>1. /\ IsCsr(effective_csr) /\ IsWalk(br, walk, n) /\ BlockWritten(br, walk[j], b)
  BY RowBlocks
<1>2. Lanes(br, walk[j]) /\ c \in Nat
  <2>1. j \in 0 .. n /\ AtWork(walk[j]) # {}
    BY <1>1 DEF IsWalk
  <2>2. Lanes(br, walk[j])
    BY <1>1, <2>1, WalkLanes
  <2>. QED
    BY <1>1, <2>1, <2>2, MinBlockColIs
<1>3. /\ RowOf(p) \in 0 .. effective_csr.rows - 1 /\ p \in Positions(effective_csr, RowOf(p))
      /\ RowOf(p) = br * block_rows + bit \div block_cols
      /\ Col(p) = c * block_cols + (bit % block_cols)
      /\ TurnBits(br, walk[j], c) = {BitAt(br, q) : q \in P}
  BY <1>1, <1>2, TurnIs DEF Turned
<1>4. /\ device.block_col_idx[b] = c /\ device.bitmap_words[b] = TurnBits(br, walk[j], c)
      /\ device.values[ValueStart(br) + Cardinality(Behind(walk[j])) + Below(P, p)]
           = effective_csr.values[p]
  BY <1>1 DEF BlockWritten, Cell
<1>5. rank = Below(P, p)
  BY <1>1, <1>4, SortedTurn
<1>6. BlockValPtr(device)[b] = ValueStart(br) + Cardinality(Behind(walk[j]))
  <2>1. j \in 0 .. n
    OBVIOUS
  <2>. QED
    BY <2>1, BlockStarts
<1>7. EntryAt(to_host(device), br, b, bit)
        = <<br * block_rows + bit \div block_cols,
            device.block_col_idx[b] * block_cols + (bit % block_cols),
            device.values[BlockValPtr(device)[b] + rank]>>
  BY DEF EntryAt, to_host, Rank
<1>8. bit \in device.bitmap_words[b]
  BY <1>3, <1>4
<1>. HIDE DEF b, bit, c, P, rank
<1>9. EntryAt(to_host(device), br, b, bit) = <<RowOf(p), Col(p), effective_csr.values[p]>>
  BY <1>3, <1>4, <1>5, <1>6, <1>7, Zenon
<1>. QED
  BY <1>3, <1>8, <1>9 DEF b, bit

\* What the result brought to the host stands for is the entries of the upload.
LEMMA DecodedIsEntries ==
  ASSUME IInv, pc = "done", HasSortedRows(effective_csr),
         \A p \in DOMAIN effective_csr.values : effective_csr.values[p] # 0
  PROVE  Decode(to_host(device)) = Entries(effective_csr)
<1>. DEFINE h == to_host(device)
            e == effective_csr
<1>1. /\ IsCsr(e) /\ h.num_block_rows = NumBlockRows /\ h.rows = e.rows /\ h.cols = e.cols
      /\ DOMAIN h.block_col_idx = 0 .. device.num_blocks - 1
      /\ h.bitmap_words = device.bitmap_words /\ h.block_row_ptr = device.block_row_ptr
  BY DEF IInv, ShapeInv, LayoutInv, to_host
<1>2. \A br \in 0 .. NumBlockRows - 1 : \E n \in Nat : \E walk : RowWritten(br, n, walk, n)
  BY DEF IInv, FillInv, Filled
<1>. HIDE DEF h
<1>3. \A x : x \in Decode(h) <=>
        \E br \in 0 .. NumBlockRows - 1 : \E b \in BlocksOf(h, br) \cap DOMAIN h.block_col_idx :
          x \in BlockEntries(h, br, b)
  BY <1>1 DEF Decode
<1>4. ASSUME NEW x \in Decode(h) PROVE x \in Entries(e)
  <2>1. PICK br \in 0 .. NumBlockRows - 1 : \E b \in BlocksOf(h, br) : x \in BlockEntries(h, br, b)
    BY <1>3
  <2>2. PICK b \in BlocksOf(h, br) : x \in BlockEntries(h, br, b)
    BY <2>1
  <2>3. PICK n \in Nat : \E walk : RowWritten(br, n, walk, n)
    BY <1>2
  <2>4. PICK walk : RowWritten(br, n, walk, n)
    BY <2>3
  <2>. DEFINE first == device.block_row_ptr[br]
  <2>5. /\ first \in Nat /\ device.block_row_ptr[br + 1] = first + n /\ IsWalk(br, walk, n)
        /\ \A j \in 0 .. n - 1 : BlockWritten(br, walk[j], first + j)
    BY <2>4, RowBlocks
  <2>6. b \in first .. first + n - 1
    BY <1>1, <2>5 DEF BlocksOf
  <2>. HIDE DEF first
  <2>7. PICK j \in 0 .. n - 1 : b = first + j
    <3>1. b - first \in 0 .. n - 1 /\ b = first + (b - first)
      BY <2>5, <2>6
    <3>. QED
      BY <3>1
  <2>8. PICK bit \in h.bitmap_words[b] : x = EntryAt(h, br, b, bit)
    BY <2>2 DEF BlockEntries
  <2>9. h.bitmap_words[b] = {BitAt(br, p) : p \in Turned(walk[j])}
    <3>1. device.bitmap_words[b] = TurnBits(br, walk[j], MinBlockCol(walk[j]))
      BY <2>5, <2>7 DEF BlockWritten
    <3>2. IsCsr(effective_csr) /\ IsWalk(br, walk, n)
      BY <1>1, <2>5
    <3>3. TurnBits(br, walk[j], MinBlockCol(walk[j])) = {BitAt(br, p) : p \in Turned(walk[j])}
      BY <3>2, BitsOfTurn, Zenon
    <3>. QED
      BY <1>1, <3>1, <3>3
  <2>10. PICK p \in Turned(walk[j]) : bit = BitAt(br, p)
    BY <2>8, <2>9
  <2>11. /\ x = <<RowOf(p), Col(p), e.values[p]>>
         /\ RowOf(p) \in 0 .. e.rows - 1 /\ p \in Positions(e, RowOf(p))
    BY <2>4, <2>7, <2>8, <2>10, EntryDecoded DEF first, h
  <2>12. p \in DOMAIN e.values
    BY <1>1, <2>11, PositionsInside
  <2>. QED
    BY <2>11, <2>12, EntriesAre DEF Col
<1>5. ASSUME NEW x \in Entries(e) PROVE x \in Decode(h)
  <2>1. PICK r \in 0 .. e.rows - 1 : \E p \in Positions(e, r) :
          p \in DOMAIN e.values /\ x = <<r, Col(p), e.values[p]>>
    BY EntriesAre DEF Col
  <2>2. PICK p \in Positions(e, r) :
          p \in DOMAIN e.values /\ x = <<r, Col(p), e.values[p]>>
    BY <2>1
  <2>3. RowOf(p) = r /\ Col(p) \in 0 .. e.cols - 1
    BY <1>1, <2>1, RowOfPosition
  <2>4. PICK br \in 0 .. NumBlockRows - 1 : r \in Rows(br)
    BY <1>1, BlockRowOfRow
  <2>5. PICK n \in Nat : \E walk : RowWritten(br, n, walk, n)
    BY <1>2
  <2>6. PICK walk : RowWritten(br, n, walk, n)
    BY <2>5
  <2>. DEFINE first == device.block_row_ptr[br]
  <2>7. /\ first \in Nat /\ device.block_row_ptr[br + 1] = first + n /\ IsWalk(br, walk, n)
        /\ AtWork(walk[n]) = {}
        /\ first + n <= device.num_blocks /\ device.num_blocks \in Nat
    BY <2>6, RowBlocks
  <2>8. PICK j \in 0 .. n - 1 : p \in Turned(walk[j])
    BY <1>1, <2>4, <2>7, PositionTurned
  <2>. DEFINE b == first + j
  <2>9. /\ BitAt(br, p) \in h.bitmap_words[b]
        /\ EntryAt(h, br, b, BitAt(br, p)) = x
    BY <1>1, <2>2, <2>3, <2>6, <2>8, EntryDecoded DEF h
  <2>10. b \in BlocksOf(h, br) /\ b \in DOMAIN h.block_col_idx
    <3>. HIDE DEF first
    <3>1. first + j \in first .. first + n - 1 /\ first + j \in 0 .. device.num_blocks - 1
      BY <2>7
    <3>. QED
      BY <1>1, <2>7, <3>1 DEF BlocksOf, first
  <2>11. x[1] < h.rows /\ x[2] < h.cols
    <3>1. e.rows \in Nat /\ e.cols \in Nat
      BY <1>1 DEF IsCsr
    <3>2. r < e.rows /\ Col(p) < e.cols
      BY <2>3, <3>1
    <3>3. x[1] = r /\ x[2] = Col(p)
      BY <2>2
    <3>. QED
      BY <1>1, <3>2, <3>3
  <2>. HIDE DEF b
  <2>12. x \in BlockEntries(h, br, b)
    BY <2>9, <2>11 DEF BlockEntries
  <2>. QED
    BY <1>3, <2>10, <2>12
<1>. QED
  BY <1>4, <1>5 DEF h

\* Every value of the result is one of the upload's.
LEMMA ValuesStored ==
  ASSUME IInv, pc = "done", NEW i \in DOMAIN device.values
  PROVE  \E p \in DOMAIN effective_csr.values : device.values[i] = effective_csr.values[p]
<1>1. /\ IsCsr(effective_csr) /\ device.nnz = size(effective_csr.values)
      /\ DOMAIN device.values = 0 .. device.nnz - 1
  BY DEF IInv, ShapeInv
<1>2. /\ device.block_row_val_ptr \in [0 .. NumBlockRows -> Nat]
      /\ device.block_row_val_ptr[NumBlockRows] = device.nnz
      /\ device.nnz \in Nat /\ NumBlockRows \in Nat
  BY RowStarts, BlocksFollow
<1>3. device.block_row_val_ptr[0] = 0
  <2>1. 0 \in 0 .. NumBlockRows
    BY <1>2
  <2>2. device.block_row_val_ptr[0]
          = effective_csr.row_ptr[Smaller(effective_csr.rows, 0 * block_rows)]
    BY <2>1 DEF IInv, LayoutInv
  <2>3. 0 * block_rows = 0
    BY BlockShapeAssumption
  <2>4. effective_csr.rows \in Nat /\ effective_csr.row_ptr[0] = 0
    BY <1>1 DEF IsCsr
  <2>5. Smaller(effective_csr.rows, 0) = 0
    BY <2>4 DEF Smaller
  <2>. QED
    BY <2>2, <2>3, <2>4, <2>5
<1>4. i \in Int /\ 0 <= i /\ i < device.nnz
  BY <1>1, <1>2
<1>5. PICK br \in 0 .. NumBlockRows - 1 :
        device.block_row_val_ptr[br] <= i /\ i < device.block_row_val_ptr[br + 1]
  <2>1. device.block_row_val_ptr \in [0 .. NumBlockRows -> Int]
    BY <1>2
  <2>2. device.block_row_val_ptr[0] <= i /\ i < device.block_row_val_ptr[NumBlockRows]
    BY <1>2, <1>3, <1>4
  <2>. QED
    BY <1>2, <1>4, <2>1, <2>2, RowOfIndex
<1>6. ValueStart(br) <= i /\ i < EntriesEnd(br)
  BY <1>5, ValueStarts DEF IInv
<1>7. PICK n \in Nat : \E walk : RowWritten(br, n, walk, n)
  BY DEF IInv, FillInv, Filled
<1>8. PICK walk : RowWritten(br, n, walk, n)
  BY <1>7
<1>9. /\ IsWalk(br, walk, n) /\ ValueStart(br) \in Nat /\ AtWork(walk[n]) = {}
      /\ \A j \in 0 .. n - 1 : BlockWritten(br, walk[j], device.block_row_ptr[br] + j)
  BY <1>8, RowBlocks
<1>10. EntriesEnd(br) = ValueStart(br) + Cardinality(Behind(walk[n]))
  <2>1. Lanes(br, walk[n])
    <3>1. n \in 0 .. n
      OBVIOUS
    <3>. QED
      BY <1>1, <1>9, <3>1, WalkLanes
  <2>. QED
    BY <1>1, <1>9, <2>1, BehindCounts
<1>11. /\ \A j \in 0 .. n : Cardinality(Behind(walk[j])) \in Nat
       /\ Cardinality(Behind(walk[0])) = 0
       /\ \A j \in 0 .. n - 1 :
            /\ IsFiniteSet(Turned(walk[j])) /\ Cardinality(Turned(walk[j])) \in Nat
            /\ Cardinality(Behind(walk[j + 1]))
                 = Cardinality(Behind(walk[j])) + Cardinality(Turned(walk[j]))
  BY <1>1, <1>9, WalkCounts
<1>12. PICK j \in 0 .. n - 1 :
         /\ ValueStart(br) + Cardinality(Behind(walk[j])) <= i
         /\ i < ValueStart(br) + Cardinality(Behind(walk[j + 1]))
  <2>. DEFINE f == [j \in 0 .. n |-> ValueStart(br) + Cardinality(Behind(walk[j]))]
  <2>1. /\ f \in [0 .. n -> Int]
        /\ \A j \in 0 .. n : f[j] = ValueStart(br) + Cardinality(Behind(walk[j]))
    BY <1>9, <1>11
  <2>. HIDE DEF f
  <2>2. f[0] <= i /\ i < f[n]
    <3>1. 0 \in 0 .. n /\ n \in 0 .. n
      OBVIOUS
    <3>2. f[0] = ValueStart(br)
      BY <1>9, <1>11, <2>1, <3>1
    <3>3. f[n] = EntriesEnd(br)
      BY <1>10, <2>1, <3>1
    <3>. QED
      BY <1>6, <3>2, <3>3
  <2>3. PICK j \in 0 .. n - 1 : f[j] <= i /\ i < f[j + 1]
    BY <1>4, <2>1, <2>2, RowOfIndex
  <2>4. j \in 0 .. n /\ j + 1 \in 0 .. n
    BY <2>3
  <2>. QED
    BY <2>1, <2>3, <2>4
<1>. DEFINE P == Turned(walk[j])
            start == ValueStart(br) + Cardinality(Behind(walk[j]))
<1>13. P \subseteq Nat /\ P \subseteq DOMAIN effective_csr.values
  <2>1. Lanes(br, walk[j]) /\ MinBlockCol(walk[j]) \in Nat
    <3>1. j \in 0 .. n /\ AtWork(walk[j]) # {}
      BY <1>9 DEF IsWalk
    <3>2. Lanes(br, walk[j])
      BY <1>1, <1>9, <3>1, WalkLanes
    <3>. QED
      BY <1>1, <3>1, <3>2, MinBlockColIs
  <2>. QED
    BY <1>1, <2>1, TurnIs DEF Turned
<1>14. /\ IsFiniteSet(P) /\ Cardinality(P) \in Nat /\ start \in Nat
       /\ start <= i /\ i < start + Cardinality(P)
  <2>1. j \in 0 .. n
    OBVIOUS
  <2>2. Cardinality(Behind(walk[j + 1])) = Cardinality(Behind(walk[j])) + Cardinality(P)
        /\ Cardinality(P) \in Nat /\ IsFiniteSet(P) /\ Cardinality(Behind(walk[j])) \in Nat
    BY <1>11, <2>1
  <2>3. start <= i /\ i < ValueStart(br) + Cardinality(Behind(walk[j + 1]))
    BY <1>12
  <2>. HIDE DEF P
  <2>. QED
    BY <1>9, <2>2, <2>3
<1>15. \A p \in P : device.values[start + Below(P, p)] = effective_csr.values[p]
  BY <1>9 DEF BlockWritten, Cell
<1>. HIDE DEF P, start
<1>16. PICK p \in P : Below(P, p) = i - start
  <2>1. i - start \in 0 .. Cardinality(P) - 1
    BY <1>4, <1>14
  <2>2. P \subseteq Int
    BY <1>13
  <2>. QED
    BY <1>14, <2>1, <2>2, Ranks
<1>17. start + Below(P, p) = i
  BY <1>4, <1>14, <1>16
<1>. QED
  BY <1>13, <1>15, <1>17

\* There are as many entries as values: a row in order stores none twice.
LEMMA EntriesCounted ==
  ASSUME IsCsr(effective_csr), HasSortedRows(effective_csr),
         \A p \in DOMAIN effective_csr.values : effective_csr.values[p] # 0
  PROVE  Cardinality(Entries(effective_csr)) = size(effective_csr.values)
<1>. DEFINE e == effective_csr
            D == DOMAIN e.values
            f == [p \in D |-> <<RowOf(p), e.col_idx[p], e.values[p]>>]
            n == e.row_ptr[e.rows]
<1>1. /\ e.rows \in Nat /\ e.row_ptr \in [0 .. e.rows -> Int] /\ e.row_ptr[0] = 0
      /\ \A r \in 0 .. e.rows : e.row_ptr[r] \in Nat
      /\ n \in Nat /\ D = 0 .. n - 1
  BY DEF IsCsr
<1>2. ASSUME NEW p \in D
      PROVE  RowOf(p) \in 0 .. e.rows - 1 /\ p \in Positions(e, RowOf(p)) /\ p \in Nat
  <2>. HIDE DEF n
  <2>1. p \in Int /\ e.row_ptr[0] <= p /\ p < e.row_ptr[e.rows]
    BY <1>1 DEF n
  <2>2. PICK r \in 0 .. e.rows - 1 : e.row_ptr[r] <= p /\ p < e.row_ptr[r + 1]
    BY <1>1, <2>1, RowOfIndex
  <2>3. r \in 0 .. e.rows /\ r + 1 \in 0 .. e.rows
    BY <1>1, <2>2
  <2>4. e.row_ptr[r] \in Nat /\ e.row_ptr[r + 1] \in Nat
    BY <1>1, <2>3
  <2>5. p \in Positions(e, r)
    BY <2>1, <2>2, <2>4 DEF Positions
  <2>. QED
    BY <2>5, RowOfPosition
<1>3. ASSUME NEW x \in Entries(e) PROVE \E p \in D : x = f[p]
  <2>1. PICK r \in 0 .. e.rows - 1 : \E p \in Positions(e, r) :
          p \in D /\ x = <<r, e.col_idx[p], e.values[p]>>
    BY EntriesAre
  <2>2. PICK p \in Positions(e, r) : p \in D /\ x = <<r, e.col_idx[p], e.values[p]>>
    BY <2>1
  <2>3. RowOf(p) = r
    BY RowOfPosition
  <2>. QED
    BY <2>2, <2>3
<1>4. \A p \in D : f[p] \in Entries(e)
  <2>1. ASSUME NEW p \in D PROVE f[p] \in Entries(e)
    <3>1. RowOf(p) \in 0 .. e.rows - 1 /\ p \in Positions(e, RowOf(p)) /\ e.values[p] # 0
      BY <1>2
    <3>2. f[p] = <<RowOf(p), e.col_idx[p], e.values[p]>>
      OBVIOUS
    <3>. HIDE DEF f
    <3>. QED
      BY <3>1, <3>2, EntriesAre
  <2>. QED
    BY <2>1
<1>5. Entries(e) = {f[p] : p \in D}
  <2>. HIDE DEF f
  <2>. QED
    BY <1>3, <1>4
<1>6. \A p, q \in D : f[p] = f[q] => p = q
  <2>1. ASSUME NEW p \in D, NEW q \in D, f[p] = f[q] PROVE p = q
    <3>1. RowOf(p) = RowOf(q) /\ e.col_idx[p] = e.col_idx[q]
      BY <2>1
    <3>2. /\ RowOf(p) \in 0 .. e.rows - 1 /\ p \in Positions(e, RowOf(p)) /\ p \in Nat
          /\ q \in Positions(e, RowOf(p)) /\ q \in Nat
      BY <1>2, <3>1
    <3>3. e.col_idx[p] \in Int
      BY DEF IsCsr
    <3>4. /\ p < q => e.col_idx[p] < e.col_idx[q]
          /\ q < p => e.col_idx[q] < e.col_idx[p]
      BY <3>2 DEF HasSortedRows
    <3>5. ~(p < q) /\ ~(q < p)
      BY <3>1, <3>3, <3>4
    <3>. QED
      BY <3>2, <3>5
  <2>. QED
    BY <2>1
<1>7. IsFiniteSet(D) /\ DOMAIN f = D
  <2>1. 0 \in Int /\ 0 .. 0 + n - 1 = D /\ n \in Nat
    BY <1>1
  <2>2. IsFiniteSet(0 .. 0 + n - 1)
    <3>. HIDE DEF n
    <3>. QED
      BY <2>1, IntervalIs, Zenon
  <2>. QED
    BY <2>1, <2>2
<1>. HIDE DEF f, D
<1>8. Cardinality({f[p] : p \in D}) = Cardinality(D)
  BY <1>6, <1>7, OneToOne
<1>. QED
  BY <1>5, <1>8 DEF size, D

\* Every block is written by a turn of its block row's walk.
LEMMA BlockIs ==
  ASSUME IInv, pc = "done", NEW b \in 0 .. device.num_blocks - 1
  PROVE  \E br \in 0 .. NumBlockRows - 1 : \E n \in Nat : \E walk : \E j \in 0 .. n - 1 :
           RowWritten(br, n, walk, n) /\ b = device.block_row_ptr[br] + j
<1>1. PICK br \in 0 .. NumBlockRows - 1 :
        device.block_row_ptr[br] <= b /\ b < device.block_row_ptr[br + 1]
  BY BlocksFollow
<1>2. PICK n \in Nat : \E walk : RowWritten(br, n, walk, n)
  BY DEF IInv, FillInv, Filled
<1>3. PICK walk : RowWritten(br, n, walk, n)
  BY <1>2
<1>4. /\ device.block_row_ptr[br] \in Nat
      /\ device.block_row_ptr[br + 1] = device.block_row_ptr[br] + n
  BY <1>3, RowBlocks
<1>5. /\ b - device.block_row_ptr[br] \in 0 .. n - 1
      /\ b = device.block_row_ptr[br] + (b - device.block_row_ptr[br])
  BY <1>1, <1>4
<1>. QED
  BY <1>3, <1>5

\* A block has a block column of the matrix and is not empty; in sorted rows
\* its values end where those of the next block begin.
LEMMA BlockIsValid ==
  ASSUME IInv, pc = "done", NEW b \in 0 .. device.num_blocks - 1
  PROVE  /\ device.block_col_idx[b] \in 0 .. device.num_block_cols - 1
         /\ device.bitmap_words[b] # {}
         /\ HasSortedRows(effective_csr) =>
              BlockValPtr(device)[b] + Cardinality(device.bitmap_words[b])
                = BlockValPtr(device)[b + 1]
<1>1. PICK br \in 0 .. NumBlockRows - 1 : \E n \in Nat : \E walk : \E j \in 0 .. n - 1 :
        RowWritten(br, n, walk, n) /\ b = device.block_row_ptr[br] + j
  BY BlockIs
<1>2. PICK n \in Nat : \E walk : \E j \in 0 .. n - 1 :
        RowWritten(br, n, walk, n) /\ b = device.block_row_ptr[br] + j
  BY <1>1
<1>3. PICK walk : \E j \in 0 .. n - 1 :
        RowWritten(br, n, walk, n) /\ b = device.block_row_ptr[br] + j
  BY <1>2
<1>4. PICK j \in 0 .. n - 1 : RowWritten(br, n, walk, n) /\ b = device.block_row_ptr[br] + j
  BY <1>3
<1>. DEFINE c == MinBlockCol(walk[j])
            bits == TurnBits(br, walk[j], c)
            P == Turned(walk[j])
<1>5. /\ IsCsr(effective_csr) /\ IsWalk(br, walk, n) /\ device.block_row_ptr[br] \in Nat
      /\ ValueStart(br) \in Nat
      /\ BlockWritten(br, walk[j], device.block_row_ptr[br] + j)
  BY <1>4, RowBlocks
<1>6. device.block_col_idx[b] = c /\ device.bitmap_words[b] = bits
  BY <1>4, <1>5 DEF BlockWritten
<1>7. j \in 0 .. n /\ j + 1 \in 0 .. n /\ b + 1 = device.block_row_ptr[br] + (j + 1)
  BY <1>4, <1>5
<1>8. device.num_block_cols = ceil_div(effective_csr.cols, block_cols)
  BY DEF IInv, ShapeInv
<1>9. c \in 0 .. device.num_block_cols - 1
  <2>1. AtWork(walk[j]) # {} /\ Lanes(br, walk[j])
    BY <1>5, <1>7, WalkLanes DEF IsWalk
  <2>. QED
    BY <1>5, <1>8, <2>1, MinBlockColIs
<1>10. bits # {}
  <2>1. P # {} /\ bits = {BitAt(br, p) : p \in P}
    BY <1>5, BitsOfTurn, Zenon
  <2>. HIDE DEF bits, P
  <2>. QED
    BY <2>1
<1>11. ASSUME HasSortedRows(effective_csr)
       PROVE  BlockValPtr(device)[b] + Cardinality(bits) = BlockValPtr(device)[b + 1]
  <2>1. /\ BlockValPtr(device)[b] = ValueStart(br) + Cardinality(Behind(walk[j]))
        /\ BlockValPtr(device)[b + 1] = ValueStart(br) + Cardinality(Behind(walk[j + 1]))
    <3>1. \A i \in 0 .. n : BlockValPtr(device)[device.block_row_ptr[br] + i]
                             = ValueStart(br) + Cardinality(Behind(walk[i]))
      BY <1>4, <1>11, BlockStarts, Zenon
    <3>2. /\ BlockValPtr(device)[device.block_row_ptr[br] + j]
               = ValueStart(br) + Cardinality(Behind(walk[j]))
          /\ BlockValPtr(device)[device.block_row_ptr[br] + (j + 1)]
               = ValueStart(br) + Cardinality(Behind(walk[j + 1]))
      BY <1>7, <3>1, Zenon
    <3>. QED
      BY <1>4, <1>7, <3>2, Zenon
  <2>2. /\ Cardinality(P) \in Nat /\ Cardinality(Behind(walk[j])) \in Nat
        /\ Cardinality(Behind(walk[j + 1])) = Cardinality(Behind(walk[j])) + Cardinality(P)
    BY <1>5, <1>7, WalkCounts
  <2>3. Cardinality(bits) = Cardinality(P)
    BY <1>5, <1>11, SortedTurn
  <2>. HIDE DEF bits, P
  <2>. QED
    BY <1>5, <2>1, <2>2, <2>3
<1>. HIDE DEF c, bits
<1>. QED
  BY <1>6, <1>9, <1>10, <1>11

\* What BitBsrMatrix::validate looks at, the values' starts left out.
LEMMA HostShape ==
  ASSUME IInv, pc = "done", NEW h, h = to_host(device)
  PROVE  /\ h.rows = effective_csr.rows /\ h.cols = effective_csr.cols
         /\ h.num_block_rows = NumBlockRows
         /\ h.num_block_rows = ceil_div(h.rows, block_rows)
         /\ h.num_block_cols = ceil_div(h.cols, block_cols)
         /\ DOMAIN h.block_row_ptr = 0 .. h.num_block_rows
         /\ size(h.block_col_idx) = device.num_blocks
         /\ size(h.bitmap_words) = device.num_blocks
         /\ DOMAIN h.block_col_idx = 0 .. device.num_blocks - 1
         /\ DOMAIN h.block_val_ptr = 0 .. device.num_blocks
         /\ h.block_row_ptr = device.block_row_ptr /\ h.block_val_ptr = BlockValPtr(device)
         /\ h.block_col_idx = device.block_col_idx /\ h.bitmap_words = device.bitmap_words
         /\ h.values = device.values
         /\ h.num_block_cols = device.num_block_cols
         /\ h.block_row_ptr[0] = 0
         /\ \A br \in 0 .. h.num_block_rows - 1 : h.block_row_ptr[br] <= h.block_row_ptr[br + 1]
         /\ h.block_row_ptr[h.num_block_rows] = device.num_blocks
         /\ h.block_val_ptr[0] = 0
         /\ h.block_val_ptr[device.num_blocks] = size(h.values)
         /\ size(h.values) = size(effective_csr.values)
<1>1. /\ h.rows = device.rows /\ h.cols = device.cols
      /\ h.num_block_rows = device.num_block_rows /\ h.num_block_cols = device.num_block_cols
      /\ h.block_row_ptr = device.block_row_ptr /\ h.block_val_ptr = BlockValPtr(device)
      /\ h.block_col_idx = device.block_col_idx /\ h.bitmap_words = device.bitmap_words
      /\ h.values = device.values
  BY DEF to_host
<1>2. /\ device.rows = effective_csr.rows /\ device.cols = effective_csr.cols
      /\ device.num_block_rows = NumBlockRows
      /\ device.num_block_cols = ceil_div(effective_csr.cols, block_cols)
      /\ device.nnz = size(effective_csr.values)
      /\ DOMAIN device.values = 0 .. size(effective_csr.values) - 1
      /\ IsCsr(effective_csr)
  BY DEF IInv, ShapeInv
<1>3. /\ DOMAIN device.block_col_idx = 0 .. device.num_blocks - 1
      /\ DOMAIN device.bitmap_words = 0 .. device.num_blocks - 1
      /\ device.block_row_val_ptr =
           [k \in 0 .. NumBlockRows |->
              effective_csr.row_ptr[Smaller(effective_csr.rows, k * block_rows)]]
  BY DEF IInv, LayoutInv
<1>4. /\ NumBlockRows \in Nat /\ device.num_blocks \in Nat
      /\ device.block_row_ptr \in [0 .. NumBlockRows -> Nat] /\ device.block_row_ptr[0] = 0
      /\ device.num_blocks = device.block_row_ptr[NumBlockRows]
      /\ \A a, b \in 0 .. NumBlockRows :
           a <= b => device.block_row_ptr[a] <= device.block_row_ptr[b]
  BY BlocksFollow
<1>5. \A br \in 0 .. NumBlockRows - 1 :
        device.block_row_ptr[br] <= device.block_row_ptr[br + 1]
  <2>1. \A br \in 0 .. NumBlockRows - 1 :
          br \in 0 .. NumBlockRows /\ br + 1 \in 0 .. NumBlockRows /\ br <= br + 1
    BY <1>4
  <2>. QED
    BY <1>4, <2>1
<1>6. /\ BlockRowValPtr(to_host(device)) = device.block_row_val_ptr
      /\ device.nnz \in Nat
  BY RowStarts
<1>7. size(device.values) = device.nnz
  BY <1>2, <1>6, SizeIs
<1>8. size(device.block_col_idx) = device.num_blocks /\ size(device.bitmap_words) = device.num_blocks
  BY <1>3, <1>4, SizeIs
<1>9. DOMAIN BlockValPtr(device) = 0 .. device.num_blocks
      /\ BlockValPtr(device)[device.num_blocks] = device.nnz
  BY <1>4 DEF BlockValPtr
<1>10. BlockValPtr(device)[0] = 0
  <2>1. 0 \in 0 .. NumBlockRows
    BY <1>4
  <2>2. BlockRowValPtr(to_host(device))[0] = BlockValPtr(device)[device.block_row_ptr[0]]
    BY <1>2, <2>1 DEF BlockRowValPtr, to_host
  <2>3. device.block_row_val_ptr[0]
          = effective_csr.row_ptr[Smaller(effective_csr.rows, 0 * block_rows)]
    BY <1>3, <2>1
  <2>4. 0 * block_rows = 0
    BY BlockShapeAssumption
  <2>5. effective_csr.rows \in Nat /\ effective_csr.row_ptr[0] = 0
    BY <1>2 DEF IsCsr
  <2>6. Smaller(effective_csr.rows, 0) = 0
    BY <2>5 DEF Smaller
  <2>. QED
    BY <1>4, <1>6, <2>2, <2>3, <2>4, <2>5, <2>6
<1>. QED
  BY <1>1, <1>2, <1>3, <1>4, <1>5, <1>7, <1>8, <1>9, <1>10 DEF NumBlockRows

LEMMA ResultRepresents ==
  ASSUME IInv, pc = "done", HasSortedRows(csr)
  PROVE  Represents(to_host(device), csr)
<1>. DEFINE h == to_host(device)
            e == effective_csr
<1>1. IsCsr(csr) /\ e = Uploaded(csr)
  BY CsrAssumption DEF IInv, ShapeInv
<1>2. /\ IsCsr(e) /\ e.rows = csr.rows /\ e.cols = csr.cols
      /\ \A p \in DOMAIN e.values : e.values[p] # 0
      /\ Entries(e) = Entries(csr) /\ HasSortedRows(e)
  BY <1>1, UploadKeeps
<1>3. /\ h.rows = e.rows /\ h.cols = e.cols
      /\ h.num_block_rows = NumBlockRows
      /\ h.num_block_rows = ceil_div(h.rows, block_rows)
      /\ h.num_block_cols = ceil_div(h.cols, block_cols)
      /\ DOMAIN h.block_row_ptr = 0 .. h.num_block_rows
      /\ size(h.block_col_idx) = device.num_blocks
      /\ size(h.bitmap_words) = device.num_blocks
      /\ DOMAIN h.block_col_idx = 0 .. device.num_blocks - 1
      /\ DOMAIN h.block_val_ptr = 0 .. device.num_blocks
      /\ h.block_row_ptr = device.block_row_ptr /\ h.block_val_ptr = BlockValPtr(device)
      /\ h.block_col_idx = device.block_col_idx /\ h.bitmap_words = device.bitmap_words
      /\ h.values = device.values
      /\ h.num_block_cols = device.num_block_cols
      /\ h.block_row_ptr[0] = 0
      /\ \A br \in 0 .. h.num_block_rows - 1 : h.block_row_ptr[br] <= h.block_row_ptr[br + 1]
      /\ h.block_row_ptr[h.num_block_rows] = device.num_blocks
      /\ h.block_val_ptr[0] = 0
      /\ h.block_val_ptr[device.num_blocks] = size(h.values)
      /\ size(h.values) = size(e.values)
  BY HostShape
<1>4. Decode(h) = Entries(csr)
  BY <1>2, DecodedIsEntries
<1>5. size(h.values) = Cardinality(Entries(csr))
  BY <1>2, <1>3, EntriesCounted
<1>6. \A b \in 0 .. device.num_blocks - 1 :
        /\ device.block_col_idx[b] \in 0 .. device.num_block_cols - 1
        /\ device.bitmap_words[b] # {}
        /\ BlockValPtr(device)[b] + Cardinality(device.bitmap_words[b])
             = BlockValPtr(device)[b + 1]
  BY <1>2, BlockIsValid
<1>7. \A i \in DOMAIN device.values : device.values[i] # 0
  BY <1>2, ValuesStored
<1>8. \A br \in 0 .. NumBlockRows - 1 : \A a, b \in BlocksOf(h, br) :
        a < b => device.block_col_idx[a] < device.block_col_idx[b]
  <2>. SUFFICES ASSUME NEW br \in 0 .. NumBlockRows - 1,
                       NEW a \in BlocksOf(h, br), NEW b \in BlocksOf(h, br), a < b
                PROVE  device.block_col_idx[a] < device.block_col_idx[b]
    OBVIOUS
  <2>1. PICK n \in Nat : \E walk : RowWritten(br, n, walk, n)
    BY DEF IInv, FillInv, Filled
  <2>2. PICK walk : RowWritten(br, n, walk, n)
    BY <2>1
  <2>. DEFINE first == device.block_row_ptr[br]
  <2>3. /\ first \in Nat /\ device.block_row_ptr[br + 1] = first + n /\ IsWalk(br, walk, n)
        /\ \A j \in 0 .. n - 1 : BlockWritten(br, walk[j], first + j)
    BY <2>2, RowBlocks
  <2>4. a \in first .. first + n - 1 /\ b \in first .. first + n - 1
    BY <1>3, <2>3 DEF BlocksOf
  <2>. HIDE DEF first
  <2>5. PICK j \in 0 .. n - 1, k \in 0 .. n - 1 : a = first + j /\ b = first + k /\ j < k
    <3>1. /\ a - first \in 0 .. n - 1 /\ a = first + (a - first)
          /\ b - first \in 0 .. n - 1 /\ b = first + (b - first)
          /\ a - first < b - first
      BY <2>3, <2>4
    <3>. QED
      BY <3>1
  <2>6. HasOrderedRows(e)
    <3>1. \A r \in 0 .. e.rows - 1 : \A p, q \in Positions(e, r) :
            p < q => e.col_idx[p] < e.col_idx[q]
      BY <1>2 DEF HasSortedRows
    <3>2. \A r \in 0 .. e.rows - 1 : \A p \in Positions(e, r) : e.col_idx[p] \in Int
      <4>1. \A p \in DOMAIN e.values : e.col_idx[p] \in Int
        BY <1>2 DEF IsCsr
      <4>. QED
        BY <1>2, <4>1, PositionsInside
    <3>3. \A r \in 0 .. e.rows - 1 : \A p, q \in Positions(e, r) :
            p < q => e.col_idx[p] <= e.col_idx[q]
      BY <3>1, <3>2
    <3>. QED
      BY <3>3 DEF HasOrderedRows
  <2>7. MinBlockCol(walk[j]) < MinBlockCol(walk[k])
    BY <1>2, <2>3, <2>5, <2>6, TurnsAscend
  <2>8. /\ device.block_col_idx[a] = MinBlockCol(walk[j])
        /\ device.block_col_idx[b] = MinBlockCol(walk[k])
    BY <2>3, <2>5 DEF BlockWritten
  <2>. QED
    BY <2>7, <2>8
<1>. HIDE DEF h
<1>9. IsBitBsr(h)
  BY <1>3, <1>6, <1>7 DEF IsBitBsr
<1>10. Represents(h, csr)
  BY <1>2, <1>3, <1>4, <1>5, <1>6, <1>8, <1>9 DEF Represents
<1>. QED
  BY <1>10 DEF h

\* Of entries that a matrix with ordered rows stores twice, both fall into one
\* turn: it sets fewer bits than it writes values, and the starts of the
\* values cannot be the sums of the bits.
LEMMA DuplicatesShow ==
  ASSUME IInv, pc = "done", HasOrderedRows(csr), HasDuplicates(csr)
  PROVE  ~IsBitBsr(to_host(device))
<1>. DEFINE h == to_host(device)
            e == effective_csr
<1>1. IsCsr(e) /\ HasOrderedRows(e) /\ HasDuplicates(e)
  <2>1. IsCsr(csr) /\ e = Uploaded(csr)
    BY CsrAssumption DEF IInv, ShapeInv
  <2>. QED
    BY <2>1, UploadKeeps
<1>2. SUFFICES ASSUME IsBitBsr(h) PROVE FALSE
  OBVIOUS
<1>3. /\ h.block_val_ptr = BlockValPtr(device) /\ h.bitmap_words = device.bitmap_words
      /\ DOMAIN h.block_col_idx = 0 .. device.num_blocks - 1
  BY HostShape
<1>. HIDE DEF h
<1>4. \A b \in 0 .. device.num_blocks - 1 :
        BlockValPtr(device)[b] + Cardinality(device.bitmap_words[b]) = BlockValPtr(device)[b + 1]
  BY <1>2, <1>3 DEF IsBitBsr
<1>5. PICK r \in 0 .. e.rows - 1 : \E p, q \in Positions(e, r) : p # q /\ Col(p) = Col(q)
  BY <1>1 DEF HasDuplicates, Col
<1>6. PICK p \in Positions(e, r), q \in Positions(e, r) : p # q /\ Col(p) = Col(q)
  BY <1>5
<1>7. RowOf(p) = r /\ RowOf(q) = r
  BY <1>1, RowOfPosition
<1>8. PICK br \in 0 .. NumBlockRows - 1 : r \in Rows(br)
  BY <1>1, BlockRowOfRow
<1>9. PICK n \in Nat : \E walk : RowWritten(br, n, walk, n)
  BY DEF IInv, FillInv, Filled
<1>10. PICK walk : RowWritten(br, n, walk, n)
  BY <1>9
<1>. DEFINE first == device.block_row_ptr[br]
            starts == BlockValPtr(device)
            start == ValueStart(br)
<1>11. /\ IsWalk(br, walk, n) /\ AtWork(walk[n]) = {}
       /\ first \in Nat /\ device.block_row_ptr[br + 1] = first + n
       /\ first + n <= device.num_blocks /\ device.num_blocks \in Nat
       /\ \A i \in 0 .. n - 1 : BlockWritten(br, walk[i], first + i)
       /\ start \in Nat
       /\ starts[first] = start
       /\ starts[first + n] = start + Cardinality(Behind(walk[n]))
  BY <1>10, RowBlocks
<1>12. \A i \in 0 .. n - 1 : starts[first + i] \in Nat
  <2>1. /\ BitsBefore(br) \in [0 .. device.num_blocks -> Nat]
        /\ \A b \in first .. device.block_row_ptr[br + 1] - 1 :
             /\ b \in 0 .. device.num_blocks - 1
             /\ starts[b] = device.block_row_val_ptr[br] + BitsBefore(br)[b]
    BY BlockSums
  <2>2. device.block_row_val_ptr[br] = start
    BY ValueStarts DEF IInv
  <2>. HIDE DEF first, starts, start
  <2>3. \A i \in 0 .. n - 1 : /\ first + i \in first .. device.block_row_ptr[br + 1] - 1
                              /\ first + i \in 0 .. device.num_blocks
    BY <1>11
  <2>4. \A i \in 0 .. n - 1 : /\ starts[first + i] = start + BitsBefore(br)[first + i]
                              /\ BitsBefore(br)[first + i] \in Nat
    BY <2>1, <2>2, <2>3
  <2>. QED
    BY <1>11, <2>4
<1>13. /\ \A i \in 0 .. n : Cardinality(Behind(walk[i])) \in Nat
       /\ Cardinality(Behind(walk[0])) = 0
       /\ \A i \in 0 .. n - 1 :
            /\ Cardinality(Turned(walk[i])) \in Nat
            /\ Cardinality(Behind(walk[i + 1]))
                 = Cardinality(Behind(walk[i])) + Cardinality(Turned(walk[i]))
  BY <1>1, <1>11, WalkCounts
<1>14. PICK j \in 0 .. n - 1 : p \in Turned(walk[j])
  BY <1>1, <1>8, <1>11, PositionTurned
<1>15. PICK k \in 0 .. n - 1 : q \in Turned(walk[k])
  BY <1>1, <1>8, <1>11, PositionTurned
<1>16. \A i \in 0 .. n - 1 : /\ MinBlockCol(walk[i]) \in Nat
                             /\ \A x \in Turned(walk[i]) : Col(x) \div block_cols = MinBlockCol(walk[i])
  <2>1. ASSUME NEW i \in 0 .. n - 1
        PROVE  /\ MinBlockCol(walk[i]) \in Nat
               /\ \A x \in Turned(walk[i]) : Col(x) \div block_cols = MinBlockCol(walk[i])
    <3>1. i \in 0 .. n /\ AtWork(walk[i]) # {}
      BY <1>11 DEF IsWalk
    <3>2. Lanes(br, walk[i])
      BY <1>1, <1>11, <3>1, WalkLanes
    <3>3. MinBlockCol(walk[i]) \in Nat
      BY <1>1, <3>1, <3>2, MinBlockColIs
    <3>. QED
      BY <1>1, <3>2, <3>3, TurnIs DEF Turned
  <2>. QED
    BY <2>1
<1>17. j = k
  <2>1. MinBlockCol(walk[j]) = MinBlockCol(walk[k]) /\ MinBlockCol(walk[j]) \in Nat
    BY <1>6, <1>14, <1>15, <1>16
  <2>2. /\ j < k => MinBlockCol(walk[j]) < MinBlockCol(walk[k])
        /\ k < j => MinBlockCol(walk[k]) < MinBlockCol(walk[j])
    BY <1>1, <1>11, TurnsAscend
  <2>3. ~(j < k) /\ ~(k < j)
    BY <2>1, <2>2
  <2>. QED
    BY <2>3
<1>. DEFINE bits(i) == Cardinality(TurnBits(br, walk[i], MinBlockCol(walk[i])))
            turned(i) == Cardinality(Turned(walk[i]))
<1>18. \A i \in 0 .. n - 1 : bits(i) \in Nat /\ turned(i) \in Nat /\ bits(i) <= turned(i)
  BY <1>1, <1>11, BitsOfTurn
<1>19. bits(j) < turned(j)
  <2>1. BitAt(br, p) = BitAt(br, q)
    BY <1>6, <1>7 DEF BitAt
  <2>2. \E x, y \in Turned(walk[j]) : x # y /\ BitAt(br, x) = BitAt(br, y)
    BY <1>6, <1>14, <1>15, <1>17, <2>1
  <2>. QED
    BY <1>1, <1>11, <2>2, BitsOfTurn
<1>20. \A i \in 0 .. n - 1 : starts[first + (i + 1)] = starts[first + i] + bits(i)
  <2>1. ASSUME NEW i \in 0 .. n - 1 PROVE starts[first + (i + 1)] = starts[first + i] + bits(i)
    <3>1. device.bitmap_words[first + i] = TurnBits(br, walk[i], MinBlockCol(walk[i]))
      BY <1>11 DEF BlockWritten
    <3>. HIDE DEF first
    <3>2. first + i \in 0 .. device.num_blocks - 1 /\ first + (i + 1) = (first + i) + 1
      BY <1>11
    <3>. QED
      BY <1>4, <3>1, <3>2
  <2>. QED
    BY <2>1
<1>. HIDE DEF first, starts, start, bits
<1>. DEFINE f == [i \in 0 .. n |-> start + Cardinality(Behind(walk[i])) - starts[first + i]]
<1>21. \A i \in 0 .. n : starts[first + i] \in Nat
  <2>1. \A i \in 0 .. n : i = n \/ i \in 0 .. n - 1
    OBVIOUS
  <2>2. starts[first + n] \in Nat
    <3>1. n \in 0 .. n
      OBVIOUS
    <3>. QED
      BY <1>11, <1>13, <3>1
  <2>. QED
    BY <1>12, <2>1, <2>2
<1>22. /\ f \in [0 .. n -> Int]
       /\ \A i \in 0 .. n : f[i] = start + Cardinality(Behind(walk[i])) - starts[first + i]
  <2>1. \A i \in 0 .. n : f[i] = start + Cardinality(Behind(walk[i])) - starts[first + i]
    OBVIOUS
  <2>2. ASSUME NEW i \in 0 .. n
        PROVE  start + Cardinality(Behind(walk[i])) - starts[first + i] \in Int
    <3>1. Cardinality(Behind(walk[i])) \in Nat /\ starts[first + i] \in Nat /\ start \in Nat
      BY <1>11, <1>13, <1>21
    <3>. QED
      BY <3>1
  <2>. QED
    BY <2>1, <2>2
<1>. HIDE DEF f
<1>23. f[0] = 0 /\ f[n] = 0
  <2>1. 0 \in 0 .. n /\ n \in 0 .. n /\ first + 0 = first
    BY <1>11
  <2>2. f[0] = start + 0 - start
    BY <1>11, <1>13, <1>22, <2>1
  <2>3. f[n] = start + Cardinality(Behind(walk[n])) - (start + Cardinality(Behind(walk[n])))
        /\ Cardinality(Behind(walk[n])) \in Nat
    BY <1>11, <1>13, <1>22, <2>1
  <2>. QED
    BY <1>11, <2>2, <2>3
<1>24. \A i \in 0 .. n - 1 : f[i + 1] = f[i] + (turned(i) - bits(i))
  <2>1. ASSUME NEW i \in 0 .. n - 1 PROVE f[i + 1] = f[i] + (turned(i) - bits(i))
    <3>1. i \in 0 .. n /\ i + 1 \in 0 .. n
      OBVIOUS
    <3>2. f[i + 1] = start + Cardinality(Behind(walk[i + 1])) - starts[first + (i + 1)]
      BY <1>22, <3>1
    <3>3. f[i] = start + Cardinality(Behind(walk[i])) - starts[first + i]
      BY <1>22, <3>1
    <3>4. /\ Cardinality(Behind(walk[i + 1])) = Cardinality(Behind(walk[i])) + turned(i)
          /\ starts[first + (i + 1)] = starts[first + i] + bits(i)
      BY <1>13, <1>20
    <3>5. /\ Cardinality(Behind(walk[i])) \in Nat /\ starts[first + i] \in Nat
          /\ bits(i) \in Nat /\ turned(i) \in Nat
      BY <1>13, <1>18, <1>21, <3>1
    <3>. QED
      BY <1>11, <3>2, <3>3, <3>4, <3>5
  <2>. QED
    BY <2>1
<1>. HIDE DEF turned
<1>25. \A i \in 0 .. n - 1 : f[i] <= f[i + 1]
  <2>1. \A i \in 0 .. n - 1 : f[i] \in Int
    BY <1>22
  <2>. QED
    BY <1>18, <1>24, <2>1
<1>26. f[j] < f[j + 1] /\ f[j] \in Int /\ f[j + 1] \in Int
  <2>1. f[j] \in Int /\ f[j + 1] = f[j] + (turned(j) - bits(j))
    BY <1>22, <1>24
  <2>. QED
    BY <1>18, <1>19, <2>1
<1>27. f[0] <= f[j] /\ f[j + 1] <= f[n]
  <2>1. /\ 0 \in 0 .. n /\ j \in 0 .. n /\ j + 1 \in 0 .. n /\ n \in 0 .. n
        /\ 0 <= j /\ j + 1 <= n
    OBVIOUS
  <2>2. \A i, l \in 0 .. n : i <= l => f[i] <= f[l]
    BY <1>22, <1>25, StepwiseMonotone
  <2>. QED
    BY <2>1, <2>2
<1>. QED
  BY <1>23, <1>26, <1>27

-----------------------------------------------------------------------------
(* The theorems. *)

\* Counting and filling warps are on the same walk, and of the blocks and the
\* values of a row, those of the turns made are written, in every behaviour.
THEOREM Inductive == Spec => []IInv
<1>1. IInv /\ UNCHANGED vars => IInv'
  BY StepInv
<1>. QED
  BY <1>1, InitInv, StepInv, PTL DEF Spec

\* The filling warps write the blocks and the values of their own block rows
\* (fill_bitbsr_warp_direct_kernel), and all of them in the end, whatever the
\* shape of the blocks, the matrices, and the order of the warps' turns.
THEOREM WarpsKeepToTheirRows == Spec => []WarpsStayApart
<1>1. IInv => WarpsStayApart
  <2>. SUFFICES ASSUME IInv, pc = "fill", NEW br \in BlockRows
                PROVE  LET w == warp[br] IN
                       /\ w.block_id  <= device.block_row_ptr[br + 1]
                       /\ w.value_pos <= device.block_row_val_ptr[br + 1]
                       /\ br \notin left => /\ w.block_id  = device.block_row_ptr[br + 1]
                                            /\ w.value_pos = device.block_row_val_ptr[br + 1]
    BY Zenon DEF WarpsStayApart
  <2>1. br \in 0 .. NumBlockRows - 1 /\ IsCsr(effective_csr)
    BY DEF IInv, ShapeInv, BlockRows
  <2>2. Filling(br) /\ device.block_row_val_ptr[br + 1] = EntriesEnd(br)
    BY <2>1, ValueStarts DEF IInv, FillInv
  <2>3. PICK n \in Nat : \E walk : \E k \in 0 .. n : FillingAt(br, n, walk, k)
    BY <2>2 DEF Filling
  <2>4. PICK walk : \E k \in 0 .. n : FillingAt(br, n, walk, k)
    BY <2>3
  <2>5. PICK k \in 0 .. n : FillingAt(br, n, walk, k)
    BY <2>4
  <2>6. /\ IsWholeWalk(br, walk, n) /\ IsWalk(br, walk, n)
        /\ device.block_row_ptr[br] \in Nat
        /\ device.block_row_ptr[br + 1] = device.block_row_ptr[br] + n
        /\ warp[br].block_id = device.block_row_ptr[br] + k
        /\ warp[br].value_pos = ValueStart(br) + Cardinality(Behind(walk[k]))
        /\ br \notin left => k = n
    BY <2>5 DEF FillingAt, RowWritten, IsWholeWalk
  <2>7. /\ ValueStart(br) + Cardinality(Behind(walk[k])) <= EntriesEnd(br)
        /\ AtWork(walk[k]) = {} =>
             ValueStart(br) + Cardinality(Behind(walk[k])) = EntriesEnd(br)
    BY <2>1, <2>6, WalkLanes, BehindCounts
  <2>8. AtWork(walk[n]) = {}
    BY <2>6 DEF IsWholeWalk
  <2>9. warp[br].block_id <= device.block_row_ptr[br + 1]
        /\ (k = n => warp[br].block_id = device.block_row_ptr[br + 1])
    BY <2>6
  <2>10. warp[br].value_pos <= device.block_row_val_ptr[br + 1]
    BY <2>2, <2>6, <2>7
  <2>11. ASSUME br \notin left
         PROVE  /\ warp[br].block_id  = device.block_row_ptr[br + 1]
                /\ warp[br].value_pos = device.block_row_val_ptr[br + 1]
    BY <2>2, <2>6, <2>7, <2>8, <2>9, <2>11
  <2>. QED
    BY <2>9, <2>10, <2>11
<1>. QED
  BY <1>1, Inductive, PTL

\* A result brought to the host (to_host) and copied back
\* (copy_bitbsr_to_device) is the result: the value start of a block row, which
\* the kernels take from the matrix, is the one that the popcounts of the
\* blocks give, for rows without blocks too.
THEOREM CopiedBackIsSame == Spec => []RoundTrip
<1>1. IInv => RoundTrip
  <2>. SUFFICES ASSUME IInv, pc = "done"
                PROVE  copy_bitbsr_to_device(to_host(device)) = device
    BY DEF RoundTrip
  <2>1. /\ IsDevice(device) /\ DOMAIN device.values = 0 .. device.nnz - 1
        /\ DOMAIN device.block_col_idx = 0 .. device.num_blocks - 1
    BY DEF IInv, ShapeInv, LayoutInv
  <2>2. size(device.block_col_idx) = device.num_blocks /\ size(device.values) = device.nnz
    BY <2>1, SizeIs, BlocksFollow, RowStarts
  <2>3. copy_bitbsr_to_device(to_host(device)) =
          [rows |-> device.rows, cols |-> device.cols,
           num_block_rows |-> device.num_block_rows, num_block_cols |-> device.num_block_cols,
           num_blocks |-> size(device.block_col_idx), nnz |-> size(device.values),
           block_row_ptr |-> device.block_row_ptr,
           block_row_val_ptr |-> BlockRowValPtr(to_host(device)),
           block_col_idx |-> device.block_col_idx, bitmap_words |-> device.bitmap_words,
           values |-> device.values]
    <3>. DEFINE h == to_host(device)
    <3>1. /\ h.rows = device.rows /\ h.cols = device.cols
          /\ h.num_block_rows = device.num_block_rows /\ h.num_block_cols = device.num_block_cols
          /\ h.block_row_ptr = device.block_row_ptr /\ h.block_col_idx = device.block_col_idx
          /\ h.bitmap_words = device.bitmap_words /\ h.values = device.values
      BY DEF to_host
    <3>. HIDE DEF h
    <3>2. copy_bitbsr_to_device(h) =
          [rows |-> device.rows, cols |-> device.cols,
           num_block_rows |-> device.num_block_rows, num_block_cols |-> device.num_block_cols,
           num_blocks |-> size(device.block_col_idx), nnz |-> size(device.values),
           block_row_ptr |-> device.block_row_ptr,
           block_row_val_ptr |-> BlockRowValPtr(h),
           block_col_idx |-> device.block_col_idx, bitmap_words |-> device.bitmap_words,
           values |-> device.values]
      BY <3>1 DEF copy_bitbsr_to_device
    <3>. QED
      BY <3>2 DEF h
  <2>4. copy_bitbsr_to_device(to_host(device)) =
          [rows |-> device.rows, cols |-> device.cols,
           num_block_rows |-> device.num_block_rows, num_block_cols |-> device.num_block_cols,
           num_blocks |-> device.num_blocks, nnz |-> device.nnz,
           block_row_ptr |-> device.block_row_ptr,
           block_row_val_ptr |-> device.block_row_val_ptr,
           block_col_idx |-> device.block_col_idx, bitmap_words |-> device.bitmap_words,
           values |-> device.values]
    BY <2>2, <2>3, RowStarts, Zenon
  <2>5. device = [f \in DeviceFields |-> device[f]]
    BY <2>1 DEF IsDevice
  <2>. DEFINE r == [rows |-> device.rows, cols |-> device.cols,
           num_block_rows |-> device.num_block_rows, num_block_cols |-> device.num_block_cols,
           num_blocks |-> device.num_blocks, nnz |-> device.nnz,
           block_row_ptr |-> device.block_row_ptr,
           block_row_val_ptr |-> device.block_row_val_ptr,
           block_col_idx |-> device.block_col_idx, bitmap_words |-> device.bitmap_words,
           values |-> device.values]
  <2>6. r = [f \in DeviceFields |-> r[f]] /\ \A f \in DeviceFields : r[f] = device[f]
    BY DEF DeviceFields
  <2>. HIDE DEF r
  <2>7. r = device
    BY <2>5, <2>6
  <2>. QED
    BY <2>4, <2>7 DEF r
<1>. QED
  BY <1>1, Inductive, PTL

\* Whatever order the warps of the two kernels took their turns in
\* (convert_to_bitbsr_gpu_warp_direct), a matrix with sorted rows is converted
\* to a valid BitBSR matrix with its entries, its blocks in the order of their
\* columns; from a matrix that stores an entry twice, side by side in its row,
\* comes one that BitBsrMatrix::validate does not accept.
THEOREM ConversionRepresents == Spec => []Converted
<1>1. IInv => Converted
  BY ResultRepresents, DuplicatesShow DEF Converted
<1>. QED
  BY <1>1, Inductive, PTL
=============================================================================
