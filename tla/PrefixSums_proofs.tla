-------------------------- MODULE PrefixSums_proofs --------------------------
(***************************************************************************)
(* Facts about the integer helpers, for all sizes.  Induction over indices *)
(* is done with the least counterexample: the theorem library's well-      *)
(* foundedness of < on Nat gives every non-empty set of naturals a least   *)
(* element.                                                                *)
(***************************************************************************)
EXTENDS PrefixSums, WellFoundedInduction, FiniteSetTheorems, TLAPS

LOCAL LessOnNat == OpToRel(<, Nat)

\* Every non-empty set of natural numbers has a least element.
LEMMA LeastNatural ==
  ASSUME NEW T, T \subseteq Nat, T # {}
  PROVE  \E x \in T : \A y \in T : x <= y
<1>1. IsWellFoundedOn(LessOnNat, Nat)
  BY NatLessThanWellFounded, Zenon DEF LessOnNat
<1>2. \A m, n \in Nat : m < n => <<m, n>> \in LessOnNat
  BY SMT DEF LessOnNat, OpToRel
<1>3. PICK x \in T : \A y \in T : ~(<<y, x>> \in LessOnNat)
  BY <1>1, WFMin, Zenon
<1>4. ASSUME NEW y \in T PROVE x <= y
  <2>1. x \in Nat /\ y \in Nat
    OBVIOUS
  <2>2. ~(y < x)
    BY <1>2, <1>3, <2>1, Zenon
  <2>. QED
    BY <2>1, <2>2
<1>. QED
  BY <1>4

\* Row pointers that never decrease from one row to the next, the check of
\* BitBsrMatrix::validate and CsrMatrix::validate, are monotone over any
\* distance.
LEMMA StepwiseMonotone ==
  ASSUME NEW n \in Nat, NEW f \in [0 .. n -> Int],
         \A i \in 0 .. n - 1 : f[i] <= f[i + 1]
  PROVE  \A i, j \in 0 .. n : i <= j => f[i] <= f[j]
<1>. SUFFICES ASSUME NEW i \in 0 .. n, NEW l \in 0 .. n, i <= l, ~(f[i] <= f[l])
              PROVE  FALSE
  OBVIOUS
<1>. DEFINE T == {j \in i .. n : f[j] < f[i]}
<1>0. l \in T
  OBVIOUS
<1>1. PICK j \in T : \A k \in T : j <= k
  BY <1>0, LeastNatural, T \subseteq Nat
<1>2. j > i /\ j - 1 \in i .. n /\ j - 1 \in 0 .. n - 1
  OBVIOUS
<1>3. f[j - 1] >= f[i]
  BY <1>1, <1>2
<1>4. f[j - 1] <= f[j]
  BY <1>2
<1>. QED
  BY <1>1, <1>2, <1>3, <1>4

\* Row pointers split the indices they span: every index lies in the range of
\* one row, as the search for a block's row in the converters assumes.
LEMMA RowOfIndex ==
  ASSUME NEW n \in Nat, NEW f \in [0 .. n -> Int],
         NEW v \in Int, f[0] <= v, v < f[n]
  PROVE  \E i \in 0 .. n - 1 : f[i] <= v /\ v < f[i + 1]
<1>. DEFINE T == {j \in 0 .. n : v < f[j]}
<1>1. n \in T
  OBVIOUS
<1>2. PICK j \in T : \A k \in T : j <= k
  BY <1>1, LeastNatural, T \subseteq Nat
<1>3. j # 0
  OBVIOUS
<1>4. j - 1 \in 0 .. n - 1 /\ j - 1 \in 0 .. n /\ j - 1 \notin T
  BY <1>2, <1>3
<1>5. f[j - 1] <= v /\ v < f[(j - 1) + 1]
  BY <1>4
<1>. QED
  BY <1>4, <1>5

\* ... and in no other.
LEMMA RowOfIndexUnique ==
  ASSUME NEW n \in Nat, NEW f \in [0 .. n -> Int],
         \A i \in 0 .. n - 1 : f[i] <= f[i + 1],
         NEW v \in Int, NEW p \in 0 .. n - 1, NEW q \in 0 .. n - 1,
         f[p] <= v, v < f[p + 1], f[q] <= v, v < f[q + 1]
  PROVE  p = q
<1>1. \A i, j \in 0 .. n : i <= j => f[i] <= f[j]
  BY StepwiseMonotone
<1>2. \A i \in 0 .. n : f[i] \in Int
  OBVIOUS
<1>3. ~(p < q)
  BY <1>1, <1>2, p + 1 \in 0 .. n, q \in 0 .. n
<1>4. ~(q < p)
  BY <1>1, <1>2, q + 1 \in 0 .. n, p \in 0 .. n
<1>. QED
  BY <1>3, <1>4

\* A prefix sum starts at zero and grows by each count, whatever else the array of
\* the counts holds.
LEMMA PrefixSumGrows ==
  ASSUME NEW n \in Nat, NEW c, \A i \in 0 .. n - 1 : c[i] \in Nat
  PROVE  /\ PrefixSum(c, n) \in [0 .. n -> Nat]
         /\ PrefixSum(c, n)[0] = 0
         /\ \A i \in 0 .. n - 1 : PrefixSum(c, n)[i + 1] = PrefixSum(c, n)[i] + c[i]
<1>. DEFINE Sums(f, k) == /\ f \in [0 .. k -> Nat]
                          /\ f[0] = 0
                          /\ \A i \in 0 .. k - 1 : f[i + 1] = f[i] + c[i]
            T == {k \in 0 .. n : ~ \E f : Sums(f, k)}
<1>. HIDE DEF Sums
<1>1. \E f : Sums(f, n)
  <2>0. n \in 0 .. n
    OBVIOUS
  <2>1. SUFFICES ASSUME T # {} PROVE FALSE
    BY <2>0, Zenon
  <2>2. PICK k \in T : \A m \in T : k <= m
    BY <2>1, LeastNatural, T \subseteq Nat
  <2>3. k # 0
    <3>1. Sums([i \in 0 .. 0 |-> 0], 0)
      BY DEF Sums
    <3>. QED
      BY <3>1
  <2>4. k - 1 \in 0 .. n - 1 /\ k - 1 \notin T
    BY <2>2, <2>3
  <2>5. PICK f : Sums(f, k - 1)
    BY <2>4
  <2>. DEFINE g == [i \in 0 .. k |-> IF i = k THEN f[k - 1] + c[k - 1] ELSE f[i]]
  <2>6. Sums(g, k)
    <3>1. g \in [0 .. k -> Nat]
      BY <2>4, <2>5 DEF Sums
    <3>2. g[0] = 0
      BY <2>3, <2>4, <2>5 DEF Sums
    <3>3. ASSUME NEW i \in 0 .. k - 1 PROVE g[i + 1] = g[i] + c[i]
      <4>1. CASE i = k - 1
        BY <4>1, <2>4, <2>5 DEF Sums
      <4>2. CASE i # k - 1
        BY <4>2, <2>4, <2>5 DEF Sums
      <4>. QED
        BY <4>1, <4>2
    <3>. QED
      BY <3>1, <3>2, <3>3, Zenon DEF Sums
  <2>. QED
    BY <2>6
<1>. DEFINE Rec(f) == [i \in 0 .. n |-> IF i = 0 THEN 0 ELSE f[i - 1] + c[i - 1]]
<1>2. PICK g : Sums(g, n)
  BY <1>1
<1>. USE DEF Sums
<1>3. g = Rec(g)
  <2>1. ASSUME NEW i \in 0 .. n PROVE g[i] = Rec(g)[i]
    <3>1. CASE i = 0
      BY <3>1, <1>2
    <3>2. CASE i # 0
      <4>1. i - 1 \in 0 .. n - 1
        BY <3>2
      <4>2. g[(i - 1) + 1] = g[i - 1] + c[i - 1]
        BY <1>2, <4>1
      <4>. QED
        BY <3>2, <4>1, <4>2
    <3>. QED
      BY <3>1, <3>2
  <2>2. DOMAIN g = 0 .. n /\ g = [i \in 0 .. n |-> g[i]]
    BY <1>2
  <2>. QED
    BY <2>1, <2>2
<1>4. PrefixSum(c, n) = CHOOSE f : f = Rec(f)
  BY DEF PrefixSum
<1>. DEFINE p == PrefixSum(c, n)
<1>5. p = Rec(p)
  BY <1>3, <1>4
<1>. HIDE DEF p
<1>6. p[0] = 0 /\ \A i \in 0 .. n - 1 : p[i + 1] = p[i] + c[i]
  BY <1>5
<1>7. ASSUME NEW j \in 0 .. n, ~(p[j] \in Nat) PROVE FALSE
  <2>. DEFINE U == {k \in 0 .. n : ~(p[k] \in Nat)}
  <2>1. PICK k \in U : \A m \in U : k <= m
    BY <1>7, LeastNatural, U \subseteq Nat
  <2>2. k # 0 /\ k - 1 \in 0 .. n - 1 /\ k - 1 \notin U
    BY <2>1, <1>6
  <2>3. p[(k - 1) + 1] = p[k - 1] + c[k - 1]
    BY <1>6, <2>2
  <2>. QED
    BY <2>1, <2>2, <2>3
<1>8. p = [i \in 0 .. n |-> p[i]]
  BY <1>5
<1>. QED
  BY <1>6, <1>7, <1>8 DEF p

\* The same for an array that holds the counts and nothing else.
LEMMA PrefixSumSteps ==
  ASSUME NEW n \in Nat, NEW c \in [0 .. n - 1 -> Nat]
  PROVE  /\ PrefixSum(c, n) \in [0 .. n -> Nat]
         /\ PrefixSum(c, n)[0] = 0
         /\ \A i \in 0 .. n - 1 : PrefixSum(c, n)[i + 1] = PrefixSum(c, n)[i] + c[i]
<1>1. \A i \in 0 .. n - 1 : c[i] \in Nat
  OBVIOUS
<1>. QED
  BY <1>1, PrefixSumGrows, Zenon

\* The number of chunks of a row: chunk k begins inside the row exactly when k
\* is below the rounded-up quotient, so the loop that fills the chunks makes as
\* many as the kernel that counts them.
LEMMA CeilDivCounts ==
  ASSUME NEW len \in Nat, NEW chunk \in Nat \ {0}
  PROVE  /\ ceil_div(len, chunk) \in Nat
         /\ \A k \in Nat : k * chunk < len <=> k < ceil_div(len, chunk)
<1>. DEFINE q == ceil_div(len, chunk)
            v == len + chunk - 1
<1>1. v \in Nat /\ q = v \div chunk
  BY DEF ceil_div
<1>2. q \in Nat /\ q * chunk <= v /\ v < q * chunk + chunk
  BY <1>1
<1>. QED
  BY <1>2

\* Where chunk k of a range of len entries ends: the last one is cut off.
ChunkEnd(len, chunk, k) == k * chunk + Smaller(chunk, len - k * chunk)

\* The chunks of a range are not empty, follow each other without overlap, and
\* leave no entry out: the cutting of long rows, of block rows and of residual
\* rows alike.
LEMMA ChunksTile ==
  ASSUME NEW len \in Nat, NEW chunk \in Nat \ {0}
  PROVE  /\ \A k \in 0 .. ceil_div(len, chunk) - 1 :
              /\ k * chunk \in Nat /\ ChunkEnd(len, chunk, k) \in Nat
              /\ k * chunk < ChunkEnd(len, chunk, k)
              /\ ChunkEnd(len, chunk, k) <= len
         /\ \A k, l \in 0 .. ceil_div(len, chunk) - 1 :
              k < l => ChunkEnd(len, chunk, k) <= l * chunk
         /\ \A o \in 0 .. len - 1 : \E k \in 0 .. ceil_div(len, chunk) - 1 :
              k * chunk <= o /\ o < ChunkEnd(len, chunk, k)
<1>. DEFINE n == ceil_div(len, chunk)
<1>1. n \in Nat /\ \A k \in Nat : k * chunk < len <=> k < n
  BY CeilDivCounts
<1>. HIDE DEF n
<1>2. ASSUME NEW k \in 0 .. n - 1
      PROVE  /\ k * chunk \in Nat /\ k * chunk < len
             /\ ChunkEnd(len, chunk, k) =
                  IF k * chunk + chunk <= len THEN k * chunk + chunk ELSE len
  <2>1. k \in Nat /\ k < n
    BY <1>1
  <2>2. k * chunk \in Nat
    BY <2>1
  <2>3. k * chunk < len
    BY <1>1, <2>1
  <2>. DEFINE kc == k * chunk
  <2>. HIDE DEF kc
  <2>4. kc + Smaller(chunk, len - kc) = IF kc + chunk <= len THEN kc + chunk ELSE len
    BY <2>2, <2>3 DEF Smaller, kc
  <2>. QED
    BY <2>2, <2>3, <2>4 DEF ChunkEnd, kc
<1>3. ASSUME NEW k \in 0 .. n - 1, NEW l \in 0 .. n - 1, k < l
      PROVE  ChunkEnd(len, chunk, k) <= l * chunk
  <2>1. k \in Nat /\ l \in Nat /\ k + 1 <= l
    BY <1>1, <1>3
  <2>2. PICK m \in Nat : l = k + 1 + m
    BY <2>1, l - (k + 1) \in Nat
  <2>3. l * chunk = k * chunk + chunk + m * chunk /\ m * chunk \in Nat /\ k * chunk \in Nat
    BY <2>1, <2>2
  <2>. QED
    BY <1>2, <2>3
<1>4. ASSUME NEW o \in 0 .. len - 1
      PROVE  \E k \in 0 .. n - 1 : k * chunk <= o /\ o < ChunkEnd(len, chunk, k)
  <2>. DEFINE k == o \div chunk
  <2>1. k \in Nat /\ k * chunk <= o /\ o < k * chunk + chunk
    OBVIOUS
  <2>. HIDE DEF k
  <2>2. k * chunk \in Nat /\ k * chunk < len
    BY <2>1
  <2>3. k \in 0 .. n - 1
    BY <1>1, <2>1, <2>2
  <2>4. o < ChunkEnd(len, chunk, k)
    BY <1>2, <2>1, <2>2, <2>3
  <2>. QED
    BY <2>1, <2>3, <2>4
<1>5. \A k \in 0 .. n - 1 :
        /\ ChunkEnd(len, chunk, k) \in Nat
        /\ k * chunk < ChunkEnd(len, chunk, k) /\ ChunkEnd(len, chunk, k) <= len
  BY <1>2
<1>. QED
  BY <1>2, <1>3, <1>4, <1>5 DEF n

\* A scan gives every row as many slots as it counted: a slot has one owner,
\* stands among the owner's slots, and every counted thing has a slot.
LEMMA SlotsOfCounts ==
  ASSUME NEW n \in Nat, NEW c \in [0 .. n - 1 -> Nat]
  PROVE  /\ \A s \in 0 .. PrefixSum(c, n)[n] - 1 : \E i \in 0 .. n - 1 :
              /\ PrefixSum(c, n)[i] <= s /\ s < PrefixSum(c, n)[i + 1]
              /\ s - PrefixSum(c, n)[i] \in 0 .. c[i] - 1
         /\ \A s \in Int : \A i, j \in 0 .. n - 1 :
              /\ PrefixSum(c, n)[i] <= s /\ s < PrefixSum(c, n)[i + 1]
              /\ PrefixSum(c, n)[j] <= s /\ s < PrefixSum(c, n)[j + 1]
              => i = j
         /\ \A i \in 0 .. n - 1 : \A k \in 0 .. c[i] - 1 :
              /\ PrefixSum(c, n)[i] + k \in 0 .. PrefixSum(c, n)[n] - 1
              /\ PrefixSum(c, n)[i] <= PrefixSum(c, n)[i] + k
              /\ PrefixSum(c, n)[i] + k < PrefixSum(c, n)[i + 1]
<1>. DEFINE p == PrefixSum(c, n)
<1>1. /\ p \in [0 .. n -> Nat] /\ p[0] = 0
      /\ \A i \in 0 .. n - 1 : p[i + 1] = p[i] + c[i]
  BY PrefixSumSteps
<1>. HIDE DEF p
<1>2. p \in [0 .. n -> Int] /\ \A i \in 0 .. n - 1 : p[i] <= p[i + 1]
  <2>1. ASSUME NEW i \in 0 .. n - 1 PROVE p[i] <= p[i + 1]
    BY <1>1, c[i] \in Nat, i \in 0 .. n, p[i] \in Nat
  <2>. QED
    BY <1>1, <2>1
<1>3. \A i, j \in 0 .. n : i <= j => p[i] <= p[j]
  BY <1>2, StepwiseMonotone
<1>4. ASSUME NEW s \in 0 .. p[n] - 1
      PROVE  \E i \in 0 .. n - 1 :
               p[i] <= s /\ s < p[i + 1] /\ s - p[i] \in 0 .. c[i] - 1
  <2>1. s \in Int /\ p[0] <= s /\ s < p[n]
    BY <1>1
  <2>2. PICK i \in 0 .. n - 1 : p[i] <= s /\ s < p[i + 1]
    BY <1>2, <2>1, RowOfIndex
  <2>3. p[i] \in Nat /\ c[i] \in Nat /\ p[i + 1] = p[i] + c[i]
    BY <1>1
  <2>4. s - p[i] \in 0 .. c[i] - 1
    BY <2>1, <2>2, <2>3
  <2>. QED
    BY <2>2, <2>4
<1>5. ASSUME NEW s \in Int, NEW i \in 0 .. n - 1, NEW j \in 0 .. n - 1,
             p[i] <= s, s < p[i + 1], p[j] <= s, s < p[j + 1]
      PROVE  i = j
  BY <1>2, <1>5, RowOfIndexUnique
<1>6. ASSUME NEW i \in 0 .. n - 1, NEW k \in 0 .. c[i] - 1
      PROVE  p[i] + k \in 0 .. p[n] - 1 /\ p[i] <= p[i] + k /\ p[i] + k < p[i + 1]
  <2>1. i \in 0 .. n /\ i + 1 \in 0 .. n /\ n \in 0 .. n /\ i + 1 <= n
    OBVIOUS
  <2>2. /\ p[i] \in Nat /\ c[i] \in Nat /\ p[n] \in Nat /\ p[i + 1] \in Nat
        /\ p[i + 1] = p[i] + c[i] /\ p[i + 1] <= p[n]
    BY <1>1, <1>3, <2>1
  <2>. QED
    BY <2>2, SMTT(30)
<1>. QED
  BY <1>4, <1>5, <1>6, Zenon DEF p
-----------------------------------------------------------------------------
(* Two arrays of running sums. *)

\* Running sums that begin alike and grow alike are the same.
LEMMA SameSteps ==
  ASSUME NEW n \in Nat, NEW f \in [0 .. n -> Int], NEW g \in [0 .. n -> Int],
         f[0] = g[0], \A i \in 0 .. n - 1 : f[i + 1] - f[i] = g[i + 1] - g[i]
  PROVE  \A i \in 0 .. n : f[i] = g[i]
<1>. DEFINE up   == [i \in 0 .. n |-> f[i] - g[i]]
            down == [i \in 0 .. n |-> g[i] - f[i]]
<1>1. up \in [0 .. n -> Int] /\ down \in [0 .. n -> Int]
  OBVIOUS
<1>2. ASSUME NEW i \in 0 .. n - 1 PROVE up[i] <= up[i + 1] /\ down[i] <= down[i + 1]
  <2>1. i \in 0 .. n /\ i + 1 \in 0 .. n
    OBVIOUS
  <2>2. f[i] \in Int /\ f[i + 1] \in Int /\ g[i] \in Int /\ g[i + 1] \in Int
    BY <2>1
  <2>3. up[i] = f[i] - g[i] /\ up[i + 1] = f[i + 1] - g[i + 1]
        /\ down[i] = g[i] - f[i] /\ down[i + 1] = g[i + 1] - f[i + 1]
    BY <2>1
  <2>4. f[i + 1] - f[i] = g[i + 1] - g[i]
    OBVIOUS
  <2>. DEFINE a == f[i]
              b == f[i + 1]
              c == g[i]
              d == g[i + 1]
  <2>5. a \in Int /\ b \in Int /\ c \in Int /\ d \in Int /\ b - a = d - c
    BY <2>2, <2>4
  <2>6. /\ up[i] = a - c /\ up[i + 1] = b - d
        /\ down[i] = c - a /\ down[i + 1] = d - b
    BY <2>3
  <2>. HIDE DEF up, down, a, b, c, d
  <2>7. a - c <= b - d /\ c - a <= d - b
    BY <2>5
  <2>. QED
    BY <2>6, <2>7, Zenon
<1>3. ASSUME NEW i \in 0 .. n PROVE f[i] = g[i]
  <2>1. 0 \in 0 .. n /\ 0 <= i
    OBVIOUS
  <2>2. up[0] <= up[i] /\ down[0] <= down[i]
    <3>. HIDE DEF up, down
    <3>. QED
      BY <1>1, <1>2, <2>1, StepwiseMonotone
  <2>. QED
    BY <2>1, <2>2
<1>. QED
  BY <1>3

\* A running sum to which nothing is added stands still.
LEMMA NoSteps ==
  ASSUME NEW n \in Nat, NEW f \in [0 .. n -> Int],
         NEW lo \in 0 .. n, NEW hi \in 0 .. n, lo <= hi,
         \A i \in lo .. hi - 1 : f[i + 1] = f[i]
  PROVE  f[hi] = f[lo]
<1>. SUFFICES ASSUME f[hi] # f[lo] PROVE FALSE
  OBVIOUS
<1>. DEFINE T == {j \in lo .. hi : f[j] # f[lo]}
<1>1. hi \in T
  OBVIOUS
<1>2. PICK j \in T : \A k \in T : j <= k
  BY <1>1, LeastNatural, T \subseteq Nat
<1>3. j > lo /\ j - 1 \in lo .. hi - 1 /\ (j - 1) + 1 = j
  OBVIOUS
<1>4. f[j - 1] = f[lo]
  BY <1>2, <1>3
<1>5. f[j] = f[j - 1]
  BY <1>3
<1>. QED
  BY <1>4, <1>5

-----------------------------------------------------------------------------
(* The rank of a number in a set. *)

Below(S, c) == Cardinality({d \in S : d < c})

\* The ranks of the numbers of a set count them in their order: what makes an
\* increasing array of a set's numbers, and a place for every bit's value.
LEMMA Ranks ==
  ASSUME NEW S, S \subseteq Int, IsFiniteSet(S)
  PROVE  /\ Cardinality(S) \in Nat
         /\ \A c \in S : Below(S, c) \in 0 .. Cardinality(S) - 1
         /\ \A c, d \in S : c < d => Below(S, c) < Below(S, d)
         /\ \A k \in 0 .. Cardinality(S) - 1 : \E c \in S : Below(S, c) = k
<1>. DEFINE n == Cardinality(S)
            L(c) == {d \in S : d < c}
            f == [c \in S |-> Below(S, c)]
<1>1. n \in Nat
  BY FS_CardinalityType
<1>2. ASSUME NEW c PROVE IsFiniteSet(L(c)) /\ Cardinality(L(c)) \in Nat
  <2>1. L(c) \in SUBSET S
    OBVIOUS
  <2>2. IsFiniteSet(L(c))
    BY <2>1, FS_Subset
  <2>. QED
    BY <2>2, FS_CardinalityType
<1>3. ASSUME NEW c \in S PROVE Below(S, c) \in Nat /\ Below(S, c) < n
  <2>1. L(c) \in SUBSET S /\ L(c) # S
    OBVIOUS
  <2>2. Cardinality(L(c)) <= n /\ (n = Cardinality(L(c)) => S = L(c))
    <3>1. L(c) \in SUBSET S
      BY <2>1
    <3>. HIDE DEF L
    <3>. QED
      BY <3>1, FS_Subset
  <2>3. Cardinality(L(c)) \in Nat
    BY <1>2
  <2>. HIDE DEF n, L
  <2>4. Cardinality(L(c)) < n
    BY <1>1, <2>1, <2>2, <2>3
  <2>. QED
    BY <2>3, <2>4 DEF Below, L
<1>4. ASSUME NEW c \in S, NEW d \in S, c < d PROVE Below(S, c) < Below(S, d)
  <2>1. L(c) \in SUBSET L(d) /\ c \in L(d) /\ c \notin L(c)
    <3>1. c \in Int /\ d \in Int /\ \A x \in S : x \in Int
      OBVIOUS
    <3>2. \A x \in L(c) : x \in L(d)
      BY <1>4, <3>1
    <3>3. c \in L(d) /\ c \notin L(c)
      BY <1>4, <3>1
    <3>. HIDE DEF L
    <3>. QED
      BY <3>2, <3>3
  <2>2. Cardinality(L(c)) \in Nat /\ Cardinality(L(d)) \in Nat /\ IsFiniteSet(L(d))
    BY <1>2
  <2>. HIDE DEF L
  <2>3. Cardinality(L(c)) <= Cardinality(L(d))
        /\ (Cardinality(L(d)) = Cardinality(L(c)) => L(d) = L(c))
    BY <2>1, <2>2, FS_Subset
  <2>4. Cardinality(L(c)) < Cardinality(L(d))
    BY <2>1, <2>2, <2>3
  <2>. QED
    BY <2>4 DEF Below, L
<1>5. f \in Injection(S, 0 .. n - 1)
  <2>1. f \in [S -> 0 .. n - 1]
    BY <1>1, <1>3
  <2>2. ASSUME NEW c \in S, NEW d \in S, f[c] = f[d] PROVE c = d
    <3>1. ~(c < d) /\ ~(d < c)
      BY <1>3, <1>4, <2>2
    <3>2. c \in Int /\ d \in Int
      OBVIOUS
    <3>. QED
      BY <3>1, <3>2
  <2>. QED
    BY <2>1, <2>2 DEF Injection, IsInjective
<1>6. IsFiniteSet(0 .. n - 1) /\ Cardinality(0 .. n - 1) = n
  <2>1. 0 \in Int /\ n - 1 \in Int /\ (0 > n - 1 <=> n = 0) /\ (n - 1) - 0 + 1 = n
    BY <1>1
  <2>2. /\ IsFiniteSet(0 .. n - 1)
        /\ Cardinality(0 .. n - 1) = IF 0 > n - 1 THEN 0 ELSE (n - 1) - 0 + 1
    BY <2>1, FS_Interval, Zenon
  <2>. QED
    BY <2>1, <2>2
<1>7. f \in Surjection(S, 0 .. n - 1)
  <2>. HIDE DEF f
  <2>. QED
    BY <1>5, <1>6, FS_Injection, Zenon
<1>8. \A k \in 0 .. n - 1 : \E c \in S : f[c] = k
  BY <1>7 DEF Surjection
<1>. QED
  BY <1>1, <1>3, <1>4, <1>8

\* The image of a finite set under a function that is one-to-one on it has as
\* many elements.
LEMMA OneToOne ==
  ASSUME NEW S, IsFiniteSet(S), NEW f, DOMAIN f = S,
         \A x, y \in S : f[x] = f[y] => x = y
  PROVE  IsFiniteSet({f[x] : x \in S}) /\ Cardinality({f[x] : x \in S}) = Cardinality(S)
<1>. DEFINE T == {f[x] : x \in S}
            g == [x \in S |-> f[x]]
<1>1. g \in [S -> T] /\ \A x \in S : g[x] = f[x]
  OBVIOUS
<1>2. \A t \in T : \E x \in S : f[x] = t
  OBVIOUS
<1>. HIDE DEF T, g
<1>3. g \in Injection(S, T) /\ g \in Surjection(S, T)
  BY <1>1, <1>2 DEF Injection, IsInjective, Surjection
<1>4. ExistsBijection(S, T)
  BY <1>3 DEF ExistsBijection, Bijection
<1>. QED
  BY <1>4, FS_Bijection DEF T

-----------------------------------------------------------------------------
(* Rows and columns. *)

\* A number is its quotient and its remainder.
LEMMA QuotientAndRest ==
  ASSUME NEW v \in Nat, NEW c \in Nat \ {0}
  PROVE  /\ v \div c \in Nat /\ v % c \in 0 .. c - 1
         /\ (v \div c) * c + (v % c) = v
  OBVIOUS

LEMMA NextMultiple ==
  ASSUME NEW a \in Nat, NEW b \in Nat, NEW c \in Nat \ {0}, a < b
  PROVE  a * c \in Nat /\ b * c \in Nat /\ a * c + c <= b * c
<1>1. PICK m \in Nat : b = a + 1 + m
  BY b - (a + 1) \in Nat
<1>2. b * c = a * c + c + m * c /\ m * c \in Nat /\ a * c \in Nat
  BY <1>1
<1>. QED
  BY <1>2

\* The two coordinates of a bit in a block, or of an entry in a grid of blocks,
\* can be told from it, and order it.
LEMMA Coordinates ==
  ASSUME NEW c \in Nat \ {0}, NEW a \in Nat, NEW x \in 0 .. c - 1
  PROVE  a * c + x \in Nat /\ (a * c + x) \div c = a /\ (a * c + x) % c = x
<1>. DEFINE v == a * c + x
            q == v \div c
            r == v % c
<1>1. a * c \in Nat /\ v \in Nat /\ x \in Nat /\ x < c
  OBVIOUS
<1>2. q \in Nat /\ r \in 0 .. c - 1 /\ q * c + r = v /\ q * c \in Nat
  <2>1. q \in Nat /\ r \in 0 .. c - 1 /\ q * c + r = v
    <3>. HIDE DEF v
    <3>. QED
      BY <1>1, QuotientAndRest, Zenon
  <2>. HIDE DEF q
  <2>. QED
    BY <2>1
<1>3. v = a * c + x
  OBVIOUS
<1>. HIDE DEF v, q, r
<1>4. ~(q < a)
  <2>1. q < a => q * c + c <= a * c
    BY <1>2, NextMultiple
  <2>. QED
    BY <1>1, <1>2, <1>3, <2>1
<1>5. ~(a < q)
  <2>1. a < q => a * c + c <= q * c
    BY <1>2, NextMultiple
  <2>. QED
    BY <1>1, <1>2, <1>3, <2>1
<1>6. q = a
  BY <1>2, <1>4, <1>5
<1>7. r = x
  BY <1>1, <1>2, <1>3, <1>6
<1>. QED
  BY <1>1, <1>6, <1>7 DEF v, q, r
=============================================================================
