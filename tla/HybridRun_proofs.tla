-------------------------- MODULE HybridRun_proofs --------------------------
(***************************************************************************)
(* What a run of the hybrid benchmark says at its end is right for every   *)
(* sequence of options, every number of calls, all values of both parts    *)
(* and every dictionary size.                                              *)
(*                                                                         *)
(* The inductive invariant ties y to the calls: when no call of a loop is  *)
(* left, y holds each non-empty part once, through the codec of that loop; *)
(* a loop makes at least one call because the options were checked.  Of    *)
(* the dictionary it says that every value of either part is in it.        *)
(***************************************************************************)
EXTENDS HybridRun, PrefixSums_proofs

\* y is what one whole call through codec c leaves.
CallOf(c) == \A p \in Parts : matrix[p] # <<>> => y[p] = <<c>>

\* The verdict on the original values.
RawVerdict == opts.verify_cpu => GlobalRel(matrix.err.raw) = 0

\* The dictionary reaches every value.
Covered ==
  /\ codebook \in Seq(Int) /\ Len(codebook) <= DictLarge
  /\ \A p \in Parts : \A i \in DOMAIN matrix[p] : Contains(codebook, matrix[p][i])

Loops == {"calls", "residual", "codec", "joint"}

OptionsInv ==
  /\ DOMAIN opts = DOMAIN Defaults /\ opts.warmup \in Int /\ opts.iterations \in Int
  /\ pc \in {"load"} \cup Loops => opts.warmup >= 0 /\ opts.iterations > 0

CallsInv ==
  /\ y \in [Parts -> Seq(Codecs)]
  /\ pc \in Loops \cup {"report"} => matrix \in Matrices
  /\ pc \in {"calls", "residual", "joint"} => left \in Nat
  /\ pc = "calls" /\ left = 0 => CallOf("raw")
  /\ pc = "residual" => left > 0 /\ y = Added(ZeroY, "kept", "raw")
  /\ pc = "codec" => CodecRuns(opts.value_codec)
  /\ pc = "joint" => chosen \in Codecs /\ (chosen = "dict" => Covered)
  /\ pc = "joint" /\ left = 0 => CallOf(chosen)

ReportInv ==
  /\ pc \in {"codec", "joint", "report"} => (verified <=> RawVerdict)
  /\ "run" \in printed => pc = "exit"
  /\ "joint" \in printed => pc \in {"report", "exit"}

RunInv ==
  /\ pc \in {"parse", "load", "report", "exit"} \cup Loops
  /\ OptionsInv /\ CallsInv /\ ReportInv
  /\ VerdictIsOfRawRun /\ LosslessIsExact

-----------------------------------------------------------------------------
(* The dictionary. *)

\* A remainder that wraps nothing.
LEMMA NoWrap ==
  ASSUME NEW a \in Nat, NEW n \in Nat, a < n
  PROVE  a % n = a
OBVIOUS

\* Interning keeps what is there and adds the value.
LEMMA InternKeeps ==
  ASSUME NEW book \in Seq(Int), NEW v \in Int
  PROVE  /\ InternValue(book, v) \in Seq(Int)
         /\ Contains(InternValue(book, v), v)
         /\ \A w : Contains(book, w) => Contains(InternValue(book, v), w)
<1>1. CASE Contains(book, v)
  BY <1>1 DEF InternValue
<1>2. CASE ~Contains(book, v)
  <2>. DEFINE g == Append(book, v)
  <2>1. /\ g \in Seq(Int) /\ Len(g) = Len(book) + 1 /\ g[Len(book) + 1] = v
        /\ \A i \in 1 .. Len(book) : g[i] = book[i] /\ i \in 1 .. Len(g)
        /\ Len(book) + 1 \in 1 .. Len(g)
    OBVIOUS
  <2>2. InternValue(book, v) = g
    BY <1>2 DEF InternValue
  <2>3. Contains(g, v)
    BY <2>1 DEF Contains
  <2>4. \A w : Contains(book, w) => Contains(g, w)
    BY <2>1 DEF Contains
  <2>. QED
    BY <2>1, <2>2, <2>3, <2>4
<1>. QED
  BY <1>1, <1>2

\* The values of one part, then those of the other.
LEMMA Joined ==
  ASSUME NEW a \in Seq(Int), NEW c \in Seq(Int)
  PROVE  /\ a \o c \in Seq(Int)
         /\ \A i \in DOMAIN a : i \in 1 .. Len(a \o c) /\ (a \o c)[i] = a[i]
         /\ \A i \in DOMAIN c :
              Len(a) + i \in 1 .. Len(a \o c) /\ (a \o c)[Len(a) + i] = c[i]
<1>1. Len(a \o c) = Len(a) + Len(c) /\ Len(a) \in Nat /\ Len(c) \in Nat
  OBVIOUS
<1>2. DOMAIN a = 1 .. Len(a) /\ DOMAIN c = 1 .. Len(c)
  OBVIOUS
<1>3. \A i \in 1 .. Len(a) + Len(c) : (a \o c)[i] = IF i <= Len(a) THEN a[i] ELSE c[i - Len(a)]
  OBVIOUS
<1>4. \A i \in DOMAIN c : (Len(a) + i) - Len(a) = i
  BY <1>1, <1>2
<1>. QED
  BY <1>1, <1>2, <1>3, <1>4

\* Interning one value after the other: a book that holds all values so far.
LEMMA InternedHoldsAll ==
  ASSUME NEW m, m.kept \in Seq(Int), m.residual \in Seq(Int)
  PROVE  /\ Interned(m) \in Seq(Int)
         /\ \A i \in DOMAIN m.kept : Contains(Interned(m), m.kept[i])
         /\ \A i \in DOMAIN m.residual : Contains(Interned(m), m.residual[i])
<1>. DEFINE s == m.kept \o m.residual
            n == Len(s)
<1>. HIDE DEF s, n
<1>0. s \in Seq(Int) /\ n \in Nat /\ \A i \in 1 .. n : s[i] \in Int
  <2>1. s \in Seq(Int)
    BY Joined DEF s
  <2>. QED
    BY <2>1 DEF n
<1>. DEFINE Books(f, k) == /\ f \in [0 .. k -> Seq(Int)]
                           /\ f[0] = <<>>
                           /\ \A i \in 0 .. k - 1 : f[i + 1] = InternValue(f[i], s[i + 1])
            T == {k \in 0 .. n : ~ \E f : Books(f, k)}
<1>. HIDE DEF Books
<1>1. \E f : Books(f, n)
  <2>0. n \in 0 .. n
    BY <1>0
  <2>1. SUFFICES ASSUME T # {} PROVE FALSE
    BY <2>0, Zenon
  <2>2. PICK k \in T : \A l \in T : k <= l
    BY <1>0, <2>1, LeastNatural, T \subseteq Nat
  <2>3. k # 0
    <3>1. Books([i \in 0 .. 0 |-> <<>>], 0)
      BY DEF Books
    <3>. QED
      BY <3>1
  <2>4. k \in 1 .. n /\ k - 1 \in 0 .. n /\ k - 1 \notin T
    <3>1. k \in 1 .. n /\ k - 1 \in 0 .. n /\ ~(k <= k - 1)
      BY <1>0, <2>2, <2>3
    <3>. QED
      BY <2>2, <3>1, Zenon
  <2>5. PICK f : Books(f, k - 1)
    BY <2>4
  <2>. DEFINE g == [i \in 0 .. k |-> IF i = k THEN InternValue(f[k - 1], s[k]) ELSE f[i]]
  <2>6. Books(g, k)
    <3>0. k - 1 \in 0 .. k - 1 /\ f[k - 1] \in Seq(Int) /\ s[k] \in Int
      BY <1>0, <2>4, <2>5 DEF Books
    <3>1. g \in [0 .. k -> Seq(Int)]
      <4>1. InternValue(f[k - 1], s[k]) \in Seq(Int)
        BY <3>0, InternKeeps
      <4>2. \A i \in 0 .. k : i # k => f[i] \in Seq(Int)
        BY <1>0, <2>4, <2>5 DEF Books
      <4>. QED
        BY <4>1, <4>2
    <3>2. g[0] = <<>>
      BY <1>0, <2>3, <2>4, <2>5 DEF Books
    <3>3. ASSUME NEW i \in 0 .. k - 1 PROVE g[i + 1] = InternValue(g[i], s[i + 1])
      <4>1. CASE i = k - 1
        BY <4>1, <1>0, <2>4, <2>5 DEF Books
      <4>2. CASE i # k - 1
        BY <4>2, <1>0, <2>4, <2>5 DEF Books
      <4>. QED
        BY <4>1, <4>2
    <3>. QED
      BY <3>1, <3>2, <3>3, Zenon DEF Books
  <2>. QED
    BY <2>6, <2>4
<1>. DEFINE Rec(f) == [i \in 0 .. n |-> IF i = 0 THEN <<>> ELSE InternValue(f[i - 1], s[i])]
<1>2. PICK g : Books(g, n)
  BY <1>1
<1>3. g = Rec(g)
  <2>1. ASSUME NEW i \in 0 .. n PROVE g[i] = Rec(g)[i]
    <3>1. CASE i = 0
      BY <3>1, <1>2 DEF Books
    <3>2. CASE i # 0
      <4>1. i - 1 \in 0 .. n - 1 /\ (i - 1) + 1 = i
        BY <1>0, <3>2
      <4>2. g[(i - 1) + 1] = InternValue(g[i - 1], s[(i - 1) + 1])
        BY <1>2, <4>1 DEF Books
      <4>. QED
        BY <3>2, <4>1, <4>2
    <3>. QED
      BY <3>1, <3>2
  <2>2. DOMAIN g = 0 .. n /\ g = [i \in 0 .. n |-> g[i]]
    BY <1>2 DEF Books
  <2>. QED
    BY <2>1, <2>2
<1>. DEFINE book == CHOOSE f : f = Rec(f)
<1>4. Interned(m) = book[n]
  BY DEF Interned, n, s
<1>5. book = Rec(book)
  BY <1>3
<1>. HIDE DEF book
<1>6. /\ book[0] = <<>>
      /\ \A i \in 1 .. n : book[i] = InternValue(book[i - 1], s[i])
  BY <1>0, <1>5
\* The first book that is not a sequence or lacks a value.
<1>. DEFINE Whole(k) == book[k] \in Seq(Int) /\ \A i \in 1 .. k : Contains(book[k], s[i])
            U == {k \in 0 .. n : ~Whole(k)}
<1>7. Whole(n)
  <2>1. SUFFICES ASSUME U # {} PROVE FALSE
    BY <1>0, n \in 0 .. n
  <2>2. PICK k \in U : \A l \in U : k <= l
    BY <1>0, <2>1, LeastNatural, U \subseteq Nat
  <2>3. k # 0
    BY <1>6, Whole(0), <2>2
  <2>4. k \in 1 .. n /\ k - 1 \in 0 .. n /\ k - 1 \notin U
    BY <1>0, <2>2, <2>3
  <2>5. Whole(k - 1) /\ book[k] = InternValue(book[k - 1], s[k]) /\ s[k] \in Int
    BY <1>0, <1>6, <2>4
  <2>6. /\ book[k] \in Seq(Int) /\ Contains(book[k], s[k])
        /\ \A w : Contains(book[k - 1], w) => Contains(book[k], w)
    <3>1. book[k - 1] \in Seq(Int)
      BY <2>5
    <3>2. /\ InternValue(book[k - 1], s[k]) \in Seq(Int)
          /\ Contains(InternValue(book[k - 1], s[k]), s[k])
          /\ \A w : Contains(book[k - 1], w) => Contains(InternValue(book[k - 1], s[k]), w)
      BY <2>5, <3>1, InternKeeps
    <3>. QED
      BY <2>5, <3>2
  <2>7. \A i \in 1 .. k : i = k \/ i \in 1 .. k - 1
    BY <2>4
  <2>. QED
    BY <2>2, <2>5, <2>6, <2>7
<1>8. \A i \in DOMAIN m.kept : i \in 1 .. n /\ s[i] = m.kept[i]
  BY Joined DEF n, s
<1>9. \A i \in DOMAIN m.residual :
        Len(m.kept) + i \in 1 .. n /\ s[Len(m.kept) + i] = m.residual[i]
  BY Joined DEF n, s
<1>. QED
  BY <1>4, <1>7, <1>8, <1>9

\* Indices of a dictionary that reaches every value lead back to it.
LEMMA DecodesExactly ==
  ASSUME Covered, NEW p \in Parts, matrix[p] \in Seq(Int)
  PROVE  Decoded(p) = matrix[p]
<1>1. ASSUME NEW i \in DOMAIN matrix[p]
      PROVE  codebook[1 + (IndexOf(matrix[p][i]) % IndexReach(codebook))] = matrix[p][i]
  <2>. DEFINE v == matrix[p][i]
              I == {k \in 1 .. Len(codebook) : codebook[k] = v}
  <2>1. Contains(codebook, v) /\ codebook \in Seq(Int) /\ Len(codebook) \in Nat
    BY DEF Covered
  <2>2. I # {} /\ I \subseteq Nat
    <3>. HIDE DEF v
    <3>1. PICK k \in 1 .. Len(codebook) : codebook[k] = v
      BY <2>1 DEF Contains
    <3>. QED
      BY <2>1, <3>1, SMTT(30)
  <2>. DEFINE at == CHOOSE k \in I : \A l \in I : k =< l
  <2>3. at \in I
    BY <2>2, LeastNatural
  <2>4. IndexOf(v) = at - 1
    BY <2>1, <2>2 DEF IndexOf, SelectInSeq, Min
  <2>. HIDE DEF at, v
  <2>5. at \in 1 .. Len(codebook) /\ codebook[at] = v
    BY <2>3
  <2>6. IndexReach(codebook) \in Nat /\ Len(codebook) <= IndexReach(codebook)
    BY <2>1, DictAssumption DEF IndexReach, Covered
  <2>7. at - 1 \in Nat /\ at - 1 < IndexReach(codebook)
    BY <2>1, <2>5, <2>6
  <2>8. (at - 1) % IndexReach(codebook) = at - 1
    BY <2>6, <2>7, NoWrap
  <2>9. 1 + (at - 1) = at
    BY <2>5
  <2>. QED
    BY <2>4, <2>5, <2>8, <2>9 DEF v
<1>. QED
  BY <1>1 DEF Decoded

\* One exact call leaves the rounding of the original values, whichever parts
\* are empty.
LEMMA ExactRows ==
  ASSUME NEW c \in {"raw", "dict"}, CallOf(c), c = "dict" => Covered,
         \A p \in Parts : matrix[p] \in Seq(Int)
  PROVE  RowErrors = matrix.err.raw
<1>1. \A p \in Parts : matrix[p] # <<>> => y[p] = <<c>> /\ Len(y[p]) = 1 /\ y[p][1] = c
  <2>1. Len(<<c>>) = 1 /\ <<c>>[1] = c
    OBVIOUS
  <2>. QED
    BY <2>1 DEF CallOf
<1>2. SummedOnce
  BY <1>1 DEF SummedOnce
<1>. DEFINE used == {y[p][1] : p \in {q \in Parts : matrix[q] # <<>> /\ y[q] # <<>>}}
            lossy == used \cap {"bfp8", "bfp8_outlier"}
<1>3. used \subseteq {c}
  BY <1>1
<1>4. lossy = {}
  BY <1>3
<1>5. \A p \in Parts : matrix[p] # <<>> => ExactCodec(y[p][1], p)
  <2>1. c = "dict" => \A p \in Parts : Decoded(p) = matrix[p]
    BY DecodesExactly
  <2>. QED
    BY <1>1, <2>1 DEF ExactCodec
<1>. QED
  BY <1>2, <1>4, <1>5 DEF RowErrors

-----------------------------------------------------------------------------
(* The steps. *)

LEMMA ZeroYIs == ZeroY \in [Parts -> Seq(Codecs)] /\ \A p \in Parts : ZeroY[p] = <<>>
BY DEF ZeroY

LEMMA AddedIs ==
  ASSUME NEW z \in [Parts -> Seq(Codecs)], NEW p \in Parts, NEW c \in Codecs
  PROVE  /\ Added(z, p, c) \in [Parts -> Seq(Codecs)]
         /\ Added(z, p, c)[p] = Append(z[p], c)
         /\ \A q \in Parts \ {p} : Added(z, p, c)[q] = z[q]
BY DEF Added

\* A call leaves every part once, whatever y held before.
LEMMA FusedCallIs ==
  ASSUME NEW c \in Codecs
  PROVE  /\ FusedCall(c) \in [Parts -> Seq(Codecs)]
         /\ \A p \in Parts : FusedCall(c)[p] = <<c>>
<1>. DEFINE z == Added(ZeroY, "kept", c)
<1>0. Append(<<>>, c) = <<c>> /\ "kept" \in Parts /\ "residual" \in Parts
      /\ Parts = {"kept", "residual"}
  BY DEF Parts
<1>1. z \in [Parts -> Seq(Codecs)] /\ z["kept"] = <<c>> /\ z["residual"] = <<>>
  <2>1. /\ z \in [Parts -> Seq(Codecs)] /\ z["kept"] = Append(ZeroY["kept"], c)
        /\ \A q \in Parts \ {"kept"} : z[q] = ZeroY[q]
    <3>1. ZeroY \in [Parts -> Seq(Codecs)] /\ "kept" \in Parts
      BY <1>0, ZeroYIs
    <3>. QED
      BY <3>1, AddedIs, Zenon
  <2>. HIDE DEF z
  <2>. QED
    BY <1>0, <2>1, ZeroYIs
<1>. HIDE DEF z
<1>. DEFINE w == Added(z, "residual", c)
<1>2. /\ w \in [Parts -> Seq(Codecs)] /\ w["residual"] = Append(z["residual"], c)
      /\ \A q \in Parts \ {"residual"} : w[q] = z[q]
  <2>1. z \in [Parts -> Seq(Codecs)] /\ "residual" \in Parts
    BY <1>0, <1>1
  <2>. QED
    BY <2>1, AddedIs, Zenon
<1>3. FusedCall(c) = w
  BY DEF FusedCall, z
<1>. HIDE DEF w
<1>. QED
  BY <1>0, <1>1, <1>2, <1>3

\* What the errors are computed from.
LEMMA RowErrorsKept ==
  ASSUME UNCHANGED <<matrix, y, codebook>>
  PROVE  RowErrors' = RowErrors
<1>0. matrix' = matrix /\ y' = y /\ codebook' = codebook
  OBVIOUS
<1>1. ASSUME NEW v PROVE IndexOf(v)' = IndexOf(v)
  BY <1>0 DEF IndexOf, SelectInSeq, Contains
<1>2. ASSUME NEW p PROVE Decoded(p)' = Decoded(p)
  BY <1>0, <1>1 DEF Decoded, IndexReach
<1>3. ASSUME NEW c, NEW p PROVE ExactCodec(c, p)' <=> ExactCodec(c, p)
  BY <1>0, <1>2 DEF ExactCodec
<1>4. (SummedOnce' <=> SummedOnce) /\ Worst' = Worst
  BY <1>0 DEF SummedOnce, Worst
<1>. DEFINE used == {y[p][1] : p \in {q \in Parts : matrix[q] # <<>> /\ y[q] # <<>>}}
            inexact == \E p \in Parts : matrix[p] # <<>> /\ ~ExactCodec(y[p][1], p)
            lossy(u) == u \cap {"bfp8", "bfp8_outlier"}
            rowErrors(u, ok, wrong, worst, m) ==
              IF ~ok THEN worst
              ELSE IF lossy(u) # {} THEN m.err[CHOOSE c \in lossy(u) : TRUE]
              ELSE IF wrong THEN worst ELSE m.err.raw
<1>5. used' = used /\ (inexact' <=> inexact)
  BY <1>0, <1>3
<1>6. /\ RowErrors = rowErrors(used, SummedOnce, inexact, Worst, matrix)
      /\ RowErrors' = rowErrors(used', SummedOnce', inexact', Worst', matrix')
  BY DEF RowErrors
<1>. HIDE DEF used, inexact
<1>. QED
  BY <1>0, <1>4, <1>5, <1>6

\* The parts hold numbers, of which a dictionary is made.
LEMMA PartsAreNumbers ==
  ASSUME matrix \in Matrices
  PROVE  \A p \in Parts : matrix[p] \in Seq(Int)
BY MatricesAssumption DEF IsMatrix

\* Nothing that is reported changes when the program leaves early.
LEMMA LeavesInv ==
  ASSUME RunInv, pc' = "exit", pc \notin {"exit", "report"}, opts' = opts, y' = y, printed' = printed
  PROVE  RunInv'
<1>1. "run" \notin printed /\ "joint" \notin printed
  BY DEF RunInv, ReportInv
<1>2. OptionsInv'
  BY DEF RunInv, OptionsInv, Loops
<1>3. CallsInv'
  BY DEF RunInv, CallsInv, Loops
<1>. QED
  BY <1>1, <1>2, <1>3 DEF RunInv, ReportInv, VerdictIsOfRawRun, LosslessIsExact

LEMMA InitInv == Init => RunInv
<1>. SUFFICES ASSUME Init PROVE RunInv
  OBVIOUS
<1>1. OptionsInv
  BY DEF Init, OptionsInv, Defaults, Loops
<1>2. CallsInv
  BY ZeroYIs DEF Init, CallsInv, Loops
<1>. QED
  BY <1>1, <1>2 DEF Init, RunInv, ReportInv, VerdictIsOfRawRun, LosslessIsExact

LEMMA ParseInv ==
  ASSUME RunInv, ParseOption
  PROVE  RunInv'
<1>1. pc = "parse" /\ UNCHANGED <<matrix, left, y, verified, jointVars, printed>>
  BY DEF ParseOption
<1>2. CASE pc' = "exit" /\ opts' = opts
  BY <1>1, <1>2, LeavesInv
<1>3. CASE pc' = pc
  <2>1. PICK t \in Tokens : ~Refused(t) /\ opts' = Assigned(opts, t)
    BY <1>1, <1>3 DEF ParseOption, Exit
  <2>2. t.opt \in DOMAIN Defaults
    BY <2>1 DEF Refused
  <2>3. /\ DOMAIN opts' = DOMAIN Defaults
        /\ t.opt # "warmup" => opts'.warmup = opts.warmup
        /\ t.opt # "iterations" => opts'.iterations = opts.iterations
        /\ t.opt \in {"warmup", "iterations"} => opts'[t.opt] = t.val
    <3>1. DOMAIN opts = DOMAIN Defaults /\ "warmup" \in DOMAIN opts /\ "iterations" \in DOMAIN opts
      BY DEF RunInv, OptionsInv, Defaults
    <3>2. t.opt \in {"warmup", "iterations"} => t.opt \notin DOMAIN Alias
      BY DEF Alias
    <3>. DEFINE v == Named(t)
    <3>3. opts' = [opts EXCEPT ![t.opt] = v]
      BY <2>1 DEF Assigned
    <3>4. t.opt \in {"warmup", "iterations"} => v = t.val
      BY <3>2 DEF Named
    <3>. HIDE DEF v
    <3>. QED
      BY <2>2, <3>1, <3>3, <3>4
  <2>4. opts'.warmup \in Int /\ opts'.iterations \in Int
    BY <2>3, TokensAssumption DEF RunInv, OptionsInv
  <2>5. OptionsInv'
    BY <1>1, <1>3, <2>3, <2>4 DEF OptionsInv, Loops
  <2>6. CallsInv'
    BY <1>1, <1>3 DEF RunInv, CallsInv, Loops
  <2>. QED
    BY <1>1, <1>3, <2>5, <2>6 DEF RunInv, ReportInv, VerdictIsOfRawRun, LosslessIsExact
<1>. QED
  BY <1>1, <1>2, <1>3 DEF ParseOption, Exit

LEMMA EndOptionsInv ==
  ASSUME RunInv, EndOptions
  PROVE  RunInv'
<1>1. /\ pc = "parse" /\ opts' = Resolved(opts) /\ pc' \in {"load", "exit"}
      /\ UNCHANGED <<matrix, left, y, verified, jointVars, printed>>
      /\ pc' = "load" => Consistent(opts)
  BY DEF EndOptions, Exit
<1>2. /\ DOMAIN opts' = DOMAIN Defaults
      /\ opts'.warmup = opts.warmup /\ opts'.iterations = opts.iterations
  <2>1. DOMAIN opts = DOMAIN Defaults /\ "warmup" \in DOMAIN opts /\ "iterations" \in DOMAIN opts
    BY DEF RunInv, OptionsInv, Defaults
  <2>. QED
    BY <1>1, <2>1 DEF Resolved
<1>3. OptionsInv'
  BY <1>1, <1>2 DEF RunInv, OptionsInv, Loops, Consistent
<1>4. CallsInv'
  BY <1>1 DEF RunInv, CallsInv, Loops
<1>. QED
  BY <1>1, <1>3, <1>4 DEF RunInv, ReportInv, VerdictIsOfRawRun, LosslessIsExact

LEMMA PrepareInv ==
  ASSUME RunInv, Prepare
  PROVE  RunInv'
<1>1. /\ pc = "load" /\ pc' = "calls" /\ matrix' \in Matrices
      /\ left' = opts.warmup + opts.iterations /\ y' = ZeroY
      /\ UNCHANGED <<opts, verified, jointVars, printed>>
  BY DEF Prepare
<1>2. OptionsInv'
  BY <1>1 DEF RunInv, OptionsInv, Loops
<1>3. left' \in Nat /\ left' # 0
  BY <1>1 DEF RunInv, OptionsInv
<1>4. CallsInv'
  BY <1>1, <1>3, ZeroYIs DEF CallsInv, Loops
<1>. QED
  BY <1>1, <1>2, <1>4 DEF RunInv, ReportInv, VerdictIsOfRawRun, LosslessIsExact, Loops

LEMMA RawCallInv ==
  ASSUME RunInv, RawCall
  PROVE  RunInv'
<1>1. /\ pc = "calls" /\ left > 0 /\ left \in Nat /\ pc' \in {"calls", "residual"}
      /\ UNCHANGED <<opts, matrix, verified, jointVars, printed>>
  BY DEF RawCall, RunInv, CallsInv
<1>2. "raw" \in Codecs /\ "kept" \in Parts /\ Parts = {"kept", "residual"}
  BY DEF Codecs, Parts
<1>3. OptionsInv'
  BY <1>1 DEF RunInv, OptionsInv, Loops
<1>. DEFINE z == Added(ZeroY, "kept", "raw")
<1>4. z \in [Parts -> Seq(Codecs)] /\ z["kept"] = <<"raw">>
  <2>1. Append(<<>>, "raw") = <<"raw">>
    OBVIOUS
  <2>. QED
    <3>. HIDE DEF z
    <3>1. z \in [Parts -> Seq(Codecs)] /\ z["kept"] = Append(ZeroY["kept"], "raw")
      BY <1>2, ZeroYIs, AddedIs, ZenonT(30) DEF z
    <3>. QED
      BY <1>2, <2>1, <3>1, ZeroYIs
<1>5. CallsInv'
  <2>1. CASE y' = FusedCall("raw") /\ left' = CallsLeft /\ pc' = pc
    <3>1. y' \in [Parts -> Seq(Codecs)] /\ \A p \in Parts : y'[p] = <<"raw">>
      BY <1>2, <2>1, FusedCallIs
    <3>2. CallOf("raw")'
      BY <3>1 DEF CallOf
    <3>3. left' \in Nat
      BY <1>1, <2>1 DEF CallsLeft
    <3>. QED
      BY <1>1, <2>1, <3>1, <3>2, <3>3 DEF RunInv, CallsInv, Loops
  <2>2. CASE matrix.residual = <<>> /\ y' = z /\ left' = CallsLeft /\ pc' = pc
    <3>1. y' \in [Parts -> Seq(Codecs)] /\ y'["kept"] = <<"raw">>
      BY <1>4, <2>2
    <3>2. matrix["residual"] = <<>>
      BY <2>2
    <3>3. CallOf("raw")'
      BY <1>1, <1>2, <3>1, <3>2 DEF CallOf
    <3>4. left' \in Nat
      BY <1>1, <2>2 DEF CallsLeft
    <3>. QED
      BY <1>1, <2>2, <3>1, <3>3, <3>4 DEF RunInv, CallsInv, Loops
  <2>3. CASE y' = z /\ pc' = "residual" /\ left' = left
    BY <1>1, <1>4, <2>3 DEF RunInv, CallsInv, Loops
  <2>. QED
    BY <2>1, <2>2, <2>3 DEF RawCall
<1>. QED
  BY <1>1, <1>3, <1>5 DEF RunInv, ReportInv, VerdictIsOfRawRun, LosslessIsExact, Loops

LEMMA ResidualPassInv ==
  ASSUME RunInv, ResidualPass
  PROVE  RunInv'
<1>1. /\ pc = "residual" /\ pc' = "calls" /\ left \in Nat /\ left > 0
      /\ y = Added(ZeroY, "kept", "raw")
      /\ y' = Added(y, "residual", "raw") /\ left' = CallsLeft
      /\ UNCHANGED <<opts, matrix, verified, jointVars, printed>>
  BY DEF ResidualPass, RunInv, CallsInv
<1>2. y' = FusedCall("raw")
  BY <1>1 DEF FusedCall
<1>3. y' \in [Parts -> Seq(Codecs)] /\ \A p \in Parts : y'[p] = <<"raw">>
  BY <1>2, FusedCallIs, "raw" \in Codecs DEF Codecs
<1>4. CallOf("raw")' /\ left' \in Nat
  BY <1>1, <1>3 DEF CallOf, CallsLeft
<1>5. OptionsInv' /\ CallsInv'
  BY <1>1, <1>3, <1>4 DEF RunInv, OptionsInv, CallsInv, Loops
<1>. QED
  BY <1>1, <1>5 DEF RunInv, ReportInv, VerdictIsOfRawRun, LosslessIsExact, Loops

\* The verdict is that of whole calls over the original values.
LEMMA VerifyRawInv ==
  ASSUME RunInv, VerifyRaw
  PROVE  RunInv'
<1>1. /\ pc = "calls" /\ left = 0 /\ pc' \in {"codec", "report"}
      /\ verified' = (opts.verify_cpu => GlobalRel(RowErrors) = 0)
      /\ pc' = "codec" => CodecRuns(opts.value_codec)
      /\ UNCHANGED <<opts, matrix, left, y, jointVars, printed>>
  BY DEF VerifyRaw
<1>2. matrix \in Matrices /\ CallOf("raw")
  BY <1>1 DEF RunInv, CallsInv, Loops
<1>3. RowErrors = matrix.err.raw
  BY <1>2, ExactRows, PartsAreNumbers
<1>4. (verified <=> RawVerdict)'
  BY <1>1, <1>3 DEF RawVerdict
<1>5. OptionsInv' /\ CallsInv'
  BY <1>1, <1>2 DEF RunInv, OptionsInv, CallsInv, Loops
<1>6. "run" \notin printed /\ "joint" \notin printed
  BY <1>1 DEF RunInv, ReportInv
<1>. QED
  BY <1>1, <1>4, <1>5, <1>6 DEF RunInv, ReportInv, VerdictIsOfRawRun, LosslessIsExact, Loops

\* A dictionary that runs reaches every value of both parts.
LEMMA ChooseCodecInv ==
  ASSUME RunInv, ChooseCodec
  PROVE  RunInv'
<1>1. /\ pc = "codec" /\ pc' = "joint"
      /\ codebook' = IF opts.value_codec \in {"auto", "dict"} THEN Interned(matrix) ELSE <<>>
      /\ chosen' = ChosenCodec(opts.value_codec, codebook')
      /\ left' = opts.warmup + opts.iterations
      /\ UNCHANGED <<opts, matrix, y, verified, printed>>
  BY DEF ChooseCodec
<1>2. matrix \in Matrices /\ CodecRuns(opts.value_codec) /\ (verified <=> RawVerdict)
      /\ "run" \notin printed /\ "joint" \notin printed
  BY <1>1 DEF RunInv, CallsInv, ReportInv, Loops
<1>3. left' \in Nat /\ left' # 0
  BY <1>1 DEF RunInv, OptionsInv, Loops
<1>4. chosen' \in Codecs
  BY <1>1, <1>2 DEF ChosenCodec, CodecRuns, Codecs
<1>5. ASSUME chosen' = "dict" PROVE Covered'
  <2>1. opts.value_codec \in {"auto", "dict"}
    BY <1>1, <1>2, <1>5 DEF ChosenCodec, CodecRuns
  <2>. DEFINE book == Interned(matrix)
  <2>2. /\ book \in Seq(Int)
        /\ \A i \in DOMAIN matrix.kept : Contains(book, matrix.kept[i])
        /\ \A i \in DOMAIN matrix.residual : Contains(book, matrix.residual[i])
    <3>1. matrix.kept \in Seq(Int) /\ matrix.residual \in Seq(Int)
      BY <1>2, PartsAreNumbers DEF Parts
    <3>. QED
      BY <3>1, InternedHoldsAll
  <2>3. codebook' = book
    BY <1>1, <2>1
  <2>4. Len(book) <= DictLarge
    <3>. HIDE DEF book
    <3>1. Len(book) \in Nat
      BY <2>2
    <3>2. CASE opts.value_codec = "auto"
      BY <1>1, <1>5, <2>3, <3>1, <3>2, DictAssumption DEF ChosenCodec
    <3>3. CASE opts.value_codec = "dict"
      BY <1>1, <1>5, <2>3, <3>1, <3>3, DictAssumption DEF ChosenCodec
    <3>. QED
      BY <2>1, <3>2, <3>3
  <2>. HIDE DEF book
  <2>. QED
    BY <1>1, <2>2, <2>3, <2>4 DEF Covered, Parts
<1>6. OptionsInv' /\ CallsInv'
  BY <1>1, <1>2, <1>3, <1>4, <1>5 DEF RunInv, OptionsInv, CallsInv, Loops
<1>7. (verified <=> RawVerdict)'
  BY <1>1, <1>2 DEF RawVerdict
<1>. QED
  BY <1>1, <1>2, <1>6, <1>7 DEF RunInv, ReportInv, VerdictIsOfRawRun, LosslessIsExact, Loops

LEMMA JointCallInv ==
  ASSUME RunInv, JointCall
  PROVE  RunInv'
<1>1. /\ pc = "joint" /\ pc' = pc /\ left > 0 /\ left' = CallsLeft /\ y' = FusedCall(chosen)
      /\ UNCHANGED <<opts, matrix, verified, jointVars, printed>>
  BY DEF JointCall
<1>2. left \in Nat /\ chosen \in Codecs /\ (chosen = "dict" => Covered)
  BY <1>1 DEF RunInv, CallsInv
<1>3. y' \in [Parts -> Seq(Codecs)] /\ \A p \in Parts : y'[p] = <<chosen>>
  BY <1>1, <1>2, FusedCallIs
<1>4. left' \in Nat /\ CallOf(chosen)' /\ (chosen = "dict" => Covered)'
  BY <1>1, <1>2, <1>3 DEF CallsLeft, CallOf, Covered, jointVars
<1>5. OptionsInv' /\ CallsInv'
  BY <1>1, <1>2, <1>3, <1>4 DEF RunInv, OptionsInv, CallsInv, Loops, jointVars
<1>6. "run" \notin printed /\ "joint" \notin printed /\ (verified <=> RawVerdict)
  BY <1>1 DEF RunInv, ReportInv
<1>7. (verified <=> RawVerdict)'
  BY <1>1, <1>6 DEF RawVerdict
<1>. QED
  BY <1>1, <1>5, <1>6, <1>7 DEF RunInv, ReportInv, VerdictIsOfRawRun, LosslessIsExact, Loops

\* What ran through a dictionary is measured with the rounding of the original
\* values.
LEMMA VerifyJointInv ==
  ASSUME RunInv, VerifyJoint
  PROVE  RunInv'
<1>1. /\ pc = "joint" /\ pc' = "report" /\ left = 0
      /\ jrel' = IF opts.verify_cpu THEN GlobalRel(RowErrors) ELSE -1
      /\ printed' = printed \cup {"joint"}
      /\ UNCHANGED <<opts, matrix, left, y, verified, codebook, chosen>>
  BY DEF VerifyJoint
<1>2. /\ matrix \in Matrices /\ CallOf(chosen) /\ (chosen = "dict" => Covered)
      /\ "run" \notin printed /\ (verified <=> RawVerdict)
  BY <1>1 DEF RunInv, CallsInv, ReportInv, Loops
<1>3. RowErrors' = RowErrors
  BY <1>1, RowErrorsKept
<1>4. LosslessIsExact'
  <2>1. chosen = "dict" => RowErrors = matrix.err.raw
    BY <1>2, ExactRows, PartsAreNumbers
  <2>. QED
    BY <1>1, <1>3, <2>1 DEF LosslessIsExact
<1>5. OptionsInv' /\ CallsInv'
  BY <1>1, <1>2 DEF RunInv, OptionsInv, CallsInv, Loops
<1>6. (verified <=> RawVerdict)'
  BY <1>1, <1>2 DEF RawVerdict
<1>. QED
  BY <1>1, <1>2, <1>4, <1>5, <1>6 DEF RunInv, ReportInv, VerdictIsOfRawRun, Loops

\* The exit code is the verdict that was kept.
LEMMA ReportStepInv ==
  ASSUME RunInv, Report
  PROVE  RunInv'
<1>1. /\ pc = "report" /\ pc' = "exit" /\ printed' = printed \cup {"run"} /\ exit' = ExitCode
      /\ UNCHANGED <<opts, matrix, left, y, verified, jointVars>>
  BY DEF Report, Exit
<1>2. (verified <=> RawVerdict) /\ LosslessIsExact
  BY <1>1 DEF RunInv, ReportInv
<1>3. VerdictIsOfRawRun'
  BY <1>1, <1>2 DEF VerdictIsOfRawRun, ExitCode, RawVerdict
<1>4. RowErrors' = RowErrors
  BY <1>1, RowErrorsKept DEF jointVars
<1>5. LosslessIsExact'
  BY <1>1, <1>2, <1>4 DEF LosslessIsExact, jointVars
<1>6. OptionsInv' /\ CallsInv'
  BY <1>1 DEF RunInv, OptionsInv, CallsInv, Loops
<1>. QED
  BY <1>1, <1>3, <1>5, <1>6 DEF RunInv, ReportInv, Loops

LEMMA StutterInv ==
  ASSUME RunInv, UNCHANGED vars
  PROVE  RunInv'
<1>1. RowErrors' = RowErrors
  BY RowErrorsKept DEF vars, jointVars
<1>2. OptionsInv' /\ CallsInv' /\ ReportInv'
  BY DEF RunInv, OptionsInv, CallsInv, CallOf, Covered, ReportInv, RawVerdict, vars, jointVars
<1>. QED
  BY <1>1, <1>2 DEF RunInv, VerdictIsOfRawRun, LosslessIsExact, vars, jointVars

LEMMA StepInv == RunInv /\ [Next]_vars => RunInv'
<1>. SUFFICES ASSUME RunInv, [Next]_vars PROVE RunInv'
  OBVIOUS
<1>1. CASE NoArguments
  BY <1>1, LeavesInv DEF NoArguments, Exit
<1>2. CASE Throw
  BY <1>2, LeavesInv DEF Throw, Exit
<1>. QED
  BY <1>1, <1>2, ParseInv, EndOptionsInv, PrepareInv, RawCallInv, ResidualPassInv, VerifyRawInv,
     ChooseCodecInv, JointCallInv, VerifyJointInv, ReportStepInv, StutterInv
     DEF Next, Step, Ended

\* The inductive invariant, for all options, values and dictionary sizes.
THEOREM Inductive == Spec => []RunInv
BY InitInv, StepInv, PTL DEF Spec

\* The exit code is the verdict on the original-value calls, whatever the codec
\* calls made of y afterwards.
THEOREM VerdictOfRawRun == Spec => []VerdictIsOfRawRun
<1>1. RunInv => VerdictIsOfRawRun
  BY DEF RunInv
<1>. QED
  BY <1>1, Inductive, PTL

\* What ran through a dictionary is as exact as the original values, for every
\* size of the two kinds of index.
THEOREM DictionaryIsExact == Spec => []LosslessIsExact
<1>1. RunInv => LosslessIsExact
  BY DEF RunInv
<1>. QED
  BY <1>1, Inductive, PTL
=============================================================================
