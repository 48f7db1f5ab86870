---------------------------- MODULE MCSpmvDriver ----------------------------
(***************************************************************************)
(* The driver with up to three arguments on matrices chosen so that every  *)
(* codec is the automatic choice for one of them and is refused for        *)
(* another, with the sizes of the large codebooks scaled down.             *)
(***************************************************************************)
EXTENDS AnalyzedSpmv

\* The matrix with given blocks <<br, bc, [bit -> value]>>, in their order.
MCMatrix(rows, cols, blocks) ==
  LET count == Len(blocks)
      Bitmap(b) == DOMAIN blocks[b + 1][3]
      vals  == PrefixSum([b \in 0 .. count - 1 |-> Cardinality(Bitmap(b))], count)
      Before(b, bit) == Cardinality({k \in Bitmap(b) : k < bit})
  IN  [rows |-> rows, cols |-> cols,
       num_block_rows |-> ceil_div(rows, 8), num_block_cols |-> ceil_div(cols, 4),
       block_row_ptr |-> [i \in 0 .. ceil_div(rows, 8) |->
                            Cardinality({b \in 1 .. count : blocks[b][1] < i})],
       block_col_idx |-> [b \in 0 .. count - 1 |-> blocks[b + 1][2]],
       bitmap_words |-> [b \in 0 .. count - 1 |-> Bitmap(b)],
       block_val_ptr |-> vals,
       values |-> [p \in 0 .. vals[count] - 1 |->
                     LET b   == CHOOSE b \in 0 .. count - 1 : vals[b] <= p /\ p < vals[b + 1]
                         bit == CHOOSE k \in Bitmap(b) : vals[b] + Before(b, k) = p
                     IN  blocks[b + 1][3][bit]]]

MCSome == {0, 5, 6, 19, 31}

MCMatrices ==
  {\* Nothing stored.
   MCMatrix(3, 2, << >>),
   \* All ones, in blocks cut off by the last row and column.
   MCMatrix(9, 6, << <<0, 0, [k \in MCSome |-> 256]>>, <<0, 1, [k \in {1, 4} |-> 256]>>,
                     <<1, 0, [k \in {2} |-> 256]>> >>),
   \* Block rows of one, three, no, one and two blocks.
   MCMatrix(33, 10, << <<0, 1, [k \in {3} |-> 256]>>, <<1, 0, [k \in {0, 1} |-> 256]>>,
                       <<1, 1, [k \in {1} |-> 256]>>, <<1, 2, [k \in {0} |-> 256]>>,
                       <<3, 2, [k \in {29} |-> 256]>>, <<4, 1, [k \in {2} |-> 256]>>,
                       <<4, 2, [k \in {1} |-> 256]>> >>),
   \* One other value.
   MCMatrix(8, 4, << <<0, 0, [k \in MCSome |-> -768]>> >>),
   \* Two signs, and two signs of another value.
   MCMatrix(8, 4, << <<0, 0, [k \in MCSome |-> IF k % 2 = 0 THEN 256 ELSE -256]>> >>),
   MCMatrix(8, 8, << <<0, 0, [k \in MCSome |-> IF k % 2 = 0 THEN 500 ELSE -500]>>,
                     <<0, 1, [k \in {3, 8} |-> 500]>> >>),
   \* Two, three and five values, each often enough.
   MCMatrix(8, 4, << <<0, 0, [k \in MCSome |-> IF k % 2 = 0 THEN 64 ELSE 256]>> >>),
   MCMatrix(8, 4, << <<0, 0, [k \in 8 .. 15 |-> 100 * (1 + (k % 3))]>> >>),
   MCMatrix(16, 4, << <<1, 0, [k \in 3 .. 12 |-> (100 * (k % 5)) - 700]>> >>),
   \* More values than the u8 codebook holds, and more than the u16 one.
   MCMatrix(8, 4, << <<0, 0, [k \in 0 .. 31 |-> 129 + (61 * (k % 18))]>> >>),
   MCMatrix(8, 4, << <<0, 0, [k \in 0 .. 31 |-> (IF (k % 21) % 2 = 0 THEN 1 ELSE -1) * (129 + (61 * (k % 21)))]>> >>),
   MCMatrix(8, 4, << <<0, 0, [k \in 0 .. 31 |-> 133 + 61 * k]>> >>),
   \* A few values far above the rest, one of them alone in its block.
   MCMatrix(16, 12, << <<0, 0, [k \in {1, 2, 9} |-> 70 + k]>>, <<0, 1, [k \in {7} |-> -2051]>>,
                       <<0, 2, [k \in {5, 9} |-> 80 - k]>>,
                       <<1, 1, [k \in {0, 30} |-> IF k = 0 THEN 2051 ELSE 65]>> >>)}

MCArguments ==
  ({"value_codec"} \X (ValueCodecKinds \cup {"Auto", "bogus"}))
    \cup ({"layout"} \X {"ColBitmap64", "CusparseCsr", "bogus"})
    \cup ({"lb_policy"} \X {"BinaryImplicitOne", "bogus"})
    \cup {<<"precision", "float">>, <<"verify_cpu", TRUE>>}
    \cup ({"lb_chunk_blocks"} \X {0, 1, NotANumber})
    \cup ({"lb_split_threshold_blocks"} \X {0, 2})
    \cup ({"warmup"} \X {-1, 0}) \cup ({"iterations"} \X {0})
    \cup {<<"help", TRUE>>, <<"unknown", TRUE>>}

MCCalibratedBlocks ==
  [k \in {30, 120, 250, 400, 700, 3000, 8000} |->
     CASE k = 30 -> 2 [] k = 120 -> 3 [] k \in {250, 400} -> 3 [] OTHER -> 4]

MCCalibratedAverage ==
  [a \in {128, 500, 6000, 20000} |-> CASE a = 128 -> 1 [] a = 500 -> 2 [] OTHER -> 3]

\* What make_value_probe_vector has for the first columns, in units of 1/257.
MCProbe(col) == <<-733, 832, -536, 247, 277, 531, -66, 578, -508, -844, 157, -658>>[col + 1]

\* Quantiles of the sorted values: where k-means starts from.
MCCentres(values, k) ==
  LET n == size(values)
      Sorted(i) == CHOOSE v \in {values[p] : p \in DOMAIN values} :
                     /\ Cardinality({p \in DOMAIN values : values[p] < v}) <= i
                     /\ Cardinality({p \in DOMAIN values : values[p] <= v}) > i
  IN  [c \in 0 .. k - 1 |-> Sorted((c * (n - 1)) \div (k - 1))]
=============================================================================
