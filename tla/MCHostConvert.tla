--------------------------- MODULE MCHostConvert ----------------------------
(***************************************************************************)
(* HostConvert on matrices of five rows and three columns, in blocks of    *)
(* two by two: three block rows, the last one cut off, the middle one      *)
(* empty in half of the matrices; rows unsorted and with duplicates; the   *)
(* first entry a stored zero or not.                                       *)
(***************************************************************************)
EXTENDS HostConvert, Sequences

MCRows == <<{<< >>, <<2>>, <<0, 1>>, <<1, 0>>, <<0, 2>>, <<1, 1>>},
            {<< >>, <<0, 2>>}, {<< >>, <<1>>}, {<< >>}, {<< >>, <<0, 2>>}>>

\* The columns of the rows, one after the other.
MCConcat(rows) == rows[1] \o rows[2] \o rows[3] \o rows[4] \o rows[5]

MCCsr(rows, zero) ==
  LET cols == MCConcat(rows) IN
  [rows |-> 5, cols |-> 3,
   row_ptr |-> PrefixSum([r \in 0 .. 4 |-> Len(rows[r + 1])], 5),
   col_idx |-> [p \in 0 .. Len(cols) - 1 |-> cols[p + 1]],
   values  |-> [p \in 0 .. Len(cols) - 1 |-> IF zero /\ p = 0 THEN 0 ELSE p + 1]]

MCCsrMatrices ==
  {MCCsr(rows, zero) :
     rows \in MCRows[1] \X MCRows[2] \X MCRows[3] \X MCRows[4] \X MCRows[5],
     zero \in BOOLEAN}
=============================================================================
