---------------------------- MODULE MCWarpDirect ----------------------------
(***************************************************************************)
(* WarpDirect on matrices of up to five rows and three columns in blocks   *)
(* of two by two: one to three block rows, empty ones in every place, rows *)
(* unsorted and with duplicates, side by side and apart, stored zeros,     *)
(* matrices without entries and without rows, converted one after the      *)
(* other in every order.                                                   *)
(***************************************************************************)
EXTENDS WarpDirect, SequencesExt

MCCsr(rows, zeros) ==
  LET cols == FlattenSeq(rows) IN
  [rows |-> Len(rows), cols |-> 3,
   row_ptr |-> PrefixSum([r \in 0 .. Len(rows) - 1 |-> Len(rows[r + 1])], Len(rows)),
   col_idx |-> [p \in 0 .. Len(cols) - 1 |-> cols[p + 1]],
   values  |-> [p \in 0 .. Len(cols) - 1 |-> IF p \in zeros THEN 0 ELSE p + 1]]

MCCsrMatrices ==
  {MCCsr(<< >>, {}), MCCsr(<< << >>, << >>, << >> >>, {}),
   MCCsr(<< <<0, 1, 2>> >>, {}), MCCsr(<< <<1>> >>, {0}),
   MCCsr(<< <<0, 2>>, <<1, 2>>, << >>, <<0>> >>, {}),
   MCCsr(<< <<0, 1, 2>>, <<0, 1>>, <<2>> >>, {1, 5}),
   MCCsr(<< <<2>>, <<0, 1, 2>>, << >>, << >>, <<0, 2>> >>, {}),
   MCCsr(<< << >>, << >>, <<1>>, <<0, 2>>, <<0, 1>> >>, {0}),
   MCCsr(<< << >>, << >>, << >>, << >>, <<1, 2>> >>, {}),
   MCCsr(<< <<2, 0, 1>>, <<1>>, <<1, 0>> >>, {}),
   MCCsr(<< <<0>>, <<1, 1, 2>>, <<0>> >>, {}),
   MCCsr(<< <<2, 0, 2>>, << >>, <<0, 0>> >>, {}),
   MCCsr(<< <<2, 0, 2>> >>, {})}
=============================================================================
