--------------------------- MODULE MCMatrixMarket ---------------------------
(***************************************************************************)
(* MatrixMarket on files of up to three lines for matrices of two or three *)
(* rows: duplicates, explicit and cancelling zeros, entries on and off the *)
(* diagonal, lines out of range, files that are too short or too long.     *)
(***************************************************************************)
EXTENDS MatrixMarket

MCFile(rows, nnz, field, symmetry, lines) ==
  [rows |-> rows, cols |-> rows, nnz_file |-> nnz, field |-> field,
   symmetry |-> symmetry, lines |-> lines]

MCLines ==
  {<< >>, << <<1, 2, 5>> >>, << <<2, 1, 3>>, <<2, 2, 4>> >>, << <<2, 1, 3>>, <<2, 1, -3>> >>,
   << <<2, 2, 1>>, <<2, 1, 2>>, <<2, 2, 3>> >>, << <<1, 2, 7>>, <<2, 2, 0>>, <<1, 1, 1>> >>,
   << <<2, 1, 4>>, <<0, 1, 1>>, <<1, 1, 1>> >>, << <<1, 1, 2>>, <<1, 2, 3>>, <<3, 1, 1>> >>}

MCFiles ==
  {MCFile(rows, Len(lines), "real", symmetry, lines) :
     rows \in {2, 3}, symmetry \in {"general", "symmetric", "skew-symmetric"}, lines \in MCLines}
  \cup {MCFile(2, Len(lines), field, symmetry, lines) :
          field \in {"pattern", "complex"}, symmetry \in {"symmetric", "skew-symmetric"},
          lines \in MCLines}
  \cup {MCFile(3, 2, "real", "general", lines) : lines \in MCLines}
  \cup {MCFile(2, 1, "real", "hermitian", << <<1, 1, 1>> >>)}
=============================================================================
