------------------------------ MODULE SpmvCall ------------------------------
(***************************************************************************)
(* What every SpMV operator of the library promises, whatever kernel,      *)
(* layout or number of warps carries it out.  A call zeroes the output     *)
(* vector, then the contributions owed to each row are added one group at  *)
(* a time, each exactly once and never taken back, and the call returns    *)
(* only when every row holds exactly what it is owed.                      *)
(*                                                                         *)
(* The value of y is the bag of products summed into it: y[r][c] counts    *)
(* how often contribution c (a block of the row with its value range, a    *)
(* residual entry) is in the sum.  due[r][c] is 1 iff c is owed to row r.  *)
(***************************************************************************)
EXTENDS Integers

VARIABLES
  due,     \* [row -> [contribution -> 0..1]], fixed while a call runs
  y,       \* [row -> [contribution -> Nat]]
  call     \* "idle", "running" or "returned"

vars == <<due, y, call>>

\* What is owed is fixed by the matrix and the operator called.
Init == call = "idle"

Begin ==
  /\ call # "running"
  /\ y' = [r \in DOMAIN due' |-> [c \in DOMAIN due'[r] |-> 0]]
  /\ call' = "running"

\* Some of the contributions still missing are added, each once.
Add ==
  /\ call = "running"
  /\ DOMAIN y' = DOMAIN y
  /\ \A r \in DOMAIN y :
       /\ DOMAIN y'[r] = DOMAIN y[r]
       /\ \A c \in DOMAIN y[r] :
            \/ y'[r][c] = y[r][c]
            \/ y[r][c] = 0 /\ due[r][c] = 1 /\ y'[r][c] = 1
  /\ UNCHANGED <<due, call>>

Return ==
  /\ call = "running"
  /\ y = due
  /\ call' = "returned"
  /\ UNCHANGED <<due, y>>

Next == Begin \/ Add \/ Return

Spec == Init /\ [][Next]_vars
=============================================================================
