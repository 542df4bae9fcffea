----------------------------- MODULE MCBalances -----------------------------
(***************************************************************************)
(* Small instances of Balances: days of two hours.                         *)
(***************************************************************************)
EXTENDS Balances, TLC

CONSTANT k1

Prices  == [k \in Key |-> 2]
Changes == {-1, 1}
Symmetry == Permutations(Job)
=============================================================================
