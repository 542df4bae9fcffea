----------------------------- MODULE MCWebhook ------------------------------
(***************************************************************************)
(* A small instance of Webhook: two members, the one who joined first      *)
(* out of the cup's time, and two rows of one API key.                     *)
(***************************************************************************)
EXTENDS Webhook, TLC

CONSTANTS m1, m2, a1

Times  == (m1 :> 2) @@ (m2 :> 1)
Losses == {-1, 3}
OneApi == [k \in KeyRow |-> a1]
Symmetry == Permutations(Call) \cup Permutations(KeyRow) \cup Permutations(Day)
=============================================================================
