--------------------------- MODULE MCTableRefresh ---------------------------
(***************************************************************************)
(* Small instances of TableRefresh.                                        *)
(***************************************************************************)
EXTENDS TableRefresh, TLC

CONSTANTS k1, k2

Assets  == {<<k1, "kept">>, <<k1, "moving">>, <<k2, "kept">>}
Kept    == {<<k1, "kept">>, <<k2, "kept">>}
Things  == {k1, k2} \X {"kept", "moving", "total"}

\* The first rows were stamped in one loop, or one loop for each owner.
Stamps  == {[a \in Things |-> 0], [a \in Things |-> IF a[1] = k1 THEN 0 ELSE 1]}
OneTable == {[j \in Job |-> t] : t \in Table}
Symmetry == Permutations(Job)
=============================================================================
