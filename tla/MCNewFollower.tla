--------------------------- MODULE MCNewFollower ----------------------------
(***************************************************************************)
(* A small instance of NewFollower.                                        *)
(***************************************************************************)
EXTENDS NewFollower, TLC

CONSTANTS k1, k2

Assets == {<<k1, "kept">>, <<k1, "moving">>, <<k2, "kept">>}
Kept   == {<<k1, "kept">>, <<k2, "kept">>}
Stamps == {[a \in {k1, k2} \X Name |-> IF a[1] = k1 THEN 0 ELSE 1]}

\* Refreshes of the one table or of the other.
OneTable == {[j \in Job |-> t] : t \in Table}
=============================================================================
