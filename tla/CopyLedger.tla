------------------------------ MODULE CopyLedger ------------------------------
(***************************************************************************)
(* What copy trading promises about a follower's orders, without how it is *)
(* done: each call opens orders, settles once by writing into the books    *)
(* the orders it knows of, at most one for each key, and only an order     *)
(* that is in the books is ever closed.  An order is <<call, key, n>>.     *)
(***************************************************************************)
CONSTANTS Call, Key

VARIABLES
  opened,     \* the orders that exist
  recorded,   \* those in the books
  closed,     \* those closed again
  settled     \* the calls that have written their entries

Init ==
  /\ opened = {} /\ recorded = {} /\ closed = {} /\ settled = {}

\* A call that has not settled opens an order for a key.
Open ==
  /\ opened \subseteq opened'
  /\ \A x \in opened' \ opened : x[1] \in Call \ settled /\ x[2] \in Key
  /\ UNCHANGED <<recorded, closed, settled>>

Settle(c) ==
  /\ c \notin settled
  /\ settled' = settled \cup {c}
  /\ recorded \subseteq recorded' /\ recorded' \subseteq opened
  /\ \A x \in recorded' \ recorded : x[1] = c
  /\ \A x, y \in recorded' : x[1] = y[1] /\ x[2] = y[2] => x = y
  /\ UNCHANGED <<opened, closed>>

Close(x) ==
  /\ x \in recorded \ closed
  /\ closed' = closed \cup {x}
  /\ UNCHANGED <<opened, recorded, settled>>

Next ==
  \/ Open
  \/ \E c \in Call : Settle(c)
  \/ \E x \in recorded : Close(x)

Spec == Init /\ [][Next]_<<opened, recorded, closed, settled>>

=============================================================================
