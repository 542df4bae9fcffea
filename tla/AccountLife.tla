---------------------------- MODULE AccountLife ----------------------------
(***************************************************************************)
(* The life of an account, whatever handlers and workers act on it: it is  *)
(* opened once, activated at most once and never afterwards made pending   *)
(* again, and closed for good.  Its cups are left only once it is closed.  *)
(* Only a body that brings the columns themselves may set it to anything.  *)
(***************************************************************************)
CONSTANT Account

VARIABLES
  status,     \* of every account
  joined,     \* the accounts that take part in cups
  free        \* the accounts whose status was ever set by a body

Init ==
  /\ status = [i \in Account |-> "absent"]
  /\ joined = {}
  /\ free = {}

Open(i) ==
  /\ status[i] = "absent"
  /\ status' = [status EXCEPT ![i] = "pending"]
  /\ UNCHANGED <<joined, free>>

Activate(i) ==
  /\ status[i] = "pending"
  /\ status' = [status EXCEPT ![i] = "active"]
  /\ UNCHANGED <<joined, free>>

\* One account by its user, or several by a clean-up.
Close(S) ==
  /\ \A i \in S : status[i] \in {"pending", "active"}
  /\ status' = [i \in Account |-> IF i \in S THEN "deleted" ELSE status[i]]
  /\ UNCHANGED <<joined, free>>

Join(i) ==
  /\ status[i] # "absent"
  /\ joined' = joined \cup {i}
  /\ UNCHANGED <<status, free>>

Override(i) ==
  /\ status[i] # "absent"
  /\ \E s \in {"pending", "active", "deleted"} : status' = [status EXCEPT ![i] = s]
  /\ free' = free \cup {i}
  /\ UNCHANGED joined

\* An account brought back by a body may lose the cups a deletion was about to take.
Leave(i) ==
  /\ status[i] = "deleted" \/ i \in free
  /\ joined' = joined \ {i}
  /\ UNCHANGED <<status, free>>

Next ==
  \/ \E i \in Account : Open(i) \/ Activate(i) \/ Join(i) \/ Leave(i) \/ Override(i)
  \/ \E S \in SUBSET Account : Close(S)

Spec == Init /\ [][Next]_<<status, joined, free>>

=============================================================================
