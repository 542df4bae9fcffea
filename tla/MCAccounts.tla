----------------------------- MODULE MCAccounts -----------------------------
(***************************************************************************)
(* Small instances of Accounts.                                            *)
(***************************************************************************)
EXTENDS Accounts, TLC

CONSTANTS m1, m2, p1, p2, n1, n2

\* A request with the fields its body does not have left empty.
Ask(op) == [op |-> op, id |-> None, email |-> None, phone |-> None, name |-> None,
            login |-> Email, code |-> None, also |-> NoColumns]

Session(ops) == {[Ask(op) EXCEPT !.id = i] : op \in ops, i \in Id}

Register(op, login, box, phone, name) ==
  [Ask(op) EXCEPT !.login = login, !.email = <<box, "mixed">>, !.phone = phone, !.name = name]

ByPhone(op, phone) ==
  {[Ask(op) EXCEPT !.phone = phone, !.code = k] : k \in Code}

ChangeTo(box, spelling) ==
  {[q EXCEPT !.email = <<box, spelling>>] : q \in Session({"change_email"})}

WithCodes(Q) == {[q EXCEPT !.code = k] : q \in Q, k \in Code}

\* Two people with one phone number, the second of whom signs in with Google.
OnePhone == {
  Register("register", Email, m1, p1, <<n1, "lower">>),
  Register("register/sso", 2, m2, p1, <<n2, "blanks">>)}

Claims == OnePhone \cup ByPhone("verify_code/phone", p1) \cup ChangeTo(m1, "lower")

\* All that deletes accounts: users, links and the worker.
Leavings ==
  Session({"delete_user", "confirm_delete", "resend_link", "verify_email_complete"})
    \cup WithCodes(Session(Link \cup {"verify_redirect_email"}))
    \cup {Register("register", Email, m1, p1, <<n1, "lower">>), Ask("worker_run")}
    \cup ChangeTo(m2, "mixed")

\* Bodies with columns no form has: one deletes the account, one brings it back
\* unverified and without a code.
Unusual == {
  [NoColumns EXCEPT !.state = "deleted"],
  [NoColumns EXCEPT !.state = "live", !.verified = FALSE, !.code = Null]}

\* Codes and profiles: what a person does with an account of her own.
OwnAccount ==
  OnePhone
    \cup Session({"resend_code", "verify_email_complete", "resend_link_verify_email",
         "verify_callback_delete"})
    \cup WithCodes(Session({"verify_code", "verify_redirect_email"}))
    \cup ByPhone("verify_code/phone", p1) \cup ByPhone("resend_code/phone", p1)
    \cup ByPhone("forgot_password/phone", p1)
    \cup {[Ask(op) EXCEPT !.email = <<m1, "mixed">>, !.code = k] : k \in Code,
          op \in {"verify_code/email", "resend_code/email", "forgot_password/email"}}
    \cup {[q EXCEPT !.name = <<n1, "mixed">>] :
          q \in Session({"update_profile", "update_info"})}
    \cup {[q EXCEPT !.phone = x] : x \in {p2, Null},
           q \in Session({"update_profile_complete"})}
    \cup {[q EXCEPT !.also = x] : x \in Unusual, q \in Session({"update_profile"})}

Symmetry == Permutations(Id) \cup Permutations(Call)
=============================================================================
