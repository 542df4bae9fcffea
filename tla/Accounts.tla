------------------------------ MODULE Accounts ------------------------------
(***************************************************************************)
(* The table users and the requests that change it: registration, codes,   *)
(* profiles, change of e-mail, deletion by the user, by a mailed link and  *)
(* by the worker.  No request runs in a transaction: what it read may have *)
(* changed at each of its awaits.                                          *)
(*                                                                         *)
(* E-mail addresses and user names carry the spelling the code tells       *)
(* apart.  A column the requests do not decide on (password, avatar, full  *)
(* name, description) is left out.                                         *)
(***************************************************************************)
EXTENDS Integers

CONSTANTS
  Id,          \* the ids a row of users can get
  Mailbox, Phone, Nick, Code,
  Call,        \* as many as requests can be in progress at the same time
  Request,     \* the requests that can arrive
  TimeDelete,  \* time.time_delete, in hours
  MaxTime,     \* bound: the last hour of the clock
  None,        \* an empty column, a field a body does not have
  Null         \* an explicit null in a body

Address  == Mailbox \X {"lower", "mixed"}
UserName == Nick \X {"lower", "mixed", "blanks"}

Lower(e)     == <<e[1], "lower">>
LowerName(n) == IF n \in Nick \X {"mixed"} THEN <<n[1], "lower">> ELSE n
Trim(n)      == IF n[2] = "blanks" THEN <<n[1], "lower">> ELSE n

Email == 1   \* login_type: 1 e-mail, 2 Google, 3 Apple

Registration == {"register", "register/sso"}
Link         == {"verify/verify_redirect_del_account", "auth/verify_redirect_del_account"}

\* Columns of users that no form has.  A body may have them all the same, and the
\* profile handlers spread it into the statement; a null deleted_at is "live".
Columns == [state : {"live", "deleted", None}, verified : BOOLEAN \cup {None},
            confirmed : BOOLEAN \cup {None}, login : (1..3) \cup {None, Null},
            code : Code \cup {None, Null}, codeDelete : Code \cup {None, Null},
            codeEmail : Code \cup {None, Null}, born : 0..MaxTime \cup {None}]

NoColumns == [state |-> None, verified |-> None, confirmed |-> None, login |-> None,
              code |-> None, codeDelete |-> None, codeEmail |-> None, born |-> None]

Body == [op : STRING, id : Id \cup {None}, email : Address \cup {None, Null},
         phone : Phone \cup {None, Null}, name : UserName \cup {None, Null},
         login : 1..3, code : Code \cup {None}, also : Columns]

ASSUME RequestAssumption ==
  /\ Request \subseteq Body
  /\ \A q \in Request :
       /\ q.op \in Registration =>
            q.email \in Address /\ q.phone \in Phone /\ q.name \in UserName
       /\ q.op = "change_email" => q.email \in Address
       /\ q.op \in {"update_profile", "update_info"} \cup Link => q.id \in Id
       /\ q.op = "register" => q.login = Email
ASSUME TimeAssumption == TimeDelete \in Nat /\ MaxTime \in Nat
ASSUME NoneAssumption ==
  /\ None # Null
  /\ {None, Null} \cap (Id \cup Address \cup Phone \cup UserName \cup Code
                         \cup BOOLEAN \cup Nat \cup {"live", "deleted"}) = {}
  /\ None \notin Body

VARIABLES
  user,        \* users, one row for each id
  keys,        \* the users with rows in user_exchanges_keys
  cups,        \* the users with live rows in user_join_cups
  clock,       \* the time in hours
  call,        \* the requests in progress
  \* History, read by the properties only:
  late,        \* who was verified when the request that set a column arrived
  since,       \* since when the e-mail of each account is the one it has
  changed,     \* the accounts that changed their e-mail by change_email
  profiled,    \* those a profile handler gave another e-mail or phone number
  overridden,  \* those a profile handler gave columns no form has
  short,       \* those the worker picked less than TimeDelete hours after since
  stripped,    \* those whose keys were deleted by a link, and not added to since
  interrupted  \* those whose deletion by a link stopped right after that

Row == [state : {"absent", "live", "deleted"}, name : UserName \cup {None},
        email : Address \cup {None}, phone : Phone \cup {None},
        login : (1..3) \cup {None}, verified : BOOLEAN, confirmed : BOOLEAN,
        code : Code \cup {None}, codeDelete : Code \cup {None},
        codeEmail : Code \cup {None}, born : 0..MaxTime]

\* req is the request, found the user it read, batch those the worker read;
\* known, a history variable too, those verified when it arrived.
Idle == [pc |-> "idle", req |-> None, found |-> None, batch |-> {}, known |-> {}]

tables == <<user, keys, cups>>
claims == <<late, profiled, overridden>>
times  == <<since, changed, short>>
exits  == <<stripped, interrupted>>
vars   == <<tables, clock, call, claims, times, exits>>

Init ==
  /\ user = [i \in Id |-> [state |-> "absent", name |-> None, email |-> None,
       phone |-> None, login |-> Email, verified |-> FALSE, confirmed |-> FALSE,
       code |-> None, codeDelete |-> None, codeEmail |-> None, born |-> 0]]
  /\ keys = {} /\ cups = {}
  /\ clock = 0
  /\ call = [c \in Call |-> Idle]
  /\ late = [i \in Id |-> [phone |-> {}, email |-> {}]]
  /\ since = [i \in Id |-> 0]
  /\ changed = {} /\ profiled = {} /\ overridden = {}
  /\ short = {} /\ stripped = {} /\ interrupted = {}

\* A find leaves out rows whose deleted_at is set.
Live == {i \in Id : user[i].state = "live"}
Verified == {i \in Live : user[i].verified}

pc(c)  == call[c].pc
req(c) == call[c].req

Goto(c, label) == call' = [call EXCEPT ![c].pc = label]
End(c)         == call' = [call EXCEPT ![c] = Idle]

\* A session or a link names an account that was registered.
Receive(c, q) ==
  /\ pc(c) = "idle"
  /\ q.id # None => user[q.id].state # "absent"
  /\ call' = [call EXCEPT ![c] = [pc |-> "start", req |-> q, found |-> None,
                                  batch |-> {}, known |-> Verified]]
  /\ UNCHANGED <<tables, clock, claims, times, exits>>

-----------------------------------------------------------------------------
(***************************************************************************)
(* register and register/sso: three checks against verified accounts, then *)
(* a look for a row with this e-mail and phone that is written over.       *)
(***************************************************************************)

Check(c, from, refused, to) ==
  /\ pc(c) = from /\ req(c).op \in Registration
  /\ IF refused THEN End(c) ELSE Goto(c, to)
  /\ UNCHANGED <<tables, clock, claims, times, exits>>

CheckName(c) ==
  Check(c, "start",
        \E i \in Verified : LowerName(user[i].name) = LowerName(req(c).name), "email")

CheckEmail(c) ==
  Check(c, "email", \E i \in Verified : user[i].email = Lower(req(c).email), "phone")

\* Mutant: the number is not compared.
PhoneIgnored(q) == FALSE

PhoneTaken(q) == \E i \in Verified : user[i].phone = q.phone

CheckPhone(c) == Check(c, "phone", PhoneTaken(req(c)), "hold")

FindHold(c) ==
  /\ pc(c) = "hold"
  /\ LET held == {i \in Live : user[i].email = Lower(req(c).email)
                             /\ user[i].phone = req(c).phone}
     IN  IF held = {}
           THEN Goto(c, "insert")
           ELSE \E i \in held :
                  call' = [call EXCEPT ![c].pc = "reuse", ![c].found = i]
  /\ UNCHANGED <<tables, clock, claims, times, exits>>

Sso(q) == q.op = "register/sso"

\* Neither is_verify_code nor expired_date is given: the table's defaults.
Insert(c) ==
  /\ pc(c) = "insert"
  /\ \E i \in Id, k \in Code :
       /\ user[i].state = "absent"
       /\ user' = [user EXCEPT ![i] =
            [state |-> "live", name |-> Trim(req(c).name), email |-> Lower(req(c).email),
             phone |-> req(c).phone, login |-> req(c).login, verified |-> FALSE,
             confirmed |-> Sso(req(c)), code |-> k, codeDelete |-> None,
             codeEmail |-> None, born |-> clock]]
       /\ late' = [late EXCEPT ![i] = [phone |-> call[c].known, email |-> call[c].known]]
       /\ since' = [since EXCEPT ![i] = clock]
  /\ End(c)
  /\ UNCHANGED <<keys, cups, clock, profiled, overridden, changed, short, exits>>

\* Mutant: registering again asks for a new verification.
WrittenUnverified(row, q, k) ==
  [row EXCEPT !.code = k, !.name = q.name, !.login = q.login, !.verified = FALSE,
              !.confirmed = @ \/ Sso(q)]

Written(row, q, k) ==
  [row EXCEPT !.code = k, !.name = q.name, !.login = q.login, !.confirmed = @ \/ Sso(q)]

\* The statement behind a label: the row that was found gets the new columns.
Update(c, label, row) ==
  /\ pc(c) = label
  /\ user' = [user EXCEPT ![call[c].found] = row]
  /\ End(c)

Found(c) == user[call[c].found]

Reuse(c) ==
  /\ \E k \in Code : Update(c, "reuse", Written(Found(c), req(c), k))
  /\ UNCHANGED <<keys, cups, clock, claims, times, exits>>

-----------------------------------------------------------------------------
(***************************************************************************)
(* The other requests find one row and then update it.  Where several rows *)
(* match, findOne returns any; where none does, the request is refused.    *)
(***************************************************************************)

Find(c, op, rows, label) ==
  /\ pc(c) = "start" /\ req(c).op = op
  /\ IF rows = {}
       THEN End(c)
       ELSE \E i \in rows : call' = [call EXCEPT ![c].pc = label, ![c].found = i]
  /\ UNCHANGED <<tables, clock, claims, times, exits>>

Self(c) == Live \cap {req(c).id}

\* findOne drops a condition whose value the query does not have.
Fits(column, given) == given = None \/ column = given

WithCode(c)  == {i \in Live : Fits(user[i].code, req(c).code)}
WithEmail(c) == {i \in Live : user[i].email = Lower(req(c).email)}
WithPhone(c) == {i \in Live : Fits(user[i].phone, req(c).phone)}

VerifyCode(c)        == Find(c, "verify_code", WithCode(c) \cap Self(c), "verify")
VerifyCodeByEmail(c) == Find(c, "verify_code/email", WithCode(c) \cap WithEmail(c), "verify")
VerifyCodeByPhone(c) == Find(c, "verify_code/phone", WithCode(c) \cap WithPhone(c), "verify")

MarkVerified(c) ==
  /\ Update(c, "verify", [Found(c) EXCEPT !.verified = TRUE])
  /\ UNCHANGED <<keys, cups, clock, claims, times, exits>>

ResendCode(c)      == Find(c, "resend_code", Self(c), "code")
ResendCodeEmail(c) == Find(c, "resend_code/email", WithEmail(c), "code")
ResendCodePhone(c) == Find(c, "resend_code/phone", WithPhone(c), "code")

\* Of the accounts that match, the one that is found is refused if it signs in
\* with Google or Apple.
Forgot(c, op, rows) ==
  /\ pc(c) = "start" /\ req(c).op = op
  /\ \/ \E i \in rows :
          /\ user[i].login \notin {2, 3}
          /\ call' = [call EXCEPT ![c].pc = "code", ![c].found = i]
     \/ /\ rows = {} \/ \E i \in rows : user[i].login \in {2, 3}
        /\ End(c)
  /\ UNCHANGED <<tables, clock, claims, times, exits>>

ForgotPasswordByEmail(c) == Forgot(c, "forgot_password/email", WithEmail(c) \cap Verified)
ForgotPasswordByPhone(c) == Forgot(c, "forgot_password/phone", WithPhone(c) \cap Verified)

StoreCode(c) ==
  /\ \E k \in Code : Update(c, "code", [Found(c) EXCEPT !.code = k])
  /\ UNCHANGED <<keys, cups, clock, claims, times, exits>>

VerifyEmailComplete(c)   == Find(c, "verify_email_complete", Self(c), "codeEmail")
ResendLinkVerifyEmail(c) == Find(c, "resend_link_verify_email", Self(c), "codeEmail")

StoreEmailCode(c) ==
  /\ \E k \in Code : Update(c, "codeEmail", [Found(c) EXCEPT !.codeEmail = k])
  /\ UNCHANGED <<keys, cups, clock, claims, times, exits>>

\* The link of a mail: any code may stand in it, that of an older mail too.
VerifyEmail(c) ==
  Find(c, "verify_redirect_email",
       {i \in Self(c) : Fits(user[i].codeEmail, req(c).code)}, "confirm")

Confirm(c) ==
  /\ Update(c, "confirm", [Found(c) EXCEPT !.confirmed = TRUE])
  /\ UNCHANGED <<keys, cups, clock, claims, times, exits>>

-----------------------------------------------------------------------------
(***************************************************************************)
(* Profiles and change of e-mail.                                          *)
(***************************************************************************)

\* A body without a name, or with a null, is not compared with anything.
CheckProfileName(c, op, same) ==
  /\ pc(c) = "start" /\ req(c).op = op
  /\ IF req(c).name \in UserName /\ same \ {req(c).id} # {}
       THEN End(c)
       ELSE call' = [call EXCEPT ![c].pc = "profile", ![c].found = req(c).id]
  /\ UNCHANGED <<tables, clock, claims, times, exits>>

UpdateProfile(c) ==
  CheckProfileName(c, "update_profile",
    {i \in Verified : LowerName(user[i].name) = LowerName(req(c).name)})

UpdateInfo(c) ==
  CheckProfileName(c, "update_info", {i \in Verified : user[i].name = req(c).name})

UpdateProfileComplete(c) == Find(c, "update_profile_complete", Self(c), "profile")

\* Mutant: a field the body does not have empties the column.
GivenOrEmpty(new, old) == IF new \in {None, Null} THEN None ELSE new

Given(new, old) == IF new = None THEN old ELSE IF new = Null THEN None ELSE new

\* Mutant: another phone number has to be verified again.
RewrittenUnverified(row, q) ==
  [row EXCEPT !.name = Given(q.name, @), !.email = Given(q.email, @),
              !.phone = Given(q.phone, @), !.verified = @ /\ q.phone = None]

\* The body as it is.  Of a row that is not there nothing is written.
Rewritten(row, q) ==
  IF row.state = "absent" THEN row
  ELSE [state |-> Given(q.also.state, row.state), name |-> Given(q.name, row.name),
        email |-> Given(q.email, row.email), phone |-> Given(q.phone, row.phone),
        login |-> Given(q.also.login, row.login),
        verified |-> Given(q.also.verified, row.verified),
        confirmed |-> Given(q.also.confirmed, row.confirmed),
        code |-> Given(q.also.code, row.code),
        codeDelete |-> Given(q.also.codeDelete, row.codeDelete),
        codeEmail |-> Given(q.also.codeEmail, row.codeEmail),
        born |-> Given(q.also.born, row.born)]

\* E-mail and phone number are not compared with anybody's.  The column of the
\* e-mail takes no null: the statement fails, which is Stop.
WriteProfile(c) ==
  LET q == req(c)
      i == call[c].found
  IN  /\ pc(c) = "profile" /\ q.email # Null
      /\ Update(c, "profile", Rewritten(Found(c), q))
      /\ overridden' = IF q.also # NoColumns /\ Found(c).state # "absent"
                         THEN overridden \cup {i} ELSE overridden
      /\ profiled' = IF q.email # None \/ q.phone # None \/ q.also # NoColumns
                       THEN profiled \cup {i} ELSE profiled
      /\ since' = IF q.email # None THEN [since EXCEPT ![i] = clock] ELSE since
  /\ UNCHANGED <<keys, cups, clock, late, changed, short, exits>>

ChangeEmail(c) ==
  Find(c, "change_email",
       {i \in Self(c) : user[i].email # Lower(req(c).email)}, "change")

\* Mutant: only the accounts of the same login_type are looked at.
EmailTakenSameLogin(q, self) ==
  \E i \in Verified \ {self} :
    user[i].email = Lower(q.email) /\ user[i].login = user[self].login

EmailTaken(q, self) == \E i \in Verified \ {self} : user[i].email = Lower(q.email)

CheckNewEmail(c) ==
  /\ pc(c) = "change"
  /\ IF EmailTaken(req(c), call[c].found) THEN End(c) ELSE Goto(c, "email changes")
  /\ UNCHANGED <<tables, clock, claims, times, exits>>

\* The address is compared in lower case and stored as it was typed.
StoreEmail(c) ==
  LET i == call[c].found
  IN  /\ Update(c, "email changes",
                [Found(c) EXCEPT !.email = req(c).email, !.confirmed = FALSE])
      /\ late' = [late EXCEPT ![i].email = call[c].known]
      /\ since' = [since EXCEPT ![i] = clock]
      /\ changed' = changed \cup {i}
  /\ UNCHANGED <<keys, cups, clock, profiled, overridden, short, exits>>

-----------------------------------------------------------------------------
(***************************************************************************)
(* Deletion.                                                               *)
(***************************************************************************)

DeleteUser(c) == Find(c, "delete_user", Self(c), "delete")

\* The body's id must be that of the session.
VerifyCallBackDelAccount(c) ==
  \E right \in BOOLEAN :
    Find(c, "verify_callback_delete", IF right THEN Self(c) ELSE {}, "delete")

ConfirmDelete(c) == Find(c, "confirm_delete", Self(c), "codeDelete")
ResendLink(c)    == Find(c, "resend_link", Self(c), "codeDelete")

StoreDeleteCode(c) ==
  /\ \E k \in Code : Update(c, "codeDelete", [Found(c) EXCEPT !.codeDelete = k])
  /\ UNCHANGED <<keys, cups, clock, claims, times, exits>>

\* The link exists in two controllers; that of auth leaves the joined cups alone.
VerifyDelAccount(c) ==
  \E op \in Link :
    Find(c, op, {i \in Self(c) : Fits(user[i].codeDelete, req(c).code)}, "keys")

\* Mutant: the joined cups are next, the account is not marked.
DeleteKeysThenCups(c) ==
  /\ pc(c) = "keys"
  /\ keys' = keys \ {req(c).id}
  /\ stripped' = stripped \cup (keys \ keys')
  /\ Goto(c, "cups")
  /\ UNCHANGED <<user, cups, clock, claims, times, interrupted>>

DeleteKeys(c) ==
  /\ pc(c) = "keys"
  /\ keys' = keys \ {req(c).id}
  /\ stripped' = stripped \cup (keys \ keys')
  /\ Goto(c, "delete")
  /\ UNCHANGED <<user, cups, clock, claims, times, interrupted>>

Deleted(row) == [row EXCEPT !.state = IF @ = "absent" THEN @ ELSE "deleted"]

MarkDeleted(c) ==
  /\ pc(c) = "delete"
  /\ user' = [user EXCEPT ![call[c].found] = Deleted(@)]
  /\ IF req(c).op = "verify/verify_redirect_del_account" THEN Goto(c, "cups") ELSE End(c)
  /\ UNCHANGED <<keys, cups, clock, claims, times, exits>>

DeleteCups(c) ==
  /\ pc(c) = "cups"
  /\ cups' = cups \ {req(c).id}
  /\ End(c)
  /\ UNCHANGED <<user, keys, clock, claims, times, exits>>

\* Mutant: no hours are subtracted.
ExpiredAtOnce(row) == row.born < clock

Expired(row) == row.born < clock - TimeDelete

WorkerRunDeleteAccount(c) ==
  /\ pc(c) = "start" /\ req(c).op = "worker_run"
  /\ LET old == {i \in Live : ~user[i].confirmed /\ Expired(user[i])}
     IN  /\ IF old = {}
              THEN End(c)
              ELSE call' = [call EXCEPT ![c].pc = "expired", ![c].batch = old]
         /\ short' = short \cup {i \in old : clock - since[i] < TimeDelete}
  /\ UNCHANGED <<tables, clock, claims, since, changed, exits>>

\* The rows are deleted by id, whatever has become of them.
DeleteExpired(c) ==
  /\ pc(c) = "expired"
  /\ user' = [i \in Id |-> IF i \in call[c].batch THEN Deleted(user[i]) ELSE user[i]]
  /\ End(c)
  /\ UNCHANGED <<keys, cups, clock, claims, times, exits>>

-----------------------------------------------------------------------------
(***************************************************************************)
(* Around the requests.                                                    *)
(***************************************************************************)

\* A statement fails, a mail or an SMS cannot be sent, or the process stops.
Stop(c) ==
  /\ pc(c) # "idle"
  /\ interrupted' = IF pc(c) = "delete" /\ req(c).op \in Link
                      THEN interrupted \cup {call[c].found} ELSE interrupted
  /\ End(c)
  /\ UNCHANGED <<tables, clock, claims, times, stripped>>

\* Accounts get keys through the database's own API and cups by joining.
AddKey(i) ==
  /\ user[i].state # "absent"
  /\ keys' = keys \cup {i}
  /\ stripped' = stripped \ {i}
  /\ UNCHANGED <<user, cups, clock, call, claims, times, interrupted>>

JoinCup(i) ==
  /\ user[i].state # "absent"
  /\ cups' = cups \cup {i}
  /\ UNCHANGED <<user, keys, clock, call, claims, times, exits>>

Tick ==
  /\ clock < MaxTime
  /\ clock' = clock + 1
  /\ UNCHANGED <<tables, call, claims, times, exits>>

Registering(c) ==
  \/ CheckName(c) \/ CheckEmail(c) \/ CheckPhone(c) \/ FindHold(c) \/ Insert(c) \/ Reuse(c)

Verifying(c) ==
  \/ VerifyCode(c) \/ VerifyCodeByEmail(c) \/ VerifyCodeByPhone(c) \/ MarkVerified(c)
  \/ ResendCode(c) \/ ResendCodeEmail(c) \/ ResendCodePhone(c)
  \/ ForgotPasswordByEmail(c) \/ ForgotPasswordByPhone(c) \/ StoreCode(c)
  \/ VerifyEmailComplete(c) \/ ResendLinkVerifyEmail(c) \/ StoreEmailCode(c)
  \/ VerifyEmail(c) \/ Confirm(c)

Editing(c) ==
  \/ UpdateProfile(c) \/ UpdateInfo(c) \/ UpdateProfileComplete(c) \/ WriteProfile(c)
  \/ ChangeEmail(c) \/ CheckNewEmail(c) \/ StoreEmail(c)

Deleting(c) ==
  \/ DeleteUser(c) \/ VerifyCallBackDelAccount(c) \/ ConfirmDelete(c) \/ ResendLink(c)
  \/ StoreDeleteCode(c) \/ VerifyDelAccount(c) \/ DeleteKeys(c) \/ MarkDeleted(c)
  \/ DeleteCups(c) \/ WorkerRunDeleteAccount(c) \/ DeleteExpired(c)

Next ==
  \/ \E c \in Call :
       \/ \E q \in Request : Receive(c, q)
       \/ Registering(c) \/ Verifying(c) \/ Editing(c) \/ Deleting(c) \/ Stop(c)
  \/ \E i \in Id : AddKey(i) \/ JoinCup(i)
  \/ Tick

Spec == Init /\ [][Next]_vars

-----------------------------------------------------------------------------
Label == {"idle", "start", "email", "phone", "hold", "insert", "reuse", "verify",
          "code", "codeEmail", "confirm", "profile", "change", "email changes",
          "codeDelete", "keys", "delete", "cups", "expired"}

CallRow == [pc : Label, req : Request \cup {None}, found : Id \cup {None},
            batch : SUBSET Id, known : SUBSET Id]

\* What a body leaves out keeps its value: whoever registered has an e-mail address,
\* and a phone number unless a profile handler was given one, or a null.
TypeOK ==
  /\ user \in [Id -> Row]
  /\ \A i \in Id : user[i].state # "absent" =>
       user[i].email \in Address /\ (user[i].phone \in Phone \/ i \in profiled)
  /\ keys \subseteq Id /\ cups \subseteq Id
  /\ clock \in 0..MaxTime
  /\ call \in [Call -> CallRow]
  /\ late \in [Id -> [phone : SUBSET Id, email : SUBSET Id]]
  /\ since \in [Id -> 0..MaxTime]
  /\ changed \subseteq Id /\ overridden \subseteq profiled /\ profiled \subseteq Id
  /\ short \subseteq Id /\ stripped \subseteq Id /\ interrupted \subseteq Id

\* A verified account keeps its phone number to itself: no registration that
\* arrives after it was verified leads to another account with that number, in
\* whatever order the requests interleave.  (Profile handlers write any number, and
\* any other column: the accounts they gave one are left out.)
PhoneKept ==
  \A i, j \in Live \ profiled :
    i # j /\ j \in late[i].phone => user[i].phone # user[j].phone

\* The same for the e-mail address, against registrations and changes of e-mail
\* that arrive later, as long as the account did not change it itself.
EmailKept ==
  \A i, j \in Live \ profiled :
    i # j /\ j \in late[i].email /\ j \notin changed => user[i].email # user[j].email

\* A deletion by a link that has removed the keys of an account removes the
\* account next: an account is left without its keys only when that very deletion
\* is at work on it or was interrupted there, or after a body brought it back.
LeavingInOrder ==
  \A i \in stripped \cap Live :
    \/ i \in interrupted \cup overridden
    \/ \E c \in Call : pc(c) = "delete" /\ req(c).op \in Link /\ call[c].found = i

\* The worker never picks an account sooner than TimeDelete hours after it got the
\* e-mail address it has, unless that address replaced another one or a profile
\* handler wrote other columns: .env.example:4 promises those hours to everyone, but
\* change_email leaves expired_date as it was.
GraceUnlessReplaced == short \subseteq changed \cup profiled

\* What error 'THE_PHONE_HAS_ALREADY_BEEN_TAKEN' of register says: two verified
\* accounts never have one phone number.
PhonesAreUnique ==
  \A i, j \in Verified :
    user[i].phone = user[j].phone /\ user[i].phone \in Phone => i = j

\* An account as its user sees it: see AccountLife.
Status == [i \in Id |-> IF i \in Verified THEN "active"
                        ELSE IF i \in Live THEN "pending" ELSE user[i].state]

Life == INSTANCE AccountLife
  WITH Account <- Id, status <- Status, joined <- cups, free <- overridden

LifeSpec == Life!Spec

=============================================================================
