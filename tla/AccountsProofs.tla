--------------------------- MODULE AccountsProofs ---------------------------
(***************************************************************************)
(* Proofs about Accounts, for any number of accounts and of requests in    *)
(* progress and any set of requests.                                       *)
(***************************************************************************)
EXTENDS Accounts, TLAPS

-----------------------------------------------------------------------------
(***************************************************************************)
(* Types.  What a request in progress has at hand depends on where it is.  *)
(***************************************************************************)

CallOK(x) ==
  /\ x \in CallRow
  /\ x.pc # "idle" => x.req \in Request
  /\ x.pc \notin {"idle", "start", "email", "phone", "hold", "insert", "expired"} =>
       x.found \in Id
  /\ x.pc \in {"email", "phone", "hold", "insert", "reuse"} => x.req.op \in Registration
  /\ x.pc \in {"change", "email changes"} => x.req.op = "change_email"

RowOK(r) == r \in Row /\ (r.state # "absent" => r.email \in Address)

Rest ==
  /\ keys \subseteq Id /\ cups \subseteq Id
  /\ clock \in 0..MaxTime
  /\ late \in [Id -> [phone : SUBSET Id, email : SUBSET Id]]
  /\ since \in [Id -> 0..MaxTime]
  /\ changed \subseteq Id /\ overridden \subseteq profiled /\ profiled \subseteq Id
  /\ short \subseteq Id /\ stripped \subseteq Id /\ interrupted \subseteq Id

UsersOK == user \in [Id -> Row] /\ \A i \in Id : RowOK(user[i])
CallsOK == call \in [Call -> CallRow] /\ \A c \in Call : CallOK(call[c])

TypeInv == UsersOK /\ CallsOK /\ Rest

LEMMA TypeInit == Init => TypeInv
  <1> SUFFICES ASSUME Init PROVE TypeInv
    OBVIOUS
  <1>1. CallOK(Idle)
    BY DEF CallOK, CallRow, Idle, Label
  <1>2. UsersOK
    BY TimeAssumption DEF Init, UsersOK, RowOK, Row, Email
  <1>3. CallsOK
    BY <1>1 DEF Init, CallsOK, CallOK
  <1> QED
    BY <1>2, <1>3, TimeAssumption DEF Init, TypeInv, Rest

\* The record of one request is replaced by another.
LEMMA CallStep ==
  ASSUME CallsOK, NEW c \in Call, NEW x, CallOK(x), call' = [call EXCEPT ![c] = x]
  PROVE  CallsOK'
  BY DEF CallsOK, CallOK

LEMMA EndStep ==
  ASSUME CallsOK, NEW c \in Call, End(c)
  PROVE  CallsOK'
  <1>1. CallOK(Idle)
    BY DEF CallOK, CallRow, Idle, Label
  <1> QED
    BY <1>1, CallStep DEF End

\* A request that goes on keeps what it has and may have found a user.
LEMMA GotoStep ==
  ASSUME CallsOK, NEW c \in Call, NEW label \in Label, NEW i \in Id \cup {None},
         pc(c) # "idle", i \in Id \/ i = call[c].found,
         label \in {"email", "phone", "hold", "insert", "reuse"} => req(c).op \in Registration,
         label \in {"change", "email changes"} => req(c).op = "change_email",
         label \notin {"idle", "start", "email", "phone", "hold", "insert", "expired"} =>
           i \in Id,
         \/ call' = [call EXCEPT ![c].pc = label, ![c].found = i]
         \/ Goto(c, label) /\ i = call[c].found
  PROVE  CallsOK'
  <1> DEFINE x == [call[c] EXCEPT !.pc = label, !.found = i]
  <1>1. call[c] \in CallRow /\ call[c].req \in Request
    BY DEF CallsOK, CallOK, pc
  <1>2. /\ x \in CallRow /\ x.pc = label /\ x.found = i /\ x.req = call[c].req
    BY <1>1 DEF CallRow
  <1>3. CallOK(x)
    BY <1>1, <1>2 DEF CallOK, req
  <1>4. call' = [call EXCEPT ![c] = x]
    <2>1. CASE call' = [call EXCEPT ![c].pc = label, ![c].found = i]
      BY <2>1, <1>1 DEF CallsOK
    <2>2. CASE Goto(c, label) /\ i = call[c].found
      BY <2>2, <1>1 DEF CallsOK, Goto, CallRow
    <2> QED
      BY <2>1, <2>2
  <1> QED
    BY <1>3, <1>4, CallStep

\* A request refused or sent on leaves the tables and the history alone.
LEMMA QuietStep ==
  ASSUME TypeInv, CallsOK', UNCHANGED <<tables, clock, claims, times, exits>>
  PROVE  TypeInv'
  BY DEF TypeInv, UsersOK, RowOK, Rest, tables, claims, times, exits

LEMMA CheckStep ==
  ASSUME TypeInv, NEW c \in Call, NEW from, NEW refused, NEW to \in {"email", "phone", "hold"},
         from # "idle", Check(c, from, refused, to)
  PROVE  TypeInv'
  <1>1. CallsOK
    BY DEF TypeInv
  <1>2. call[c].found \in Id \cup {None}
    BY <1>1 DEF CallsOK, CallRow
  <1>3. CASE End(c)
    BY <1>1, <1>3, EndStep, QuietStep DEF Check
  <1>4. CASE Goto(c, to)
    <2>1. CallsOK'
      BY <1>1, <1>2, <1>4, GotoStep DEF Check, Label
    <2> QED
      BY <2>1, QuietStep DEF Check
  <1> QED
    BY <1>3, <1>4 DEF Check

LEMMA FindStep ==
  ASSUME TypeInv, NEW c \in Call, NEW op, NEW rows \in SUBSET Id,
         NEW label \in Label \ {"idle", "start", "email", "phone", "hold", "insert", "reuse",
                              "email changes"},
         label = "change" => op = "change_email",
         Find(c, op, rows, label)
  PROVE  TypeInv'
  <1>1. CallsOK
    BY DEF TypeInv
  <1>2. CASE End(c)
    BY <1>1, <1>2, EndStep, QuietStep DEF Find
  <1>3. ASSUME NEW i \in rows, call' = [call EXCEPT ![c].pc = label, ![c].found = i]
        PROVE  TypeInv'
    <2>1. CallsOK'
      BY <1>1, <1>3, GotoStep DEF Find
    <2> QED
      BY <2>1, QuietStep DEF Find
  <1> QED
    BY <1>2, <1>3 DEF Find

\* The row a request found is replaced by another, and the request ends.
LEMMA UpdateStep ==
  ASSUME TypeInv, NEW c \in Call, NEW label, NEW row,
         call[c].found \in Id => RowOK(row), Update(c, label, row)
  PROVE  UsersOK' /\ CallsOK'
  <1>1. CallsOK'
    BY EndStep DEF TypeInv, Update
  <1>2. UsersOK'
    BY DEF TypeInv, UsersOK, RowOK, Update
  <1> QED
    BY <1>1, <1>2

\* The row a request found, as long as it has found one, is a row of the table.
LEMMA FoundRow ==
  ASSUME TypeInv, NEW c \in Call, call[c].found \in Id
  PROVE  RowOK(Found(c)) /\ Found(c) \in Row
  BY DEF TypeInv, UsersOK, Found

\* Every statement that stores a code or sets a flag.
LEMMA PlainUpdateStep ==
  ASSUME TypeInv, NEW c \in Call, NEW label, NEW row,
         call[c].found \in Id => RowOK(row), Update(c, label, row),
         UNCHANGED <<keys, cups, clock, claims, times, exits>>
  PROVE  TypeInv'
  BY UpdateStep DEF TypeInv, Rest, claims, times, exits

LEMMA DeletedRow ==
  ASSUME NEW row, RowOK(row)
  PROVE  RowOK(Deleted(row))
  BY DEF RowOK, Row, Deleted

LEMMA RegisteringTypes ==
  ASSUME TypeInv, NEW c \in Call, Registering(c)
  PROVE  TypeInv'
  <1>0. /\ CallsOK /\ call[c] \in CallRow /\ CallOK(call[c])
        /\ UsersOK
    BY DEF TypeInv, CallsOK
  <1>1. CASE CheckName(c)
    BY <1>1, CheckStep DEF CheckName
  <1>2. CASE CheckEmail(c)
    BY <1>2, CheckStep DEF CheckEmail
  <1>3. CASE CheckPhone(c)
    BY <1>3, CheckStep DEF CheckPhone
  <1>4. CASE FindHold(c)
    <2>1. CASE Goto(c, "insert")
      <3>1. CallsOK'
        BY <1>0, <1>4, <2>1, GotoStep DEF FindHold, Label, CallRow, CallOK, pc, req
      <3> QED
        BY <3>1, <1>4, QuietStep DEF FindHold
    <2>2. ASSUME NEW i \in Id,
                 call' = [call EXCEPT ![c].pc = "reuse", ![c].found = i]
          PROVE  TypeInv'
      <3>1. CallsOK'
        BY <1>0, <1>4, <2>2, GotoStep DEF FindHold, Label, CallOK, pc, req
      <3> QED
        BY <3>1, <1>4, QuietStep DEF FindHold
    <2> QED
      BY <1>4, <2>1, <2>2 DEF FindHold, Live
  <1>5. CASE Insert(c)
    <2>1. PICK i \in Id, k \in Code :
            /\ user' = [user EXCEPT ![i] =
                 [state |-> "live", name |-> Trim(req(c).name), email |-> Lower(req(c).email),
                  phone |-> req(c).phone, login |-> req(c).login, verified |-> FALSE,
                  confirmed |-> Sso(req(c)), code |-> k, codeDelete |-> None,
                  codeEmail |-> None, born |-> clock]]
            /\ late' = [late EXCEPT ![i] = [phone |-> call[c].known, email |-> call[c].known]]
            /\ since' = [since EXCEPT ![i] = clock]
      BY <1>5 DEF Insert
    <2>2. req(c) \in Request /\ req(c).op \in Registration
      BY <1>0, <1>5 DEF Insert, CallOK, pc, req
    <2>3. /\ req(c).email \in Address /\ req(c).phone \in Phone /\ req(c).name \in UserName
          /\ req(c).login \in 1..3 /\ Sso(req(c)) \in BOOLEAN
      BY <2>2, RequestAssumption DEF Body, Sso
    <2>4. Lower(req(c).email) \in Address /\ Trim(req(c).name) \in UserName
      BY <2>3 DEF Address, UserName, Lower, Trim
    <2>5. UsersOK'
      BY <1>0, <2>1, <2>3, <2>4 DEF UsersOK, RowOK, Row, TypeInv, Rest
    <2>6. CallsOK'
      BY <1>0, <1>5, EndStep DEF Insert
    <2> QED
      BY <1>0, <1>5, <2>1, <2>5, <2>6 DEF Insert, TypeInv, Rest, CallRow, exits
  <1>6. CASE Reuse(c)
    <2>1. PICK k \in Code : Update(c, "reuse", Written(Found(c), req(c), k))
      BY <1>6 DEF Reuse
    <2>2. /\ call[c].found \in Id /\ req(c) \in Request /\ req(c).op \in Registration
      BY <1>0, <2>1 DEF Update, CallOK, pc, req
    <2>3. req(c).name \in UserName /\ req(c).login \in 1..3 /\ Sso(req(c)) \in BOOLEAN
      BY <2>2, RequestAssumption DEF Body, Sso
    <2>4. RowOK(Written(Found(c), req(c), k))
      BY <2>2, <2>3, FoundRow DEF RowOK, Row, Written
    <2> QED
      BY <1>6, <2>1, <2>4, PlainUpdateStep DEF Reuse
  <1> QED
    BY <1>1, <1>2, <1>3, <1>4, <1>5, <1>6 DEF Registering

\* The rows the requests look for.
LEMMA Rows ==
  ASSUME NEW c
  PROVE  /\ Self(c) \in SUBSET Id
         /\ WithCode(c) \cap Self(c) \in SUBSET Id
         /\ WithCode(c) \cap WithEmail(c) \in SUBSET Id
         /\ WithCode(c) \cap WithPhone(c) \in SUBSET Id
         /\ WithEmail(c) \in SUBSET Id /\ WithEmail(c) \cap Verified \in SUBSET Id
         /\ WithPhone(c) \in SUBSET Id /\ WithPhone(c) \cap Verified \in SUBSET Id
         /\ {i \in Self(c) : Fits(user[i].codeEmail, req(c).code)} \in SUBSET Id
         /\ {i \in Self(c) : Fits(user[i].codeDelete, req(c).code)} \in SUBSET Id
         /\ {i \in Self(c) : user[i].email # Lower(req(c).email)} \in SUBSET Id
         /\ {} \in SUBSET Id
  BY DEF Self, WithCode, WithEmail, WithPhone, Live, Verified

LEMMA VerifyingTypes ==
  ASSUME TypeInv, NEW c \in Call, Verifying(c)
  PROVE  TypeInv'
  <1>0. /\ CallsOK /\ call[c] \in CallRow /\ CallOK(call[c])
    BY DEF TypeInv, CallsOK
  <1> USE Rows DEF Label
  <1>1. CASE VerifyCode(c)
    BY <1>1, FindStep DEF VerifyCode
  <1>2. CASE VerifyCodeByEmail(c)
    BY <1>2, FindStep DEF VerifyCodeByEmail
  <1>3. CASE VerifyCodeByPhone(c)
    BY <1>3, FindStep DEF VerifyCodeByPhone
  <1>4. CASE MarkVerified(c)
    <2>1. call[c].found \in Id => RowOK([Found(c) EXCEPT !.verified = TRUE])
      BY FoundRow DEF RowOK, Row
    <2> QED
      BY <1>4, <2>1, PlainUpdateStep DEF MarkVerified
  <1>5. CASE ResendCode(c)
    BY <1>5, FindStep DEF ResendCode
  <1>6. CASE ResendCodeEmail(c)
    BY <1>6, FindStep DEF ResendCodeEmail
  <1>7. CASE ResendCodePhone(c)
    BY <1>7, FindStep DEF ResendCodePhone
  <1>8. ASSUME NEW op, NEW rows \in SUBSET Id, Forgot(c, op, rows)
        PROVE  TypeInv'
    <2>1. CASE End(c)
      BY <1>0, <1>8, <2>1, EndStep, QuietStep DEF Forgot
    <2>2. ASSUME NEW i \in rows, call' = [call EXCEPT ![c].pc = "code", ![c].found = i]
          PROVE  TypeInv'
      <3>1. CallsOK'
        BY <1>0, <1>8, <2>2, GotoStep DEF Forgot
      <3> QED
        BY <1>8, <3>1, QuietStep DEF Forgot
    <2> QED
      BY <1>8, <2>1, <2>2 DEF Forgot
  <1>9. CASE ForgotPasswordByEmail(c)
    BY <1>9, <1>8 DEF ForgotPasswordByEmail
  <1>10. CASE ForgotPasswordByPhone(c)
    BY <1>10, <1>8 DEF ForgotPasswordByPhone
  <1>11. CASE StoreCode(c)
    <2>1. PICK k \in Code : Update(c, "code", [Found(c) EXCEPT !.code = k])
      BY <1>11 DEF StoreCode
    <2>2. call[c].found \in Id => RowOK([Found(c) EXCEPT !.code = k])
      BY FoundRow DEF RowOK, Row
    <2> QED
      BY <1>11, <2>1, <2>2, PlainUpdateStep DEF StoreCode
  <1>12. CASE VerifyEmailComplete(c)
    BY <1>12, FindStep DEF VerifyEmailComplete
  <1>13. CASE ResendLinkVerifyEmail(c)
    BY <1>13, FindStep DEF ResendLinkVerifyEmail
  <1>14. CASE StoreEmailCode(c)
    <2>1. PICK k \in Code : Update(c, "codeEmail", [Found(c) EXCEPT !.codeEmail = k])
      BY <1>14 DEF StoreEmailCode
    <2>2. call[c].found \in Id => RowOK([Found(c) EXCEPT !.codeEmail = k])
      BY FoundRow DEF RowOK, Row
    <2> QED
      BY <1>14, <2>1, <2>2, PlainUpdateStep DEF StoreEmailCode
  <1>15. CASE VerifyEmail(c)
    BY <1>15, FindStep DEF VerifyEmail
  <1>16. CASE Confirm(c)
    <2>1. call[c].found \in Id => RowOK([Found(c) EXCEPT !.confirmed = TRUE])
      BY FoundRow DEF RowOK, Row
    <2> QED
      BY <1>16, <2>1, PlainUpdateStep DEF Confirm
  <1> QED
    BY <1>1, <1>2, <1>3, <1>4, <1>5, <1>6, <1>7, <1>9, <1>10, <1>11, <1>12, <1>13, <1>14,
       <1>15, <1>16 DEF Verifying

\* What a body leaves out, and what it empties, are values of the columns.
LEMMA GivenColumn ==
  ASSUME NEW S, NEW new \in S \cup {None}, NEW old \in S, Null \notin S
  PROVE  Given(new, old) \in S /\ (new = None => Given(new, old) = old)
  BY DEF Given

LEMMA GivenEmpty ==
  ASSUME NEW S, NEW new \in S \cup {None, Null}, NEW old \in S \cup {None}
  PROVE  Given(new, old) \in S \cup {None} /\ (new = None => Given(new, old) = old)
  BY NoneAssumption DEF Given

\* Whatever a body writes, except a null into the column of the e-mail, is a row with
\* an e-mail, and a body without the columns no form has leaves them as they were.
LEMMA RewrittenRow ==
  ASSUME NEW r, RowOK(r), NEW q \in Request, q.email # Null
  PROVE  LET new == Rewritten(r, q)
         IN  /\ RowOK(new)
             /\ new.state = "absent" <=> r.state = "absent"
             /\ q.phone = None => new.phone = r.phone
             /\ q.email = None => new.email = r.email
             /\ q.also = NoColumns => new.state = r.state /\ new.verified = r.verified
                                     /\ new.born = r.born
  <1> DEFINE new == Rewritten(r, q)
  <1>1. r \in Row /\ q \in Body /\ q.also \in Columns
    BY RequestAssumption DEF RowOK, Body
  <1>2. CASE r.state = "absent"
    BY <1>2 DEF Rewritten
  <1>3. CASE r.state # "absent"
    <2>1. /\ r.state \in {"live", "deleted"} /\ r.email \in Address
          /\ r.name \in UserName \cup {None} /\ r.phone \in Phone \cup {None}
          /\ r.login \in (1..3) \cup {None}
          /\ r.verified \in BOOLEAN /\ r.confirmed \in BOOLEAN
          /\ r.code \in Code \cup {None} /\ r.codeDelete \in Code \cup {None}
          /\ r.codeEmail \in Code \cup {None} /\ r.born \in 0..MaxTime
      BY <1>1, <1>3 DEF Row, RowOK
    <2>2. /\ q.email \in Address \cup {None} /\ q.name \in UserName \cup {None, Null}
          /\ q.phone \in Phone \cup {None, Null}
      BY <1>1 DEF Body
    <2>3. /\ q.also.state \in {"live", "deleted"} \cup {None}
          /\ q.also.verified \in BOOLEAN \cup {None}
          /\ q.also.confirmed \in BOOLEAN \cup {None}
          /\ q.also.login \in (1..3) \cup {None, Null}
          /\ q.also.code \in Code \cup {None, Null}
          /\ q.also.codeDelete \in Code \cup {None, Null}
          /\ q.also.codeEmail \in Code \cup {None, Null}
          /\ q.also.born \in 0..MaxTime \cup {None}
      BY <1>1 DEF Columns
    <2>4. /\ Null \notin {"live", "deleted"} /\ Null \notin BOOLEAN
          /\ Null \notin Address /\ Null \notin 0..MaxTime
      BY NoneAssumption, TimeAssumption
    <2>5. /\ new.state = Given(q.also.state, r.state) /\ new.name = Given(q.name, r.name)
          /\ new.email = Given(q.email, r.email) /\ new.phone = Given(q.phone, r.phone)
          /\ new.verified = Given(q.also.verified, r.verified)
          /\ new.born = Given(q.also.born, r.born)
      BY <1>3 DEF Rewritten
    <2>6. /\ Given(q.also.state, r.state) \in {"live", "deleted"}
          /\ q.also.state = None => Given(q.also.state, r.state) = r.state
      BY <2>1, <2>3, <2>4, GivenColumn
    <2>7. /\ Given(q.email, r.email) \in Address
          /\ q.email = None => Given(q.email, r.email) = r.email
      BY <2>1, <2>2, <2>4, GivenColumn
    <2>8. /\ Given(q.also.verified, r.verified) \in BOOLEAN
          /\ q.also.verified = None => Given(q.also.verified, r.verified) = r.verified
      BY <2>1, <2>3, <2>4, GivenColumn
    <2>9. Given(q.also.confirmed, r.confirmed) \in BOOLEAN
      BY <2>1, <2>3, <2>4, GivenColumn
    <2>10. /\ Given(q.also.born, r.born) \in 0..MaxTime
           /\ q.also.born = None => Given(q.also.born, r.born) = r.born
      <3> DEFINE S == 0..MaxTime
      <3>1. q.also.born \in S \cup {None} /\ r.born \in S /\ Null \notin S
        BY <2>1, <2>3, <2>4
      <3> HIDE DEF S
      <3>2. /\ Given(q.also.born, r.born) \in S
            /\ q.also.born = None => Given(q.also.born, r.born) = r.born
        BY <3>1, GivenColumn
      <3> QED
        BY <3>2 DEF S
    <2>11. /\ Given(q.phone, r.phone) \in Phone \cup {None}
           /\ q.phone = None => Given(q.phone, r.phone) = r.phone
      BY <2>1, <2>2, GivenEmpty
    <2>12. /\ Given(q.name, r.name) \in UserName \cup {None}
           /\ Given(q.also.login, r.login) \in (1..3) \cup {None}
      BY <2>1, <2>2, <2>3, GivenEmpty
    <2>13. /\ Given(q.also.code, r.code) \in Code \cup {None}
           /\ Given(q.also.codeDelete, r.codeDelete) \in Code \cup {None}
           /\ Given(q.also.codeEmail, r.codeEmail) \in Code \cup {None}
      BY <2>1, <2>3, GivenEmpty
    <2>14. new \in Row
      BY <1>3, <2>6, <2>7, <2>8, <2>9, <2>10, <2>11, <2>12, <2>13 DEF Rewritten, Row
    <2>15. q.also = NoColumns =>
             q.also.state = None /\ q.also.verified = None /\ q.also.born = None
      BY DEF NoColumns
    <2> QED
      BY <1>3, <2>5, <2>6, <2>7, <2>8, <2>10, <2>11, <2>14, <2>15 DEF RowOK
  <1> QED
    BY <1>2, <1>3

LEMMA EditingTypes ==
  ASSUME TypeInv, NEW c \in Call, Editing(c)
  PROVE  TypeInv'
  <1>0. /\ CallsOK /\ call[c] \in CallRow /\ CallOK(call[c])
    BY DEF TypeInv, CallsOK
  <1> USE DEF Label
  <1>1. ASSUME NEW op \in {"update_profile", "update_info"}, NEW same,
               CheckProfileName(c, op, same)
        PROVE  TypeInv'
    <2>1. CASE End(c)
      BY <1>0, <1>1, <2>1, EndStep, QuietStep DEF CheckProfileName
    <2>2. CASE call' = [call EXCEPT ![c].pc = "profile", ![c].found = req(c).id]
      <3>1. req(c).id \in Id
        BY <1>0, <1>1, RequestAssumption DEF CheckProfileName, CallOK, pc, req
      <3>2. CallsOK'
        BY <1>0, <1>1, <2>2, <3>1, GotoStep DEF CheckProfileName
      <3> QED
        BY <1>1, <3>2, QuietStep DEF CheckProfileName
    <2> QED
      BY <1>1, <2>1, <2>2 DEF CheckProfileName
  <1>2. CASE UpdateProfile(c)
    BY <1>2, <1>1 DEF UpdateProfile
  <1>3. CASE UpdateInfo(c)
    BY <1>3, <1>1 DEF UpdateInfo
  <1>4. CASE UpdateProfileComplete(c)
    BY <1>4, Rows, FindStep DEF UpdateProfileComplete
  <1>5. CASE WriteProfile(c)
    <2> DEFINE q == req(c)
               row == Rewritten(Found(c), q)
    <2>1. Update(c, "profile", row) /\ q.email # Null
      BY <1>5 DEF WriteProfile
    <2>2. call[c].found \in Id /\ q \in Request
      BY <1>0, <2>1 DEF Update, CallOK, pc, req
    <2>3. RowOK(row)
      BY <2>1, <2>2, FoundRow, RewrittenRow
    <2>4. UsersOK' /\ CallsOK'
      BY <2>1, <2>3, UpdateStep
    <2>5. since' \in [Id -> 0..MaxTime]
      BY <1>5, <2>2 DEF WriteProfile, TypeInv, Rest
    <2>6. overridden' \subseteq profiled' /\ profiled' \subseteq Id
      BY <1>5, <2>2 DEF WriteProfile, TypeInv, Rest
    <2> QED
      BY <1>5, <2>4, <2>5, <2>6 DEF WriteProfile, TypeInv, Rest, exits
  <1>6. CASE ChangeEmail(c)
    BY <1>6, Rows, FindStep DEF ChangeEmail
  <1>7. CASE CheckNewEmail(c)
    <2>1. CASE End(c)
      BY <1>0, <1>7, <2>1, EndStep, QuietStep DEF CheckNewEmail
    <2>2. CASE Goto(c, "email changes")
      <3>1. call[c].found \in Id /\ req(c).op = "change_email"
        BY <1>0, <1>7 DEF CheckNewEmail, CallOK, pc, req
      <3>2. CallsOK'
        BY <1>0, <1>7, <2>2, <3>1, GotoStep DEF CheckNewEmail
      <3> QED
        BY <1>7, <3>2, QuietStep DEF CheckNewEmail
    <2> QED
      BY <1>7, <2>1, <2>2 DEF CheckNewEmail
  <1>8. CASE StoreEmail(c)
    <2>1. Update(c, "email changes",
                 [Found(c) EXCEPT !.email = req(c).email, !.confirmed = FALSE])
      BY <1>8 DEF StoreEmail
    <2>2. call[c].found \in Id /\ req(c) \in Request /\ req(c).op = "change_email"
      BY <1>0, <2>1 DEF Update, CallOK, pc, req
    <2>3. req(c).email \in Address
      BY <2>2, RequestAssumption
    <2>4. RowOK([Found(c) EXCEPT !.email = req(c).email, !.confirmed = FALSE])
      BY <2>2, <2>3, FoundRow DEF RowOK, Row
    <2>5. UsersOK' /\ CallsOK'
      BY <2>1, <2>4, UpdateStep
    <2> QED
      BY <1>0, <1>8, <2>2, <2>5 DEF StoreEmail, TypeInv, Rest, exits, CallRow
  <1> QED
    BY <1>2, <1>3, <1>4, <1>5, <1>6, <1>7, <1>8 DEF Editing

LEMMA DeletingTypes ==
  ASSUME TypeInv, NEW c \in Call, Deleting(c)
  PROVE  TypeInv'
  <1>0. /\ CallsOK /\ call[c] \in CallRow /\ CallOK(call[c])
    BY DEF TypeInv, CallsOK
  <1> USE DEF Label
  <1>1. CASE DeleteUser(c)
    BY <1>1, Rows, FindStep DEF DeleteUser
  <1>2. CASE VerifyCallBackDelAccount(c)
    <2>1. PICK right \in BOOLEAN :
            Find(c, "verify_callback_delete", IF right THEN Self(c) ELSE {}, "delete")
      BY <1>2 DEF VerifyCallBackDelAccount
    <2>2. (IF right THEN Self(c) ELSE {}) \in SUBSET Id
      BY Rows
    <2> QED
      BY <2>1, <2>2, FindStep
  <1>3. CASE ConfirmDelete(c)
    BY <1>3, Rows, FindStep DEF ConfirmDelete
  <1>4. CASE ResendLink(c)
    BY <1>4, Rows, FindStep DEF ResendLink
  <1>5. CASE StoreDeleteCode(c)
    <2>1. PICK k \in Code : Update(c, "codeDelete", [Found(c) EXCEPT !.codeDelete = k])
      BY <1>5 DEF StoreDeleteCode
    <2>2. call[c].found \in Id => RowOK([Found(c) EXCEPT !.codeDelete = k])
      BY FoundRow DEF RowOK, Row
    <2> QED
      BY <1>5, <2>1, <2>2, PlainUpdateStep DEF StoreDeleteCode
  <1>6. CASE VerifyDelAccount(c)
    BY <1>6, Rows, FindStep DEF VerifyDelAccount
  <1>7. CASE DeleteKeys(c)
    <2>1. CallsOK'
      BY <1>0, <1>7, GotoStep DEF DeleteKeys, CallOK, pc
    <2> QED
      BY <1>7, <2>1 DEF DeleteKeys, TypeInv, UsersOK, RowOK, Rest, claims, times
  <1>8. CASE MarkDeleted(c)
    <2>1. CallsOK'
      BY <1>0, <1>8, GotoStep, EndStep DEF MarkDeleted, CallOK, pc
    <2>2. UsersOK'
      BY <1>8, DeletedRow DEF MarkDeleted, TypeInv, UsersOK, RowOK
    <2> QED
      BY <1>8, <2>1, <2>2 DEF MarkDeleted, TypeInv, Rest, claims, times, exits
  <1>9. CASE DeleteCups(c)
    <2>1. CallsOK'
      BY <1>0, <1>9, EndStep DEF DeleteCups
    <2> QED
      BY <1>9, <2>1 DEF DeleteCups, TypeInv, UsersOK, RowOK, Rest, claims, times, exits
  <1>10. CASE WorkerRunDeleteAccount(c)
    <2> DEFINE old == {i \in Live : ~user[i].confirmed /\ Expired(user[i])}
    <2>1. old \in SUBSET Id
      BY DEF Live
    <2>2. CASE End(c)
      BY <1>0, <1>10, <2>1, <2>2, EndStep
      DEF WorkerRunDeleteAccount, TypeInv, UsersOK, RowOK, Rest, tables, claims, exits
    <2>3. CASE call' = [call EXCEPT ![c].pc = "expired", ![c].batch = old]
      <3> DEFINE x == [call[c] EXCEPT !.pc = "expired", !.batch = old]
      <3>1. call' = [call EXCEPT ![c] = x]
        BY <1>0, <2>3 DEF CallsOK
      <3>2. CallOK(x)
        BY <1>0, <1>10, <2>1 DEF WorkerRunDeleteAccount, CallOK, CallRow, pc
      <3>3. CallsOK'
        BY <1>0, <3>1, <3>2, CallStep
      <3> QED
        BY <1>10, <2>1, <3>3
        DEF WorkerRunDeleteAccount, TypeInv, UsersOK, RowOK, Rest, tables, claims, exits
    <2> QED
      BY <1>10, <2>2, <2>3 DEF WorkerRunDeleteAccount
  <1>11. CASE DeleteExpired(c)
    <2>1. CallsOK'
      BY <1>0, <1>11, EndStep DEF DeleteExpired
    <2>2. UsersOK'
      BY <1>11, DeletedRow DEF DeleteExpired, TypeInv, UsersOK, RowOK
    <2> QED
      BY <1>11, <2>1, <2>2 DEF DeleteExpired, TypeInv, Rest, claims, times, exits
  <1> QED
    BY <1>1, <1>2, <1>3, <1>4, <1>5, <1>6, <1>7, <1>8, <1>9, <1>10, <1>11 DEF Deleting

LEMMA TypeNext == TypeInv /\ [Next]_vars => TypeInv'
  <1> SUFFICES ASSUME TypeInv, [Next]_vars PROVE TypeInv'
    OBVIOUS
  <1>0. CallsOK
    BY DEF TypeInv
  <1>1. ASSUME NEW c \in Call, NEW q \in Request, Receive(c, q) PROVE TypeInv'
    <2> DEFINE x == [pc |-> "start", req |-> q, found |-> None,
                     batch |-> {}, known |-> Verified]
    <2>1. CallOK(x)
      BY DEF CallOK, CallRow, Label, Verified, Live
    <2>2. CallsOK'
      BY <1>0, <1>1, <2>1, CallStep DEF Receive
    <2> QED
      BY <1>1, <2>2, QuietStep DEF Receive
  <1>2. ASSUME NEW c \in Call, Stop(c) PROVE TypeInv'
    <2>1. CallsOK'
      BY <1>0, <1>2, EndStep DEF Stop
    <2>2. interrupted' \subseteq Id
      BY <1>0, <1>2 DEF Stop, TypeInv, Rest, CallsOK, CallOK, pc
    <2> QED
      BY <1>2, <2>1, <2>2 DEF Stop, TypeInv, UsersOK, RowOK, Rest, tables, claims, times
  <1>3. ASSUME NEW i \in Id, AddKey(i) PROVE TypeInv'
    BY <1>3 DEF AddKey, TypeInv, UsersOK, RowOK, CallsOK, CallOK, Rest, claims, times
  <1>4. ASSUME NEW i \in Id, JoinCup(i) PROVE TypeInv'
    BY <1>4 DEF JoinCup, TypeInv, UsersOK, RowOK, CallsOK, CallOK, Rest, claims, times, exits
  <1>5. CASE Tick
    <2>1. clock' \in 0..MaxTime
      BY <1>5, TimeAssumption DEF Tick, TypeInv, Rest
    <2>2. CallsOK'
      BY <1>0, <1>5 DEF Tick, CallsOK, CallOK
    <2>3. UsersOK'
      BY <1>5 DEF Tick, TypeInv, UsersOK, RowOK, tables
    <2> QED
      BY <1>5, <2>1, <2>2, <2>3 DEF Tick, TypeInv, Rest, tables, claims, times, exits
  <1>6. CASE UNCHANGED vars
    BY <1>6
    DEF vars, TypeInv, UsersOK, RowOK, CallsOK, CallOK, Rest, tables, claims, times, exits
  <1> QED
    BY <1>1, <1>2, <1>3, <1>4, <1>5, <1>6, RegisteringTypes, VerifyingTypes, EditingTypes,
       DeletingTypes DEF Next

LEMMA AlwaysTypeInv == Spec => []TypeInv
  BY TypeInit, TypeNext, PTL DEF Spec

-----------------------------------------------------------------------------
(***************************************************************************)
(* Who keeps a phone number or an address.                                 *)
(*                                                                         *)
(* An account that was verified when a request arrived stays verified,     *)
(* unless a body takes that back and makes it one of the profiled ones.  A *)
(* request that has passed a check therefore carries a value none of those *)
(* accounts had, nor can have got since without being among the changed or *)
(* profiled ones, and the row it writes inherits this.                     *)
(***************************************************************************)

Firm == {i \in Id : user[i].state # "absent" /\ (user[i].verified \/ i \in profiled)}

\* Those whose e-mail and phone number are the ones they registered with.
Original == Id \ (changed \cup profiled)

CheckedPhone(x) ==
  x.pc \in {"hold", "insert"} =>
    \A j \in (x.known \cap Live) \ profiled : user[j].phone # x.req.phone

CheckedEmail(x) ==
  x.pc \in {"phone", "hold", "insert", "email changes"} =>
    \A j \in x.known \cap Live \cap Original :
      \/ user[j].email # Lower(x.req.email)
      \/ x.pc = "email changes" /\ j = x.found

KnownAreFirm ==
  /\ \A c \in Call : call[c].known \subseteq Firm
  /\ \A i \in Id : late[i].phone \subseteq Firm /\ late[i].email \subseteq Firm

\* Registration stores addresses in lower case.
LowerOriginal ==
  \A j \in Live \cap Original : user[j].email = Lower(user[j].email)

\* Only a profile handler empties the column of a phone number.
Reachable ==
  \A i \in Id \ profiled : user[i].state # "absent" => user[i].phone \in Phone

ClaimInv ==
  /\ KnownAreFirm
  /\ Reachable
  /\ LowerOriginal
  /\ \A c \in Call : CheckedPhone(call[c]) /\ CheckedEmail(call[c])
  /\ PhoneKept
  /\ EmailKept

LEMMA ClaimInit == Init => ClaimInv
  BY DEF Init, ClaimInv, KnownAreFirm, Reachable, LowerOriginal, CheckedPhone, CheckedEmail, PhoneKept,
     EmailKept, Live, Original, Idle

\* What every step does except the three that make a claim: no row gets a new
\* phone number or address unless it is profiled, and who was verified stays so, with
\* the same exception.
RowsKept ==
  /\ \A i \in Id :
       /\ user'[i].state = "absent" <=> user[i].state = "absent"
       /\ \/ user'[i].state = user[i].state
          \/ user[i].state = "live" /\ user'[i].state = "deleted"
          \/ i \in profiled'
       /\ user[i].verified => user'[i].verified \/ i \in profiled'
       /\ i \notin profiled' => user'[i].phone = user[i].phone /\ user'[i].email = user[i].email
  /\ profiled \subseteq profiled'
  /\ changed \subseteq changed'
  /\ UNCHANGED late

\* What every request has after the step was checked against the tables before it.
CallsKept ==
  \A c \in Call :
    call'[c].known \subseteq Firm /\ CheckedPhone(call'[c]) /\ CheckedEmail(call'[c])

LEMMA KeptStep ==
  ASSUME TypeInv, ClaimInv, RowsKept, CallsKept
  PROVE  ClaimInv'
  <1>1. /\ Firm \subseteq Firm' /\ Live' \ profiled' \subseteq Live \ profiled
        /\ Original' \subseteq Original /\ Original' \cap profiled' = {}
        /\ \A i \in Id \ profiled' :
             user'[i].phone = user[i].phone /\ user'[i].email = user[i].email
    BY DEF RowsKept, Firm, Live, Original
  <1>2. KnownAreFirm' /\ Reachable'
    BY <1>1 DEF ClaimInv, KnownAreFirm, Reachable, RowsKept, CallsKept
  <1>3. LowerOriginal'
    BY <1>1 DEF ClaimInv, LowerOriginal, Original
  <1>4. ASSUME NEW c \in Call
        PROVE  CheckedPhone(call[c])' /\ CheckedEmail(call[c])'
    <2>1. CheckedPhone(call[c])'
      BY <1>1 DEF CallsKept, CheckedPhone, RowsKept, Live
    <2>2. CheckedEmail(call[c])'
      BY <1>1 DEF CallsKept, CheckedEmail, Original
    <2> QED
      BY <2>1, <2>2
  <1>5. PhoneKept' /\ EmailKept'
    BY <1>1 DEF ClaimInv, PhoneKept, EmailKept, RowsKept, Live
  <1> QED
    BY <1>2, <1>3, <1>4, <1>5 DEF ClaimInv

\* The record of one request changes, the tables do not matter.
LEMMA OneCall ==
  ASSUME TypeInv, ClaimInv, NEW c \in Call, NEW x, call' = [call EXCEPT ![c] = x],
         x.known \subseteq Firm, CheckedPhone(x), CheckedEmail(x)
  PROVE  CallsKept
  BY DEF CallsKept, ClaimInv, KnownAreFirm, TypeInv, CallsOK

LEMMA EndKeeps ==
  ASSUME TypeInv, ClaimInv, NEW c \in Call, End(c)
  PROVE  CallsKept
  <1>1. Idle.known \subseteq Firm /\ CheckedPhone(Idle) /\ CheckedEmail(Idle)
    BY DEF Idle, CheckedPhone, CheckedEmail
  <1> QED
    BY <1>1, OneCall DEF End

\* A request goes on to where nothing has been checked.
LEMMA GotoKeeps ==
  ASSUME TypeInv, ClaimInv, NEW c \in Call,
         NEW label \in Label \ {"phone", "hold", "insert", "email changes"}, NEW i,
         \/ call' = [call EXCEPT ![c].pc = label, ![c].found = i]
         \/ Goto(c, label)
  PROVE  CallsKept
  <1>1. call'[c].pc = label /\ call'[c].known = call[c].known
    BY DEF TypeInv, CallsOK, CallRow, Goto
  <1>2. \A d \in Call : d # c => call'[d] = call[d]
    BY DEF TypeInv, CallsOK, Goto
  <1> QED
    BY <1>1, <1>2 DEF CallsKept, ClaimInv, KnownAreFirm, CheckedPhone, CheckedEmail

\* The tables are not touched.
LEMMA QuietKeeps ==
  ASSUME TypeInv, ClaimInv, CallsKept, UNCHANGED <<user, claims, changed>>
  PROVE  ClaimInv'
  <1>1. RowsKept
    BY DEF RowsKept, claims
  <1> QED
    BY <1>1, KeptStep

LEMMA FindKeeps ==
  ASSUME TypeInv, ClaimInv, NEW c \in Call, NEW op, NEW rows,
         NEW label \in Label \ {"phone", "hold", "insert", "email changes"},
         Find(c, op, rows, label)
  PROVE  ClaimInv'
  <1>1. CallsKept
    BY EndKeeps, GotoKeeps DEF Find
  <1> QED
    BY <1>1, QuietKeeps DEF Find, tables, times

\* An update of columns other than these.
LEMMA UpdateKeeps ==
  ASSUME TypeInv, ClaimInv, NEW c \in Call, NEW label, NEW row,
         Update(c, label, row),
         call[c].found \in Id =>
           /\ row.state = Found(c).state
           /\ Found(c).verified => row.verified
           /\ row.phone = Found(c).phone /\ row.email = Found(c).email,
         UNCHANGED <<claims, changed>>
  PROVE  ClaimInv'
  <1>1. CallsKept
    BY EndKeeps DEF Update
  <1>2. RowsKept
    BY DEF RowsKept, Update, Found, claims, TypeInv, UsersOK
  <1> QED
    BY <1>1, <1>2, KeptStep

\* Of those who were verified when a request arrived, the live ones still are.
LEMMA KnownLive ==
  ASSUME TypeInv, ClaimInv, NEW c \in Call
  PROVE  /\ call[c].known \subseteq Firm
         /\ (call[c].known \cap Live) \ profiled \subseteq Verified
         /\ call[c].known \cap Live \cap Original \subseteq Verified
  BY DEF ClaimInv, KnownAreFirm, Firm, Verified, Live, Original

\* A request that goes on has the label, and what it had before.
LEMMA GotoHas ==
  ASSUME TypeInv, NEW c \in Call, NEW label, Goto(c, label)
  PROVE  /\ call'[c].pc = label /\ call'[c].known = call[c].known
         /\ call'[c].req = call[c].req /\ call'[c].found = call[c].found
         /\ \A d \in Call : d # c => call'[d] = call[d]
  BY DEF TypeInv, CallsOK, CallRow, Goto

LEMMA RegisteringKeeps ==
  ASSUME TypeInv, ClaimInv, NEW c \in Call, Registering(c)
  PROVE  ClaimInv'
  <1>0. /\ CallsOK /\ call[c] \in CallRow /\ CallOK(call[c]) /\ UsersOK
        /\ CheckedPhone(call[c]) /\ CheckedEmail(call[c])
    BY DEF TypeInv, CallsOK, ClaimInv
  <1>1. CASE CheckName(c)
    <2>1. CallsKept
      BY <1>1, EndKeeps, GotoKeeps DEF CheckName, Check, Label
    <2> QED
      BY <1>1, <2>1, QuietKeeps DEF CheckName, Check, tables, times
  <1>2. CASE CheckEmail(c)
    <2>1. CASE End(c)
      BY <1>2, <2>1, EndKeeps, QuietKeeps DEF CheckEmail, Check, tables, times
    <2>2. CASE ~End(c)
      <3>1. /\ Goto(c, "phone")
            /\ \A i \in Verified : user[i].email # Lower(req(c).email)
        BY <1>2, <2>2 DEF CheckEmail, Check
      <3>2. /\ call'[c].pc = "phone" /\ call'[c].known = call[c].known
            /\ call'[c].req = req(c)
            /\ \A d \in Call : d # c => call'[d] = call[d]
        BY <3>1, GotoHas DEF req
      <3>3. CheckedEmail(call'[c])
        BY <3>1, <3>2, KnownLive DEF CheckedEmail
      <3>4. CheckedPhone(call'[c])
        BY <3>2 DEF CheckedPhone
      <3>5. CallsKept
        BY <3>2, <3>3, <3>4, KnownLive DEF CallsKept, ClaimInv, KnownAreFirm
      <3> QED
        BY <1>2, <3>5, QuietKeeps DEF CheckEmail, Check, tables, times
    <2> QED
      BY <2>1, <2>2
  <1>3. CASE CheckPhone(c)
    <2>1. CASE End(c)
      BY <1>3, <2>1, EndKeeps, QuietKeeps DEF CheckPhone, Check, tables, times
    <2>2. CASE ~End(c)
      <3>1. /\ Goto(c, "hold") /\ pc(c) = "phone"
            /\ \A i \in Verified : user[i].phone # req(c).phone
        BY <1>3, <2>2 DEF CheckPhone, Check, PhoneTaken
      <3>2. CheckedPhone(call'[c])
        BY <3>1, GotoHas, KnownLive DEF CheckedPhone, req
      <3>3. CheckedEmail(call'[c])
        BY <1>0, <3>1, GotoHas DEF CheckedEmail, pc
      <3>4. CallsKept
        BY <3>1, <3>2, <3>3, GotoHas, KnownLive DEF CallsKept, ClaimInv, KnownAreFirm
      <3> QED
        BY <1>3, <3>4, QuietKeeps DEF CheckPhone, Check, tables, times
    <2> QED
      BY <2>1, <2>2
  <1>4. CASE FindHold(c)
    <2>1. CASE Goto(c, "insert")
      <3>1. CheckedPhone(call'[c]) /\ CheckedEmail(call'[c])
        BY <1>0, <1>4, <2>1, GotoHas DEF FindHold, CheckedPhone, CheckedEmail, pc
      <3>2. CallsKept
        BY <2>1, <3>1, GotoHas, KnownLive DEF CallsKept, ClaimInv, KnownAreFirm
      <3> QED
        BY <1>4, <3>2, QuietKeeps DEF FindHold, tables, times
    <2>2. CASE \E i \in Id : call' = [call EXCEPT ![c].pc = "reuse", ![c].found = i]
      <3>1. CallsKept
        BY <2>2, GotoKeeps DEF Label
      <3> QED
        BY <1>4, <3>1, QuietKeeps DEF FindHold, tables, times
    <2> QED
      BY <1>4, <2>1, <2>2 DEF FindHold, Live
  <1>5. CASE Insert(c)
    <2> DEFINE K == call[c].known
    <2>1. PICK i \in Id, k \in Code :
            /\ user[i].state = "absent"
            /\ user' = [user EXCEPT ![i] =
                 [state |-> "live", name |-> Trim(req(c).name), email |-> Lower(req(c).email),
                  phone |-> req(c).phone, login |-> req(c).login, verified |-> FALSE,
                  confirmed |-> Sso(req(c)), code |-> k, codeDelete |-> None,
                  codeEmail |-> None, born |-> clock]]
            /\ late' = [late EXCEPT ![i] = [phone |-> K, email |-> K]]
      BY <1>5 DEF Insert
    <2>2. /\ i \notin Firm /\ i \notin Live
          /\ user'[i].email = Lower(req(c).email) /\ user'[i].phone = req(c).phone
          /\ \A j \in Id \ {i} : user'[j] = user[j] /\ late'[j] = late[j]
          /\ late'[i].phone = K /\ late'[i].email = K
      BY <1>0, <2>1 DEF Firm, Live, UsersOK, TypeInv, Rest
    <2>3. /\ Firm \subseteq Firm' /\ Live' \subseteq Live \cup {i}
          /\ Original' = Original /\ UNCHANGED <<profiled, changed>>
      BY <1>5, <2>2 DEF Firm, Live, Original, Insert
    <2>4. K \subseteq Firm /\ \A d \in Call : call[d].known \subseteq Firm
      BY DEF ClaimInv, KnownAreFirm
    <2>5. /\ pc(c) = "insert"
          /\ call'[c] = Idle /\ \A d \in Call : d # c => call'[d] = call[d]
      BY <1>0, <1>5 DEF Insert, End, CallsOK
    <2>6. KnownAreFirm'
      BY <2>2, <2>3, <2>4, <2>5 DEF ClaimInv, KnownAreFirm, Idle
    <2>7. LowerOriginal'
      <3>1. SUFFICES ASSUME NEW j \in (Live \cap Original)'
                     PROVE  user'[j].email = Lower(user'[j].email)
        BY DEF LowerOriginal, Lower
      <3>2. CASE j = i
        BY <2>2, <3>2 DEF Lower
      <3>3. CASE j # i
        <4>1. j \in Live \cap Original /\ j \in Id
          BY <2>3, <3>1, <3>3 DEF Live
        <4> QED
          BY <2>2, <3>3, <4>1 DEF ClaimInv, LowerOriginal
      <3> QED
        BY <3>2, <3>3
    <2>8. ASSUME NEW d \in Call PROVE CheckedPhone(call[d])' /\ CheckedEmail(call[d])'
      <3>1. CASE d = c
        <4>1. call'[d].pc = "idle"
          BY <2>5, <3>1 DEF Idle
        <4> QED
          BY <4>1 DEF CheckedPhone, CheckedEmail
      <3>2. CASE d # c
        <4>1. /\ call'[d] = call[d] /\ CheckedPhone(call[d]) /\ CheckedEmail(call[d])
              /\ call[d].known \subseteq Firm
          BY <2>4, <2>5, <3>2 DEF ClaimInv
        <4>2. \A j \in call[d].known \cap Live' :
                /\ j \in Live /\ user'[j] = user[j]
                /\ j \in Original' => j \in Original
          BY <2>2, <2>3, <4>1 DEF Firm
        <4>3. CheckedPhone(call[d])'
          BY <2>3, <4>1, <4>2 DEF CheckedPhone
        <4>4. CheckedEmail(call[d])'
          BY <4>1, <4>2 DEF CheckedEmail
        <4> QED
          BY <4>3, <4>4
      <3> QED
        BY <3>1, <3>2
    <2>9. PhoneKept'
      <3>1. \A j \in (K \cap Live) \ profiled : user[j].phone # req(c).phone
        BY <1>0, <2>5 DEF CheckedPhone, pc, req
      <3>2. \A j \in Id : i \notin late[j].phone
        BY <2>2 DEF ClaimInv, KnownAreFirm
      <3>3. SUFFICES ASSUME NEW a \in Id, NEW b \in Id, a \in (Live \ profiled)',
                            b \in (Live \ profiled)', a # b, b \in late'[a].phone
                     PROVE  user'[a].phone # user'[b].phone
        BY DEF PhoneKept, Live
      <3>4. CASE a = i
        BY <2>2, <2>3, <3>1, <3>3, <3>4
      <3>5. CASE a # i
        <4>1. b # i
          BY <2>2, <3>2, <3>3, <3>5
        <4>2. a \in Live \ profiled /\ b \in Live \ profiled
          BY <2>3, <3>3, <3>5, <4>1
        <4> QED
          BY <2>2, <3>3, <3>5, <4>1, <4>2 DEF ClaimInv, PhoneKept
      <3> QED
        BY <3>4, <3>5
    <2>10. EmailKept'
      <3>1. \A j \in K \cap Live \cap Original : user[j].email # Lower(req(c).email)
        BY <1>0, <2>5 DEF CheckedEmail, pc, req
      <3>2. \A j \in Id : i \notin late[j].email
        BY <2>2 DEF ClaimInv, KnownAreFirm
      <3>3. SUFFICES ASSUME NEW a \in Id, NEW b \in Id, a \in (Live \ profiled)',
                            b \in (Live \ profiled)', a # b, b \in late'[a].email,
                            b \notin changed'
                     PROVE  user'[a].email # user'[b].email
        BY DEF EmailKept, Live
      <3>4. CASE a = i
        BY <2>2, <2>3, <3>1, <3>3, <3>4 DEF Original
      <3>5. CASE a # i
        <4>1. b # i
          BY <2>2, <3>2, <3>3, <3>5
        <4>2. a \in Live \ profiled /\ b \in Live \ profiled
          BY <2>3, <3>3, <3>5, <4>1
        <4> QED
          BY <2>2, <2>3, <3>3, <3>5, <4>1, <4>2 DEF ClaimInv, EmailKept
      <3> QED
        BY <3>4, <3>5
    <2>11. Reachable'
      <3>1. req(c).phone \in Phone
        BY <1>0, <1>5, RequestAssumption DEF Insert, CallOK, pc, req
      <3> QED
        BY <2>2, <2>3, <3>1 DEF ClaimInv, Reachable
    <2> QED
      BY <2>6, <2>7, <2>8, <2>9, <2>10, <2>11 DEF ClaimInv
  <1>6. CASE Reuse(c)
    <2>1. PICK k \in Code : Update(c, "reuse", Written(Found(c), req(c), k))
      BY <1>6 DEF Reuse
    <2>2. call[c].found \in Id => Found(c) \in Row
      BY FoundRow
    <2>3. call[c].found \in Id =>
            /\ Written(Found(c), req(c), k).state = Found(c).state
            /\ Found(c).verified => Written(Found(c), req(c), k).verified
            /\ Written(Found(c), req(c), k).phone = Found(c).phone
            /\ Written(Found(c), req(c), k).email = Found(c).email
      BY <2>2 DEF Written, Row
    <2> QED
      BY <1>6, <2>1, <2>3, UpdateKeeps DEF Reuse, times
  <1> QED
    BY <1>1, <1>2, <1>3, <1>4, <1>5, <1>6 DEF Registering

LEMMA VerifyingKeeps ==
  ASSUME TypeInv, ClaimInv, NEW c \in Call, Verifying(c)
  PROVE  ClaimInv'
  <1> USE DEF Label
  <1>1. call[c].found \in Id => Found(c) \in Row
    BY FoundRow
  <1>2. CASE VerifyCode(c)
    BY <1>2, FindKeeps DEF VerifyCode
  <1>3. CASE VerifyCodeByEmail(c)
    BY <1>3, FindKeeps DEF VerifyCodeByEmail
  <1>4. CASE VerifyCodeByPhone(c)
    BY <1>4, FindKeeps DEF VerifyCodeByPhone
  <1>5. CASE MarkVerified(c)
    BY <1>1, <1>5, UpdateKeeps DEF MarkVerified, Row, times
  <1>6. CASE ResendCode(c)
    BY <1>6, FindKeeps DEF ResendCode
  <1>7. CASE ResendCodeEmail(c)
    BY <1>7, FindKeeps DEF ResendCodeEmail
  <1>8. CASE ResendCodePhone(c)
    BY <1>8, FindKeeps DEF ResendCodePhone
  <1>9. ASSUME NEW op, NEW rows, Forgot(c, op, rows)
        PROVE  ClaimInv'
    <2>1. CallsKept
      BY <1>9, EndKeeps, GotoKeeps DEF Forgot
    <2> QED
      BY <1>9, <2>1, QuietKeeps DEF Forgot, tables, times
  <1>10. CASE ForgotPasswordByEmail(c)
    BY <1>10, <1>9 DEF ForgotPasswordByEmail
  <1>11. CASE ForgotPasswordByPhone(c)
    BY <1>11, <1>9 DEF ForgotPasswordByPhone
  <1>12. CASE StoreCode(c)
    BY <1>1, <1>12, UpdateKeeps DEF StoreCode, Row, times
  <1>13. CASE VerifyEmailComplete(c)
    BY <1>13, FindKeeps DEF VerifyEmailComplete
  <1>14. CASE ResendLinkVerifyEmail(c)
    BY <1>14, FindKeeps DEF ResendLinkVerifyEmail
  <1>15. CASE StoreEmailCode(c)
    BY <1>1, <1>15, UpdateKeeps DEF StoreEmailCode, Row, times
  <1>16. CASE VerifyEmail(c)
    BY <1>16, FindKeeps DEF VerifyEmail
  <1>17. CASE Confirm(c)
    BY <1>1, <1>17, UpdateKeeps DEF Confirm, Row, times
  <1> QED
    BY <1>2, <1>3, <1>4, <1>5, <1>6, <1>7, <1>8, <1>10, <1>11, <1>12, <1>13, <1>14, <1>15,
       <1>16, <1>17 DEF Verifying

\* The new address was checked against those who were verified when the request
\* arrived; it is none of theirs in lower case, so none of theirs as it was typed.
LEMMA StoreEmailKeeps ==
  ASSUME TypeInv, ClaimInv, NEW c \in Call, StoreEmail(c)
  PROVE  ClaimInv'
  <1> DEFINE K == call[c].known
             i == call[c].found
             new == req(c).email
  <1>1. /\ pc(c) = "email changes" /\ i \in Id
        /\ user[i] \in Row /\ user \in [Id -> Row]
        /\ call[c] \in CallRow
    BY DEF StoreEmail, Update, TypeInv, CallsOK, CallOK, UsersOK, pc
  <1>2. /\ user' = [user EXCEPT ![i] = [user[i] EXCEPT !.email = new, !.confirmed = FALSE]]
        /\ late' = [late EXCEPT ![i].email = K]
        /\ changed' = changed \cup {i} /\ profiled' = profiled
        /\ End(c)
    BY DEF StoreEmail, Update, Found
  <1>3. /\ user'[i].email = new
        /\ \A j \in Id : /\ user'[j].state = user[j].state
                         /\ user'[j].verified = user[j].verified
                         /\ user'[j].phone = user[j].phone
                         /\ j # i => user'[j].email = user[j].email
    BY <1>1, <1>2 DEF Row
  <1>4. /\ late'[i].email = K
        /\ \A j \in Id : /\ late'[j].phone = late[j].phone
                         /\ j # i => late'[j].email = late[j].email
    <2>1. late \in [Id -> [phone : SUBSET Id, email : SUBSET Id]]
      BY DEF TypeInv, Rest
    <2>2. late'[i] = [late[i] EXCEPT !.email = K] /\ \A j \in Id \ {i} : late'[j] = late[j]
      BY <1>1, <1>2, <2>1
    <2> HIDE DEF i, K
    <2>3. late'[i].email = K /\ late'[i].phone = late[i].phone
      BY <1>1, <2>1, <2>2
    <2> QED
      BY <2>2, <2>3
  <1>5. /\ Firm' = Firm /\ Live' = Live /\ Original' = Original \ {i}
        /\ Original' \subseteq Id
    BY <1>2, <1>3 DEF Firm, Live, Original
  <1>6. call'[c] = Idle /\ \A d \in Call : d # c => call'[d] = call[d]
    BY <1>2 DEF End, TypeInv, CallsOK
  <1>7. KnownAreFirm' /\ Reachable'
    BY <1>2, <1>3, <1>4, <1>5, <1>6 DEF ClaimInv, KnownAreFirm, Reachable, Idle
  <1>8. LowerOriginal'
    BY <1>3, <1>5 DEF ClaimInv, LowerOriginal
  <1>9. ASSUME NEW d \in Call PROVE CheckedPhone(call[d])' /\ CheckedEmail(call[d])'
    <2>1. CASE d = c
      <3>1. call'[d].pc = "idle"
        BY <1>6, <2>1 DEF Idle
      <3> QED
        BY <3>1 DEF CheckedPhone, CheckedEmail
    <2>2. CASE d # c
      <3>1. call'[d] = call[d] /\ CheckedPhone(call[d]) /\ CheckedEmail(call[d])
        BY <1>6, <2>2 DEF ClaimInv
      <3>2. CheckedPhone(call[d])'
        <4>1. \A j \in Live : user'[j].phone = user[j].phone
          BY <1>3 DEF Live
        <4> QED
          BY <1>2, <1>5, <3>1, <4>1 DEF CheckedPhone
      <3>3. CheckedEmail(call[d])'
        BY <1>3, <1>5, <3>1 DEF CheckedEmail
      <3> QED
        BY <3>2, <3>3
    <2> QED
      BY <2>1, <2>2
  <1>10. PhoneKept'
    BY <1>2, <1>3, <1>4, <1>5 DEF ClaimInv, PhoneKept, Live
  <1>11. EmailKept'
    <2>1. SUFFICES ASSUME NEW a \in Id, NEW b \in Id, a \in Live \ profiled,
                          b \in Live \ profiled, a # b, b \in late'[a].email,
                          b \notin changed, b # i
                   PROVE  user'[a].email # user'[b].email
      BY <1>2, <1>5 DEF EmailKept, Live
    <2>2. CASE a = i
      <3>1. b \in K \cap Live \cap Original
        BY <1>4, <2>1, <2>2 DEF Original
      <3>2. user[b].email # Lower(new)
        BY <1>1, <2>1, <3>1 DEF ClaimInv, CheckedEmail, pc, req
      <3>3. user[b].email = Lower(user[b].email)
        BY <3>1 DEF ClaimInv, LowerOriginal
      <3> QED
        BY <1>3, <2>1, <2>2, <3>2, <3>3
    <2>3. CASE a # i
      BY <1>3, <1>4, <2>1, <2>3 DEF ClaimInv, EmailKept
    <2> QED
      BY <2>2, <2>3
  <1> QED
    BY <1>7, <1>8, <1>9, <1>10, <1>11 DEF ClaimInv

LEMMA EditingKeeps ==
  ASSUME TypeInv, ClaimInv, NEW c \in Call, Editing(c)
  PROVE  ClaimInv'
  <1> USE DEF Label
  <1>1. ASSUME NEW op, NEW same, CheckProfileName(c, op, same)
        PROVE  ClaimInv'
    <2>1. CallsKept
      BY <1>1, EndKeeps, GotoKeeps DEF CheckProfileName
    <2> QED
      BY <1>1, <2>1, QuietKeeps DEF CheckProfileName, tables, times
  <1>2. CASE UpdateProfile(c)
    BY <1>2, <1>1 DEF UpdateProfile
  <1>3. CASE UpdateInfo(c)
    BY <1>3, <1>1 DEF UpdateInfo
  <1>4. CASE UpdateProfileComplete(c)
    BY <1>4, FindKeeps DEF UpdateProfileComplete
  <1>5. CASE WriteProfile(c)
    <2> DEFINE q == req(c)
               i == call[c].found
               row == Rewritten(user[i], q)
    <2>1. /\ user' = [user EXCEPT ![i] = row] /\ End(c) /\ q.email # Null
          /\ profiled' = IF q.email # None \/ q.phone # None \/ q.also # NoColumns
                            THEN profiled \cup {i} ELSE profiled
          /\ UNCHANGED <<late, changed>>
      BY <1>5 DEF WriteProfile, Update, Found
    <2>2. i \in Id /\ q \in Request /\ user \in [Id -> Row] /\ RowOK(user[i])
      BY <1>5 DEF WriteProfile, Update, TypeInv, CallsOK, CallOK, UsersOK, pc, req
    <2>3. /\ row.state = "absent" <=> user[i].state = "absent"
          /\ i \notin profiled' =>
               /\ row.phone = user[i].phone /\ row.email = user[i].email
               /\ row.state = user[i].state /\ row.verified = user[i].verified
      BY <2>1, <2>2, RewrittenRow
    <2>4. profiled \subseteq profiled'
      BY <2>1
    <2>5. \A j \in Id : user'[j] = IF j = i THEN row ELSE user[j]
      BY <2>1, <2>2
    <2> HIDE DEF row
    <2>6. RowsKept
      BY <2>1, <2>3, <2>4, <2>5 DEF RowsKept
    <2> QED
      BY <2>1, <2>6, EndKeeps, KeptStep
  <1>6. CASE ChangeEmail(c)
    BY <1>6, FindKeeps DEF ChangeEmail
  <1>7. CASE CheckNewEmail(c)
    <2>1. CASE End(c)
      BY <1>7, <2>1, EndKeeps, QuietKeeps DEF CheckNewEmail, tables, times
    <2>2. CASE ~End(c)
      <3>1. /\ Goto(c, "email changes")
            /\ \A j \in Verified \ {call[c].found} : user[j].email # Lower(req(c).email)
        BY <1>7, <2>2 DEF CheckNewEmail, EmailTaken
      <3>2. /\ call'[c].pc = "email changes" /\ call'[c].known = call[c].known
            /\ call'[c].req = req(c) /\ call'[c].found = call[c].found
            /\ \A d \in Call : d # c => call'[d] = call[d]
        BY <3>1, GotoHas DEF req
      <3>3. CheckedEmail(call'[c])
        BY <3>1, <3>2, KnownLive DEF CheckedEmail
      <3>4. CheckedPhone(call'[c])
        BY <3>2 DEF CheckedPhone
      <3>5. CallsKept
        BY <3>2, <3>3, <3>4, KnownLive DEF CallsKept, ClaimInv, KnownAreFirm
      <3> QED
        BY <1>7, <3>5, QuietKeeps DEF CheckNewEmail, tables, times
    <2> QED
      BY <2>1, <2>2
  <1>8. CASE StoreEmail(c)
    BY <1>8, StoreEmailKeeps
  <1> QED
    BY <1>2, <1>3, <1>4, <1>5, <1>6, <1>7, <1>8 DEF Editing

LEMMA DeletingKeeps ==
  ASSUME TypeInv, ClaimInv, NEW c \in Call, Deleting(c)
  PROVE  ClaimInv'
  <1> USE DEF Label
  <1>0. user \in [Id -> Row]
    BY DEF TypeInv, UsersOK
  <1>1. CASE DeleteUser(c)
    BY <1>1, FindKeeps DEF DeleteUser
  <1>2. CASE VerifyCallBackDelAccount(c)
    BY <1>2, FindKeeps DEF VerifyCallBackDelAccount
  <1>3. CASE ConfirmDelete(c)
    BY <1>3, FindKeeps DEF ConfirmDelete
  <1>4. CASE ResendLink(c)
    BY <1>4, FindKeeps DEF ResendLink
  <1>5. CASE StoreDeleteCode(c)
    <2>1. call[c].found \in Id => Found(c) \in Row
      BY FoundRow
    <2> QED
      BY <1>5, <2>1, UpdateKeeps DEF StoreDeleteCode, Row, times
  <1>6. CASE VerifyDelAccount(c)
    BY <1>6, FindKeeps DEF VerifyDelAccount
  <1>7. CASE DeleteKeys(c)
    <2>1. CallsKept
      BY <1>7, GotoKeeps DEF DeleteKeys
    <2> QED
      BY <1>7, <2>1, QuietKeeps DEF DeleteKeys, times
  <1>8. CASE MarkDeleted(c)
    <2>1. CallsKept
      BY <1>8, EndKeeps, GotoKeeps DEF MarkDeleted
    <2>2. RowsKept
      BY <1>0, <1>8 DEF MarkDeleted, Deleted, Row, RowsKept, claims, times
    <2> QED
      BY <2>1, <2>2, KeptStep
  <1>9. CASE DeleteCups(c)
    BY <1>9, EndKeeps, QuietKeeps DEF DeleteCups, times
  <1>10. CASE WorkerRunDeleteAccount(c)
    <2>1. CASE End(c)
      BY <1>10, <2>1, EndKeeps, QuietKeeps DEF WorkerRunDeleteAccount, tables
    <2>2. ASSUME NEW old, call' = [call EXCEPT ![c].pc = "expired", ![c].batch = old]
          PROVE  ClaimInv'
      <3>1. call'[c].pc = "expired" /\ call'[c].known = call[c].known
        BY <2>2 DEF TypeInv, CallsOK, CallRow
      <3>2. \A d \in Call : d # c => call'[d] = call[d]
        BY <2>2 DEF TypeInv, CallsOK
      <3>3. CallsKept
        <4>1. \A d \in Call : /\ call'[d].known = call[d].known
                              /\ d = c \/ call'[d] = call[d]
          BY <3>1, <3>2
        <4>2. \A d \in Call : /\ call[d].known \subseteq Firm
                              /\ CheckedPhone(call[d]) /\ CheckedEmail(call[d])
          BY DEF ClaimInv, KnownAreFirm
        <4>3. CheckedPhone(call'[c]) /\ CheckedEmail(call'[c])
          BY <3>1 DEF CheckedPhone, CheckedEmail
        <4> QED
          BY <4>1, <4>2, <4>3 DEF CallsKept
      <3> QED
        BY <1>10, <3>3, QuietKeeps DEF WorkerRunDeleteAccount, tables
    <2> QED
      BY <1>10, <2>1, <2>2 DEF WorkerRunDeleteAccount
  <1>11. CASE DeleteExpired(c)
    <2>1. CallsKept
      BY <1>11, EndKeeps DEF DeleteExpired
    <2>2. \A i \in Id : /\ user[i] \in Row
                        /\ user'[i] = user[i] \/ user'[i] = Deleted(user[i])
      BY <1>0, <1>11 DEF DeleteExpired
    <2>3. /\ profiled' = profiled /\ changed' = changed /\ late' = late
      BY <1>11 DEF DeleteExpired, claims, times
    <2>4. ASSUME NEW i \in Id
          PROVE  /\ \/ user'[i].state = user[i].state
                    \/ user[i].state = "live" /\ user'[i].state = "deleted"
                 /\ user'[i].verified = user[i].verified
                 /\ user'[i].phone = user[i].phone /\ user'[i].email = user[i].email
      <3>1. CASE user'[i] = user[i]
        BY <3>1
      <3>2. CASE user'[i] = Deleted(user[i])
        <4>1. user[i] \in Row
          BY <2>2
        <4> QED
          BY <3>2, <4>1 DEF Deleted, Row
      <3> QED
        BY <2>2, <3>1, <3>2
    <2>5. RowsKept
      BY <2>3, <2>4 DEF RowsKept
    <2> QED
      BY <2>1, <2>5, KeptStep
  <1> QED
    BY <1>1, <1>2, <1>3, <1>4, <1>5, <1>6, <1>7, <1>8, <1>9, <1>10, <1>11 DEF Deleting

LEMMA ClaimNext == TypeInv /\ ClaimInv /\ [Next]_vars => ClaimInv'
  <1> SUFFICES ASSUME TypeInv, ClaimInv, [Next]_vars PROVE ClaimInv'
    OBVIOUS
  <1>1. ASSUME NEW c \in Call, NEW q \in Request, Receive(c, q) PROVE ClaimInv'
    <2> DEFINE x == [pc |-> "start", req |-> q, found |-> None,
                     batch |-> {}, known |-> Verified]
    <2>1. x.known \subseteq Firm /\ CheckedPhone(x) /\ CheckedEmail(x)
      BY DEF CheckedPhone, CheckedEmail, Verified, Live, Firm
    <2>2. CallsKept
      BY <1>1, <2>1, OneCall DEF Receive
    <2> QED
      BY <1>1, <2>2, QuietKeeps DEF Receive, tables, times
  <1>2. ASSUME NEW c \in Call, Stop(c) PROVE ClaimInv'
    BY <1>2, EndKeeps, QuietKeeps DEF Stop, tables, times
  <1>3. CASE UNCHANGED <<user, call, claims, changed>>
    <2>1. CallsKept
      BY <1>3 DEF CallsKept, ClaimInv, KnownAreFirm
    <2> QED
      BY <1>3, <2>1, QuietKeeps
  <1>4. ASSUME NEW i \in Id, AddKey(i) \/ JoinCup(i) PROVE ClaimInv'
    BY <1>3, <1>4 DEF AddKey, JoinCup, times
  <1>5. CASE Tick \/ UNCHANGED vars
    BY <1>3, <1>5 DEF Tick, vars, tables, times
  <1> QED
    BY <1>1, <1>2, <1>4, <1>5, RegisteringKeeps, VerifyingKeeps, EditingKeeps, DeletingKeeps
    DEF Next

LEMMA AlwaysClaimInv == Spec => []ClaimInv
  BY ClaimInit, ClaimNext, AlwaysTypeInv, PTL DEF Spec

\* Whatever columns the bodies of the profile handlers bring, missing or null: every
\* variable keeps its type, every account its e-mail address, and its phone number
\* unless such a body wrote it.
THEOREM AccountsTypes == Spec => []TypeOK
  <1>1. TypeInv /\ ClaimInv => TypeOK
    BY DEF TypeInv, UsersOK, CallsOK, Rest, RowOK, ClaimInv, Reachable, TypeOK
  <1> QED
    BY <1>1, AlwaysTypeInv, AlwaysClaimInv, PTL

\* Whatever requests arrive and however the statements of their handlers interleave,
\* no registration that arrives after an account was verified leads to another live
\* account with its phone number, profile handlers aside.
THEOREM PhoneKeptHolds == Spec => []PhoneKept
  <1>1. ClaimInv => PhoneKept
    BY DEF ClaimInv
  <1> QED
    BY <1>1, AlwaysClaimInv, PTL

\* Nor with its e-mail address, against changes of e-mail as well, although a new
\* address is compared in lower case and stored as it was typed.
THEOREM EmailKeptHolds == Spec => []EmailKept
  <1>1. ClaimInv => EmailKept
    BY DEF ClaimInv
  <1> QED
    BY <1>1, AlwaysClaimInv, PTL

=============================================================================
