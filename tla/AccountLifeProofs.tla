------------------------- MODULE AccountLifeProofs -------------------------
(***************************************************************************)
(* More proofs about Accounts: how accounts leave, and that the handlers   *)
(* implement AccountLife.                                                  *)
(***************************************************************************)
EXTENDS AccountsProofs

-----------------------------------------------------------------------------
(***************************************************************************)
(* Most steps of a request only look at the tables, or change columns of   *)
(* one row that its life does not depend on.                               *)
(***************************************************************************)

Leaving == {"keys", "delete", "cups"}

Plain(c) ==
  /\ \A i \in Id :
       /\ user'[i].state = user[i].state /\ user'[i].born = user[i].born
       /\ user[i].verified => user'[i].verified
       /\ user'[i].verified # user[i].verified => i = call[c].found
       /\ i \notin changed' \cup profiled' => since'[i] = since[i]
  /\ changed \subseteq changed' /\ profiled \subseteq profiled'
  /\ UNCHANGED <<keys, cups, clock, overridden, short, exits>>
  /\ pc(c) # "delete"
  /\ \A d \in Call : d # c => call'[d] = call[d]
  /\ call'[c].pc \in Leaving =>
       /\ call'[c].found \in Live /\ call'[c].found = call'[c].req.id
       /\ call'[c].pc # "cups"
       /\ call'[c].pc = "keys" => call'[c].req.op \in Link

LEMMA PlainQuiet ==
  ASSUME TypeInv, NEW c \in Call, pc(c) # "delete",
         UNCHANGED <<tables, clock, claims, times, exits>>,
         \A d \in Call : d # c => call'[d] = call[d],
         call'[c].pc \in Leaving =>
           /\ call'[c].found \in Live /\ call'[c].found = call'[c].req.id
           /\ call'[c].pc # "cups"
           /\ call'[c].pc = "keys" => call'[c].req.op \in Link
  PROVE  Plain(c)
  BY DEF Plain, tables, claims, times, exits

LEMMA PlainEnd ==
  ASSUME TypeInv, NEW c \in Call, End(c)
  PROVE  /\ call'[c] = Idle /\ call'[c].pc \notin Leaving
         /\ \A d \in Call : d # c => call'[d] = call[d]
  BY DEF End, Idle, Leaving, TypeInv, CallsOK

LEMMA PlainGoto ==
  ASSUME TypeInv, NEW c \in Call, pc(c) # "delete", NEW label, label \notin Leaving,
         \/ Goto(c, label)
         \/ \E i : call' = [call EXCEPT ![c].pc = label, ![c].found = i],
         UNCHANGED <<tables, clock, claims, times, exits>>
  PROVE  Plain(c)
  <1>1. call'[c].pc = label /\ \A d \in Call : d # c => call'[d] = call[d]
    BY DEF Goto, TypeInv, CallsOK, CallRow
  <1> QED
    BY <1>1, PlainQuiet

LEMMA PlainStop ==
  ASSUME TypeInv, NEW c \in Call, pc(c) # "delete", End(c),
         UNCHANGED <<tables, clock, claims, times, exits>>
  PROVE  Plain(c)
  BY PlainEnd, PlainQuiet

LEMMA PlainFind ==
  ASSUME TypeInv, NEW c \in Call, NEW op, NEW rows \in SUBSET Live, NEW label,
         label \in Leaving => rows \subseteq {req(c).id},
         label # "cups", label = "keys" => op \in Link,
         Find(c, op, rows, label)
  PROVE  Plain(c)
  <1>1. /\ pc(c) # "delete" /\ req(c).op = op
        /\ UNCHANGED <<tables, clock, claims, times, exits>>
    BY DEF Find
  <1>2. CASE End(c)
    BY <1>1, <1>2, PlainStop
  <1>3. ASSUME NEW i \in rows, call' = [call EXCEPT ![c].pc = label, ![c].found = i]
        PROVE  Plain(c)
    <2>1. /\ call'[c].pc = label /\ call'[c].found = i /\ call'[c].req = req(c)
          /\ \A d \in Call : d # c => call'[d] = call[d]
      BY <1>3 DEF TypeInv, CallsOK, CallRow, req
    <2> QED
      BY <1>1, <2>1, PlainQuiet
  <1> QED
    BY <1>2, <1>3 DEF Find

LEMMA PlainUpdate ==
  ASSUME TypeInv, NEW c \in Call, NEW label, label # "delete", NEW row,
         Update(c, label, row),
         call[c].found \in Id =>
           /\ row.state = Found(c).state /\ row.born = Found(c).born
           /\ Found(c).verified => row.verified,
         \A i \in Id : i \notin changed' \cup profiled' => since'[i] = since[i],
         changed \subseteq changed', profiled \subseteq profiled',
         UNCHANGED <<keys, cups, clock, overridden, short, exits>>
  PROVE  Plain(c)
  <1>1. \A i \in Id :
          /\ user'[i].state = user[i].state /\ user'[i].born = user[i].born
          /\ user[i].verified => user'[i].verified
          /\ user'[i].verified # user[i].verified => i = call[c].found
    BY DEF Update, Found, TypeInv, UsersOK
  <1>2. pc(c) # "delete"
    BY DEF Update
  <1>3. End(c)
    BY DEF Update
  <1> QED
    BY <1>1, <1>2, <1>3, PlainEnd DEF Plain

LEMMA RegisteringPlain ==
  ASSUME TypeInv, NEW c \in Call, Registering(c), ~Insert(c)
  PROVE  Plain(c)
  <1>1. ASSUME NEW from, NEW refused, NEW to, from # "delete", to \notin Leaving,
               Check(c, from, refused, to)
        PROVE  Plain(c)
    BY <1>1, PlainGoto, PlainStop DEF Check
  <1>2. CASE CheckName(c)
    BY <1>1, <1>2 DEF CheckName, Leaving
  <1>3. CASE CheckEmail(c)
    BY <1>1, <1>3 DEF CheckEmail, Leaving
  <1>4. CASE CheckPhone(c)
    BY <1>1, <1>4 DEF CheckPhone, Leaving
  <1>5. CASE FindHold(c)
    <2>1. /\ pc(c) = "hold" /\ UNCHANGED <<tables, clock, claims, times, exits>>
          /\ \/ Goto(c, "insert")
             \/ \E i : call' = [call EXCEPT ![c].pc = "reuse", ![c].found = i]
      BY <1>5 DEF FindHold
    <2>2. "insert" \notin Leaving /\ "reuse" \notin Leaving /\ pc(c) # "delete"
      BY <2>1 DEF Leaving
    <2>3. CASE Goto(c, "insert")
      BY <2>1, <2>2, <2>3, PlainGoto
    <2>4. CASE \E i : call' = [call EXCEPT ![c].pc = "reuse", ![c].found = i]
      BY <2>1, <2>2, <2>4, PlainGoto
    <2> QED
      BY <2>1, <2>3, <2>4
  <1>6. CASE Reuse(c)
    <2>1. PICK k \in Code : Update(c, "reuse", Written(Found(c), req(c), k))
      BY <1>6 DEF Reuse
    <2>2. call[c].found \in Id =>
            /\ Written(Found(c), req(c), k).state = Found(c).state
            /\ Written(Found(c), req(c), k).born = Found(c).born
            /\ Written(Found(c), req(c), k).verified = Found(c).verified
      <3>1. call[c].found \in Id => Found(c) \in Row
        BY FoundRow
      <3> QED
        BY <3>1 DEF Written, Row
    <2>3. UNCHANGED <<keys, cups, clock, changed, profiled, overridden, since, short, exits>>
      BY <1>6 DEF Reuse, claims, times
    <2> QED
      BY <2>1, <2>2, <2>3, PlainUpdate
  <1> QED
    BY <1>2, <1>3, <1>4, <1>5, <1>6 DEF Registering

LEMMA RowsLive ==
  ASSUME NEW c
  PROVE  /\ Self(c) \in SUBSET Live /\ Self(c) \subseteq {req(c).id}
         /\ WithCode(c) \cap Self(c) \in SUBSET Live
         /\ WithCode(c) \cap WithEmail(c) \in SUBSET Live
         /\ WithCode(c) \cap WithPhone(c) \in SUBSET Live
         /\ WithEmail(c) \in SUBSET Live /\ WithEmail(c) \cap Verified \in SUBSET Live
         /\ WithPhone(c) \in SUBSET Live /\ WithPhone(c) \cap Verified \in SUBSET Live
         /\ {i \in Self(c) : Fits(user[i].codeEmail, req(c).code)} \in SUBSET Live
         /\ {i \in Self(c) : Fits(user[i].codeDelete, req(c).code)} \in SUBSET Live
         /\ {i \in Self(c) : user[i].email # Lower(req(c).email)} \in SUBSET Live
  BY DEF Self, WithCode, WithEmail, WithPhone, Live, Verified

LEMMA VerifyingPlain ==
  ASSUME TypeInv, NEW c \in Call, Verifying(c)
  PROVE  Plain(c)
  <1>0. call[c].found \in Id => Found(c) \in Row
    BY FoundRow
  <1> USE RowsLive DEF Leaving
  <1>1. CASE VerifyCode(c)
    BY <1>1, PlainFind DEF VerifyCode
  <1>2. CASE VerifyCodeByEmail(c)
    BY <1>2, PlainFind DEF VerifyCodeByEmail
  <1>3. CASE VerifyCodeByPhone(c)
    BY <1>3, PlainFind DEF VerifyCodeByPhone
  <1>4. CASE MarkVerified(c)
    <2>1. UNCHANGED <<keys, cups, clock, changed, profiled, overridden, since, short, exits>>
      BY <1>4 DEF MarkVerified, claims, times
    <2>2. Update(c, "verify", [Found(c) EXCEPT !.verified = TRUE])
      BY <1>4 DEF MarkVerified
    <2>3. call[c].found \in Id =>
            LET row == [Found(c) EXCEPT !.verified = TRUE]
            IN  row.state = Found(c).state /\ row.born = Found(c).born /\ row.verified
      BY <1>0 DEF Row
    <2> QED
      BY <2>1, <2>2, <2>3, PlainUpdate
  <1>5. CASE ResendCode(c)
    BY <1>5, PlainFind DEF ResendCode
  <1>6. CASE ResendCodeEmail(c)
    BY <1>6, PlainFind DEF ResendCodeEmail
  <1>7. CASE ResendCodePhone(c)
    BY <1>7, PlainFind DEF ResendCodePhone
  <1>8. ASSUME NEW op, NEW rows, Forgot(c, op, rows)
        PROVE  Plain(c)
    <2>1. /\ pc(c) = "start" /\ UNCHANGED <<tables, clock, claims, times, exits>>
          /\ \/ End(c)
             \/ \E i : call' = [call EXCEPT ![c].pc = "code", ![c].found = i]
      BY <1>8 DEF Forgot
    <2> QED
      BY <2>1, PlainGoto, PlainStop
  <1>9. CASE ForgotPasswordByEmail(c)
    BY <1>8, <1>9 DEF ForgotPasswordByEmail
  <1>10. CASE ForgotPasswordByPhone(c)
    BY <1>8, <1>10 DEF ForgotPasswordByPhone
  <1>11. CASE StoreCode(c)
    <2>1. UNCHANGED <<keys, cups, clock, changed, profiled, overridden, since, short, exits>>
      BY <1>11 DEF StoreCode, claims, times
    <2>2. PICK k \in Code : Update(c, "code", [Found(c) EXCEPT !.code = k])
      BY <1>11 DEF StoreCode
    <2>3. call[c].found \in Id =>
            LET row == [Found(c) EXCEPT !.code = k]
            IN  /\ row.state = Found(c).state /\ row.born = Found(c).born
                /\ row.verified = Found(c).verified
      BY <1>0 DEF Row
    <2> QED
      BY <2>1, <2>2, <2>3, PlainUpdate
  <1>12. CASE VerifyEmailComplete(c)
    BY <1>12, PlainFind DEF VerifyEmailComplete
  <1>13. CASE ResendLinkVerifyEmail(c)
    BY <1>13, PlainFind DEF ResendLinkVerifyEmail
  <1>14. CASE StoreEmailCode(c)
    <2>1. UNCHANGED <<keys, cups, clock, changed, profiled, overridden, since, short, exits>>
      BY <1>14 DEF StoreEmailCode, claims, times
    <2>2. PICK k \in Code : Update(c, "codeEmail", [Found(c) EXCEPT !.codeEmail = k])
      BY <1>14 DEF StoreEmailCode
    <2>3. call[c].found \in Id =>
            LET row == [Found(c) EXCEPT !.codeEmail = k]
            IN  /\ row.state = Found(c).state /\ row.born = Found(c).born
                /\ row.verified = Found(c).verified
      BY <1>0 DEF Row
    <2> QED
      BY <2>1, <2>2, <2>3, PlainUpdate
  <1>15. CASE VerifyEmail(c)
    BY <1>15, PlainFind DEF VerifyEmail
  <1>16. CASE Confirm(c)
    <2>1. UNCHANGED <<keys, cups, clock, changed, profiled, overridden, since, short, exits>>
      BY <1>16 DEF Confirm, claims, times
    <2>2. Update(c, "confirm", [Found(c) EXCEPT !.confirmed = TRUE])
      BY <1>16 DEF Confirm
    <2>3. call[c].found \in Id =>
            LET row == [Found(c) EXCEPT !.confirmed = TRUE]
            IN  /\ row.state = Found(c).state /\ row.born = Found(c).born
                /\ row.verified = Found(c).verified
      BY <1>0 DEF Row
    <2> QED
      BY <2>1, <2>2, <2>3, PlainUpdate
  <1> QED
    BY <1>1, <1>2, <1>3, <1>4, <1>5, <1>6, <1>7, <1>9, <1>10, <1>11, <1>12, <1>13, <1>14,
       <1>15, <1>16 DEF Verifying

LEMMA EditingPlain ==
  ASSUME TypeInv, NEW c \in Call, Editing(c), ~WriteProfile(c)
  PROVE  Plain(c)
  <1>0. call[c].found \in Id => Found(c) \in Row
    BY FoundRow
  <1> USE RowsLive DEF Leaving
  <1>1. ASSUME NEW op, NEW same, CheckProfileName(c, op, same)
        PROVE  Plain(c)
    <2>1. /\ pc(c) = "start" /\ UNCHANGED <<tables, clock, claims, times, exits>>
          /\ \/ End(c)
             \/ \E i : call' = [call EXCEPT ![c].pc = "profile", ![c].found = i]
      BY <1>1 DEF CheckProfileName
    <2> QED
      BY <2>1, PlainGoto, PlainStop
  <1>2. CASE UpdateProfile(c)
    BY <1>1, <1>2 DEF UpdateProfile
  <1>3. CASE UpdateInfo(c)
    BY <1>1, <1>3 DEF UpdateInfo
  <1>4. CASE UpdateProfileComplete(c)
    BY <1>4, PlainFind DEF UpdateProfileComplete
  <1>6. CASE ChangeEmail(c)
    BY <1>6, PlainFind DEF ChangeEmail
  <1>7. CASE CheckNewEmail(c)
    <2>1. /\ pc(c) = "change" /\ UNCHANGED <<tables, clock, claims, times, exits>>
          /\ End(c) \/ Goto(c, "email changes")
      BY <1>7 DEF CheckNewEmail
    <2>2. CASE Goto(c, "email changes")
      BY <2>1, <2>2, PlainGoto, "email changes" \notin Leaving DEF Leaving
    <2>3. CASE End(c)
      BY <2>1, <2>3, PlainStop
    <2> QED
      BY <2>1, <2>2, <2>3
  <1>8. CASE StoreEmail(c)
    <2> DEFINE i == call[c].found
               row == [Found(c) EXCEPT !.email = req(c).email, !.confirmed = FALSE]
    <2>1. /\ Update(c, "email changes", row)
          /\ since' = [since EXCEPT ![i] = clock] /\ changed' = changed \cup {i}
          /\ UNCHANGED <<keys, cups, clock, profiled, overridden, short, exits>>
      BY <1>8 DEF StoreEmail
    <2>2. i \in Id =>
            /\ row.state = Found(c).state /\ row.born = Found(c).born
            /\ row.verified = Found(c).verified
      BY <1>0 DEF Row
    <2>3. \A j \in Id : j \notin changed' \cup profiled' => since'[j] = since[j]
      BY <2>1 DEF TypeInv, Rest
    <2> QED
      BY <2>1, <2>2, <2>3, PlainUpdate
  <1> QED
    BY <1>2, <1>3, <1>4, <1>6, <1>7, <1>8 DEF Editing

\* A body that brings other columns may change all of a row that is there.
LEMMA ProfileWritten ==
  ASSUME TypeInv, NEW c \in Call, WriteProfile(c)
  PROVE  LET i == call[c].found
         IN  /\ pc(c) = "profile" /\ End(c) /\ i \in Id
             /\ UNCHANGED <<keys, cups, clock, changed, short, stripped, interrupted>>
             /\ \A j \in Id \ {i} : user'[j] = user[j]
             /\ \A j \in Id : user'[j].state = "absent" <=> user[j].state = "absent"
             /\ \A j \in Id \ profiled' :
                  /\ since'[j] = since[j]
                  /\ user'[j].state = user[j].state /\ user'[j].born = user[j].born
             /\ profiled \subseteq profiled'
             /\ \/ /\ overridden' = overridden
                   /\ user'[i].state = user[i].state /\ user'[i].verified = user[i].verified
                \/ overridden' = overridden \cup {i} /\ user[i].state # "absent"
  <1> DEFINE q == req(c)
             i == call[c].found
             row == Rewritten(user[i], q)
  <1>1. /\ user' = [user EXCEPT ![i] = row] /\ End(c) /\ q.email # Null
        /\ pc(c) = "profile"
        /\ overridden' = IF q.also # NoColumns /\ user[i].state # "absent"
                           THEN overridden \cup {i} ELSE overridden
        /\ profiled' = IF q.email # None \/ q.phone # None \/ q.also # NoColumns
                         THEN profiled \cup {i} ELSE profiled
        /\ since' = IF q.email # None THEN [since EXCEPT ![i] = clock] ELSE since
        /\ UNCHANGED <<keys, cups, clock, changed, short, stripped, interrupted>>
    BY DEF WriteProfile, Update, Found, exits
  <1>2. /\ i \in Id /\ q \in Request /\ user \in [Id -> Row] /\ RowOK(user[i])
        /\ since \in [Id -> 0..MaxTime]
    BY <1>1 DEF TypeInv, CallsOK, CallOK, UsersOK, Rest, pc, req
  <1>3. /\ row.state = "absent" <=> user[i].state = "absent"
        /\ q.also = NoColumns =>
             /\ row.state = user[i].state /\ row.verified = user[i].verified
             /\ row.born = user[i].born
        /\ user[i].state = "absent" => row = user[i]
    BY <1>1, <1>2, RewrittenRow DEF Rewritten
  <1>4. user'[i] = row /\ \A j \in Id \ {i} : user'[j] = user[j]
    BY <1>1, <1>2
  <1> HIDE DEF row
  <1>5. i \notin profiled' => q.also = NoColumns /\ q.email = None
    BY <1>1
  <1>6. \A j \in Id \ profiled' : since'[j] = since[j]
    BY <1>1, <1>2, <1>5
  <1>7. profiled \subseteq profiled'
    BY <1>1
  <1>8. \/ /\ overridden' = overridden
           /\ user'[i].state = user[i].state /\ user'[i].verified = user[i].verified
        \/ overridden' = overridden \cup {i} /\ user[i].state # "absent"
    BY <1>1, <1>3, <1>4
  <1> QED
    BY <1>1, <1>2, <1>3, <1>4, <1>5, <1>6, <1>7, <1>8

LEMMA DeletingPlain ==
  ASSUME TypeInv, NEW c \in Call, Deleting(c), ~DeleteKeys(c), ~MarkDeleted(c),
         ~DeleteCups(c), ~WorkerRunDeleteAccount(c), ~DeleteExpired(c)
  PROVE  Plain(c)
  <1> USE RowsLive DEF Leaving
  <1>1. CASE DeleteUser(c)
    BY <1>1, PlainFind DEF DeleteUser
  <1>2. CASE VerifyCallBackDelAccount(c)
    <2>1. PICK right \in BOOLEAN :
            Find(c, "verify_callback_delete", IF right THEN Self(c) ELSE {}, "delete")
      BY <1>2 DEF VerifyCallBackDelAccount
    <2>2. /\ (IF right THEN Self(c) ELSE {}) \in SUBSET Live
          /\ (IF right THEN Self(c) ELSE {}) \subseteq {req(c).id}
      OBVIOUS
    <2> QED
      BY <2>1, <2>2, PlainFind
  <1>3. CASE ConfirmDelete(c)
    BY <1>3, PlainFind DEF ConfirmDelete
  <1>4. CASE ResendLink(c)
    BY <1>4, PlainFind DEF ResendLink
  <1>5. CASE StoreDeleteCode(c)
    <2>1. UNCHANGED <<keys, cups, clock, changed, profiled, overridden, since, short, exits>>
      BY <1>5 DEF StoreDeleteCode, claims, times
    <2>2. PICK k \in Code : Update(c, "codeDelete", [Found(c) EXCEPT !.codeDelete = k])
      BY <1>5 DEF StoreDeleteCode
    <2>3. call[c].found \in Id =>
            LET row == [Found(c) EXCEPT !.codeDelete = k]
            IN  /\ row.state = Found(c).state /\ row.born = Found(c).born
                /\ row.verified = Found(c).verified
      <3>1. call[c].found \in Id => Found(c) \in Row
        BY FoundRow
      <3> QED
        BY <3>1 DEF Row
    <2> QED
      BY <2>1, <2>2, <2>3, PlainUpdate
  <1>6. CASE VerifyDelAccount(c)
    <2>1. PICK op \in Link :
            Find(c, op, {i \in Self(c) : Fits(user[i].codeDelete, req(c).code)}, "keys")
      BY <1>6 DEF VerifyDelAccount
    <2>2. {i \in Self(c) : Fits(user[i].codeDelete, req(c).code)} \subseteq {req(c).id}
      OBVIOUS
    <2> QED
      BY <2>1, <2>2, PlainFind
  <1> QED
    BY <1>1, <1>2, <1>3, <1>4, <1>5, <1>6 DEF Deleting

\* The steps of requests that are not plain, and those around the requests.
LEMMA Steps ==
  ASSUME TypeInv, [Next]_vars
  PROVE  \/ \E c \in Call :
              \/ Plain(c) \/ Insert(c) \/ WriteProfile(c) \/ DeleteKeys(c) \/ MarkDeleted(c)
              \/ DeleteCups(c) \/ WorkerRunDeleteAccount(c) \/ DeleteExpired(c) \/ Stop(c)
         \/ \E i \in Id : AddKey(i) \/ JoinCup(i)
         \/ Tick \/ UNCHANGED vars
  <1>1. ASSUME NEW c \in Call, NEW q \in Request, Receive(c, q) PROVE Plain(c)
    <2>1. /\ call'[c].pc = "start" /\ \A d \in Call : d # c => call'[d] = call[d]
      BY <1>1 DEF Receive, TypeInv, CallsOK
    <2> QED
      BY <1>1, <2>1, PlainQuiet DEF Receive, Leaving
  <1> QED
    BY <1>1, RegisteringPlain, VerifyingPlain, EditingPlain, DeletingPlain DEF Next

-----------------------------------------------------------------------------
(***************************************************************************)
(* The hours an account is given.  The e-mail of an account that neither   *)
(* changed it nor edited its profile is as old as its row.                 *)
(***************************************************************************)

AgeInv ==
  /\ \A i \in Live \ (changed \cup profiled) : since[i] = user[i].born
  /\ GraceUnlessReplaced

LEMMA AgeNext == TypeInv /\ AgeInv /\ [Next]_vars => AgeInv'
  <1> SUFFICES ASSUME TypeInv, AgeInv, [Next]_vars PROVE AgeInv'
    OBVIOUS
  <1>0. user \in [Id -> Row] /\ since \in [Id -> 0..MaxTime] /\ clock \in 0..MaxTime
    BY DEF TypeInv, UsersOK, Rest
  <1>1. ASSUME NEW c \in Call, Plain(c) PROVE AgeInv'
    BY <1>1 DEF Plain, AgeInv, Live, GraceUnlessReplaced
  <1>2. ASSUME NEW c \in Call, Insert(c) PROVE AgeInv'
    <2>1. PICK i \in Id :
            /\ user'[i].born = clock /\ since'[i] = clock
            /\ \A j \in Id \ {i} : user'[j] = user[j] /\ since'[j] = since[j]
      <3>1. PICK i \in Id, k \in Code :
              /\ user' = [user EXCEPT ![i] =
                   [state |-> "live", name |-> Trim(req(c).name),
                    email |-> Lower(req(c).email), phone |-> req(c).phone,
                    login |-> req(c).login, verified |-> FALSE,
                    confirmed |-> Sso(req(c)), code |-> k, codeDelete |-> None,
                    codeEmail |-> None, born |-> clock]]
              /\ since' = [since EXCEPT ![i] = clock]
        BY <1>2 DEF Insert
      <3> QED
        BY <1>0, <3>1
    <2>2. UNCHANGED <<changed, profiled, short>>
      BY <1>2 DEF Insert
    <2> QED
      BY <2>1, <2>2 DEF AgeInv, Live, GraceUnlessReplaced
  <1>3. ASSUME NEW c \in Call, WorkerRunDeleteAccount(c) PROVE AgeInv'
    <2>1. /\ short' = short \cup {i \in {j \in Live : ~user[j].confirmed /\ Expired(user[j])} :
                                    clock - since[i] < TimeDelete}
          /\ UNCHANGED <<user, since, changed, profiled>>
      BY <1>3 DEF WorkerRunDeleteAccount, tables, claims
    <2>2. ASSUME NEW i \in Live, Expired(user[i]), clock - since[i] < TimeDelete
          PROVE  i \in changed \cup profiled
      <3>1. user[i].born \in 0..MaxTime /\ since[i] \in 0..MaxTime
        BY <1>0 DEF Live, Row
      <3>2. user[i].born # since[i]
        BY <1>0, <2>2, <3>1, TimeAssumption DEF Expired
      <3> QED
        BY <3>2 DEF AgeInv
    <2>3. GraceUnlessReplaced'
      BY <2>1, <2>2 DEF AgeInv, GraceUnlessReplaced
    <2> QED
      BY <2>1, <2>3 DEF AgeInv, Live
  <1>4. ASSUME NEW c \in Call, MarkDeleted(c) \/ DeleteExpired(c) PROVE AgeInv'
    <2>1. \A i \in Id : user'[i].state = "live" => user'[i] = user[i]
      BY <1>0, <1>4 DEF MarkDeleted, DeleteExpired, Deleted, Row
    <2>2. UNCHANGED <<since, changed, profiled, short>>
      BY <1>4 DEF MarkDeleted, DeleteExpired, claims, times
    <2> QED
      BY <2>1, <2>2 DEF AgeInv, Live, GraceUnlessReplaced
  <1>5. CASE UNCHANGED <<user, since, changed, profiled, short>>
    BY <1>5 DEF AgeInv, Live, GraceUnlessReplaced
  <1>6. ASSUME NEW c \in Call, DeleteKeys(c) \/ DeleteCups(c) \/ Stop(c) PROVE AgeInv'
    BY <1>5, <1>6 DEF DeleteKeys, DeleteCups, Stop, tables, claims, times
  <1>7. ASSUME NEW i \in Id, AddKey(i) \/ JoinCup(i) PROVE AgeInv'
    BY <1>5, <1>7 DEF AddKey, JoinCup, claims, times
  <1>8. CASE Tick \/ UNCHANGED vars
    BY <1>5, <1>8 DEF Tick, vars, tables, claims, times
  <1>9. ASSUME NEW c \in Call, WriteProfile(c) PROVE AgeInv'
    BY <1>9, ProfileWritten DEF AgeInv, Live, GraceUnlessReplaced
  <1> QED
    BY <1>1, <1>2, <1>3, <1>4, <1>6, <1>7, <1>8, <1>9, Steps

\* For every limit and every clock: the worker picks no account before its hours
\* have passed, except one whose address replaced another or whose columns a body wrote.
THEOREM GraceHolds == Spec => []GraceUnlessReplaced
  <1>1. Init => AgeInv
    BY DEF Init, AgeInv, Live, GraceUnlessReplaced
  <1>2. AgeInv => GraceUnlessReplaced
    BY DEF AgeInv
  <1> QED
    BY <1>1, <1>2, AgeNext, AlwaysTypeInv, PTL DEF Spec

-----------------------------------------------------------------------------
(***************************************************************************)
(* Leaving.  A deletion at work on a row has found it where the link or    *)
(* the session pointed, and has marked it before it turns to the cups; a   *)
(* body may have brought it back since.                                    *)
(***************************************************************************)

LeavingOK(x) ==
  x.pc \in Leaving =>
    /\ x.found = x.req.id /\ user[x.found].state # "absent"
    /\ x.pc = "cups" => user[x.found].state = "deleted" \/ x.found \in overridden
    /\ x.pc = "keys" => x.req.op \in Link

LeaveInv ==
  /\ \A c \in Call : LeavingOK(call[c])
  /\ \A i \in stripped : user[i].state # "absent"
  /\ LeavingInOrder

\* Rows come into being and are deleted for good, unless a body says otherwise.
RowsAge ==
  \A i \in Id :
    /\ user[i].state # "absent" => user'[i].state # "absent"
    /\ user[i].state = "deleted" => user'[i].state = "deleted" \/ i \in overridden'
    /\ i \in overridden => i \in overridden'

LEMMA OthersLeave ==
  ASSUME TypeInv, LeaveInv, RowsAge, NEW c \in Call,
         \A d \in Call : d # c => call'[d] = call[d],
         LeavingOK(call[c])'
  PROVE  \A d \in Call : LeavingOK(call[d])'
  <1>1. ASSUME NEW d \in Call, d # c PROVE LeavingOK(call[d])'
    <2>1. call'[d] = call[d] /\ LeavingOK(call[d])
      BY <1>1 DEF LeaveInv
    <2>2. call[d].pc \in Leaving => call[d].found \in Id
      BY DEF TypeInv, CallsOK, CallOK, Leaving
    <2> QED
      BY <2>1, <2>2 DEF LeavingOK, RowsAge
  <1> QED
    BY <1>1

\* No account is stripped, none of them comes to life but by a body, and no deletion by a
\* link of a live account is given up.
LEMMA OrderKept ==
  ASSUME LeaveInv, stripped' \subseteq stripped, interrupted \subseteq interrupted',
         \A i \in stripped' :
           /\ i \in Live' => i \in Live \/ i \in overridden'
           /\ i \in overridden => i \in overridden',
         \A d \in Call :
           pc(d) = "delete" /\ call[d].found \in Live' /\ req(d).op \in Link =>
             call'[d] = call[d] \/ call[d].found \in interrupted'
  PROVE  LeavingInOrder'
  <1> SUFFICES ASSUME NEW i \in (stripped \cap Live)', i \notin interrupted',
                      i \notin overridden'
               PROVE  \E d \in Call : /\ call'[d].pc = "delete" /\ call'[d].found = i
                                      /\ call'[d].req.op \in Link
    BY DEF LeavingInOrder, pc, req
  <1>1. PICK d \in Call : pc(d) = "delete" /\ req(d).op \in Link /\ call[d].found = i
    BY DEF LeaveInv, LeavingInOrder
  <1> QED
    BY <1>1 DEF pc, req

\* A request that ends is not leaving anything.
LEMMA EndLeaves ==
  ASSUME TypeInv, NEW c \in Call, End(c)
  PROVE  LeavingOK(call[c])' /\ \A d \in Call : d # c => call'[d] = call[d]
  BY PlainEnd DEF LeavingOK

LEMMA LeaveNext == TypeInv /\ LeaveInv /\ [Next]_vars => LeaveInv'
  <1> SUFFICES ASSUME TypeInv, LeaveInv, [Next]_vars PROVE LeaveInv'
    OBVIOUS
  <1>0. /\ user \in [Id -> Row] /\ stripped \subseteq Id /\ call \in [Call -> CallRow]
        /\ \A d \in Call : /\ LeavingOK(call[d])
                           /\ call[d].pc \in Leaving => call[d].found \in Id
        /\ \A i \in stripped : user[i].state # "absent"
    BY DEF TypeInv, UsersOK, Rest, LeaveInv, CallsOK, CallOK, Leaving
  <1>1. ASSUME NEW c \in Call, Plain(c) PROVE LeaveInv'
    <2>1. /\ RowsAge /\ Live' = Live /\ overridden' = overridden
          /\ stripped' = stripped /\ interrupted' = interrupted
      BY <1>1 DEF Plain, RowsAge, Live, exits
    <2>2. LeavingOK(call[c])'
      <3>1. CASE call'[c].pc \in Leaving
        <4>1. /\ call'[c].found \in Live' /\ call'[c].found = call'[c].req.id
              /\ call'[c].pc # "cups"
              /\ call'[c].pc = "keys" => call'[c].req.op \in Link
          BY <1>1, <2>1, <3>1 DEF Plain
        <4>2. user'[call'[c].found].state = "live"
          BY <4>1 DEF Live
        <4> QED
          BY <4>1, <4>2 DEF LeavingOK
      <3>2. CASE call'[c].pc \notin Leaving
        BY <3>2 DEF LeavingOK
      <3> QED
        BY <3>1, <3>2
    <2>3. LeavingInOrder'
      BY <1>1, <2>1, OrderKept DEF Plain
    <2>4. \A i \in stripped' : user'[i].state # "absent"
      BY <1>0, <2>1 DEF RowsAge
    <2> QED
      BY <1>1, <2>1, <2>2, <2>3, <2>4, OthersLeave DEF Plain, LeaveInv
  <1>2. ASSUME NEW c \in Call, Insert(c) PROVE LeaveInv'
    <2>1. /\ End(c) /\ pc(c) = "insert" /\ UNCHANGED exits /\ overridden' = overridden
          /\ \E i \in Id : user[i].state = "absent" /\ \A j \in Id \ {i} : user'[j] = user[j]
      BY <1>0, <1>2 DEF Insert
    <2>2. RowsAge /\ stripped' = stripped /\ interrupted' = interrupted
      BY <2>1 DEF RowsAge, exits
    <2>3. \A i \in stripped : user'[i] = user[i]
      BY <1>0, <2>1
    <2>4. LeavingInOrder'
      BY <2>1, <2>2, <2>3, EndLeaves, OrderKept DEF Live
    <2> QED
      BY <1>0, <2>1, <2>2, <2>3, <2>4, EndLeaves, OthersLeave DEF LeaveInv
  <1>3. ASSUME NEW c \in Call, DeleteKeys(c) PROVE LeaveInv'
    <2>1. /\ pc(c) = "keys" /\ Goto(c, "delete") /\ user' = user
          /\ interrupted' = interrupted /\ overridden' = overridden
          /\ stripped \subseteq stripped' /\ stripped' \subseteq stripped \cup {req(c).id}
      BY <1>3 DEF DeleteKeys, claims
    <2>2. /\ call[c].found = req(c).id /\ call[c].found \in Id /\ req(c).op \in Link
          /\ user[req(c).id].state # "absent"
      BY <1>0, <2>1 DEF LeavingOK, Leaving, pc, req
    <2>3. /\ call'[c].pc = "delete" /\ call'[c].found = req(c).id /\ call'[c].req = req(c)
          /\ \A d \in Call : d # c => call'[d] = call[d]
      BY <1>0, <2>1, <2>2, GotoHas DEF req
    <2>4. RowsAge /\ Live' = Live
      BY <2>1 DEF RowsAge, Live
    <2>5. LeavingOK(call[c])'
      BY <2>1, <2>2, <2>3 DEF LeavingOK
    <2>6. \A i \in stripped' : user'[i].state # "absent"
      BY <1>0, <2>1, <2>2
    <2>7. ASSUME NEW i \in stripped', i \in Live, i \notin interrupted, i \notin overridden
          PROVE  \E d \in Call : /\ call'[d].pc = "delete" /\ call'[d].found = i
                                 /\ call'[d].req.op \in Link
      <3>1. CASE i = req(c).id
        BY <2>2, <2>3, <3>1
      <3>2. CASE i # req(c).id
        <4>1. PICK d \in Call : /\ pc(d) = "delete" /\ req(d).op \in Link
                                /\ call[d].found = i
          BY <2>1, <2>7, <3>2 DEF LeaveInv, LeavingInOrder
        <4> QED
          BY <2>1, <2>3, <4>1 DEF pc, req
      <3> QED
        BY <3>1, <3>2
    <2>8. LeavingInOrder'
      BY <2>1, <2>4, <2>7 DEF LeavingInOrder, pc, req
    <2> QED
      BY <2>3, <2>4, <2>5, <2>6, <2>8, OthersLeave DEF LeaveInv
  <1>4. ASSUME NEW c \in Call, MarkDeleted(c) PROVE LeaveInv'
    <2> DEFINE i == call[c].found
    <2>1. /\ pc(c) = "delete" /\ user' = [user EXCEPT ![i] = Deleted(@)]
          /\ Goto(c, "cups") \/ End(c)
          /\ stripped' = stripped /\ interrupted' = interrupted
          /\ overridden' = overridden
      BY <1>4 DEF MarkDeleted, exits, claims
    <2>2. i \in Id /\ i = req(c).id /\ user[i].state # "absent"
      BY <1>0, <2>1 DEF LeavingOK, Leaving, pc, req
    <2>3. user'[i].state = "deleted" /\ \A j \in Id \ {i} : user'[j] = user[j]
      BY <1>0, <2>1, <2>2 DEF Deleted, Row
    <2>4. /\ RowsAge /\ i \notin Live' /\ Live' \subseteq Live
      BY <2>1, <2>2, <2>3 DEF RowsAge, Live
    <2>5. /\ LeavingOK(call[c])'
          /\ \A d \in Call : d # c => call'[d] = call[d]
      <3>1. CASE End(c)
        BY <3>1, EndLeaves
      <3>2. CASE Goto(c, "cups")
        <4>1. /\ call'[c].pc = "cups" /\ call'[c].found = i /\ call'[c].req = req(c)
              /\ \A d \in Call : d # c => call'[d] = call[d]
          BY <3>2, GotoHas DEF req
        <4> QED
          BY <2>2, <2>3, <4>1 DEF LeavingOK
      <3> QED
        BY <2>1, <3>1, <3>2
    <2>6. LeavingInOrder'
      BY <2>1, <2>4, <2>5, OrderKept
    <2>7. \A j \in stripped' : user'[j].state # "absent"
      BY <1>0, <2>1, <2>4 DEF RowsAge
    <2> QED
      BY <2>4, <2>5, <2>6, <2>7, OthersLeave DEF LeaveInv
  <1>5. ASSUME NEW c \in Call, End(c), RowsAge, stripped' = stripped,
               Live' \subseteq Live \cup overridden',
               interrupted \subseteq interrupted',
               \/ pc(c) # "delete"
               \/ req(c).op \in Link => call[c].found \in interrupted'
        PROVE  LeaveInv'
    <2>1. \A i \in stripped' : /\ i \in Live' => i \in Live \/ i \in overridden'
                               /\ i \in overridden => i \in overridden'
      BY <1>0, <1>5 DEF RowsAge
    <2>2. \A d \in Call :
            pc(d) = "delete" /\ call[d].found \in Live' /\ req(d).op \in Link =>
              call'[d] = call[d] \/ call[d].found \in interrupted'
      BY <1>5, EndLeaves
    <2>3. LeavingInOrder'
      BY <1>5, <2>1, <2>2, OrderKept
    <2>4. \A j \in stripped' : user'[j].state # "absent"
      BY <1>0, <1>5 DEF RowsAge
    <2> QED
      BY <1>5, <2>3, <2>4, EndLeaves, OthersLeave DEF LeaveInv
  <1>6. user' = user /\ overridden' = overridden => RowsAge /\ Live' = Live
    BY DEF RowsAge, Live
  <1>7. ASSUME NEW c \in Call, DeleteCups(c) PROVE LeaveInv'
    BY <1>5, <1>6, <1>7 DEF DeleteCups, exits, claims
  <1>8. ASSUME NEW c \in Call, WorkerRunDeleteAccount(c) PROVE LeaveInv'
    <2>1. /\ pc(c) = "start" /\ user' = user /\ overridden' = overridden
          /\ stripped' = stripped /\ interrupted' = interrupted
          /\ \/ End(c)
             \/ \E old : call' = [call EXCEPT ![c].pc = "expired", ![c].batch = old]
      BY <1>8 DEF WorkerRunDeleteAccount, tables, exits, claims
    <2>2. CASE End(c)
      BY <1>5, <1>6, <2>1, <2>2
    <2>3. CASE \E old : call' = [call EXCEPT ![c].pc = "expired", ![c].batch = old]
      <3>1. call'[c].pc = "expired" /\ \A d \in Call : d # c => call'[d] = call[d]
        BY <1>0, <2>3 DEF CallRow
      <3>2. LeavingOK(call[c])'
        BY <3>1 DEF LeavingOK, Leaving
      <3>3. LeavingInOrder'
        BY <1>6, <2>1, <3>1, OrderKept
      <3> QED
        BY <1>0, <1>6, <2>1, <3>1, <3>2, <3>3, OthersLeave DEF LeaveInv
    <2> QED
      BY <2>1, <2>2, <2>3
  <1>9. ASSUME NEW c \in Call, DeleteExpired(c) PROVE LeaveInv'
    <2>1. /\ pc(c) = "expired" /\ End(c) /\ stripped' = stripped /\ interrupted' = interrupted
          /\ overridden' = overridden
          /\ \A i \in Id : user'[i] = user[i] \/ user'[i] = Deleted(user[i])
      BY <1>9 DEF DeleteExpired, exits, claims
    <2>2. \A i \in Id : Deleted(user[i]).state \in
            IF user[i].state = "absent" THEN {"absent"} ELSE {"deleted"}
      BY <1>0 DEF Deleted, Row
    <2>3. RowsAge /\ Live' \subseteq Live
      BY <2>1, <2>2 DEF RowsAge, Live
    <2> QED
      BY <1>5, <2>1, <2>3
  <1>10. ASSUME NEW c \in Call, Stop(c) PROVE LeaveInv'
    <2>1. /\ End(c) /\ user' = user /\ stripped' = stripped /\ overridden' = overridden
          /\ interrupted' = IF pc(c) = "delete" /\ req(c).op \in Link
                              THEN interrupted \cup {call[c].found} ELSE interrupted
      BY <1>10 DEF Stop, tables, claims
    <2> QED
      BY <1>5, <1>6, <2>1
  <1>11. ASSUME NEW i \in Id, AddKey(i) PROVE LeaveInv'
    BY <1>11, <1>6, OrderKept DEF AddKey, LeaveInv, LeavingOK, claims
  <1>12. ASSUME NEW i \in Id, JoinCup(i) PROVE LeaveInv'
    BY <1>12, <1>6, OrderKept DEF JoinCup, LeaveInv, LeavingOK, claims, exits
  <1>13. CASE Tick \/ UNCHANGED vars
    BY <1>13, <1>6, OrderKept DEF Tick, vars, tables, LeaveInv, LeavingOK, claims, exits
  <1>14. ASSUME NEW c \in Call, WriteProfile(c) PROVE LeaveInv'
    <2> DEFINE i == call[c].found
    <2>1. /\ pc(c) = "profile" /\ End(c) /\ i \in Id
          /\ stripped' = stripped /\ interrupted' = interrupted
          /\ \A j \in Id \ {i} : user'[j] = user[j]
          /\ \A j \in Id : user'[j].state = "absent" <=> user[j].state = "absent"
          /\ \/ overridden' = overridden /\ user'[i].state = user[i].state
             \/ overridden' = overridden \cup {i}
      BY <1>14, ProfileWritten
    <2>2. RowsAge /\ Live' \subseteq Live \cup overridden'
      BY <2>1 DEF RowsAge, Live
    <2> QED
      BY <1>5, <2>1, <2>2
  <1> QED
    BY <1>1, <1>2, <1>3, <1>4, <1>7, <1>8, <1>9, <1>10, <1>11, <1>12, <1>13, <1>14, Steps

LEMMA AlwaysLeaveInv == Spec => []LeaveInv
  <1>1. Init => LeaveInv
    BY DEF Init, LeaveInv, LeavingOK, Leaving, Idle, LeavingInOrder
  <1> QED
    BY <1>1, LeaveNext, AlwaysTypeInv, PTL DEF Spec

\* Wherever a deletion by a link is interrupted and whatever else happens, an
\* account without its keys is one that this deletion has at hand, or had, or one that
\* a body brought back.
THEOREM LeavingHolds == Spec => []LeavingInOrder
  <1>1. LeaveInv => LeavingInOrder
    BY DEF LeaveInv
  <1> QED
    BY <1>1, AlwaysLeaveInv, PTL

-----------------------------------------------------------------------------
(***************************************************************************)
(* The refinement.                                                         *)
(***************************************************************************)

LEMMA StatusAt ==
  ASSUME TypeInv, NEW i \in Id
  PROVE  Status[i] = IF user[i].state # "live" THEN user[i].state
                     ELSE IF user[i].verified THEN "active" ELSE "pending"
  BY DEF Status, Verified, Live

\* The same after the step.
LEMMA StatusNext ==
  ASSUME NEW i \in Id
  PROVE  Status'[i] = IF user'[i].state # "live" THEN user'[i].state
                      ELSE IF user'[i].verified THEN "active" ELSE "pending"
  BY DEF Status, Verified, Live

LEMMA LifeInit == Init => Life!Init
  BY DEF Init, Life!Init, Status, Verified, Live

\* A step changes the status of one account only.
LEMMA StatusExcept ==
  ASSUME NEW i \in Id, NEW to, Status'[i] = to,
         \A j \in Id \ {i} : Status'[j] = Status[j]
  PROVE  Status' = [Status EXCEPT ![i] = to]
  <1>1. /\ Status' = [j \in Id |-> Status'[j]] /\ Status = [j \in Id |-> Status[j]]
    BY DEF Status
  <1> QED
    BY <1>1

LEMMA StatusSame ==
  ASSUME \A j \in Id : Status'[j] = Status[j]
  PROVE  Status' = Status
  <1>1. /\ Status' = [j \in Id |-> Status'[j]] /\ Status = [j \in Id |-> Status[j]]
    BY DEF Status
  <1> QED
    BY <1>1

LEMMA LifeNext == TypeInv /\ LeaveInv /\ [Next]_vars => [Life!Next]_<<Status, cups, overridden>>
  <1> SUFFICES ASSUME TypeInv, LeaveInv, [Next]_vars PROVE [Life!Next]_<<Status, cups, overridden>>
    OBVIOUS
  <1>0. /\ user \in [Id -> Row]
        /\ \A d \in Call : /\ LeavingOK(call[d])
                           /\ call[d].pc \in Leaving => call[d].found \in Id
    BY DEF TypeInv, UsersOK, LeaveInv, CallsOK, CallOK, Leaving
  <1>1. CASE UNCHANGED <<user, cups, overridden>>
    BY <1>1 DEF Status, Verified, Live
  <1>2. ASSUME NEW c \in Call, Plain(c) PROVE [Life!Next]_<<Status, cups, overridden>>
    <2> DEFINE i == call[c].found
    <2>1. /\ cups' = cups /\ overridden' = overridden
          /\ \A j \in Id : /\ user'[j].state = user[j].state
                           /\ user[j].verified => user'[j].verified
                           /\ user'[j].verified # user[j].verified => j = i
      BY <1>2 DEF Plain
    <2>2. CASE \A j \in Id : user'[j].verified = user[j].verified
      <3>1. \A j \in Id : Status'[j] = Status[j]
        BY <2>1, <2>2, StatusAt, StatusNext
      <3> QED
        BY <2>1, <3>1, StatusSame
    <2>3. CASE \E j \in Id : user'[j].verified # user[j].verified
      <3>1. i \in Id /\ user'[i].verified /\ ~user[i].verified
        <4>1. PICK j \in Id : user'[j].verified # user[j].verified
          BY <2>3
        <4>2. TypeInv'
          BY TypeNext
        <4>3. user[j].verified \in BOOLEAN /\ user'[j].verified \in BOOLEAN
          BY <1>0, <4>2 DEF TypeInv, UsersOK, Row
        <4>4. user'[j].verified /\ ~user[j].verified /\ j = i
          BY <2>1, <4>1, <4>3
        <4> QED
          BY <4>4
      <3>2. \A j \in Id \ {i} : Status'[j] = Status[j]
        BY <2>1, StatusAt, StatusNext
      <3>3. CASE user[i].state = "live"
        <4>1. Status[i] = "pending" /\ Status'[i] = "active"
          BY <2>1, <3>1, <3>3, StatusAt, StatusNext
        <4>2. Life!Activate(i)
          BY <2>1, <3>1, <3>2, <4>1, StatusExcept DEF Life!Activate
        <4> QED
          BY <3>1, <4>2 DEF Life!Next
      <3>4. CASE user[i].state # "live"
        <4>1. Status'[i] = Status[i]
          BY <2>1, <3>1, <3>4, StatusAt, StatusNext
        <4> QED
          BY <2>1, <3>2, <4>1, StatusSame
      <3> QED
        BY <3>3, <3>4
    <2> QED
      BY <2>2, <2>3
  <1>3. ASSUME NEW c \in Call, Insert(c) PROVE [Life!Next]_<<Status, cups, overridden>>
    <2>1. PICK i \in Id :
            /\ user[i].state = "absent"
            /\ user'[i].state = "live" /\ ~user'[i].verified
            /\ \A j \in Id \ {i} : user'[j] = user[j]
      BY <1>0, <1>3 DEF Insert
    <2>2. Status[i] = "absent" /\ Status'[i] = "pending"
      BY <2>1, StatusAt, StatusNext
    <2>3. \A j \in Id \ {i} : Status'[j] = Status[j]
      BY <2>1, StatusAt, StatusNext
    <2>4. cups' = cups /\ overridden' = overridden
      BY <1>3 DEF Insert
    <2>5. Life!Open(i)
      BY <2>2, <2>3, <2>4, StatusExcept DEF Life!Open
    <2> QED
      BY <2>5 DEF Life!Next
  <1>4. ASSUME NEW c \in Call, MarkDeleted(c) \/ DeleteExpired(c)
        PROVE  [Life!Next]_<<Status, cups, overridden>>
    <2> DEFINE S == {i \in Live : user'[i] # user[i]}
    <2>1. /\ cups' = cups /\ overridden' = overridden
          /\ \A i \in Id : user'[i] = user[i] \/ user'[i] = Deleted(user[i])
      BY <1>0, <1>4 DEF MarkDeleted, DeleteExpired, claims
    <2>2. \A i \in Id : Deleted(user[i]).state =
            IF user[i].state = "absent" THEN "absent" ELSE "deleted"
      BY <1>0 DEF Deleted, Row
    <2>3. ASSUME NEW i \in Id
          PROVE  /\ i \in S => /\ Status[i] \in {"pending", "active"}
                               /\ Status'[i] = "deleted"
                 /\ i \notin S => Status'[i] = Status[i]
      <3>1. CASE user'[i] = user[i]
        BY <3>1, StatusAt, StatusNext
      <3>2. CASE user'[i] = Deleted(user[i]) /\ user'[i] # user[i]
        <4>1. CASE i \in Live
          BY <2>2, <3>2, <4>1, StatusAt, StatusNext DEF Live
        <4>2. CASE i \notin Live
          <5>1. user[i].state \in {"absent", "deleted"}
            BY <1>0, <4>2 DEF Live, Row
          <5>2. user'[i].state = user[i].state
            BY <2>2, <3>2, <5>1
          <5> QED
            BY <4>2, <5>1, <5>2, StatusAt, StatusNext
        <4> QED
          BY <4>1, <4>2
      <3> QED
        BY <2>1, <3>1, <3>2
    <2>4. Status' = [i \in Id |-> IF i \in S THEN "deleted" ELSE Status[i]]
      <3>1. Status' = [i \in Id |-> Status'[i]]
        BY DEF Status
      <3> QED
        BY <2>3, <3>1
    <2>5. S \in SUBSET Id
      BY DEF Live
    <2>6. Life!Close(S)
      BY <2>1, <2>3, <2>4, <2>5 DEF Life!Close
    <2> QED
      BY <2>5, <2>6 DEF Life!Next
  <1>5. ASSUME NEW c \in Call, DeleteCups(c) PROVE [Life!Next]_<<Status, cups, overridden>>
    <2> DEFINE i == req(c).id
    <2>1. /\ pc(c) = "cups" /\ user' = user /\ cups' = cups \ {i}
          /\ overridden' = overridden
      BY <1>5 DEF DeleteCups, claims
    <2>2. i \in Id /\ (user[i].state = "deleted" \/ i \in overridden)
      BY <1>0, <2>1 DEF LeavingOK, Leaving, pc, req
    <2>3. Status[i] = "deleted" \/ i \in overridden
      BY <2>2, StatusAt
    <2>4. Status' = Status
      BY <2>1 DEF Status, Verified, Live
    <2>5. Life!Leave(i)
      BY <2>1, <2>3, <2>4 DEF Life!Leave
    <2> QED
      BY <2>2, <2>5 DEF Life!Next
  <1>6. ASSUME NEW c \in Call, DeleteKeys(c) \/ WorkerRunDeleteAccount(c) \/ Stop(c)
        PROVE  [Life!Next]_<<Status, cups, overridden>>
    BY <1>1, <1>6 DEF DeleteKeys, WorkerRunDeleteAccount, Stop, tables, claims
  <1>7. ASSUME NEW i \in Id, JoinCup(i) PROVE [Life!Next]_<<Status, cups, overridden>>
    <2>1. /\ user' = user /\ cups' = cups \cup {i} /\ user[i].state # "absent"
          /\ overridden' = overridden
      BY <1>7 DEF JoinCup, claims
    <2>2. Status[i] # "absent" /\ Status' = Status
      BY <2>1, StatusAt DEF Status, Verified, Live
    <2>3. Life!Join(i)
      BY <2>1, <2>2 DEF Life!Join
    <2> QED
      BY <2>3 DEF Life!Next
  <1>8. ASSUME NEW i \in Id, AddKey(i) PROVE [Life!Next]_<<Status, cups, overridden>>
    BY <1>1, <1>8 DEF AddKey, claims
  <1>9. CASE Tick \/ UNCHANGED vars
    BY <1>1, <1>9 DEF Tick, vars, tables, claims
  <1>10. ASSUME NEW c \in Call, WriteProfile(c)
         PROVE  [Life!Next]_<<Status, cups, overridden>>
    <2> DEFINE i == call[c].found
    <2>1. /\ i \in Id /\ cups' = cups
          /\ \A j \in Id \ {i} : user'[j] = user[j]
          /\ user'[i].state = "absent" <=> user[i].state = "absent"
          /\ \/ /\ overridden' = overridden
                /\ user'[i].state = user[i].state /\ user'[i].verified = user[i].verified
             \/ overridden' = overridden \cup {i} /\ user[i].state # "absent"
      BY <1>10, ProfileWritten
    <2>2. \A j \in Id \ {i} : Status'[j] = Status[j]
      BY <2>1, StatusAt, StatusNext
    <2>3. CASE /\ overridden' = overridden
               /\ user'[i].state = user[i].state /\ user'[i].verified = user[i].verified
      <3>1. Status'[i] = Status[i]
        BY <2>1, <2>3, StatusAt, StatusNext
      <3> QED
        BY <2>1, <2>2, <2>3, <3>1, StatusSame
    <2>4. CASE overridden' = overridden \cup {i} /\ user[i].state # "absent"
      <3>1. user'[i].state \in {"live", "deleted"} /\ user[i].state \in {"live", "deleted"}
        <4>1. TypeInv'
          BY TypeNext
        <4>2. user'[i] \in Row /\ user[i] \in Row
          BY <1>0, <2>1, <4>1 DEF TypeInv, UsersOK
        <4> QED
          BY <2>1, <2>4, <4>2 DEF Row
      <3>2. Status'[i] \in {"pending", "active", "deleted"} /\ Status[i] # "absent"
        BY <2>1, <3>1, StatusAt, StatusNext
      <3>3. Status' = [Status EXCEPT ![i] = Status'[i]]
        BY <2>1, <2>2, StatusExcept
      <3>4. Life!Override(i)
        BY <2>1, <2>4, <3>2, <3>3 DEF Life!Override
      <3> QED
        BY <2>1, <3>4 DEF Life!Next
    <2> QED
      BY <2>1, <2>3, <2>4
  <1> QED
    BY <1>2, <1>3, <1>4, <1>5, <1>6, <1>7, <1>8, <1>9, <1>10, Steps

\* The handlers, the links and the worker together implement AccountLife: nothing
\* they do in any order reopens an account, makes an active one pending again, or
\* takes a live one out of its cups, but for the accounts whose columns a body wrote.
THEOREM ImplementsLife == Spec => LifeSpec
  BY LifeInit, LifeNext, AlwaysTypeInv, AlwaysLeaveInv, PTL DEF Spec, LifeSpec, Life!Spec

=============================================================================
