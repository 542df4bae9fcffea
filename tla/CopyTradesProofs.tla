-------------------------- MODULE CopyTradesProofs --------------------------
(***************************************************************************)
(* Proofs about CopyTrades, for any number of calls, keys, followers and   *)
(* retries.                                                                *)
(***************************************************************************)
EXTENDS CopyTrades, FiniteSetTheorems, TLAPS

USE DEF Active, Ended, StartTries, CountTry, Break, PushAtLimit

-----------------------------------------------------------------------------
(***************************************************************************)
(* The shape of the two for loops: what is still to be visited and the     *)
(* element a call is at come from the list it read.                        *)
(***************************************************************************)
LoopOK ==
  \A r \in Request :
    /\ pc[r] \in {"place", "attempt"} => todo[r] \subseteq targets[r]
    /\ pc[r] = "attempt" =>
         cur[r] \in targets[r] /\ cur[r] \notin todo[r] /\ try[r] <= MaxRetry
    /\ pc[r] \in {"cancel", "cancelling"} => todo[r] \subseteq batch[r]
    /\ pc[r] = "cancelling" => cur[r] \in batch[r]

TypeInv == TypeOK /\ LoopOK

LEMMA InitTypeInv == Init => TypeInv
  BY BodyAssumption, FollowAssumption DEF Init, TypeInv, TypeOK, LoopOK

\* Throw and Restart change only pc, and only to labels where a call rests.
LEMMA ThrowPC ==
  ASSUME TypeOK, NEW r \in Request, Throw(r)
  PROVE  /\ pc' \in [Request -> {"idle"} \cup Active \cup Ended]
         /\ pc'[r] = "rejected"
         /\ \A q \in Request : q # r => pc'[q] = pc[q] \/ pc'[q] = "lost"
  BY DEF TypeOK, Throw, Goto

LEMMA PlacingTypeInv ==
  ASSUME TypeInv, NEW r \in Request, Placing(r)
  PROVE  TypeInv'
  <1> USE DEF TypeInv, TypeOK, LoopOK, Goto, tables, exchange, loop
  <1>1. CASE NextKey(r)
    BY <1>1, RetryAssumption DEF NextKey
  <1>2. CASE PlaceOk(r)
    BY <1>2, NoIdAssumption DEF PlaceOk, Push, ThisOrder, Reported, OrderId, RowType
  <1>3. CASE PlaceUnknownType(r)
    BY <1>3 DEF PlaceUnknownType, Push, RowType
  <1>4. CASE PlaceTimeout(r)
    BY <1>4, RetryAssumption DEF PlaceTimeout, Push, ThisOrder, OrderId, RowType
  <1>5. CASE PlaceError(r)
    BY <1>5 DEF PlaceError, Push, ThisOrder, OrderId, RowType
  <1>6. CASE Commit(r)
    BY <1>6 DEF Commit
  <1> QED
    BY <1>1, <1>2, <1>3, <1>4, <1>5, <1>6 DEF Placing

LEMMA CancellingTypeInv ==
  ASSUME TypeInv, NEW r \in Request, Cancelling(r)
  PROVE  TypeInv'
  <1> USE DEF TypeInv, TypeOK, LoopOK, Goto, tables, exchange, loop
  <1>1. CASE ReadRows(r)
    BY <1>1 DEF ReadRows, RowType
  <1>2. CASE NextCancel(r)
    BY <1>2 DEF NextCancel
  <1>3. CASE CancelWithoutKey(r)
    BY <1>3, ThrowPC DEF CancelWithoutKey
  <1>4. CASE CancelOk(r)
    BY <1>4 DEF CancelOk
  <1>5. CASE CancelRetry(r)
    BY <1>5 DEF CancelRetry
  <1>6. CASE CancelBreak(r)
    BY <1>6 DEF CancelBreak
  <1>7. CASE EndCancel(r)
    BY <1>7 DEF EndCancel
  <1> QED
    BY <1>1, <1>2, <1>3, <1>4, <1>5, <1>6, <1>7 DEF Cancelling

LEMMA NextTypeInv == TypeInv /\ [Next]_vars => TypeInv'
  <1> SUFFICES ASSUME TypeInv, [Next]_vars PROVE TypeInv'
    OBVIOUS
  <1> USE DEF TypeInv, TypeOK, LoopOK, Goto, tables, exchange, loop
  <1>1. ASSUME NEW r \in Request, Receive(r) PROVE TypeInv'
    BY <1>1 DEF Receive
  <1>2. ASSUME NEW r \in Request, FindLeaderKey(r) PROVE TypeInv'
    BY <1>2 DEF FindLeaderKey
  <1>3. ASSUME NEW r \in Request, FindFollows(r) PROVE TypeInv'
    BY <1>3 DEF FindFollows
  <1>4. ASSUME NEW r \in Request, FindKeys(r) PROVE TypeInv'
    BY <1>4 DEF FindKeys
  <1>5. ASSUME NEW r \in Request, FindOrder(r) PROVE TypeInv'
    BY <1>5 DEF FindOrder
  <1>6. ASSUME NEW r \in Request, DatabaseError(r) PROVE TypeInv'
    BY <1>6, ThrowPC DEF DatabaseError
  <1>7. CASE Restart
    BY <1>7 DEF Restart
  <1>8. CASE EditTables
    BY <1>8, FollowAssumption DEF EditTables
  <1>9. CASE UNCHANGED vars
    BY <1>9 DEF vars
  <1> QED
    BY <1>1, <1>2, <1>3, <1>4, <1>5, <1>6, <1>7, <1>8, <1>9,
       PlacingTypeInv, CancellingTypeInv DEF Next, Step

\* Every variable keeps its type, for all calls, keys and retry bounds.
THEOREM TypeCorrect == Spec => []TypeInv
  BY InitTypeInv, NextTypeInv, PTL DEF Spec

\* The part of it that the runs check: the tables, the exchanges and the calls hold
\* values of their types.
THEOREM TypesHold == Spec => []TypeOK
  <1>1. TypeInv => TypeOK
    BY DEF TypeInv
  <1> QED
    BY <1>1, TypeCorrect, PTL

-----------------------------------------------------------------------------
(***************************************************************************)
(* Placing.  The invariant says how the rows a call has collected relate   *)
(* to the keys it has visited, to the attempts it has made and to the      *)
(* orders those attempts created; rows reach place_orders only as a whole. *)
(***************************************************************************)
OneRowOrLimit(a, b) == a = b \/ LimitThenLast(a, b) \/ LimitThenLast(b, a)

SavedRowOK(r, row) ==
  /\ row.req = r /\ row.key \in targets[r]
  /\ pc[r] \in {"place", "attempt"} \cup Ended
  /\ pc[r] \in {"place", "attempt"} => row.key \notin todo[r]
  /\ pc[r] = "attempt" /\ row.key = cur[r] =>
       row.try = MaxRetry - 1 /\ try[r] = MaxRetry /\ row.status = "FAILED"
  /\ row.xid # NoId =>
       row.xid = <<r, row.key, row.try>> /\ row.status = "SUCCESS" /\ row.xid \in placed
  /\ \A other \in saves[r] : other.key = row.key => OneRowOrLimit(row, other)

SavesOK == \A r \in Request : \A row \in saves[r] : SavedRowOK(r, row)

\* The keys the for loop has dealt with, and those whose last attempt is running.
HasRow(r, k) == \E row \in saves[r] : row.key = k

VisitedOK ==
  \A r \in Request : pc[r] \in {"place", "attempt"} =>
    \A k \in targets[r] \ todo[r] :
      HasRow(r, k) \/ (pc[r] = "attempt" /\ k = cur[r] /\ try[r] < MaxRetry)

RowsOK ==
  \A row \in rows :
    /\ pc[row.req] = "done"
    /\ row \in saves[row.req] /\ saves[row.req] \subseteq rows
    /\ \A k \in targets[row.req] : HasRow(row.req, k)

PlacedOK ==
  \A x \in placed :
    /\ pc[x[1]] \in {"place", "attempt"} \cup Ended
    /\ pc[x[1]] \in {"place", "attempt"} => x[2] \notin todo[x[1]]
    /\ pc[x[1]] = "attempt" /\ x[2] = cur[x[1]] => x[3] < try[x[1]]

PlaceInv == SavesOK /\ VisitedOK /\ RowsOK /\ PlacedOK /\ NoAttemptAfterSuccess

LEMMA InitPlaceInv == Init => PlaceInv
  BY DEF Init, PlaceInv, SavesOK, VisitedOK, RowsOK, PlacedOK, NoAttemptAfterSuccess

\* A step of a call that is not placing leaves the books alone; its own part of
\* the invariant holds because it has no rows and no orders.
LEMMA OtherPlaceInv ==
  ASSUME TypeInv, PlaceInv,
         UNCHANGED <<rows, placed, saves, body>>,
         pc' \in [Request -> {"idle"} \cup Active \cup Ended],
         \A r \in Request :
           \/ pc'[r] = pc[r] /\ UNCHANGED <<targets[r], todo[r], cur[r], try[r]>>
           \/ pc[r] \in Active /\ pc'[r] \in {"lost", "rejected"} /\ UNCHANGED targets[r]
           \/ /\ pc[r] \notin {"place", "attempt"} \cup Ended
              /\ pc'[r] = "place" => todo'[r] = targets'[r]
              /\ pc'[r] # "attempt"
  PROVE  PlaceInv'
  <1> USE DEF TypeInv, TypeOK, PlaceInv, OrderId, RowType
  <1>1. SavesOK'
    <2> SUFFICES ASSUME NEW r \in Request, NEW row \in saves[r]
                 PROVE  SavedRowOK(r, row)'
      BY DEF SavesOK
    <2>1. SavedRowOK(r, row)
      BY DEF SavesOK
    <2>2. pc[r] \in {"place", "attempt"} \cup Ended
      BY <2>1 DEF SavedRowOK
    <2>3. CASE pc'[r] = pc[r] /\ UNCHANGED <<targets[r], todo[r], cur[r], try[r]>>
      BY <2>1, <2>3 DEF SavedRowOK, OneRowOrLimit, LimitThenLast
    <2>4. CASE pc'[r] \in {"lost", "rejected"} /\ UNCHANGED targets[r]
      BY <2>1, <2>4 DEF SavedRowOK, OneRowOrLimit, LimitThenLast
    <2> QED
      BY <2>2, <2>3, <2>4
  <1>2. VisitedOK'
    BY DEF VisitedOK, HasRow
  <1>3. RowsOK'
    BY DEF RowsOK, HasRow
  <1>4. PlacedOK'
    BY DEF PlacedOK
  <1>5. NoAttemptAfterSuccess'
    BY DEF NoAttemptAfterSuccess
  <1> QED
    BY <1>1, <1>2, <1>3, <1>4, <1>5

LEMMA NextKeyPlaceInv ==
  ASSUME TypeInv, PlaceInv, NEW r \in Request, NextKey(r)
  PROVE  PlaceInv'
  <1> USE DEF TypeInv, TypeOK, LoopOK, PlaceInv, OrderId, RowType, NextKey, Goto,
              tables, exchange
  <1>1. SavesOK'
    BY DEF SavesOK, SavedRowOK, OneRowOrLimit, LimitThenLast
  <1>2. VisitedOK'
    BY RetryAssumption DEF VisitedOK, HasRow
  <1>3. RowsOK'
    BY DEF RowsOK, HasRow
  <1>4. PlacedOK'
    BY DEF PlacedOK
  <1>5. NoAttemptAfterSuccess'
    BY DEF NoAttemptAfterSuccess
  <1> QED
    BY <1>1, <1>2, <1>3, <1>4, <1>5

\* The three answers that push one row and go on to the next key.
LEMMA AnswerPlaceInv ==
  ASSUME TypeInv, PlaceInv, NEW r \in Request,
         pc[r] = "attempt", Goto(r, "place"),
         NEW status \in {"SUCCESS", "FAILED"}, NEW xid \in {NoId, ThisOrder(r)},
         Push(r, status, xid),
         xid # NoId => status = "SUCCESS" /\ xid \in placed',
         placed' \in {placed, placed \cup {ThisOrder(r)}},
         UNCHANGED <<rows, body, targets, todo, cur, try>>
  PROVE  PlaceInv'
  <1> USE DEF TypeInv, TypeOK, LoopOK, PlaceInv, OrderId, RowType, Push, ThisOrder, Goto
  <1> DEFINE new == [req |-> r, key |-> cur[r], try |-> try[r],
                     status |-> status, xid |-> xid]
  <1>0. /\ saves'[r] = saves[r] \cup {new}
        /\ \A q \in Request \ {r} : saves'[q] = saves[q]
    OBVIOUS
  <1>1. SavesOK'
    <2> SUFFICES ASSUME NEW q \in Request, NEW row \in saves'[q]
                 PROVE  SavedRowOK(q, row)'
      BY DEF SavesOK
    <2>1. CASE q # r
      BY <2>1, <1>0 DEF SavesOK, SavedRowOK, OneRowOrLimit, LimitThenLast
    <2>2. CASE q = r /\ row \in saves[r]
      <3>1. SavedRowOK(r, row)
        BY <2>2 DEF SavesOK
      <3>2. row.key = cur[r] => OneRowOrLimit(row, new)
        BY <3>1, RetryAssumption DEF SavedRowOK, OneRowOrLimit, LimitThenLast
      <3> QED
        BY <3>1, <3>2, <2>2, <1>0 DEF SavedRowOK, OneRowOrLimit, LimitThenLast
    <2>3. CASE q = r /\ row = new
      <3>1. \A other \in saves[r] : other.key = cur[r] => OneRowOrLimit(new, other)
        BY RetryAssumption DEF SavesOK, SavedRowOK, OneRowOrLimit, LimitThenLast
      <3> QED
        BY <3>1, <2>3, <1>0 DEF SavedRowOK, OneRowOrLimit, LimitThenLast
    <2> QED
      BY <2>1, <2>2, <2>3, <1>0
  <1>2. VisitedOK'
    <2> SUFFICES ASSUME NEW q \in Request, pc'[q] \in {"place", "attempt"},
                        NEW k \in targets[q] \ todo[q]
                 PROVE  \/ HasRow(q, k)'
                        \/ pc'[q] = "attempt" /\ k = cur[q] /\ try[q] < MaxRetry
      BY DEF VisitedOK
    <2>1. HasRow(q, k) => HasRow(q, k)'
      BY <1>0 DEF HasRow
    <2>2. CASE q = r /\ k = cur[r]
      <3>1. new \in saves'[r] /\ new.key = cur[r]
        BY <1>0
      <3> HIDE DEF new
      <3> QED
        BY <3>1, <2>2 DEF HasRow
    <2>3. CASE q = r /\ k # cur[r]
      BY <2>1, <2>3 DEF VisitedOK
    <2>4. CASE q # r
      BY <2>1, <2>4 DEF VisitedOK
    <2> QED
      BY <2>2, <2>3, <2>4
  <1>3. RowsOK'
    BY <1>0 DEF RowsOK, HasRow
  <1>4. PlacedOK'
    BY DEF PlacedOK
  <1>5. NoAttemptAfterSuccess'
    BY <1>0 DEF NoAttemptAfterSuccess, PlacedOK, SavesOK, SavedRowOK
  <1> QED
    BY <1>1, <1>2, <1>3, <1>4, <1>5

LEMMA TimeoutPlaceInv ==
  ASSUME TypeInv, PlaceInv, NEW r \in Request, PlaceTimeout(r)
  PROVE  PlaceInv'
  <1> USE DEF TypeInv, TypeOK, LoopOK, PlaceInv, OrderId, RowType, PlaceTimeout, Push,
              ThisOrder, Goto, tables
  <1> DEFINE new == [req |-> r, key |-> cur[r], try |-> try[r],
                     status |-> "FAILED", xid |-> NoId]
  <1>0. /\ saves'[r] = IF try[r] + 1 = MaxRetry THEN saves[r] \cup {new} ELSE saves[r]
        /\ \A q \in Request \ {r} : saves'[q] = saves[q]
        /\ try'[r] = try[r] + 1
        /\ \A q \in Request \ {r} : try'[q] = try[q]
        /\ pc'[r] = IF try[r] + 1 <= MaxRetry THEN "attempt" ELSE "place"
        /\ \A q \in Request \ {r} : pc'[q] = pc[q]
    BY RetryAssumption
  <1>1. SavesOK'
    <2> SUFFICES ASSUME NEW q \in Request, NEW row \in saves'[q]
                 PROVE  SavedRowOK(q, row)'
      BY DEF SavesOK
    <2>1. CASE q # r
      BY <2>1, <1>0 DEF SavesOK, SavedRowOK, OneRowOrLimit, LimitThenLast
    <2>2. CASE q = r /\ row \in saves[r]
      <3>1. SavedRowOK(r, row)
        BY <2>2 DEF SavesOK
      <3>2. row.key = cur[r] => try[r] = MaxRetry
        BY <3>1 DEF SavedRowOK
      <3> QED
        BY <3>1, <3>2, <2>2, <1>0, RetryAssumption
        DEF SavedRowOK, OneRowOrLimit, LimitThenLast
    <2>3. CASE q = r /\ row = new /\ try[r] + 1 = MaxRetry
      <3>1. \A other \in saves[r] : other.key # cur[r]
        BY <2>3, RetryAssumption DEF SavesOK, SavedRowOK
      <3> QED
        BY <3>1, <2>3, <1>0, RetryAssumption
        DEF SavedRowOK, OneRowOrLimit, LimitThenLast
    <2> QED
      BY <2>1, <2>2, <2>3, <1>0
  <1>2. VisitedOK'
    <2> SUFFICES ASSUME NEW q \in Request, pc'[q] \in {"place", "attempt"},
                        NEW k \in targets[q] \ todo[q]
                 PROVE  \/ HasRow(q, k)'
                        \/ pc'[q] = "attempt" /\ k = cur[q] /\ try'[q] < MaxRetry
      BY DEF VisitedOK
    <2>1. HasRow(q, k) => HasRow(q, k)'
      BY <1>0 DEF HasRow
    <2>2. CASE q = r /\ k = cur[r] /\ try[r] + 1 = MaxRetry
      <3>1. new \in saves'[r] /\ new.key = cur[r]
        BY <2>2, <1>0
      <3> HIDE DEF new
      <3> QED
        BY <3>1, <2>2 DEF HasRow
    <2>3. CASE q = r /\ k = cur[r] /\ try[r] + 1 # MaxRetry
      BY <2>1, <2>3, <1>0, RetryAssumption DEF VisitedOK
    <2>4. CASE q # r \/ k # cur[r]
      BY <2>1, <2>4, <1>0 DEF VisitedOK
    <2> QED
      BY <2>2, <2>3, <2>4
  <1>3. RowsOK'
    BY <1>0 DEF RowsOK, HasRow
  <1>4. PlacedOK'
    BY <1>0 DEF PlacedOK
  <1>5. NoAttemptAfterSuccess'
    BY <1>0 DEF NoAttemptAfterSuccess, SavesOK, SavedRowOK
  <1> QED
    BY <1>1, <1>2, <1>3, <1>4, <1>5

LEMMA CommitPlaceInv ==
  ASSUME TypeInv, PlaceInv, NEW r \in Request, Commit(r)
  PROVE  PlaceInv'
  <1> USE DEF TypeInv, TypeOK, LoopOK, PlaceInv, OrderId, RowType, Commit, Goto,
              tables, exchange, loop
  <1>1. SavesOK'
    BY DEF SavesOK, SavedRowOK, OneRowOrLimit, LimitThenLast
  <1>2. VisitedOK'
    BY DEF VisitedOK, HasRow
  <1>3. RowsOK'
    <2>1. \A k \in targets[r] : HasRow(r, k)
      BY DEF VisitedOK
    <2> QED
      BY <2>1 DEF RowsOK, HasRow, SavesOK, SavedRowOK
  <1>4. PlacedOK'
    BY DEF PlacedOK
  <1>5. NoAttemptAfterSuccess'
    BY DEF NoAttemptAfterSuccess
  <1> QED
    BY <1>1, <1>2, <1>3, <1>4, <1>5

LEMMA NextPlaceInv == TypeInv /\ PlaceInv /\ [Next]_vars => PlaceInv'
  <1> SUFFICES ASSUME TypeInv, PlaceInv, [Next]_vars PROVE PlaceInv'
    OBVIOUS
  <1> USE DEF Goto, tables, exchange, loop
  <1>1. ASSUME NEW r \in Request, NextKey(r) \/ PlaceTimeout(r) \/ Commit(r) PROVE PlaceInv'
    BY <1>1, NextKeyPlaceInv, TimeoutPlaceInv, CommitPlaceInv
  <1>2. ASSUME NEW r \in Request, PlaceOk(r) PROVE PlaceInv'
    <2>1. Reported(r) # NoId => Reported(r) \in placed'
      BY <1>2 DEF PlaceOk, Reported
    <2> QED
      BY <1>2, <2>1, AnswerPlaceInv DEF PlaceOk, Reported
  <1>3. ASSUME NEW r \in Request, PlaceUnknownType(r) PROVE PlaceInv'
    BY <1>3, AnswerPlaceInv DEF PlaceUnknownType
  <1>4. ASSUME NEW r \in Request, PlaceError(r) PROVE PlaceInv'
    BY <1>4, AnswerPlaceInv DEF PlaceError
  <1>5. ASSUME NEW r \in Request,
               \/ Receive(r) \/ FindLeaderKey(r) \/ FindFollows(r) \/ FindKeys(r)
               \/ FindOrder(r)
        PROVE PlaceInv'
    BY <1>5, OtherPlaceInv
    DEF TypeInv, TypeOK, Receive, FindLeaderKey, FindFollows, FindKeys, FindOrder
  <1>6. ASSUME NEW r \in Request,
               \/ ReadRows(r) \/ NextCancel(r) \/ CancelOk(r) \/ CancelRetry(r)
               \/ CancelBreak(r) \/ EndCancel(r)
        PROVE PlaceInv'
    BY <1>6, OtherPlaceInv
    DEF TypeInv, TypeOK, ReadRows, NextCancel, CancelOk, CancelRetry, CancelBreak, EndCancel
  <1>7. ASSUME NEW r \in Request, CancelWithoutKey(r) \/ DatabaseError(r) PROVE PlaceInv'
    BY <1>7, OtherPlaceInv DEF TypeInv, TypeOK, CancelWithoutKey, DatabaseError, Throw
  <1>8. CASE Restart \/ EditTables \/ UNCHANGED vars
    BY <1>8, OtherPlaceInv DEF TypeInv, TypeOK, Restart, EditTables, vars
  <1> QED
    BY <1>1, <1>2, <1>3, <1>4, <1>5, <1>6, <1>7, <1>8
    DEF Next, Step, Placing, Cancelling

LEMMA PlaceInvariant == Spec => [](TypeInv /\ PlaceInv)
  BY InitTypeInv, InitPlaceInv, NextTypeInv, NextPlaceInv, PTL DEF Spec

\* Retrying stops at the first confirmed order, for every number of retries.
THEOREM NoDoubleSuccess == Spec => []NoAttemptAfterSuccess
  BY PlaceInvariant, PTL DEF PlaceInv

\* place_orders holds all of a call's outcome or nothing of it.
THEOREM EveryKeyIsAccountedFor == Spec => []EveryKeyAccountedFor
  <1>1. TypeInv /\ PlaceInv => EveryKeyAccountedFor
    <2> SUFFICES ASSUME TypeInv, PlaceInv, NEW row \in rows, NEW k \in targets[row.req]
                 PROVE  /\ RowsOf(row.req, k) # {}
                        /\ \A a, b \in RowsOf(row.req, k) : OneRowOrLimit(a, b)
      BY DEF EveryKeyAccountedFor, OneRowOrLimit
    <2> USE DEF TypeInv, TypeOK, PlaceInv, RowType
    <2>1. row.req \in Request
      OBVIOUS
    <2>2. PICK s \in saves[row.req] : s.key = k
      BY DEF RowsOK, HasRow
    <2>3. s \in RowsOf(row.req, k)
      BY <2>1, <2>2 DEF RowsOK, SavesOK, SavedRowOK, RowsOf
    <2>4. ASSUME NEW a \in RowsOf(row.req, k), NEW b \in RowsOf(row.req, k)
          PROVE  OneRowOrLimit(a, b)
      BY <2>1 DEF RowsOf, RowsOK, SavesOK, SavedRowOK
    <2> QED
      BY <2>3, <2>4
  <1> QED
    BY <1>1, PlaceInvariant, PTL

-----------------------------------------------------------------------------
(***************************************************************************)
(* Cancelling.  The orders a call read came out of the books, belong to    *)
(* the order its event named, and are cancelled, given up or still ahead.  *)
(***************************************************************************)
Recorded == {row.xid : row \in rows} \ {NoId}

BatchOK ==
  \A c \in Request :
    /\ pc[c] \in {"rows", "cancel", "cancelling"} => body[c].status = "CANCELED"
    /\ batch[c] # {} => pc[c] \in {"cancel", "cancelling"} \cup Ended
    /\ \A x \in batch[c] :
         /\ x \in Recorded /\ body[c].status = "CANCELED"
         /\ body[c].leader = body[x[1]].leader /\ body[c].order = body[x[1]].order

DealtWith ==
  \A c \in Request : \A x \in batch[c] :
    \/ x \in cancelled \cup gaveUp[c]
    \/ pc[c] \in {"cancel", "cancelling"} /\ x \in todo[c]
    \/ pc[c] = "cancelling" /\ x = cur[c]
    \/ pc[c] \in {"lost", "rejected"}

CancelledOK == \A x \in cancelled : \E c \in Request : x \in batch[c]

CancelInv == BatchOK /\ DealtWith /\ CancelledOK

LEMMA InitCancelInv == Init => CancelInv
  BY DEF Init, CancelInv, BatchOK, DealtWith, CancelledOK

\* Steps that neither read nor cancel: rows only grow.
LEMMA OtherCancelInv ==
  ASSUME TypeInv, CancelInv, rows \subseteq rows',
         UNCHANGED <<cancelled, body, batch, gaveUp>>,
         \A c \in Request :
           \/ pc'[c] = pc[c] /\ pc[c] \notin {"rows", "cancel", "cancelling"}
           \/ pc'[c] = pc[c] /\ UNCHANGED <<todo[c], cur[c]>>
           \/ pc'[c] \in {"lost", "rejected"}
           \/ /\ pc[c] \notin {"cancel", "cancelling"} \cup Ended
              /\ pc'[c] \notin {"cancel", "cancelling"}
              /\ pc'[c] = "rows" => body[c].status = "CANCELED"
           \/ pc[c] = "cancel" /\ pc'[c] = "done" /\ todo[c] = {}
  PROVE  CancelInv'
  <1> USE DEF TypeInv, TypeOK, CancelInv
  <1>0. Recorded \subseteq Recorded'
    BY DEF Recorded
  <1>1. BatchOK'
    BY <1>0 DEF BatchOK
  <1>2. DealtWith'
    BY DEF DealtWith, BatchOK
  <1>3. CancelledOK'
    BY DEF CancelledOK
  <1> QED
    BY <1>1, <1>2, <1>3

LEMMA CancellingCancelInv ==
  ASSUME TypeInv, PlaceInv, CancelInv, NEW r \in Request, 
         \/ ReadRows(r) \/ NextCancel(r) \/ CancelOk(r) \/ CancelRetry(r) \/ CancelBreak(r)
  PROVE  CancelInv'
  <1> USE DEF TypeInv, TypeOK, LoopOK, CancelInv, Goto, tables, exchange, loop
  <1>1. CASE ReadRows(r)
    <2>1. \A x \in batch'[r] :
            /\ x \in Recorded
            /\ body[r].leader = body[x[1]].leader /\ body[r].order = body[x[1]].order
      BY <1>1 DEF ReadRows, CopyOf, Recorded, RowType, PlaceInv, RowsOK, SavesOK, SavedRowOK
    <2>2. batch[r] = {}
      BY <1>1 DEF ReadRows, BatchOK
    <2>3. BatchOK'
      BY <1>1, <2>1 DEF ReadRows, BatchOK, Recorded
    <2>4. DealtWith'
      BY <1>1 DEF ReadRows, DealtWith
    <2>5. CancelledOK'
      BY <1>1, <2>2 DEF ReadRows, CancelledOK
    <2> QED
      BY <2>3, <2>4, <2>5
  <1>2. CASE NextCancel(r)
    BY <1>2 DEF NextCancel, BatchOK, DealtWith, CancelledOK, Recorded
  <1>3. CASE CancelOk(r)
    BY <1>3 DEF CancelOk, BatchOK, DealtWith, CancelledOK, Recorded
  <1>4. CASE CancelRetry(r)
    BY <1>4 DEF CancelRetry, BatchOK, DealtWith, CancelledOK, Recorded
  <1>5. CASE CancelBreak(r)
    BY <1>5 DEF CancelBreak, BatchOK, DealtWith, CancelledOK, Recorded
  <1> QED
    BY <1>1, <1>2, <1>3, <1>4, <1>5

LEMMA NextCancelInv == TypeInv /\ PlaceInv /\ CancelInv /\ [Next]_vars => CancelInv'
  <1> SUFFICES ASSUME TypeInv, PlaceInv, CancelInv, [Next]_vars PROVE CancelInv'
    OBVIOUS
  <1> USE DEF TypeInv, TypeOK, Goto, tables, exchange, loop
  <1>1. ASSUME NEW r \in Request,
               \/ Receive(r) \/ FindLeaderKey(r) \/ FindFollows(r) \/ FindKeys(r)
               \/ FindOrder(r)
        PROVE CancelInv'
    BY <1>1, OtherCancelInv
    DEF Receive, FindLeaderKey, FindFollows, FindKeys, FindOrder
  <1>2. ASSUME NEW r \in Request, Placing(r) PROVE CancelInv'
    BY <1>2, OtherCancelInv
    DEF Placing, NextKey, PlaceOk, PlaceUnknownType, PlaceTimeout, PlaceError, Commit, Push
  <1>3. ASSUME NEW r \in Request, EndCancel(r) PROVE CancelInv'
    BY <1>3, OtherCancelInv DEF EndCancel
  <1>4. ASSUME NEW r \in Request, CancelWithoutKey(r) \/ DatabaseError(r) PROVE CancelInv'
    BY <1>4, OtherCancelInv DEF CancelWithoutKey, DatabaseError, Throw
  <1>5. CASE Restart \/ EditTables \/ UNCHANGED vars
    BY <1>5, OtherCancelInv DEF Restart, EditTables, vars
  <1> QED
    BY <1>1, <1>2, <1>3, <1>4, <1>5, CancellingCancelInv DEF Next, Step, Cancelling

LEMMA Invariant == Spec => [](TypeInv /\ PlaceInv /\ CancelInv)
  BY PlaceInvariant, InitCancelInv, NextCancelInv, PTL DEF Spec

\* Cancelling one leader's order never touches the copies of another order.
THEOREM CancelsOnlyCopies == Spec => []CancelsOnlyItsCopies
  <1>1. CancelInv => CancelsOnlyItsCopies
    BY DEF CancelInv, BatchOK, CancelledOK, CancelsOnlyItsCopies
  <1> QED
    BY <1>1, Invariant, PTL

\* A cancelOrders that returned has left no order it read undealt with.
THEOREM CancelHandlesAll == Spec => []CancelHandlesWhatItRead
  <1>1. CancelInv => CancelHandlesWhatItRead
    BY DEF CancelInv, DealtWith, CancelHandlesWhatItRead
  <1> QED
    BY <1>1, Invariant, PTL

-----------------------------------------------------------------------------
(***************************************************************************)
(* CopyTrades implements CopyLedger: each step opens orders for a call     *)
(* that has not settled, settles one call, closes one recorded order, or   *)
(* leaves the ledger as it is.                                             *)
(***************************************************************************)
Settled == {r \in Request : pc[r] = "done"}

Unchanged == UNCHANGED <<placed, Recorded, cancelled, Settled>>

\* The books name only orders that exist, and one for a call and a key.
Books ==
  /\ Recorded \subseteq placed
  /\ \A x, y \in Recorded : x[1] = y[1] /\ x[2] = y[2] => x = y

LEMMA BooksOK ==
  ASSUME TypeInv, PlaceInv
  PROVE  Books
  <1> USE DEF TypeInv, TypeOK, PlaceInv, RowType
  <1>1. \A row \in rows :
          /\ row.req \in Request
          /\ row \in saves[row.req] /\ SavedRowOK(row.req, row)
          /\ saves[row.req] \subseteq rows
    BY DEF RowsOK, SavesOK
  <1>2. ASSUME NEW x \in Recorded, NEW y \in Recorded, x[1] = y[1], x[2] = y[2]
        PROVE  x = y
    <2>1. PICK a \in rows : a.xid = x /\ x # NoId
      BY DEF Recorded
    <2>2. PICK b \in rows : b.xid = y /\ y # NoId
      BY DEF Recorded
    <2>3. /\ x = <<a.req, a.key, a.try>> /\ y = <<b.req, b.key, b.try>>
          /\ a.status = "SUCCESS" /\ b.status = "SUCCESS"
      BY <1>1, <2>1, <2>2 DEF SavedRowOK
    <2>4. a.req = b.req /\ a.key = b.key
      BY <1>2, <2>3
    <2>5. OneRowOrLimit(a, b)
      BY <1>1, <2>4 DEF SavedRowOK
    <2> QED
      BY <2>3, <2>5 DEF OneRowOrLimit, LimitThenLast
  <1>3. Recorded \subseteq placed
    BY <1>1 DEF Recorded, SavedRowOK
  <1> QED
    BY <1>2, <1>3 DEF Books

LEMMA LedgerInit == Init => Ledger!Init
  BY DEF Init, Ledger!Init

LEMMA LedgerStep ==
  ASSUME TypeInv, PlaceInv, CancelInv, Books, Books', [Next]_vars
  PROVE  Ledger!Next \/ Unchanged
  <1> USE DEF TypeInv, TypeOK, Goto, tables, exchange, loop, Unchanged
  <1>1. ASSUME NEW r \in Request,
               \/ Receive(r) \/ FindLeaderKey(r) \/ FindFollows(r) \/ FindKeys(r)
               \/ FindOrder(r) \/ NextKey(r) \/ ReadRows(r) \/ NextCancel(r)
               \/ CancelBreak(r) \/ EndCancel(r)
        PROVE  Ledger!Next \/ Unchanged
    <2>1. UNCHANGED <<rows, placed, cancelled>>
      BY <1>1 DEF Receive, FindLeaderKey, FindFollows, FindKeys, FindOrder, NextKey,
                  ReadRows, NextCancel, CancelBreak, EndCancel
    <2>2. /\ pc[r] # "done"
          /\ \A q \in Request : q # r => pc'[q] = pc[q]
      BY <1>1 DEF Receive, FindLeaderKey, FindFollows, FindKeys, FindOrder, NextKey,
                  ReadRows, NextCancel, CancelBreak, EndCancel
    <2>3. CASE pc'[r] # "done"
      BY <2>1, <2>2, <2>3 DEF Settled, Recorded
    <2>4. CASE pc'[r] = "done"
      <3>1. Settled' = Settled \cup {r} /\ r \notin Settled
        BY <2>2, <2>4 DEF Settled
      <3>2. Recorded' = Recorded
        BY <2>1 DEF Recorded
      <3>3. Ledger!Settle(r)
        BY <3>1, <3>2, <2>1 DEF Ledger!Settle, Recorded, Settled, Books
      <3> QED
        BY <3>3 DEF Ledger!Next
    <2> QED
      BY <2>3, <2>4
  <1>2. ASSUME NEW r \in Request,
               PlaceOk(r) \/ PlaceUnknownType(r) \/ PlaceTimeout(r) \/ PlaceError(r)
        PROVE  Ledger!Next \/ Unchanged
    <2>1. /\ pc[r] = "attempt" /\ UNCHANGED <<rows, cancelled>>
          /\ placed' \in {placed, placed \cup {ThisOrder(r)}}
      BY <1>2 DEF PlaceOk, PlaceUnknownType, PlaceTimeout, PlaceError
    <2>2. Settled' = Settled /\ r \notin Settled
      BY <1>2, <2>1 DEF PlaceOk, PlaceUnknownType, PlaceTimeout, PlaceError, Settled
    <2>3. cur[r] \in Key
      BY <2>1 DEF LoopOK
    <2>4. Ledger!Open
      BY <2>1, <2>2, <2>3 DEF Ledger!Open, Recorded, Settled, ThisOrder
    <2> QED
      BY <2>4 DEF Ledger!Next
  <1>3. ASSUME NEW r \in Request, Commit(r) PROVE Ledger!Next \/ Unchanged
    <2>1. Settled' = Settled \cup {r} /\ r \notin Settled
      BY <1>3 DEF Commit, Settled
    <2>2. /\ UNCHANGED <<placed, cancelled>> /\ Recorded \subseteq Recorded'
          /\ Recorded' \subseteq placed
      BY <1>3 DEF Commit, Recorded, Books
    <2>3. \A x, y \in Recorded' : x[1] = y[1] /\ x[2] = y[2] => x = y
      BY DEF Books
    <2>4. \A x \in Recorded' \ Recorded : x[1] = r
      BY <1>3 DEF Commit, Recorded, PlaceInv, SavesOK, SavedRowOK
    <2>5. Ledger!Settle(r)
      BY <2>1, <2>2, <2>3, <2>4 DEF Ledger!Settle, Recorded, Settled
    <2> QED
      BY <2>5 DEF Ledger!Next
  <1>4. ASSUME NEW r \in Request, CancelOk(r) \/ CancelRetry(r)
        PROVE  Ledger!Next \/ Unchanged
    <2>1. /\ cur[r] \in Recorded /\ UNCHANGED <<rows, placed>>
          /\ cancelled' \in {cancelled, cancelled \cup {cur[r]}}
      BY <1>4 DEF CancelOk, CancelRetry, LoopOK, CancelInv, BatchOK
    <2>2. Settled' = Settled /\ Recorded' = Recorded
      BY <1>4, <2>1 DEF CancelOk, CancelRetry, Settled, Recorded
    <2>3. CASE cancelled' = cancelled
      BY <2>1, <2>2, <2>3
    <2>4. CASE cancelled' # cancelled
      <3>1. cur[r] \notin cancelled /\ cancelled' = cancelled \cup {cur[r]}
        BY <2>1, <2>4
      <3>2. Ledger!Close(cur[r])
        BY <2>1, <2>2, <3>1 DEF Ledger!Close, Recorded, Settled
      <3> QED
        BY <3>2, <2>1 DEF Ledger!Next, Recorded
    <2> QED
      BY <2>3, <2>4
  <1>5. ASSUME NEW r \in Request, CancelWithoutKey(r) \/ DatabaseError(r)
        PROVE  Unchanged
    BY <1>5 DEF CancelWithoutKey, DatabaseError, Throw, Settled, Recorded
  <1>6. CASE Restart \/ EditTables \/ UNCHANGED vars
    BY <1>6 DEF Restart, EditTables, vars, Settled, Recorded
  <1> QED
    BY <1>1, <1>2, <1>3, <1>4, <1>5, <1>6 DEF Next, Step, Placing, Cancelling

\* Copy trading keeps the promises of CopyLedger, whatever the interleaving.
THEOREM ImplementsLedger == Spec => LedgerSpec
  <1>1. TypeInv /\ PlaceInv => Books
    BY BooksOK
  <1>2. TypeInv /\ PlaceInv /\ CancelInv /\ Books /\ Books' /\ [Next]_vars
          => [Ledger!Next]_<<placed, {row.xid : row \in rows} \ {NoId}, cancelled,
                            {r \in Request : pc[r] = "done"}>>
    BY LedgerStep DEF Unchanged, Recorded, Settled
  <1> QED
    BY <1>1, <1>2, LedgerInit, Invariant, PTL DEF Spec, LedgerSpec, Ledger!Spec

-----------------------------------------------------------------------------
(***************************************************************************)
(* The end of a call.  That it comes under fairness is left to the model   *)
(* checker; here is what it comes from: every step of a call goes down an  *)
(* order that has no infinite descent.                                     *)
(***************************************************************************)
FiniteInv ==
  /\ IsFiniteSet(rows)
  /\ \A r \in Request :
       /\ IsFiniteSet(saves[r]) /\ IsFiniteSet(todo[r])
       /\ pc[r] = "cancelling" => try[r] <= MaxRetry

LEMMA FiniteIds ==
  ASSUME NEW S, IsFiniteSet(S)
  PROVE  IsFiniteSet({row.xid : row \in S})
  <1> DEFINE T == {row.xid : row \in S}
             f == [row \in S |-> row.xid]
  <1>1. f \in Surjection(S, T)
    BY DEF Surjection
  <1> HIDE DEF T, f
  <1>2. IsFiniteSet(T)
    BY <1>1, FS_Surjection
  <1> QED
    BY <1>2 DEF T

LEMMA FinitePush ==
  ASSUME TypeOK, FiniteInv, NEW r \in Request, NEW status, NEW xid, Push(r, status, xid)
  PROVE  \A q \in Request : IsFiniteSet(saves'[q])
  <1> DEFINE row == [req |-> r, key |-> cur[r], try |-> try[r], status |-> status, xid |-> xid]
  <1>1. IsFiniteSet(saves[r] \cup {row})
    BY FS_AddElement DEF FiniteInv
  <1>2. saves' = [saves EXCEPT ![r] = saves[r] \cup {row}]
    BY DEF Push
  <1> HIDE DEF row
  <1> QED
    BY <1>1, <1>2 DEF FiniteInv, TypeOK

LEMMA InitFinite == Init => FiniteInv
  BY FS_EmptySet DEF Init, FiniteInv

\* Where the tables and loops are left alone, apart from elements taken out of one.
LEMMA FewerFinite ==
  ASSUME TypeOK, FiniteInv, UNCHANGED <<rows, saves>>,
         \A r \in Request : todo'[r] \subseteq todo[r],
         \A r \in Request : pc'[r] = "cancelling" => try'[r] <= MaxRetry
  PROVE  FiniteInv'
  <1>1. ASSUME NEW r \in Request PROVE IsFiniteSet(todo'[r])
    BY FS_Subset DEF FiniteInv
  <1> QED
    BY <1>1 DEF FiniteInv

LEMMA PlacingFinite ==
  ASSUME TypeInv, FiniteInv, NEW r \in Request, Placing(r)
  PROVE  FiniteInv'
  <1> USE DEF TypeInv, TypeOK, Goto, tables, exchange, loop
  <1>1. \A q \in Request : pc'[q] = "cancelling" => try'[q] <= MaxRetry
    BY RetryAssumption DEF Placing, NextKey, PlaceOk, PlaceUnknownType, PlaceTimeout, PlaceError, Commit,
                           FiniteInv
  <1>2. CASE NextKey(r)
    <2>1. \A q \in Request : todo'[q] \subseteq todo[q]
      BY <1>2 DEF NextKey
    <2> QED
      BY <1>1, <1>2, <2>1, FewerFinite DEF NextKey
  <1>3. CASE Commit(r)
    <2>1. IsFiniteSet(rows')
      BY <1>3, FS_Union DEF Commit, FiniteInv
    <2> QED
      BY <1>1, <1>3, <2>1 DEF Commit, FiniteInv
  <1>4. CASE PlaceOk(r) \/ PlaceUnknownType(r) \/ PlaceTimeout(r) \/ PlaceError(r)
    <2>1. rows' = rows /\ todo' = todo
      BY <1>4 DEF PlaceOk, PlaceUnknownType, PlaceTimeout, PlaceError
    <2>2. \A q \in Request : IsFiniteSet(saves'[q])
      <3>1. saves' = saves \/ \E status \in {"SUCCESS", "FAILED"} : \E xid \in {NoId, Reported(r)} :
                                Push(r, status, xid)
        BY <1>4 DEF PlaceOk, PlaceUnknownType, PlaceTimeout, PlaceError
      <3> QED
        BY <3>1, FinitePush DEF FiniteInv
    <2> QED
      BY <1>1, <2>1, <2>2 DEF FiniteInv
  <1> QED
    BY <1>2, <1>3, <1>4 DEF Placing

LEMMA CancellingFinite ==
  ASSUME TypeInv, FiniteInv, NEW r \in Request, Cancelling(r)
  PROVE  FiniteInv'
  <1> USE DEF TypeInv, TypeOK, Goto, tables, exchange, loop
  <1>1. CASE ReadRows(r)
    <2> DEFINE read == {w \in rows : CopyOf(w, r) /\ w.xid # NoId}
    <2>1. IsFiniteSet(read)
      BY FS_Subset DEF FiniteInv
    <2>2. IsFiniteSet({row.xid : row \in read})
      <3> HIDE DEF read
      <3> QED
        BY <2>1, FiniteIds
    <2>3. todo' = [todo EXCEPT ![r] = {row.xid : row \in read}]
      BY <1>1 DEF ReadRows
    <2> HIDE DEF read
    <2> QED
      BY <1>1, <2>2, <2>3 DEF ReadRows, FiniteInv
  <1>2. CASE ~ReadRows(r)
    <2>1. \A q \in Request : todo'[q] \subseteq todo[q]
      BY <1>2 DEF Cancelling, NextCancel, CancelWithoutKey, CancelOk, CancelRetry, CancelBreak, EndCancel
    <2>2. UNCHANGED <<rows, saves>>
      BY <1>2 DEF Cancelling, NextCancel, CancelWithoutKey, CancelOk, CancelRetry, CancelBreak, EndCancel
    <2>3. ASSUME NEW q \in Request, pc'[q] = "cancelling"
          PROVE  try'[q] <= MaxRetry
      <3>1. CASE NextCancel(r) \/ CancelOk(r) \/ CancelBreak(r) \/ EndCancel(r)
        BY <2>3, <3>1, RetryAssumption DEF NextCancel, CancelOk, CancelBreak, EndCancel, FiniteInv
      <3>2. CASE CancelRetry(r)
        BY <2>3, <3>2 DEF CancelRetry, FiniteInv
      <3>3. CASE CancelWithoutKey(r)
        BY <2>3, <3>3, ThrowPC DEF CancelWithoutKey, FiniteInv
      <3> QED
        BY <1>2, <3>1, <3>2, <3>3 DEF Cancelling
    <2> QED
      BY <2>1, <2>2, <2>3, FewerFinite
  <1> QED
    BY <1>1, <1>2

LEMMA NextFinite ==
  ASSUME TypeInv, FiniteInv, [Next]_vars
  PROVE  FiniteInv'
  <1> USE DEF TypeInv, TypeOK, Goto, tables, exchange, loop
  <1>1. ASSUME NEW r \in Request,
               Receive(r) \/ FindLeaderKey(r) \/ FindFollows(r) \/ FindKeys(r)
        PROVE  FiniteInv'
    BY <1>1 DEF Receive, FindLeaderKey, FindFollows, FindKeys, FiniteInv
  <1>2. ASSUME NEW r \in Request, FindOrder(r)
        PROVE  FiniteInv'
    <2>1. IsFiniteSet(targets[r])
      BY KeyAssumption, FS_Subset
    <2> QED
      BY <1>2, <2>1 DEF FindOrder, FiniteInv
  <1>3. ASSUME NEW r \in Request, DatabaseError(r)
        PROVE  FiniteInv'
    BY <1>3, ThrowPC DEF DatabaseError, FiniteInv
  <1>4. CASE Restart \/ EditTables \/ UNCHANGED vars
    BY <1>4 DEF Restart, EditTables, vars, FiniteInv
  <1> QED
    BY <1>1, <1>2, <1>3, <1>4, PlacingFinite, CancellingFinite DEF Next, Step

LEMMA AheadOf ==
  /\ Ahead["idle"] = 7 /\ Ahead["leaderKey"] = 6 /\ Ahead["follows"] = 5 /\ Ahead["keys"] = 4
  /\ Ahead["order"] = 3 /\ Ahead["rows"] = 2
  /\ Ahead["place"] = 1 /\ Ahead["attempt"] = 1 /\ Ahead["cancel"] = 1 /\ Ahead["cancelling"] = 1
  /\ Ahead["done"] = 0 /\ Ahead["rejected"] = 0 /\ Ahead["lost"] = 0
  BY DEF Ahead

LEMMA IntervalSize ==
  ASSUME NEW a \in Int, NEW b \in Int
  PROVE  Cardinality(a..b) = IF a > b THEN 0 ELSE b - a + 1
  BY FS_Interval, Zenon

\* The numbers that are compared, and the attempts left for the element a call is at.
MeasureInv ==
  \A r \in Request :
    /\ Ahead[pc[r]] \in Nat /\ Cardinality(todo[r]) \in Nat /\ TriesLeft(r) \in Nat
    /\ TriesLeft(r) = IF pc[r] \in {"attempt", "cancelling"} THEN MaxRetry + 1 - try[r] ELSE 0

LEMMA MeasureOK == TypeInv /\ FiniteInv => MeasureInv
  <1> SUFFICES ASSUME TypeInv, FiniteInv, NEW r \in Request
               PROVE  /\ Ahead[pc[r]] \in Nat /\ Cardinality(todo[r]) \in Nat /\ TriesLeft(r) \in Nat
                      /\ TriesLeft(r) = IF pc[r] \in {"attempt", "cancelling"}
                                        THEN MaxRetry + 1 - try[r] ELSE 0
    BY DEF MeasureInv
  <1>1. Ahead[pc[r]] \in Nat
    BY AheadOf DEF TypeInv, TypeOK
  <1>2. Cardinality(todo[r]) \in Nat
    BY FS_CardinalityType DEF FiniteInv
  <1>3. try[r] \in Nat /\ MaxRetry \in Nat
    BY RetryAssumption DEF TypeInv, TypeOK
  <1>4. Cardinality(try[r]..MaxRetry) = IF try[r] > MaxRetry THEN 0 ELSE MaxRetry - try[r] + 1
    <2>1. try[r] \in Int /\ MaxRetry \in Int
      BY <1>3
    <2> QED
      BY <2>1, IntervalSize, Zenon
  <1>5. pc[r] \in {"attempt", "cancelling"} => try[r] <= MaxRetry
    BY DEF TypeInv, LoopOK, FiniteInv
  <1>6. TriesLeft(r) = IF pc[r] \in {"attempt", "cancelling"} THEN MaxRetry + 1 - try[r] ELSE 0
    BY <1>3, <1>4, <1>5 DEF TriesLeft
  <1>7. TriesLeft(r) \in Nat
    BY <1>3, <1>5, <1>6
  <1> QED
    BY <1>1, <1>2, <1>6, <1>7

EndInv == TypeInv /\ FiniteInv /\ MeasureInv

LEMMA EndInvariant == Spec => []EndInv
  <1>1. Init => TypeInv /\ FiniteInv
    BY InitTypeInv, InitFinite
  <1>2. (TypeInv /\ FiniteInv) /\ [Next]_vars => (TypeInv /\ FiniteInv)'
    BY NextTypeInv, NextFinite
  <1>3. TypeInv /\ FiniteInv => EndInv
    BY MeasureOK DEF EndInv
  <1> QED
    BY <1>1, <1>2, <1>3, PTL DEF Spec

\* Taking the next element out of the loop.
LEMMA TakenNearer ==
  ASSUME FiniteInv, NEW r \in Request, NEW x \in todo[r], todo'[r] = todo[r] \ {x},
         Ahead[pc'[r]] = Ahead[pc[r]]
  PROVE  Nearer(r)
  <1>1. IsFiniteSet(todo[r])
    BY DEF FiniteInv
  <1>2. Cardinality(todo[r]) \in Nat /\ Cardinality(todo[r] \ {x}) = Cardinality(todo[r]) - 1
    BY <1>1, FS_CardinalityType, FS_RemoveElement
  <1> QED
    BY <1>2 DEF Nearer

\* An attempt was the last one for its element, or there is one less left.
LEMMA TriedNearer ==
  ASSUME EndInv, EndInv', NEW r \in Request, todo' = todo,
         pc[r] \in {"attempt", "cancelling"},
         \/ pc'[r] \in {"place", "cancel"}
         \/ pc'[r] = pc[r] /\ try'[r] = try[r] + 1
  PROVE  Nearer(r)
  <1>1. try[r] \in Nat /\ MaxRetry \in Nat /\ try[r] <= MaxRetry
    BY RetryAssumption DEF EndInv, TypeInv, TypeOK, LoopOK, FiniteInv
  <1>2. TriesLeft(r) = MaxRetry + 1 - try[r]
    BY DEF EndInv, MeasureInv
  <1>3. TriesLeft(r)' = IF pc'[r] \in {"attempt", "cancelling"} THEN MaxRetry + 1 - try'[r] ELSE 0
    BY DEF EndInv, MeasureInv
  <1>4. TriesLeft(r)' < TriesLeft(r)
    BY <1>1, <1>2, <1>3
  <1>5. Ahead[pc'[r]] = Ahead[pc[r]]
    BY AheadOf
  <1> QED
    BY <1>4, <1>5 DEF Nearer

LEMMA StepNearer ==
  ASSUME EndInv, EndInv', NEW r \in Request, Step(r)
  PROVE  Nearer(r)
  <1> USE DEF EndInv
  <1>1. CASE FindLeaderKey(r) \/ FindFollows(r) \/ FindKeys(r) \/ FindOrder(r) \/ Commit(r)
               \/ ReadRows(r) \/ EndCancel(r)
    <2>1. Ahead[pc'[r]] < Ahead[pc[r]]
      BY <1>1, AheadOf DEF FindLeaderKey, FindFollows, FindKeys, FindOrder, Commit, ReadRows, EndCancel,
                           Goto, TypeInv, TypeOK
    <2> QED
      BY <2>1 DEF Nearer
  <1>2. CASE CancelWithoutKey(r) \/ DatabaseError(r)
    <2>1. pc'[r] = "rejected" /\ pc[r] \in {"cancel", "leaderKey", "follows", "keys", "order", "rows", "place"}
      BY <1>2, ThrowPC DEF CancelWithoutKey, DatabaseError, TypeInv
    <2>2. Ahead[pc'[r]] < Ahead[pc[r]]
      BY <2>1, AheadOf
    <2> QED
      BY <2>2 DEF Nearer
  <1>3. CASE NextKey(r)
    <2>1. PICK x \in todo[r] : todo'[r] = todo[r] \ {x}
      BY <1>3 DEF NextKey, TypeInv, TypeOK
    <2>2. Ahead[pc'[r]] = Ahead[pc[r]]
      BY <1>3, AheadOf DEF NextKey, Goto, TypeInv, TypeOK
    <2> QED
      BY <2>1, <2>2, TakenNearer
  <1>4. CASE NextCancel(r)
    <2>1. PICK x \in todo[r] : todo'[r] = todo[r] \ {x}
      BY <1>4 DEF NextCancel, TypeInv, TypeOK
    <2>2. Ahead[pc'[r]] = Ahead[pc[r]]
      BY <1>4, AheadOf DEF NextCancel, Goto, TypeInv, TypeOK
    <2> QED
      BY <2>1, <2>2, TakenNearer
  <1>5. CASE PlaceOk(r) \/ PlaceUnknownType(r) \/ PlaceTimeout(r) \/ PlaceError(r)
    <2>1. todo' = todo /\ pc[r] = "attempt"
      BY <1>5 DEF PlaceOk, PlaceUnknownType, PlaceTimeout, PlaceError
    <2>2. pc'[r] = "place" \/ (pc'[r] = "attempt" /\ try'[r] = try[r] + 1)
      BY <1>5 DEF PlaceOk, PlaceUnknownType, PlaceTimeout, PlaceError, Goto, TypeInv, TypeOK
    <2> QED
      BY <2>1, <2>2, TriedNearer
  <1>6. CASE CancelOk(r) \/ CancelRetry(r) \/ CancelBreak(r)
    <2>1. todo' = todo /\ pc[r] = "cancelling"
      BY <1>6 DEF CancelOk, CancelRetry, CancelBreak, loop
    <2>2. pc'[r] = "cancel" \/ (pc'[r] = "cancelling" /\ try'[r] = try[r] + 1)
      BY <1>6 DEF CancelOk, CancelRetry, CancelBreak, Goto, TypeInv, TypeOK
    <2> QED
      BY <2>1, <2>2, TriedNearer
  <1> QED
    BY <1>1, <1>2, <1>3, <1>4, <1>5, <1>6 DEF Step, Placing, Cancelling

\* What anything else does to a running call: nothing, or the process takes it down.
LEMMA OthersStayAway ==
  ASSUME TypeInv, NEW r \in Request, pc[r] \in Active, [Next]_vars, ~Step(r)
  PROVE  Nearer(r) \/ UNCHANGED <<pc[r], todo[r], try[r]>>
  <1> USE DEF TypeInv, TypeOK, Goto, tables, exchange, loop
  <1> DEFINE Away == todo'[r] = todo[r] /\ try'[r] = try[r] /\ pc'[r] \in {pc[r], "lost"}
  <1>1. ASSUME Restart \/ EditTables \/ UNCHANGED vars
        PROVE  Away
    <2>1. CASE Restart
      <3>1. /\ pc' = [q \in Request |-> IF pc[q] \in Active THEN "lost" ELSE pc[q]]
            /\ todo' = todo /\ try' = try
        BY <2>1 DEF Restart
      <3>2. pc'[r] = "lost"
        BY <3>1
      <3> QED
        BY <3>1, <3>2
    <2>2. CASE EditTables
      BY <2>2 DEF EditTables
    <2>3. CASE UNCHANGED vars
      BY <2>3 DEF vars
    <2> QED
      BY <1>1, <2>1, <2>2, <2>3
  <1>2. ASSUME NEW q \in Request, q # r, Step(q) \/ Receive(q)
        PROVE  Away
    <2>1. CASE Receive(q) \/ FindLeaderKey(q) \/ FindFollows(q) \/ FindKeys(q) \/ FindOrder(q)
      BY <1>2, <2>1 DEF Receive, FindLeaderKey, FindFollows, FindKeys, FindOrder
    <2>2. CASE DatabaseError(q) \/ CancelWithoutKey(q)
      BY <1>2, <2>2, ThrowPC DEF DatabaseError, CancelWithoutKey
    <2>3. CASE Placing(q)
      BY <1>2, <2>3 DEF Placing, NextKey, PlaceOk, PlaceUnknownType, PlaceTimeout, PlaceError, Commit
    <2>4. CASE ReadRows(q) \/ NextCancel(q) \/ CancelOk(q) \/ CancelRetry(q) \/ CancelBreak(q) \/ EndCancel(q)
      BY <1>2, <2>4 DEF ReadRows, NextCancel, CancelOk, CancelRetry, CancelBreak, EndCancel
    <2> QED
      BY <1>2, <2>1, <2>2, <2>3, <2>4 DEF Step, Cancelling
  <1>3. ~Receive(r)
    BY DEF Receive
  <1>4. Away
    BY <1>1, <1>2, <1>3 DEF Next
  <1>5. CASE pc'[r] = pc[r]
    BY <1>4, <1>5
  <1>6. CASE pc'[r] = "lost"
    <2>1. Ahead[pc'[r]] < Ahead[pc[r]]
      BY <1>6, AheadOf
    <2> QED
      BY <2>1 DEF Nearer
  <1> QED
    BY <1>4, <1>5, <1>6

\* Every step of a call brings it nearer to its end, and no other call moves it.
THEOREM StepsComeToAnEnd == Spec => StepsRunOut
  <1> DEFINE A == \A r \in Request : pc[r] \in Active =>
                    Nearer(r) \/ (~Step(r) /\ UNCHANGED <<pc[r], todo[r], try[r]>>)
  <1>1. EndInv /\ EndInv' /\ [Next]_vars => [A]_vars
    BY StepNearer, OthersStayAway DEF EndInv
  <1>2. [][A]_vars => StepsRunOut
    BY PTL DEF StepsRunOut
  <1> QED
    BY <1>1, <1>2, EndInvariant, PTL DEF Spec

\* Where a call is in the order of the theorem above.
Distance(r) == <<Ahead[pc[r]], <<Cardinality(todo[r]), TriesLeft(r)>>>>

Less   == OpToRel(<, Nat)
Closer == LexPairOrdering(Less, LexPairOrdering(Less, Less, Nat, Nat), Nat, Nat \X Nat)

\* The order has no infinite descent, so a call takes finitely many steps: this is
\* what is left of CallsEnd without the fairness that makes it take them.
THEOREM NoEndlessCall ==
  /\ IsWellFoundedOn(Closer, Nat \X (Nat \X Nat))
  /\ Spec => [][\A r \in Request : Step(r) => <<Distance(r)', Distance(r)>> \in Closer]_vars
  <1>1. IsWellFoundedOn(Closer, Nat \X (Nat \X Nat))
    <2>1. IsWellFoundedOn(Less, Nat)
      BY NatLessThanWellFounded DEF Less
    <2>2. IsWellFoundedOn(LexPairOrdering(Less, Less, Nat, Nat), Nat \X Nat)
      BY <2>1, WFLexPairOrdering
    <2> QED
      BY <2>1, <2>2, WFLexPairOrdering DEF Closer
  <1>2. ASSUME EndInv, EndInv', NEW r \in Request, Step(r)
        PROVE  <<Distance(r)', Distance(r)>> \in Closer
    <2>1. Nearer(r)
      BY <1>2, StepNearer
    <2>2. /\ Ahead[pc[r]] \in Nat /\ Cardinality(todo[r]) \in Nat /\ TriesLeft(r) \in Nat
          /\ Ahead[pc[r]]' \in Nat /\ Cardinality(todo[r])' \in Nat /\ TriesLeft(r)' \in Nat
      BY <1>2 DEF EndInv, MeasureInv
    <2> QED
      BY <2>1, <2>2 DEF Nearer, Distance, Closer, Less, LexPairOrdering, OpToRel
  <1> DEFINE Down == \A r \in Request : Step(r) => <<Distance(r)', Distance(r)>> \in Closer
  <1>3. EndInv /\ EndInv' /\ [Next]_vars => [Down]_vars
    BY <1>2
  <1>4. Spec => [][Down]_vars
    BY <1>3, EndInvariant, PTL DEF Spec
  <1> QED
    BY <1>1, <1>4

=============================================================================
