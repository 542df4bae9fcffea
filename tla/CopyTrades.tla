----------------------------- MODULE CopyTrades -----------------------------
(***************************************************************************)
(* Copy trading: POST /copyTrades tells the service of an event of a       *)
(* leader's order.  The controller answers 200 at once and leaves          *)
(* PlaceOrdersService.copyTrades running with nobody waiting for it, so    *)
(* any number of calls interleave at their awaits and all of them vanish   *)
(* when the process stops.                                                 *)
(*                                                                         *)
(* A NEW or FILLED event is copied to every follower's key in turn, with   *)
(* retries, and the rows of place_orders are written at the very end in    *)
(* one transaction.  A CANCELED event reads those rows back and cancels    *)
(* the exchange orders they name.                                          *)
(*                                                                         *)
(* An exchange order is identified by the attempt that created it,         *)
(* <<request, key, attempt>>: the code sends no client order id, so every  *)
(* attempt that reaches the exchange is an order of its own.               *)
(***************************************************************************)
EXTENDS Integers, FiniteSets

CONSTANTS
  Request,     \* the calls of POST /copyTrades
  Key,         \* ids of rows of user_exchanges_keys, leaders' and followers'
  Order,       \* order ids of the leaders
  Body,        \* the bodies a call can have
  Follow,      \* the follows that can exist: pairs <<follower key, leader key>>
  Exchange,    \* the exchange of each leader's key
  MaxRetry,    \* NUMBER_OF_REPLACE_ORDER
  MaxEdits,    \* bound: edits of keys and follows by the clients of the database
  NoId         \* a null exchange_order_id

Status == {"NEW", "FILLED", "CANCELED", "OTHER"}

\* "other" is an order type that is no case of placeOrderUsingCcxt's switch.
BodyType == [leader : Key, order : Order, status : Status, type : {"known", "other"}]

OrderId == Request \X Key \X Nat

ASSUME KeyAssumption    == IsFiniteSet(Key)
ASSUME BodyAssumption   == Body \subseteq BodyType
ASSUME FollowAssumption == Follow \subseteq Key \X Key
ASSUME ExchangeAssumption ==
  Exchange \in [Key -> {"binance", "ftx", "bybit", "tokocrypto"}]
ASSUME RetryAssumption  == MaxRetry \in Nat \ {0}
ASSUME EditsAssumption  == MaxEdits \in Nat
ASSUME NoIdAssumption   == NoId \notin OrderId

VARIABLES
  keys,        \* user_exchanges_keys: the keys that exist
  follows,     \* user_follows
  edits,       \* how often clients have changed the two tables
  rows,        \* place_orders
  placed,      \* the orders that exist at the exchanges
  cancelled,   \* those of them that were cancelled there
  body,        \* what each call was sent
  pc,          \* where each call is
  targets,     \* userApiKeys: the keys the call copies to
  todo,        \* what the for loop of the call has still to visit
  cur,         \* the element it is at: a key, or an order to cancel
  try,         \* i, the attempts made for that element
  saves,       \* dataSaves: the rows collected so far
  batch,       \* orderCancels: the orders read for cancelling
  gaveUp       \* those the call stopped trying to cancel

tables   == <<keys, follows, edits>>
exchange == <<placed, cancelled>>
loop     == <<todo, cur, try>>
vars == <<tables, rows, exchange, body, pc, targets, loop, saves, batch, gaveUp>>

RowType == [req : Request, key : Key, try : Nat,
            status : {"SUCCESS", "FAILED"}, xid : OrderId \cup {NoId}]

\* The calls that are running: each waits for the answer to an await.
Active == {"leaderKey", "follows", "keys", "order",
           "place", "attempt", "rows", "cancel", "cancelling"}
Ended  == {"done", "rejected", "lost"}

Init ==
  /\ keys = Key
  /\ follows \in SUBSET Follow
  /\ edits = 0
  /\ rows = {}
  /\ placed = {}
  /\ cancelled = {}
  /\ body \in [Request -> Body]
  /\ pc = [r \in Request |-> "idle"]
  /\ targets = [r \in Request |-> {}]
  /\ todo = [r \in Request |-> {}]
  /\ cur = [r \in Request |-> NoId]
  /\ try = [r \in Request |-> 0]
  /\ saves = [r \in Request |-> {}]
  /\ batch = [r \in Request |-> {}]
  /\ gaveUp = [r \in Request |-> {}]

Goto(r, label) == pc' = [pc EXCEPT ![r] = label]

\* Mutant: i starts at -1.
StartTriesAtMinusOne(r) == try' = [try EXCEPT ![r] = -1]

StartTries(r) == try' = [try EXCEPT ![r] = 0]

\* Mutant: the count of failed attempts starts over at the limit.
CountWraps(r) == try' = [try EXCEPT ![r] = (@ + 1) % MaxRetry]

CountTry(r) == try' = [try EXCEPT ![r] = @ + 1]

-----------------------------------------------------------------------------
(***************************************************************************)
(* copyTrades up to the choice between placing and cancelling: four        *)
(* queries, each an await, so the tables can change between any two.       *)
(***************************************************************************)

Receive(r) ==
  /\ pc[r] = "idle"
  /\ Goto(r, "leaderKey")
  /\ UNCHANGED <<tables, rows, exchange, body, targets, loop, saves, batch, gaveUp>>

FindLeaderKey(r) ==
  /\ pc[r] = "leaderKey"
  /\ Goto(r, IF body[r].leader \in keys THEN "follows" ELSE "done")
  /\ UNCHANGED <<tables, rows, exchange, body, targets, loop, saves, batch, gaveUp>>

FindFollows(r) ==
  /\ pc[r] = "follows"
  /\ targets' = [targets EXCEPT ![r] = {k \in Key : <<k, body[r].leader>> \in follows}]
  /\ Goto(r, IF targets'[r] = {} THEN "done" ELSE "keys")
  /\ UNCHANGED <<tables, rows, exchange, body, loop, saves, batch, gaveUp>>

FindKeys(r) ==
  /\ pc[r] = "keys"
  /\ targets' = [targets EXCEPT ![r] = @ \cap keys]
  /\ Goto(r, "order")
  /\ UNCHANGED <<tables, rows, exchange, body, loop, saves, batch, gaveUp>>

\* The row of the event may not be there (yet): the call then ends.
FindOrder(r) ==
  /\ pc[r] = "order"
  /\ \/ Goto(r, "done") /\ UNCHANGED todo
     \/ /\ body[r].status \in {"NEW", "FILLED"}
        /\ todo' = [todo EXCEPT ![r] = targets[r]]
        /\ Goto(r, "place")
     \/ /\ body[r].status = "CANCELED"
        /\ Goto(r, "rows")
        /\ UNCHANGED todo
  /\ UNCHANGED <<tables, rows, exchange, body, targets, cur, try, saves, batch, gaveUp>>

-----------------------------------------------------------------------------
(***************************************************************************)
(* placeOrders.  The keys come in the order the database returned them.    *)
(***************************************************************************)

Tokocrypto(r) == Exchange[body[r].leader] = "tokocrypto"

\* placeOrderUsingCcxt sends nothing for a type its switch does not know.
Sends(r) == body[r].type = "known" \/ Tokocrypto(r)

NextKey(r) ==
  /\ pc[r] = "place"
  /\ \E k \in todo[r] :
       /\ cur' = [cur EXCEPT ![r] = k]
       /\ todo' = [todo EXCEPT ![r] = @ \ {k}]
  /\ StartTries(r)
  /\ Goto(r, "attempt")
  /\ UNCHANGED <<tables, rows, exchange, body, targets, saves, batch, gaveUp>>

\* The order this attempt creates if the exchange accepts it.
ThisOrder(r) == <<r, cur[r], try[r]>>

\* Only Binance's answer has the field the code stores, info.orderId.
Reported(r) ==
  IF Exchange[body[r].leader] = "binance" THEN ThisOrder(r) ELSE NoId

Push(r, status, xid) ==
  saves' = [saves EXCEPT ![r] = @ \cup
    {[req |-> r, key |-> cur[r], try |-> try[r], status |-> status, xid |-> xid]}]

\* Mutant: after a success the while loop is not left.
BreakMissing(r) ==
  /\ CountTry(r)
  /\ Goto(r, IF try'[r] <= MaxRetry THEN "attempt" ELSE "place")

\* Out of the while loop, on to the next key.
Break(r) == Goto(r, "place") /\ UNCHANGED try

\* The exchange answers that it has the order.
PlaceOk(r) ==
  /\ pc[r] = "attempt"
  /\ Sends(r)
  /\ placed' = placed \cup {ThisOrder(r)}
  /\ Push(r, "SUCCESS", Reported(r))
  /\ Break(r)
  /\ UNCHANGED <<tables, rows, cancelled, body, targets, todo, cur, batch, gaveUp>>

\* An unknown type: nothing is sent and nothing is thrown.
PlaceUnknownType(r) ==
  /\ pc[r] = "attempt"
  /\ ~Sends(r)
  /\ Push(r, "SUCCESS", NoId)
  /\ Break(r)
  /\ UNCHANGED <<tables, rows, exchange, body, targets, todo, cur, batch, gaveUp>>

\* Mutant: i never equals the limit it is compared with.
PushNeverAtLimit(r) == UNCHANGED saves

\* The FAILED row is pushed when i reaches MaxRetry, one attempt before the last.
PushAtLimit(r) ==
  IF try[r] + 1 = MaxRetry THEN Push(r, "FAILED", NoId) ELSE UNCHANGED saves

\* RequestTimeout or ExchangeNotAvailable: the order may have got through.
PlaceTimeout(r) ==
  /\ pc[r] = "attempt"
  /\ Sends(r) /\ ~Tokocrypto(r)
  /\ placed' \in {placed, placed \cup {ThisOrder(r)}}
  /\ CountTry(r)
  /\ PushAtLimit(r)
  /\ Goto(r, IF try'[r] <= MaxRetry THEN "attempt" ELSE "place")
  /\ UNCHANGED <<tables, rows, cancelled, body, targets, todo, cur, batch, gaveUp>>

\* Any other error, and for Tokocrypto every error: the answer may be what failed.
PlaceError(r) ==
  /\ pc[r] = "attempt"
  /\ placed' \in {placed} \cup (IF Sends(r) THEN {placed \cup {ThisOrder(r)}} ELSE {})
  /\ Push(r, "FAILED", NoId)
  /\ Break(r)
  /\ UNCHANGED <<tables, rows, cancelled, body, targets, todo, cur, batch, gaveUp>>

\* createMany: one transaction for the rows of all keys.
Commit(r) ==
  /\ pc[r] = "place" /\ todo[r] = {}
  /\ rows' = rows \cup saves[r]
  /\ Goto(r, "done")
  /\ UNCHANGED <<tables, exchange, body, targets, loop, saves, batch, gaveUp>>

-----------------------------------------------------------------------------
(***************************************************************************)
(* cancelOrders.  Rows with a null exchange_order_id are passed over       *)
(* before anything is done with them, so they are left out of the batch.   *)
(***************************************************************************)

\* Mutant: the query asks for the order id alone.
CopyOfAnyLeader(row, r) == body[row.req].order = body[r].order

CopyOf(row, r) ==
  /\ body[row.req].leader = body[r].leader
  /\ body[row.req].order = body[r].order

ReadRows(r) ==
  /\ pc[r] = "rows"
  /\ batch' = [batch EXCEPT ![r] =
       {row.xid : row \in {w \in rows : CopyOf(w, r) /\ w.xid # NoId}}]
  /\ todo' = [todo EXCEPT ![r] = batch'[r]]
  /\ Goto(r, "cancel")
  /\ UNCHANGED <<tables, rows, exchange, body, targets, cur, try, saves, gaveUp>>

\* An async function that throws with nobody to catch it: the call is over, and
\* where Node ends the process on an unhandled rejection every other call with it.
Throw(r) ==
  \/ Goto(r, "rejected")
  \/ pc' = [q \in Request |-> CASE q = r -> "rejected"
                                [] q # r /\ pc[q] \in Active -> "lost"
                                [] OTHER -> pc[q]]

NextCancel(r) ==
  /\ pc[r] = "cancel"
  /\ \E x \in todo[r] :
       /\ x[2] \in targets[r]
       /\ cur' = [cur EXCEPT ![r] = x]
       /\ todo' = [todo EXCEPT ![r] = @ \ {x}]
  /\ StartTries(r)
  /\ Goto(r, "cancelling")
  /\ UNCHANGED <<tables, rows, exchange, body, targets, saves, batch, gaveUp>>

\* The key of the row is no longer among the leader's followers: apiKey?.[0] is
\* undefined and createExchange, which is outside the try, throws.
CancelWithoutKey(r) ==
  /\ pc[r] = "cancel"
  /\ \E x \in todo[r] : x[2] \notin targets[r]
  /\ Throw(r)
  /\ UNCHANGED <<tables, rows, exchange, body, targets, loop, saves, batch, gaveUp>>

CancelOk(r) ==
  /\ pc[r] = "cancelling"
  /\ cur[r] \notin cancelled
  /\ cancelled' = cancelled \cup {cur[r]}
  /\ Goto(r, "cancel")
  /\ UNCHANGED <<tables, rows, placed, body, targets, loop, saves, batch, gaveUp>>

\* RequestTimeout, ExchangeNotAvailable or ExchangeError: the first two may
\* hide a cancellation that was carried out.
CancelRetry(r) ==
  /\ pc[r] = "cancelling"
  /\ cancelled' \in {cancelled, cancelled \cup {cur[r]}}
  /\ CountTry(r)
  /\ IF try'[r] <= MaxRetry
       THEN UNCHANGED <<pc, gaveUp>>
       ELSE gaveUp' = [gaveUp EXCEPT ![r] = @ \cup {cur[r]}] /\ Goto(r, "cancel")
  /\ UNCHANGED <<tables, rows, placed, body, targets, todo, cur, saves, batch>>

CancelBreak(r) ==
  /\ pc[r] = "cancelling"
  /\ gaveUp' = [gaveUp EXCEPT ![r] = @ \cup {cur[r]}]
  /\ Goto(r, "cancel")
  /\ UNCHANGED <<tables, rows, exchange, body, targets, loop, saves, batch>>

\* Mutant: the first row without a key ends the for loop.
EndCancelAtLostKey(r) ==
  /\ pc[r] = "cancel" /\ \A x \in todo[r] : x[2] \notin targets[r]
  /\ Goto(r, "done")
  /\ UNCHANGED <<tables, rows, exchange, body, targets, loop, saves, batch, gaveUp>>

EndCancel(r) ==
  /\ pc[r] = "cancel" /\ todo[r] = {}
  /\ Goto(r, "done")
  /\ UNCHANGED <<tables, rows, exchange, body, targets, loop, saves, batch, gaveUp>>

-----------------------------------------------------------------------------
(***************************************************************************)
(* What happens around the calls.                                          *)
(***************************************************************************)

\* A query, or the transaction of createMany, fails.
DatabaseError(r) ==
  /\ \/ pc[r] \in {"leaderKey", "follows", "keys", "order", "rows"}
     \/ pc[r] = "place" /\ todo[r] = {}
  /\ Throw(r)
  /\ UNCHANGED <<tables, rows, exchange, body, targets, loop, saves, batch, gaveUp>>

\* The process stops and is started again: no call survives.
Restart ==
  /\ \E r \in Request : pc[r] \in Active
  /\ pc' = [r \in Request |-> IF pc[r] \in Active THEN "lost" ELSE pc[r]]
  /\ UNCHANGED <<tables, rows, exchange, body, targets, loop, saves, batch, gaveUp>>

\* Users follow, unfollow and remove keys through the database's own API.
EditTables ==
  /\ edits < MaxEdits
  /\ edits' = edits + 1
  /\ \/ \E f \in Follow :
          /\ follows' = IF f \in follows THEN follows \ {f} ELSE follows \cup {f}
          /\ UNCHANGED keys
     \/ \E k \in keys : keys' = keys \ {k} /\ UNCHANGED follows
  /\ UNCHANGED <<rows, exchange, body, pc, targets, loop, saves, batch, gaveUp>>

Placing(r) ==
  \/ NextKey(r) \/ PlaceOk(r) \/ PlaceUnknownType(r)
  \/ PlaceTimeout(r) \/ PlaceError(r) \/ Commit(r)

Cancelling(r) ==
  \/ ReadRows(r) \/ NextCancel(r) \/ CancelWithoutKey(r) \/ CancelOk(r)
  \/ CancelRetry(r) \/ CancelBreak(r) \/ EndCancel(r)

\* A step of a call that runs, which its promise chain takes by itself.
Step(r) ==
  \/ FindLeaderKey(r) \/ FindFollows(r) \/ FindKeys(r) \/ FindOrder(r)
  \/ Placing(r) \/ Cancelling(r) \/ DatabaseError(r)

Next ==
  \/ \E r \in Request : Receive(r) \/ Step(r)
  \/ Restart
  \/ EditTables

Spec == Init /\ [][Next]_vars

\* Tokocrypto's order is sent with axios, which waits for an answer without a limit.
Unanswered(r) == pc[r] = "attempt" /\ Tokocrypto(r)

\* Every other await settles: a query answers or fails, ccxt gives up a request that
\* takes too long, a delay ends.
FairSpec == Spec /\ \A r \in Request : WF_vars(Step(r) /\ ~Unanswered(r))

-----------------------------------------------------------------------------
TypeOK ==
  /\ keys \subseteq Key /\ follows \subseteq Key \X Key /\ edits \in Nat
  /\ rows \subseteq RowType
  /\ placed \subseteq OrderId /\ cancelled \subseteq OrderId
  /\ body \in [Request -> BodyType]
  /\ pc \in [Request -> {"idle"} \cup Active \cup Ended]
  /\ targets \in [Request -> SUBSET Key]
  /\ todo \in [Request -> SUBSET (Key \cup OrderId)]
  /\ cur \in [Request -> Key \cup OrderId \cup {NoId}]
  /\ try \in [Request -> Nat]
  /\ saves \in [Request -> SUBSET RowType]
  /\ batch \in [Request -> SUBSET OrderId]
  /\ gaveUp \in [Request -> SUBSET OrderId]

-----------------------------------------------------------------------------
RowsOf(r, k) == {row \in rows : row.req = r /\ row.key = k}

\* The row pushed when the retries ran out, and that of the attempt made after it.
LimitThenLast(a, b) ==
  a.try = MaxRetry - 1 /\ a.status = "FAILED" /\ b.try = MaxRetry

\* All or nothing, and nobody skipped: once any row of a call is in place_orders
\* (the transaction at the end of placeOrders), every key the call copied to has
\* one; a second row exists only when the retries ran out and the one attempt
\* made after that was answered, and then the first of the two says FAILED.
EveryKeyAccountedFor ==
  \A row \in rows : \A k \in targets[row.req] :
    /\ RowsOf(row.req, k) # {}
    /\ \A a, b \in RowsOf(row.req, k) :
         a = b \/ LimitThenLast(a, b) \/ LimitThenLast(b, a)

\* An order that cancelOrders cancelled was copied from the very order, of the
\* very leader key, named by the CANCELED event of the call that read it from the
\* rows: cancelling a leader's order never reaches the copies of another leader's
\* order, even one with the same id.
CancelsOnlyItsCopies ==
  \A x \in cancelled : \E c \in Request :
    /\ body[c].status = "CANCELED" /\ x \in batch[c]
    /\ body[c].leader = body[x[1]].leader /\ body[c].order = body[x[1]].order

\* A cancelOrders that returned has dealt with every order it read: it was
\* cancelled, or its retries were used up, or the exchange refused for good.
\* A row whose follower is gone makes the call throw instead of being passed over.
CancelHandlesWhatItRead ==
  \A c \in Request : pc[c] = "done" => batch[c] \subseteq cancelled \cup gaveUp[c]

\* Retrying stops at the first confirmed order: once an attempt of placeOrders was
\* answered with success, no later attempt of that call opens another order for
\* the key (earlier ones whose answers were lost may have opened some).
NoAttemptAfterSuccess ==
  \A r \in Request : \A row \in saves[r] :
    row.status = "SUCCESS" =>
      \A x \in placed : x[1] = r /\ x[2] = row.key => x[3] <= row.try

\* Every call that was answered 200 comes to an end, unless Tokocrypto leaves it
\* waiting for ever: no retry loop is endless, no element of a loop is left waiting,
\* and no call waits for another, not even for one that hangs.
CallsEnd ==
  \A r \in Request : pc[r] \in Active ~> (pc[r] \in Ended \/ []Unanswered(r))

\* How many of its queries a call has ahead, with its loop as the last of them.
Ahead == [idle |-> 7, leaderKey |-> 6, follows |-> 5, keys |-> 4, order |-> 3, rows |-> 2,
          place |-> 1, attempt |-> 1, cancel |-> 1, cancelling |-> 1,
          done |-> 0, rejected |-> 0, lost |-> 0]

TriesLeft(r) == IF pc[r] \in {"attempt", "cancelling"} THEN Cardinality(try[r]..MaxRetry) ELSE 0

\* Fewer queries, or else fewer elements to visit, or else fewer attempts are left.
Nearer(r) ==
  \/ Ahead[pc[r]]' < Ahead[pc[r]]
  \/ /\ Ahead[pc[r]]' = Ahead[pc[r]]
     /\ \/ Cardinality(todo[r])' < Cardinality(todo[r])
        \/ Cardinality(todo[r])' = Cardinality(todo[r]) /\ TriesLeft(r)' < TriesLeft(r)

\* Every step of a call brings it nearer to its end, whatever the exchanges and the
\* database answer, and no other call takes it away from there: it may be slow, but
\* its loops over keys, orders and attempts are no way of going on for ever.
StepsRunOut ==
  [][\A r \in Request : pc[r] \in Active =>
       Nearer(r) \/ (~Step(r) /\ UNCHANGED <<pc[r], todo[r], try[r]>>)]_vars

\* The books as a follower sees them: see CopyLedger.
Ledger == INSTANCE CopyLedger WITH
  Call     <- Request,
  opened   <- placed,
  recorded <- {row.xid : row \in rows} \ {NoId},
  closed   <- cancelled,
  settled  <- {r \in Request : pc[r] = "done"}

LedgerSpec == Ledger!Spec

=============================================================================
