------------------------------ MODULE Balances ------------------------------
(***************************************************************************)
(* The daily balance of an exchange key and the profit reckoned from it.   *)
(* A refresh asks the exchange for the balance and for the transfers,      *)
(* compares with yesterday's row, deletes today's row on the repository's  *)
(* connection and saves a new one.  The total profits of a user are then   *)
(* reckoned from the rows of some days by two queries.                     *)
(*                                                                         *)
(* Several clocks take part: the entity gets the date of the moment the    *)
(* refresh began, yesterday and the day to delete are taken when they are  *)
(* needed, and the transfers asked for are those of the last 24 hours      *)
(* (Binance, FTX) or of the calendar day (Bybit).                          *)
(*                                                                         *)
(* A key holds one asset, and a user has one key.  The prices do not       *)
(* change here, and fees of transfers are left out.  An answer that failed *)
(* counts as no balance or no transfers.  No two refreshes begin in the    *)
(* same millisecond, by which save would take them for one row.            *)
(***************************************************************************)
EXTENDS Integers, FiniteSets, FiniteSetsExt

CONSTANTS
  Key,
  Price,      \* of each key's asset in the currency; 0 if the table lacks it
  Job,        \* as many as refreshes can be in progress at the same time
  Hours,      \* in a day
  Window,     \* the days of the profit looked at: 7 or 30 in the code
  Change,     \* what a trade or a transfer can change a balance by
  MaxTime, MaxMove,    \* bounds: hours, changes
  MaxRefresh,          \* bound: refreshes
  MaxOverlap,          \* bound: of these, those that may overlap another
  MaxFailure,          \* bound: answers and queries that fail
  MinRows              \* bound: the rows there are when a reckoning begins, at least

ASSUME PriceAssumption  == Price \in [Key -> Nat]
ASSUME HoursAssumption  == Hours \in Nat \ {0} /\ Window \in Nat \ {0}
ASSUME ChangeAssumption == Change \subseteq Int
ASSUME BoundAssumption  == MaxTime \in Nat /\ MaxMove \in Nat /\ MaxRefresh \in Nat
                           /\ MaxOverlap \in Nat /\ MaxFailure \in Nat
                           /\ MinRows \in Nat

VARIABLES
  rolling,    \* the keys on exchanges asked for the last 24 hours; it never changes
  clock,      \* the hour
  wallet,     \* what each key holds at the exchange
  flow,       \* what was ever deposited to and withdrawn from it
  opening,    \* the flow at the beginning of each hour
  moves,      \* how many changes there were
  refreshes,  \* how many refreshes have read a balance
  failures,   \* how many answers and queries failed
  rows,       \* user_balance_histories
  job,        \* the refreshes in progress: where they are and what they will save
  crossed,    \* history: keys with refreshes that overlapped or passed midnight
  tally       \* the reckoning of a user's total profit: what it has read, and as
              \* history the rows that were there when it added up

world == <<rolling, wallet, flow, opening, moves>>
vars  == <<clock, world, refreshes, failures, rows, job, crossed, tally>>

\* Mutant: the day before the moment given.
DayBefore(hour) == hour \div Hours - 1

Day(hour) == hour \div Hours

Flow == [in : Int, out : Int]

\* A row; earned, moved, sound, exact and gain are history: what trading had brought
\* and transfers had moved when the balance was read, whether both answers came,
\* whether the transfers asked for are those since yesterday's reading, and what
\* trading brought since then.
Row ==
  [key : Key, date : Nat, total : Int, deposit : Int, withdraw : Int, profit : Int,
   n : Nat, base : Nat, earned : Int, moved : Int, sound : BOOLEAN, exact : BOOLEAN, gain : Int]

Label == {"idle", "balance", "income", "profit", "delete", "save"}

Blank(k) ==
  [key |-> k, date |-> 0, total |-> 0, deposit |-> 0, withdraw |-> 0, profit |-> 0,
   n |-> 0, base |-> 0, earned |-> 0, moved |-> 0, sound |-> FALSE, exact |-> FALSE, gain |-> 0]

NoTally == [at |-> "idle"]

Init ==
  /\ clock = 0
  /\ rolling \in SUBSET Key
  /\ wallet \in [Key -> Change \cap Nat]
  /\ flow = [k \in Key |-> [in |-> 0, out |-> 0]]
  /\ opening = [k \in Key |-> [h \in 0..MaxTime |-> [in |-> 0, out |-> 0]]]
  /\ moves = 0 /\ refreshes = 0 /\ failures = 0
  /\ rows = {}
  /\ job = [j \in Job |-> [at |-> "idle"]]
  /\ crossed = {}
  /\ tally = NoTally

-----------------------------------------------------------------------------
(***************************************************************************)
(* Outside: time, trades and transfers.                                    *)
(***************************************************************************)

Tick ==
  /\ clock < MaxTime
  /\ clock' = clock + 1
  /\ opening' = [k \in Key |-> [opening[k] EXCEPT ![clock + 1] = flow[k]]]
  /\ UNCHANGED <<rolling, wallet, flow, moves, refreshes, failures, rows, job, crossed, tally>>

Move(k, kind, amount) ==
  /\ moves < MaxMove
  /\ moves' = moves + 1
  /\ wallet' = [wallet EXCEPT ![k] = @ + amount]
  /\ flow' = [flow EXCEPT ![k] =
       [in  |-> @.in  + (IF kind = "transfer" /\ amount > 0 THEN amount ELSE 0),
        out |-> @.out - (IF kind = "transfer" /\ amount < 0 THEN amount ELSE 0)]]
  /\ UNCHANGED <<clock, rolling, opening, refreshes, failures, rows, job, crossed, tally>>

Moved(k) == flow[k].in - flow[k].out

-----------------------------------------------------------------------------
(***************************************************************************)
(* updateBalanceHistoryOneExchangeKey and                                  *)
(* updateBalanceHistoryByExchangeKey, which differ in what they delete.    *)
(***************************************************************************)

Busy(k) == {j \in Job : job[j].at # "idle" /\ job[j].row.key = k}

\* In the currency of the row.
Worth(k, amount) == Price[k] * amount

\* calculateUserBalanceAmount passes over a balance that is not positive.
Total(k) == IF wallet[k] > 0 THEN Worth(k, wallet[k]) ELSE 0

\* A request or query is answered, or fails, as seldom as the bound says.
Settles(ok) ==
  /\ ok \/ failures < MaxFailure
  /\ failures' = IF ok THEN failures ELSE failures + 1

\* fetchBalance answers undefined for every error.
Answered(k, ok) == IF ok THEN Total(k) ELSE 0

\* The refresh takes its date, and then waits for the balance.
Begin(j, k) ==
  /\ job[j].at = "idle"
  /\ refreshes < MaxRefresh
  /\ refreshes < MaxOverlap \/ \A i \in Job : job[i].at = "idle"
  /\ job' = [job EXCEPT ![j] = [at |-> "balance", row |-> [Blank(k) EXCEPT !.date = Day(clock)]]]
  /\ crossed' = IF Busy(k) = {} THEN crossed ELSE crossed \cup {k}
  /\ UNCHANGED <<clock, world, refreshes, failures, rows, tally>>

FetchBalance(j) ==
  /\ job[j].at = "balance"
  /\ refreshes < MaxRefresh
  /\ refreshes' = refreshes + 1
  /\ \E ok \in BOOLEAN :
       LET k == job[j].row.key
       IN /\ Settles(ok)
          /\ job' = [job EXCEPT ![j] = [at |-> "income", row |-> [job[j].row EXCEPT
               !.n      = refreshes + 1,
               !.total  = Answered(k, ok),
               !.earned = Worth(k, wallet[k] - Moved(k)),
               !.moved  = Worth(k, Moved(k)),
               !.sound  = ok /\ wallet[k] >= 0]]]
  /\ UNCHANGED <<clock, world, rows, crossed, tally>>

\* The first hour whose transfers are asked for: Binance and FTX get the time 24
\* hours ago, of Bybit's answer the transfers of today are kept.
LastHours == IF clock < Hours THEN 0 ELSE clock - Hours + 1
Today     == Day(clock) * Hours
Since(k)  == IF k \in rolling THEN LastHours ELSE Today

\* calcDepositAndWithdrawal adds up each direction apart.
Transfers(k) ==
  [in  |-> flow[k].in - opening[k][Since(k)].in,
   out |-> flow[k].out - opening[k][Since(k)].out]

FetchIncome(j) ==
  /\ job[j].at = "income"
  /\ \E ok \in BOOLEAN :
       LET k == job[j].row.key
           income == IF ok THEN Transfers(k) ELSE [in |-> 0, out |-> 0]
       IN /\ Settles(ok)
          /\ job' = [job EXCEPT ![j] = [at |-> "profit", row |-> [job[j].row EXCEPT
               !.deposit  = Worth(k, income.in),
               !.withdraw = Worth(k, income.out)]]]
  /\ UNCHANGED <<clock, world, refreshes, rows, crossed, tally>>

\* Mutant: the sum in the comment, with deposits added and withdrawals taken off.
ProfitAsCommented(w, y) == w.total - y.total + w.deposit - w.withdraw

ProfitOf(w, y) == w.total - y.total - w.deposit + w.withdraw

\* getOldBalanceHistory: one of the rows of the day before.
Yesterday(k) == {y \in rows : y.key = k /\ y.date = Day(clock) - 1}

\* The profit is reckoned from one of them.  Without one, or when the query fails,
\* the row goes on with no profit.
CalculateDailyProfit(j) ==
  /\ job[j].at = "profit"
  /\ LET w == job[j].row
     IN \/ /\ Settles(Yesterday(w.key) = {})
           /\ job' = [job EXCEPT ![j] = [at |-> "delete", row |-> w]]
        \/ \E y \in Yesterday(w.key) :
             /\ Settles(TRUE)
             /\ job' = [job EXCEPT ![j] = [at |-> "delete", row |-> [w EXCEPT
                  !.profit = ProfitOf(w, y),
                  !.base   = y.n,
                  !.exact  = w.sound /\ y.sound /\ w.deposit - w.withdraw = w.moved - y.moved,
                  !.gain   = w.earned - y.earned]]]
  /\ UNCHANGED <<clock, world, refreshes, rows, crossed, tally>>

\* Mutant: nothing is deleted unless it is all.
DeletedNever(k, whole) == {v \in rows : v.key = k /\ whole}

\* deleteOldBalanceHistoryByDateAndExchangeKeyId.
RowsOfToday(k) == {v \in rows : v.key = k /\ v.date = Day(clock)}

\* deleteOldDataOfOneExchangeKey, where the second where replaces the first.
AllRows(k) == {v \in rows : v.key = k}

Deleted(k, whole) == IF whole THEN AllRows(k) ELSE RowsOfToday(k)

Delete(j) ==
  /\ job[j].at = "delete"
  /\ \E whole \in BOOLEAN : rows' = rows \ Deleted(job[j].row.key, whole)
  /\ job' = [job EXCEPT ![j] = [at |-> "save", row |-> job[j].row]]
  /\ crossed' = IF job[j].row.date = Day(clock) THEN crossed ELSE crossed \cup {job[j].row.key}
  /\ UNCHANGED <<clock, world, refreshes, failures, tally>>

Save(j) ==
  /\ job[j].at = "save"
  /\ rows' = rows \cup {job[j].row}
  /\ job' = [job EXCEPT ![j] = [at |-> "idle"]]
  /\ UNCHANGED <<clock, world, refreshes, failures, crossed, tally>>

\* A statement fails, or the process stops.
Abandon(j) ==
  /\ job[j].at # "idle"
  /\ job' = [job EXCEPT ![j] = [at |-> "idle"]]
  /\ UNCHANGED <<clock, world, refreshes, failures, rows, crossed, tally>>

-----------------------------------------------------------------------------
(***************************************************************************)
(* getUserProfitValuesAndRates, for one of its windows: the profits of the *)
(* last days, and the balance they are compared with, read apart.          *)
(***************************************************************************)

RowsFrom(k, date) == {w \in rows : w.key = k /\ w.date >= date}

\* Mutant: one day more.
ProfitDaysAndOne(k, day) == RowsFrom(k, day - Window)

\* Since subtract(6, 'days') for 7 days.
ProfitDays(k, day) == RowsFrom(k, day - (Window - 1))

\* Since subtract(7, 'days').
BalanceDays(k, day) == RowsFrom(k, day - Window)

Earliest(S) == {w \in S : \A v \in S : w.date <= v.date}

\* Both queries are sent at once, with the days of that moment, and are answered in
\* either order.
StartTally(k) ==
  /\ tally.at = "idle" /\ Cardinality(rows) >= MinRows
  /\ tally' = [at |-> "asked", key |-> k, day |-> Day(clock), profit |-> 0, first |-> Blank(k), seen |-> {}]
  /\ UNCHANGED <<clock, world, refreshes, failures, rows, job, crossed>>

Unread(query) == tally.at \in {"asked", "profits", "first"} \ {query}

Answering(query) == [tally EXCEPT !.at = IF tally.at = "asked" THEN query ELSE "done"]

ReadProfits ==
  /\ Unread("profits")
  /\ tally' = [Answering("profits") EXCEPT
       !.profit = MapThenSumSet(LAMBDA w : w.profit, ProfitDays(tally.key, tally.day)),
       !.seen   = BalanceDays(tally.key, tally.day)]
  /\ UNCHANGED <<clock, world, refreshes, failures, rows, job, crossed>>

ReadFirst ==
  /\ Unread("first")
  /\ \E w \in Earliest(BalanceDays(tally.key, tally.day)) :
       tally' = [Answering("first") EXCEPT !.first = w]
  /\ UNCHANGED <<clock, world, refreshes, failures, rows, job, crossed>>

\* It is saved, or there was no row, or a query failed.
EndTally ==
  /\ tally.at # "idle"
  /\ tally' = NoTally
  /\ UNCHANGED <<clock, world, refreshes, failures, rows, job, crossed>>

Next ==
  \/ Tick
  \/ \E k \in Key, amount \in Change, kind \in {"trade", "transfer"} : Move(k, kind, amount)
  \/ \E j \in Job :
       \/ \E k \in Key : Begin(j, k)
       \/ FetchBalance(j) \/ FetchIncome(j) \/ CalculateDailyProfit(j)
       \/ Delete(j) \/ Save(j) \/ Abandon(j)
  \/ \E k \in Key : StartTally(k)
  \/ ReadProfits \/ ReadFirst \/ EndTally

Spec == Init /\ [][Next]_vars

-----------------------------------------------------------------------------
JobState == [at : {"idle"}] \cup [at : Label \ {"idle"}, row : Row]

TallyState ==
  [at : {"idle"}] \cup [at : {"asked", "profits", "first", "done"}, key : Key, day : Nat,
                          profit : Int, first : Row, seen : SUBSET Row]

TypeOK ==
  /\ clock \in Nat
  /\ rolling \in SUBSET Key
  /\ wallet \in [Key -> Int]
  /\ flow \in [Key -> Flow]
  /\ opening \in [Key -> [0..MaxTime -> Flow]]
  /\ moves \in Nat /\ refreshes \in Nat /\ failures \in Nat
  /\ rows \subseteq Row
  /\ job \in [Job -> JobState]
  /\ crossed \subseteq Key
  /\ tally \in TallyState

\* The profit of a row that was reckoned from yesterday's is what trading brought
\* between the two readings, as long as the exchange answered for both and the
\* transfers asked for are those made between them.
ProfitIsGain == \A w \in rows : w.exact => w.profit = w.gain

\* A key has two rows for a day only after refreshes that overlapped or one that
\* began before midnight and deleted after it.
OneRowPerDay ==
  \A v, w \in rows :
    v.key = w.key /\ v.date = w.date /\ v.key \notin crossed => v = w

\* One row a day from the first on, each reckoned from the row of the day before.
Chained(S, first) ==
  /\ first \in Earliest(S)
  /\ \A v, w \in S : v.date = w.date => v = w
  /\ \A w \in S : w # first => \E y \in S : y.date = w.date - 1 /\ y.n = w.base

\* What is shown as the profit of some days is the rise of the balance since the
\* balance it is divided by, less the transfers of those days, whatever is written
\* and however late it gets between the two queries, as long as that first row is
\* among those the profits were of and each of these was reckoned from the one of
\* the day before (no day missing, written twice or without its own profit).
ProfitTelescopes ==
  tally.at = "done" /\ Chained(tally.seen, tally.first) =>
    LET later == tally.seen \ {tally.first}
        last  == CHOOSE w \in tally.seen : \A v \in tally.seen : v.date <= w.date
        net   == MapThenSumSet(LAMBDA w : w.deposit - w.withdraw, later)
    IN tally.profit = last.total - tally.first.total - net
                        + (IF tally.first.date < tally.day - (Window - 1) THEN 0 ELSE tally.first.profit)
=============================================================================
