---------------------------- MODULE CupStandings ----------------------------
(***************************************************************************)
(* The standings of one cup: the columns initial_balance, profit_value,    *)
(* profit_rate and rank of its rows in user_join_cups.  Three things write *)
(* them, none of which waits for another:                                  *)
(*                                                                         *)
(*   - the webhook, when Hasura reports a new row: it sets the initial     *)
(*     balance and everything else to 0 (updateFirstTimeUserJoinsCup);     *)
(*   - the refresh of all balances, once for each history it stored: it    *)
(*     reads the row, adds the day's profit and writes the whole row back  *)
(*     (updatedUserJoinedCupProfitValueAndProfitRate).  Its only caller,   *)
(*     insertAndDeleledBalanceHistories, is itself called by nothing in    *)
(*     the repository;                                                     *)
(*   - the rank job, the day after the cup ended: it reads all rows in     *)
(*     order and saves their ranks one by one (UserRankController).        *)
(*                                                                         *)
(* Events are delivered at least once and in no order.  The profits of     *)
(* different rows of one call do not depend on each other, so a call is    *)
(* about one row here.  It brings the profit of a day, but nothing in it   *)
(* tells the code which, nor whether that day was added before.            *)
(***************************************************************************)
EXTENDS Integers, FiniteSets

CONSTANTS
  Member,     \* the rows of the cup
  JoinTime,   \* their join_time, as a number
  InTime,     \* those whose join_time lies within the cup
  Balance,    \* what a key can hold today
  Amount,     \* what it can earn in a day
  Day,        \* the days profits are of
  Call,       \* as many as profit updates can be in progress at the same time
  Event,      \* as many as deliveries can be in progress at the same time
  Ranking,    \* as many as rank jobs can be in progress at the same time
  MaxStart    \* bound: how many of all these are begun

ASSUME MemberAssumption  == IsFiniteSet(Member) /\ InTime \subseteq Member
ASSUME JoinAssumption    == JoinTime \in [Member -> Nat]
ASSUME BalanceAssumption == Balance \subseteq Nat
ASSUME AmountAssumption  == Amount \subseteq Int
ASSUME StartAssumption   == MaxStart \in Nat

VARIABLES
  standing,   \* the rows' columns
  period,     \* of the cup
  call,       \* the profit updates: where they are, and the row they read
  event,      \* the deliveries: where they are, and today's balance
  ranking,    \* the rank jobs: where they are, and the ranks still to save
  started,    \* how many were begun
  updated,    \* history: the days whose profit a row was to be given
  due,        \* history: what these are, less those found to be outside the cup's time
  sums,       \* history: what any of them add up to
  repeated,   \* history: rows that were to be given the profit of a day again
  amiss,      \* history: rows with profit updates that overlapped, failed or were lost,
              \* or that the webhook set to 0 after one
  ranked      \* history: a rank job has saved every rank, and nothing that was on its
              \* way came in between or since

earned  == <<updated, due, sums, repeated>>
history == <<earned, amiss, ranked>>
vars    == <<standing, period, call, event, ranking, started, history>>

Period == {"before", "running", "ended"}
Place  == 1..Cardinality(Member)
Row    == [initial : Nat, profit : Int, rate : Int, rank : Nat]

NewRow == [initial |-> 0, profit |-> 0, rate |-> 0, rank |-> 0]

NoCall    == [at |-> "idle"]
NoEvent   == [at |-> "idle"]
NoRanking == [at |-> "idle"]

CallState ==
  {NoCall} \cup [at : {"check", "write"}, member : Member, amount : Amount, row : Row, seen : Period]

EventState == {NoEvent} \cup [at : {"cup"}, member : Member]
                        \cup [at : {"update"}, member : Member, value : Balance]

RankState == {NoRanking} \cup [at : {"save"}, todo : SUBSET (Member \X Place), alone : BOOLEAN]

Init ==
  /\ standing = [m \in Member |-> NewRow]
  /\ period = "before"
  /\ call = [c \in Call |-> NoCall]
  /\ event = [e \in Event |-> NoEvent]
  /\ ranking = [r \in Ranking |-> NoRanking]
  /\ started = 0
  /\ updated = [m \in Member |-> {}]
  /\ due = [m \in Member |-> 0]
  /\ sums = [m \in Member |-> {0}]
  /\ repeated = {} /\ amiss = {}
  /\ ranked = FALSE

Begin == started < MaxStart /\ started' = started + 1

CallsOf(m) == {c \in Call : call[c].at # "idle" /\ call[c].member = m}

\* A row was written although the cup had ended: a rank job in progress, or the
\* last one that ended, no longer shows what the rows say.
Tardy(late) ==
  /\ ranked' = (ranked /\ ~late)
  /\ ranking' = [r \in Ranking |->
       IF late /\ ranking[r].at = "save" THEN [ranking[r] EXCEPT !.alone = FALSE] ELSE ranking[r]]

-----------------------------------------------------------------------------
(***************************************************************************)
(* updateFirstTimeUserJoinsCup: one delivery of a row's INSERT.            *)
(***************************************************************************)

Deliver(e, m) ==
  /\ event[e].at = "idle"
  /\ Begin
  /\ event' = [event EXCEPT ![e] = [at |-> "cup", member |-> m]]
  /\ UNCHANGED <<standing, period, call, ranking, history>>

\* The cup must contain join_time, and there must be a balance of today.
FindBalance(e) ==
  /\ event[e].at = "cup"
  /\ event[e].member \in InTime
  /\ \E value \in Balance :
       event' = [event EXCEPT ![e] = [at |-> "update", member |-> event[e].member, value |-> value]]
  /\ UNCHANGED <<standing, period, call, ranking, started, history>>

\* 'Out of cup time', 'Today balance not found!', or a statement that fails.
EventFails(e) ==
  /\ event[e].at # "idle"
  /\ event' = [event EXCEPT ![e] = NoEvent]
  /\ UNCHANGED <<standing, period, call, ranking, started, history>>

FirstTime(row, value) == [NewRow EXCEPT !.initial = value]

UpdateFirstTime(e) ==
  /\ event[e].at = "update"
  /\ LET m == event[e].member
     IN /\ standing' = [standing EXCEPT ![m] = FirstTime(@, event[e].value)]
        /\ amiss' = IF updated[m] = {} THEN amiss ELSE amiss \cup {m}
  /\ Tardy(period = "ended")
  /\ event' = [event EXCEPT ![e] = NoEvent]
  /\ UNCHANGED <<period, call, started, earned>>

-----------------------------------------------------------------------------
(***************************************************************************)
(* updatedUserJoinedCupProfitValueAndProfitRate.                           *)
(***************************************************************************)

\* What a row is to be given from the moment the update begins, whatever becomes of
\* it.  A day that comes again brings nothing that is due.
Earned(m, day, amount) ==
  \/ /\ day \notin updated[m]
     /\ updated' = [updated EXCEPT ![m] = @ \cup {day}]
     /\ due' = [due EXCEPT ![m] = @ + amount]
     /\ sums' = [sums EXCEPT ![m] = @ \cup {s + amount : s \in @}]
     /\ repeated' = repeated
  \/ /\ day \in updated[m]
     /\ repeated' = repeated \cup {m}
     /\ UNCHANGED <<updated, due, sums>>

\* The row is read, or the query fails.
FindRow(c, m) ==
  /\ call[c].at = "idle"
  /\ Begin
  /\ \E day \in Day, amount \in Amount :
       /\ Earned(m, day, amount)
       /\ \/ /\ call' = [call EXCEPT ![c] =
                 [at |-> "check", member |-> m, amount |-> amount, row |-> standing[m], seen |-> period]]
             /\ amiss' = IF CallsOf(m) = {} THEN amiss ELSE amiss \cup {m}
          \/ /\ call' = call
             /\ amiss' = amiss \cup {m}
  /\ UNCHANGED <<standing, period, event, ranking, ranked>>

\* Mutant: isDateWithinCupTime is left out.
RunningIgnored == TRUE

Running == period = "running"

\* The cup is read and compared with the time; a row of another cup is passed over.
CheckCup(c) ==
  /\ call[c].at = "check"
  /\ \/ /\ Running
        /\ call' = [call EXCEPT ![c] = [@ EXCEPT !.at = "write", !.seen = period]]
        /\ due' = due
     \/ /\ ~Running
        /\ call' = [call EXCEPT ![c] = NoCall]
        /\ due' = [due EXCEPT ![call[c].member] = @ - call[c].amount]
  /\ UNCHANGED <<standing, period, event, ranking, started, updated, sums, repeated, amiss, ranked>>

\* Whole percents.  A missing balance counts as 0; the column is taken to be read
\* as a number, as === expects.
Rate(initial, profit) == IF initial = 0 THEN 0 ELSE (100 * profit) \div initial

\* Mutant: the profit is added a second time by a retry.
AddedTwice(row, amount) ==
  LET profit == row.profit + 2 * amount
  IN [row EXCEPT !.profit = profit, !.rate = Rate(row.initial, profit)]

\* Mutant: the profit replaces the sum.
AddedToNothing(row, amount) ==
  [row EXCEPT !.profit = amount, !.rate = Rate(row.initial, amount)]

Added(row, amount) ==
  LET profit == row.profit + amount
  IN [row EXCEPT !.profit = profit, !.rate = Rate(row.initial, profit)]

\* The whole row goes back, with the initial balance and the rank that were read.
WriteBack(c) ==
  /\ call[c].at = "write"
  /\ standing' = [standing EXCEPT ![call[c].member] = Added(call[c].row, call[c].amount)]
  /\ Tardy(period = "ended" /\ call[c].seen = "running")
  /\ call' = [call EXCEPT ![c] = NoCall]
  /\ UNCHANGED <<period, event, started, earned, amiss>>

\* The error is logged.
CallFails(c) ==
  /\ call[c].at # "idle"
  /\ call' = [call EXCEPT ![c] = NoCall]
  /\ amiss' = amiss \cup {call[c].member}
  /\ UNCHANGED <<standing, period, event, ranking, started, earned, ranked>>

-----------------------------------------------------------------------------
(***************************************************************************)
(* handleUpdateRankByCup.                                                  *)
(***************************************************************************)

Ahead(m, n) ==
  \/ standing[m].rate > standing[n].rate
  \/ standing[m].rate = standing[n].rate /\ JoinTime[m] < JoinTime[n]

\* The orders the query may answer in, as places.
Orders ==
  {f \in [Member -> Place] : \A m, n \in Member :
     /\ f[m] = f[n] => m = n
     /\ Ahead(m, n) => f[m] < f[n]}

\* Mutant: index for index + 1.
RanksFromZero(f) == {<<m, f[m] - 1>> : m \in Member}

Ranks(f) == {<<m, f[m]>> : m \in Member}

FindOrdered(r) ==
  /\ period = "ended"
  /\ ranking[r].at = "idle"
  /\ Begin
  /\ \E f \in Orders :
       ranking' = [ranking EXCEPT ![r] = [at |-> "save",
         todo  |-> Ranks(f),
         alone |-> \A s \in Ranking : ranking[s].at = "idle"]]
  /\ ranked' = FALSE
  /\ UNCHANGED <<standing, period, call, event, earned, amiss>>

\* Only the rank differs from what save finds, so only the rank is written.
SaveRank(r) ==
  /\ ranking[r].at = "save"
  /\ \E p \in ranking[r].todo :
       /\ standing' = [standing EXCEPT ![p[1]].rank = p[2]]
       /\ ranking' = [s \in Ranking |->
            IF s = r THEN [ranking[r] EXCEPT !.todo = @ \ {p}]
            ELSE IF ranking[s].at = "save" THEN [ranking[s] EXCEPT !.alone = FALSE]
            ELSE ranking[s]]
  /\ UNCHANGED <<period, call, event, started, history>>

\* One save fails: the job answers, the other saves go on.
SaveFails(r) ==
  /\ ranking[r].at = "save"
  /\ \E p \in ranking[r].todo :
       ranking' = [ranking EXCEPT ![r] = [ranking[r] EXCEPT !.todo = @ \ {p}, !.alone = FALSE]]
  /\ UNCHANGED <<standing, period, call, event, started, history>>

EndRanking(r) ==
  /\ ranking[r].at = "save" /\ ranking[r].todo = {}
  /\ ranking' = [ranking EXCEPT ![r] = NoRanking]
  /\ ranked' = (ranking[r].alone /\ \A s \in Ranking \ {r} : ranking[s].at = "idle")
  /\ UNCHANGED <<standing, period, call, event, started, earned, amiss>>

-----------------------------------------------------------------------------
CupTime ==
  /\ \/ period = "before" /\ period' = "running"
     \/ period = "running" /\ period' = "ended"
  /\ UNCHANGED <<standing, call, event, ranking, started, history>>

StandingsRestart ==
  /\ call' = [c \in Call |-> NoCall]
  /\ event' = [e \in Event |-> NoEvent]
  /\ ranking' = [r \in Ranking |-> NoRanking]
  /\ amiss' = amiss \cup {call[c].member : c \in {d \in Call : call[d].at # "idle"}}
  /\ UNCHANGED <<standing, period, started, earned, ranked>>

StandingsNext ==
  \/ \E e \in Event : \/ \E m \in Member : Deliver(e, m)
                      \/ FindBalance(e) \/ EventFails(e) \/ UpdateFirstTime(e)
  \/ \E c \in Call : \/ \E m \in Member : FindRow(c, m)
                     \/ CheckCup(c) \/ WriteBack(c) \/ CallFails(c)
  \/ \E r \in Ranking : FindOrdered(r) \/ SaveRank(r) \/ SaveFails(r) \/ EndRanking(r)
  \/ CupTime

Next == StandingsNext \/ StandingsRestart

Spec == Init /\ [][Next]_vars

-----------------------------------------------------------------------------
TypeOK ==
  /\ standing \in [Member -> Row]
  /\ period \in Period
  /\ call \in [Call -> CallState]
  /\ event \in [Event -> EventState]
  /\ ranking \in [Ranking -> RankState]
  /\ started \in Nat
  /\ updated \in [Member -> SUBSET Day]
  /\ due \in [Member -> Int]
  /\ sums \in [Member -> SUBSET Int]
  /\ repeated \subseteq Member /\ amiss \subseteq Member
  /\ ranked \in BOOLEAN

\* Once its updates have ended, a row's profit is all that its key earned on the days
\* they found within the cup's time, unless two of them overlapped, one failed or was
\* lost at any await, a day came twice, or the event of the join was handled after one
\* had begun.
ProfitsAddUp ==
  \A m \in Member \ (amiss \cup repeated) : CallsOf(m) = {} => standing[m].profit = due[m]

\* However updates overlap, fail and are lost, and whenever the event of the join is
\* handled, no day's profit is in a row twice as long as no day is given to the code
\* twice (then it is added twice): what the row shows is the sum of some of the days.
NoProfitTwice ==
  \A m \in Member \ repeated : standing[m].profit \in sums[m]

\* After a rank job that was alone and saved every rank, the ranks are 1, 2, 3, ...
\* by rate and then by time of joining, and remain so, unless a profit update that
\* was checked before the end, or the event of a join, was written during or after.
RanksFollowRates ==
  ranked =>
    \A m, n \in Member :
      /\ standing[m].rank \in Place
      /\ standing[m].rank = standing[n].rank => m = n
      /\ standing[m].rate > standing[n].rate => standing[m].rank < standing[n].rank
      /\ standing[m].rate = standing[n].rate /\ JoinTime[m] < JoinTime[n] =>
           standing[m].rank < standing[n].rank
=============================================================================
