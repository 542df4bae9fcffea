# Flock Trades: TLA+ models and proofs

The repository is the NestJS backend of Flock Trades: followers copy the trades
of leaders, users compete in cups, and jobs keep positions, open orders,
balances and profits in a PostgreSQL database that clients also reach through
Hasura.  Bull queues hand work to a worker that is not in the repository.
Almost every operation is an `async` function that reads, awaits, and writes,
and nearly all of its hazards come from what happens at those awaits.

Paths below are relative to the repository.

## Inventory

| Component | State it keeps | Operations | Talks to | Hard part |
|---|---|---|---|---|
| Copy trading: `services/PlaceOrdersService.ts`, `src/place-orders` | `place_orders` | `POST /copyTrades`: place for, or cancel at, every follower | `user_exchanges_keys`, `user_follows`, `user_orders`; exchanges | not awaited by the controller; retries after lost answers; rows written last; cancelling reads what another call wrote |
| Cups, joining: `services/UserJoinedCupService.ts`, `src/user-joined-cup` | `user_join_cups` | check, join; daily profit write-back | `cups`, balance history; account deletion | check-then-insert across awaits; key is a millisecond; stale write-back |
| Cups, standings: same service, `src/user-rank` | profit, rate and rank columns | first-time update, profit update, rank job | Webhook, Balances | lost updates; duplicated or late events |
| Accounts: `src/auth`, `src/verify`, `src/gennerate`, `entities/User.ts` | `users` | register, verify, resend, forgot, change e-mail, delete, deletion worker | mail, sms; keys and joined cups | uniqueness against verified rows only; interrupted deletion; worker against verification |
| Webhook: `services/WebHookService.ts` | Redis key cache, three queues | key inserted or removed, cup joined, leader followed, notification | all of the above | events delivered late, twice, out of order |
| Position and open-order sync: `services/UserPositionsService.ts`, `services/UserOpenOrderService.ts` | `user_positions`, `user_open_orders` | refresh a page of keys, add a new key's rows | exchanges, queues | delete and save on different connections; overlapping refreshes |
| Balances: `services/UserBalanceService.ts` | `user_balance_histories`, details | refresh a key's day, profit sums | exchanges, prices, cups | arithmetic of profit; two `where`s |
| Total profit: `services/UserTotalProfitService.ts` | `user_total_profit` | refresh all users by pages | balances, positions, keys | swallowed failure after the delete; unordered pages |
| Exchange adapters, crypto prices, symbols | price and symbol tables | fetch and reshape | public and private APIs | answers lost or late |
| Push notifications: `services/OneSignalService.ts` | one Redis value | read, send, delete | OneSignal | a value stored in between is deleted unsent |
| Files, health, metrics, sms, hashing, encryption, middleware | none | wrappers | libraries | none for a model |

What makes each correct: copy trading must give every follower exactly one
confirmed order and one honest row per event, cancel only its own copies and
always come to an end; joining must keep the limit of running cups and the
"once per cup" rule; standings must add every profit once and rank what they
read; accounts must not give one phone number or address to two people, nor
delete whom they should not; refreshes must leave the newest answer and never an
empty table; the cache must not outlive a key.

## Modules

| Module | Models | Builds on | Runs | Proofs |
|---|---|---|---|---|
| `CopyTrades` | copy trading | implements `CopyLedger` | `copy_interleaved`, `copy_other_exchanges` | `CopyTradesProofs` |
| `JoinedCups` | joining cups | | `join_overlapping`, `join_once` | `JoinedCupsProofs` |
| `Accounts` | accounts, deletion, the worker | implements `AccountLife` | `accounts_claims`, `accounts_own`, `accounts_leaving`, `accounts_phones` | `AccountsProofs`, `AccountLifeProofs` |
| `TableRefresh` | positions, open orders and total profits as copies of something else | | `refresh` | `TableRefreshProofs` |
| `NewFollower` | a new follower's copies, while the tables are refreshed | composes `TableRefresh` with the webhook and copy trading | `new_follower` | `NewFollowerProofs` |
| `CupStandings` | profit, rate and rank of a cup's rows | | in `webhook` | `WebhookProofs` |
| `Webhook` | all events, the cached keys, the push message | composes `CupStandings` with two more machines | `webhook` | `WebhookProofs` |
| `Balances` | the daily balance, its profit, the total of some days | | `balances` | `BalancesProofs` |

The `MC` modules hold the small values of the constants and the symmetries; the
`Proofs` modules extend the module they are about.

What could follow: an abstract table that the refreshes one at a time implement,
and win rates.

## CopyTrades

`CopyTrades.tla` models `copyTrades`, `placeOrders`, `cancelOrders` and the
helpers they call.  One call of `POST /copyTrades` is an element of `Request`
with its own program counter; a step is what runs between two awaits.

| Model | Code |
|---|---|
| `Receive` | the controller, which answers 200 and does not await the service |
| `FindLeaderKey`, `FindFollows`, `FindKeys`, `FindOrder` | the four queries of `copyTrades`, each with its early `return false` |
| `NextKey`, `PlaceOk`, `PlaceUnknownType`, `PlaceTimeout`, `PlaceError`, `Commit` | `placeOrders`: the `for` over keys, the `while` over attempts, `createMany` |
| `ReadRows`, `NextCancel`, `CancelOk`, `CancelRetry`, `CancelBreak`, `CancelWithoutKey`, `EndCancel` | `cancelOrders` |
| `Throw` | a rejection nobody handles: the call is over, and on Node 15 and later so is the process |
| `Restart`, `EditTables` | outside the code: process restarts, clients editing keys and follows |

Abstractions.  An exchange order is identified by the attempt that made it,
because the code sends no client order id.  What an exchange answers is a
choice; a timeout leaves the order made or not made.  The body of a call is
fixed in `Init` and arbitrary.  `user_orders` has a row per event and is written
elsewhere, so `FindOrder` may find none.  Only Binance's answers carry
`info.orderId`, so copies on the other exchanges have a null id and are passed
over when the leader cancels.  An order type that is no case of the `switch`
sends nothing and still gets a SUCCESS row.  Prices, amounts and symbols are left
out.  The database's schema is not in the repository; each row of
`place_orders` is taken to be a row of its own.

Properties:

* `EveryKeyAccountedFor`: rows of a call appear together, for every follower,
  with a second row only for FAILED at the limit and the attempt after it.
* `CancelsOnlyItsCopies`, `CancelHandlesWhatItRead`: what is cancelled is a copy
  of that leader's order; a cancellation that returns has dealt with all it read.
* `NoAttemptAfterSuccess`: retrying stops at the first confirmed order.
* `LedgerSpec`: the books of a follower (`CopyLedger`): a call opens orders,
  settles once with at most one entry per key naming an order that exists, and
  only entries are closed.
* `CallsEnd`: under fairness every call ends.
* `StepsRunOut`: what that rests on.  Every step of a call, whatever is answered,
  leaves fewer queries ahead (`Ahead`), or fewer elements of the loop, or fewer
  attempts at this one, and no other call adds to them.

What the models also make visible, and no property forbids: retries after lost
answers can leave two orders at an exchange; a CANCELED event handled before the
placing call commits finds no rows and cancels nothing; NEW and FILLED of the
same order are both copied; a repeated POST copies again.

Runs.  `copy_interleaved`: two calls, one leader, two followers, one retry, one
edit: every pair of steps of two calls, and a loop with a key before and after
the one that fails.  `copy_other_exchanges`: two retries, hence an attempt
before, at and after the limit, every status and kind of order type; three
leaders, of whom two are on exchanges that report no id, so that one call cancels
while the copies of another leader are in the books; under fairness, for
`CallsEnd`.

Fairness is weak fairness of a call's own steps: a query answers or fails, an
HTTP call of the exchange library answers or times out, and `delay` ends.  It is
not assumed that anything succeeds, nor that a POST arrives.

## JoinedCups

`JoinedCups.tla` models `joinCup` with `checkIfUserCanJoinCup` and
`insertNewUserJoinedCup`, and what else writes `user_join_cups` while a join
runs: the profit write-back, the deletion of an account, the end of a cup.

| Model | Code |
|---|---|
| `CheckLimit`, `CheckBalance` | the two checks, told together |
| `FindExisting`, `Stamp`, `Select`, `Insert`, `Update` | `insertNewUserJoinedCup`; the last three are TypeORM's `save`, which looks the primary key up and then inserts or updates |
| `ProfitFind`, `ProfitCups`, `ProfitWrite`, `ProfitEnd` | `updatedUserJoinedCupProfitValueAndProfitRate` |
| `DeleteAccount` | the last statement of `VerifyController.verifyDelAccount` |
| `EndCup`, `Tick`, `Restart` | time and restarts |

The primary key is what `entities/UserJoinedCup.ts` declares, the time alone;
the schema itself is not in the repository.  `Handler` bounds how many joins can
be in progress at the same time: an idle handler takes the next request, so the
number of joins is not bounded.  The clock is bounded by `MaxTime`, and the
number of rows with it.

Properties: `LimitPassedOnlyByOverlap` and `CopiesOnlyByOverlap` bound by how
much overlapping joins can break the two rules, and say that joins one at a time
cannot break them.  Accounts that were deleted are left out: a join in progress
when its user is deleted still inserts.  `join_once` shows the plain rule, "User
has already joined this cup!", violated by two overlapping requests.

Runs.  `join_overlapping`: two joins at a time, two cups, a profit job, three
milliseconds, so that a third copy or a third running cup would fit.  The exact
rule for joins that come one at a time is a theorem, `OneAtATime`.  Symmetry is over handlers, users and cups, which the model never
orders.

## Accounts

`Accounts.tla` models the handlers of `AuthController` and `VerifyController`
that change the table `users`, with the keys and joined cups they delete.  A
request in progress is an element of `Call`: it holds the body, the row it
found, and where it is between two awaits.

| Model | Code |
|---|---|
| `CheckName`, `CheckEmail`, `CheckPhone`, `FindHold`, `Insert`, `Reuse` | `register` and `registerSso`: three checks against verified accounts, then a row with this e-mail and number is written over, or a new one saved |
| `Find` and the operators made of it | the first half of the other handlers: find one row or refuse |
| `MarkVerified`, `StoreCode`, `StoreEmailCode`, `StoreDeleteCode`, `Confirm` | their second half, one `update` |
| `Forgot` | `forgotPasswordByEmail`, `forgotPasswordByPhone`, which refuse Google and Apple accounts |
| `CheckProfileName`, `WriteProfile` | `updateProfile`, `updateInfo`, `updateProfileComplete` |
| `ChangeEmail`, `CheckNewEmail`, `StoreEmail` | `changeEmail` |
| `VerifyDelAccount`, `DeleteKeys`, `MarkDeleted`, `DeleteCups` | deletion by a mailed link: two controllers have it, the one in `AuthController` leaves the joined cups alone |
| `WorkerRunDeleteAccount`, `DeleteExpired` | `workerRunDeleteAccount`: find, then delete by id |
| `Stop` | a statement, a mail or a message fails, or the process stops, at any await |
| `AddKey`, `JoinCup`, `Tick` | keys added through the database's API, cups joined, time |

Abstractions.  An address is a mailbox and a spelling, a name a nickname and a
spelling, because the code compares some of them in lower case, trims some and
stores others as they were typed.  Codes are arbitrary, so a code in a request
may be right, old or guessed.  `expired_date` and `is_verify_code` get their
values from the database's defaults, which are not in the repository: they are
taken to be the time of the insert and false, which is what the worker and the
registration rely on.  Passwords, avatars, full names and descriptions are left
out, and `login` with them, which only reads.  `late`, `known`, `since`,
`changed`, `profiled`, `short`, `stripped` and `interrupted` are history
variables: no guard reads them.

Properties:

* `PhoneKept`, `EmailKept`: what the checks of `register` and `changeEmail`
  achieve although rows change between a check and the write.  An account that
  was verified when a request arrived keeps its number and its address against
  whatever that request leads to.  Handlers of profiles are excepted because they
  write the body unchecked.
* `LeavingInOrder`: whose keys are gone is deleted next, or the deletion stopped
  right there.
* `GraceUnlessReplaced`: the worker picks nobody before `TimeDelete` hours have
  passed, unless the address replaced another one.
* `LifeSpec`: `AccountLife`: an account is opened once, activated once, never made
  pending again, and leaves its cups only when it is closed.

What the code does not promise, found by stating it: `PhonesAreUnique` is refuted
by two registrations that come before either is verified.  The models also show,
without a property: a change of e-mail on an old account leaves its owner no
grace, which is why `GraceUnlessReplaced` excepts it; a
new address is stored as it was typed, and a login in lower case does not find
it; the link mailed for the old address confirms the new one; names that differ
by blanks or, in `updateInfo`, by case are two names; an interrupted deletion
leaves joined cups that no link removes, since the account is no longer found.

Runs.  `accounts_claims`: two ids, because two accounts must share a value, and
two requests at a time, because a claim is broken by a request between another
one's check and its write.  `accounts_own`: one account, all kinds of codes and
profiles.  `accounts_leaving`: one account, three hours with a limit of two, so
that an account can be too young, old enough, or old with a young address.
`accounts_phones` is the refutation.  Time stands still in the runs that do not
need it.  `Id` bounds the number of registrations; ids and requests in progress
are symmetric.

## TableRefresh and NewFollower

`TableRefresh.tla` is one machine for the three tables that are thrown away and
filled again: `user_positions`, `user_open_orders`, `user_total_profit`.  The
tables differ in a handful of operators (`Held`, `CanFail`, `Parts`, and `Merge`,
which only positions have).

| Model | Code |
|---|---|
| `Fetch` | the controller's page, one request to the exchange for each key, the entities made of the answers (`updateUserPositionsProcessor`, `getAndUpdateUserOpenOrders`, `getUserTotalProfitData`) |
| `Merge` | `mergeWithOldPosition`: the old row gives its time, creation date and profit |
| `Delete`, `Save` | `updateDbPositions`, `updateDbOpenOrders`, `updateDbUserTotalProfit`: the delete is on the repository's connection, outside the transaction that saves |
| `AddNew` | `addNewExchangeKeyPositions` and its twin, which save without a delete |
| `Reject`, `Restart` | a statement fails, or the process stops |
| `Move` | orders and positions open, fill and close at the exchange |

An answer that failed is an empty one, because `ExchangeHelper` catches
everything: the retry loops of both services look for a `RequestTimeout` that
never reaches them, and go round once.  Of the open orders of Bybit a part may
come, because a symbol that fails is passed over.  All answers of a page are read
in one step, the moment they are stamped; between `Fetch` and `Delete` anything
may happen.  Who starts a refresh, and for which page, is arbitrary, since the
worker is not in the repository.  `Steady` names assets that stay open, so that
"has a row" can be stated while everything else moves.

Properties: `RowsUnlessLost` says which gaps a refresh can leave and that the
next one that succeeds closes them; `CleanTableIsLastAnswer` what refreshes one
at a time achieve, which `disturbed` delimits owner by owner, so that the
refresh of one page is shown not to touch another's rows; `FirstSeenKept` what
`Merge` is for; `DuplicatesBounded` how bad overlap can get: `n` refreshes at a
time never leave more than `n` rows for one thing, however many come after each
other.

`refresh`: three refreshes, two at a time, two owners, three assets of which one
moves, in each of the tables.  Three are needed for an old row to be deleted by
two and found again by a third; two at a time for every overlap of two; the two
refreshes serve one table at a time (`Serves`) because refreshes of different
tables share nothing.  Deadlock is not checked where time is bounded by
`MaxTime`.

`NewFollower.tla` extends it with `placeOrderForUser`: `ReadPositions` and, an
await later, `ReadOrders`, each queueing a copy for each row; `EventCopies` are
the copies `copyTrades` makes for whoever follows by then.  `SteadyCopiedOnce`:
what the leader keeps open is copied exactly once, however the refreshes of the
two tables fall between the two reads, unless one was read in a refresh's gap or
after one that went wrong, or Hasura delivered the event again.
`TwiceOnlyIfItMoved`: two copies of one thing come from an order that was opened
while the event was on its way, or was filled between the reads of the two
tables.  `new_follower` runs one refresh of each table against one follow, with
the event delivered twice.  A copy of something that was never open at the time
of the read is possible and no property forbids it.

## CupStandings and Webhook

`CupStandings.tla` models what writes the columns of one cup's rows:
`updateFirstTimeUserJoinsCup` (`Deliver`, `FindBalance`, `UpdateFirstTime`),
`updatedUserJoinedCupProfitValueAndProfitRate` (`FindRow`, `CheckCup`,
`WriteBack`) and `handleUpdateRankByCup` (`FindOrdered`, `SaveRank`,
`EndRanking`), with the failures of each.  The rank is in the row that a profit
update writes back; the reset writes all columns; `save` of a rank writes only
the rank, because TypeORM compares with what it finds.  Rates are in whole
percents; the cases that tell apart are equal, smaller and 0.

`Webhook.tla` is the whole handler of `/webhook` but for the follows: it composes
`CupStandings` with the machine of the cached exchange keys and that of the push
message.  The machines share the process, which `Restart` stops, and the bound
`MaxStart`.

| Model | Code |
|---|---|
| `ChangeKey`, `DeliverChange` | a mutation Hasura reports, any number of times and in no order; the branch on `op` |
| `Execute` | the command reaches Redis: each has a connection of its own, and none is awaited |
| `Store` | the worker stores a message, over the one that is there |
| `ReadMessage`, `SendOk`, `SendError`, `DeleteMessage` | `sendPushNotification` |

Properties: `ProfitsAddUp` (no profit is lost unless updates overlap, `clash`),
`NoProfitTwice` (with any overlap), `RanksFollowRates` (after a rank job that was
alone, until a write that was on its way), `CacheFollowsKeys` (once everything
has arrived, unless commands overtook each other, which `crooked` records),
`NoMessageLost`.  Each excuse is a history variable that a definite interleaving
sets, so each property also says which interleavings do no harm.

`webhook`: two members who joined at the same time, one of them outside the cup's
time; two profit updates, two rank jobs and two sends at a time; two rows of one
API key; four beginnings in all.  Two updates of one row are needed to clash, two
rank jobs to mix their ranks; with four beginnings a reset, two updates and a
rank job fit, or an insert, a delete and another insert of a key.

## Balances

`Balances.tla` models the refresh of one key's balance (`FetchBalance`,
`FetchIncome`, `CalculateDailyProfit`, `Delete`, `Save`) and the reckoning of a
user's profit over some days (`ReadProfits`, `ReadFirst`), which are two queries
sent together and answered in either order.
The clock goes on in hours between all of them.  The rows carry what trading had
really brought when the balance was read, as history; the model never decides by
it.  A reckoning during which rows are written, or midnight passes, becomes
`Mixed`: its sums come from two states of the table, and nothing is claimed of them.

* `ProfitIsGain`: the expression in `calculateDailyProfit` is what trading brought
  since yesterday's row, when both answers came and the transfers asked for are
  those since then.  The sum in the comment above it
  (`services/UserBalanceService.ts:376`) has deposits and withdrawals the other
  way round; it is the mutant of this property.
* `OneRowPerDay`: two rows for a day only come from refreshes that overlapped, or
  one that passed midnight (`crossed`).
* `HistoryKept`: a refresh deletes today's rows, or all rows of the key
  (`deleteOldDataOfOneExchangeKey`, whose second `where` replaces the first).
* `ProfitTelescopes`: the sum over the days is the rise since the first balance
  less the transfers, when no row was written in between and no day is missing.
  The second query goes back one day further than the first, which is what makes
  it so.

`balances`: three days of two hours, one key on either kind of exchange (the
transfers of the last 24 hours or of the calendar day), three refreshes of which
two may overlap, one trade or transfer, failed answers.  Three refreshes are
needed for two days in a row and one twice; one change is enough to fall before,
between or after any two readings.  Prices do not change, a key holds one asset,
and transfer fees are left out.

## Proofs

`CopyTradesProofs.tla`, for any number of calls, keys, orders, retries and
edits: `TypesHold`, `TypeCorrect`, `NoDoubleSuccess`, `EveryKeyIsAccountedFor`,
`CancelsOnlyCopies`, `CancelHandlesAll`, `ImplementsLedger`.  The inductive
invariant says what each loop has done so far: the rows collected cover exactly
the keys visited (`VisitedOK`), each row fits the attempt it came from
(`SavesOK`), the rows in the table are those of calls that committed (`RowsOK`),
an order at the exchange belongs to an attempt that was made (`PlacedOK`), the
batch of a cancellation comes from committed rows (`BatchOK`) and is split into
cancelled, given up and still to visit (`DealtWith`).  None of the properties is
inductive without these.  The refinement follows from the same invariant.

`StepsComeToAnEnd` (`StepsRunOut`) and `NoEndlessCall` say why a call cannot go on
for ever: each of its steps goes down the lexicographic order of queries, elements
and attempts, which is well-founded.  That needs the sets a loop walks through to
be finite (`FiniteInv`: rows are added by calls over finitely many keys) and a
cancellation to stay within its limit.  With fairness `CallsEnd` follows, but that
last step is the model checker's.

`JoinedCupsProofs.tla`, for any number of users, cups, handlers, jobs and any
limit: `JoinedCupsTypes`, `LimitHolds`, `CopiesHold`.  The bounds are inductive
only when the joins that have passed a check are counted with the rows the check
counted (`LimitInv`, `CopyInv`): a step that adds a row takes its join out of the
count (`Balanced`), and a check that passes starts from few enough rows.  Stale
write-backs swap one row for another of the same user and cup
(`WriteBackSwaps`), and cannot revive a row of an account that still exists
(`RowsOK`).  `OneAtATime` assumes one handler and gets the rules of the code
without an excuse: no user above the limit, no cup joined twice with one key.

`AccountsProofs.tla`, for any number of accounts, requests in progress and kinds
of requests: `AccountsTypes`, `PhoneKeptHolds`, `EmailKeptHolds`.  The claims are
not inductive: between its check and its write a request holds a value the table
does not show.  `ClaimInv` adds what a request knows once it has passed a check
(`CheckedPhone`, `CheckedEmail`: none of those verified on its arrival has the
value, nor can have got it since), that they stay verified (`KnownAreFirm`), and
that an address nobody changed is in lower case (`LowerOriginal`), without which
an address checked in lower case and stored as typed could collide.  Three steps
make a claim (`Insert`, `StoreEmail`, the checks); all others keep the columns
(`KeptStep`).

`AccountLifeProofs.tla`: `GraceHolds`, `LeavingHolds`, `ImplementsLife`.  Most of
the 39 steps are shown to be plain once (`Plain`): no state of a row changes, and
at most one account gets verified.  `LeaveInv` says that a deletion in progress
has found its row where the link or the session pointed and has marked it before
it turns to the cups (`LeavingOK`); without this the refinement fails at
`DeleteCups`.  `AgeInv` ties the age of a row to that of its address.

`TableRefreshProofs.tla`, for any number of owners, assets, tables and refreshes
at a time: `TypesHold`, `RowsKept`, `CleanTables`, `FirstRowsKept`,
`FewDuplicates`.  A row is safe
only if the batch that will replace it has one too: `RowsInv` carries "what stays
open is in the batch of whoever is about to delete it" through the steps of a
refresh; the invariant of `CleanTables` adds that a refresh of an undisturbed
owner is alone with it, and so finds at its delete exactly what the last one left.
`FewDuplicates` counts the refreshes that have deleted and not yet saved with the
rows there are (`Room`): a delete makes room for the row it may save, because it
removes all the others.

`NewFollowerProofs.tla`, for any leader and any things: `FollowTypesHold`,
`CopiedOnce`, `TwiceIfMoved`, which is every property of the run, and
`FollowingKeepsRefreshes`: a behaviour with a new follower is one of
`TableRefresh`, so all that is proved of the tables holds here too
(`TablesKeepTheirProperties`).  `FollowInv` adds to the invariant of the refreshes
that what a row, a batch or a copy says is open was open once (`OpenInv`,
`CopiesOpen`), that what is steady is copied as soon as its table was read
(`CopiedAlready`), and that one table gives one copy (`OneFromEach`), which is
where `CleanTableIsLastAnswer` is needed: a table without a hole has one row for a
thing.

`WebhookProofs.tla`, for any number of members, calls, events, rank jobs and
keys: `TypesHold`, `ProfitsAdded`, `ProfitsOnce`, `RanksFollow`, `CacheFollows`,
`MessagesKept`, which is every property of the run.  `ProfitsAdded` needs that
the row a lone update holds is the row as it is; `RanksFollow` that a lone rank
job's saved and pending ranks together are an order of the rates as they are;
`CacheFollows` that among the changes executed and pending the newest one is what
the table holds (`Straight`, `LastSays`).

`BalancesProofs.tla`, for any keys, prices, length of the day, number of refreshes
and overlap: `ProfitsAreGains`, `OneRow`, `HistoryStays`.  `Inv` says that a row
whose answers came is balanced (total = earned + moved), that two refreshes of a
key in progress are recorded (`Solo`), and that between its delete and its save a
refresh that was alone finds its day clear (`Clear`).  `BalanceTypes` and
`ProfitsTelescope` are about the reckoning.  Its sums are folds over finite sets of
rows, of which the module proves that any element may be taken out first; what
holds of every finite set is proved by taking the set of good subsets in place of
a predicate (`SubsetInduction`, from the well-foundedness of the strict subsets).
`Telescope` is the arithmetic: over rows one day apart, each with the profit
reckoned from the row before, the profits are the last total less the first, less
the transfers.  `Book` says that the profit of a row was reckoned from whichever row
has that number now, although that one may have been deleted and saved again since;
`TallyRight` that what a reckoning has read is still what the table holds.

Assumptions used: the named ASSUMEs of the modules (positive retry limit,
`NoId` is no order id, finitely many keys, handlers and refreshes at a time, and
at least one refresh, positive limit, the fields that
validated bodies have, `None` is no value, assets belong to owners, `NoEntry` is
no entry, prices are natural numbers, days have hours).

Model-checked only: `CallsEnd`, because liveness under fairness is out of the
proof system's reach; `NoEndlessCall` is what can be proved of it.  `JoinedOnce`
and `PhonesAreUnique` are refuted.  Every other property of a run is a theorem.  No module but `CopyTrades` assumes fairness: the others claim no
liveness, since their work is started by a worker, by Hasura or by clients, and
may fail at every await without a retry.

## Not modelled

* Crypto prices and symbols: tables filled from public APIs by one statement each.
  `Balances` takes prices as constants; that the list of Bybit's symbols is cached
  without expiry is a hazard without a property, since nothing else writes it.
* Of the exchange adapters: requests, signatures, and the fields of positions and
  orders.  What the models take from them is what an answer holds, the time it is
  from, and how it fails.
* Of the balances: the table of details, which nothing reads, and the refresh of
  all balances at once, which nothing calls.  Of the total profits: win rates,
  exchange names, and the order in which users are paged; pages are arbitrary.
* Of the accounts: passwords, login, avatars, names and descriptions, and which
  code a message carries.
* Connections to Redis, which are never closed: their number only grows, and no
  property relates it to anything.
* Files, health, metrics, sms, hashing, encryption, middleware: I/O without state
  of their own.
