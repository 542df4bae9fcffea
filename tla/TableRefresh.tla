---------------------------- MODULE TableRefresh ----------------------------
(***************************************************************************)
(* The tables user_positions, user_open_orders and user_total_profit are   *)
(* copies of something else: of what is open at an exchange, or of what    *)
(* the other tables add up to.  A refresh fetches the answers for a page   *)
(* of owners, deletes the owners' rows and saves new ones.  Nobody waits   *)
(* for it, so refreshes overlap; and the delete runs on the repository's   *)
(* connection, not in the transaction that saves, so it is seen at once    *)
(* and stays when the save fails.                                          *)
(*                                                                         *)
(* The entities declare the time as their only key, in milliseconds, and   *)
(* rows stamped in one loop share it.  save looks its entities up by that  *)
(* key, inserts those it does not find, and updates the others: every row  *)
(* of the millisecond, whoever owns it.  The schema is not in the          *)
(* repository.  Where it has a unique index on the time, an insert that    *)
(* meets a row of its millisecond fails, which Reject covers.              *)
(*                                                                         *)
(* ExchangeHelper catches every error of an exchange and answers with no   *)
(* rows, so the loops that retry on RequestTimeout go round only once.  An *)
(* order of a symbol that the cached list of Bybit's symbols lacks is      *)
(* never fetched, and is no asset here.                                    *)
(*                                                                         *)
(* The worker that takes keys from the Bull queues is not in the           *)
(* repository: when and for which page a refresh starts is arbitrary.      *)
(***************************************************************************)
EXTENDS Integers, FiniteSets

CONSTANTS
  Owner,      \* exchange keys, or users for the total profits
  Name,       \* what tells the rows of an owner apart, "total" for his total profit
  Asset,      \* pairs <<owner, name>>: what an owner can have at an exchange
  Steady,     \* those that are open and stay as they are for good
  Table,      \* the tables looked at
  Job,        \* as many as refreshes can be in progress at the same time
  FirstTimes, \* bound: the times that the first rows may have, functions from Thing
  Serves,     \* bound: the tables these refresh, functions from Job to Table
  LongLoops,  \* bound: may a loop take until the next millisecond?
  MaxFetch    \* bound: how often answers are fetched

Phase == {"none", "order", "position", "gone"}

Thing == Owner \X Name

\* The one row a user has in user_total_profit.
Total == [o \in Owner |-> <<o, "total">>]

\* What a row is about is told by its columns, which an update may change; rows are
\* told apart by the fetch that made them and what they were made for.
Row == [id : Nat \X Thing, thing : Thing, time : Nat]

ASSUME AssetAssumption  == Asset \subseteq Thing /\ "total" \in Name
ASSUME SteadyAssumption == Steady \subseteq Asset
ASSUME TableAssumption  == Table \subseteq {"positions", "orders", "profits"}
ASSUME JobAssumption    == IsFiniteSet(Job) /\ Job # {} /\ Serves \subseteq [Job -> Table]
ASSUME TimeAssumption   == FirstTimes \subseteq [Thing -> Nat] /\ MaxFetch \in Nat

VARIABLES
  phase,      \* what has become of each asset at the exchange
  rows,       \* the tables
  clock,      \* the millisecond
  fetches,    \* how many loops have made entities
  pc,         \* where each refresh is
  job,        \* its table, its page of owners, those whose answer failed, and the
              \* times that save has found in the table
  batch,      \* the entities it will save
  first,      \* history: the times of the first rows
  lost,       \* history: owners who may lack rows until a refresh succeeds
  disturbed,  \* history: owners with anything but refreshes one at a time that succeed
  crowded,    \* history: owners with rows saved over others or without deleting any
  seen        \* history: what the last refresh that ended had fetched

jobs    == <<clock, fetches, pc, job, batch>>
history == <<first, lost, disturbed, crowded, seen>>
vars    == <<phase, rows, jobs, history>>

OpenPositions(o) == {a \in Asset : a[1] = o /\ phase[a] = "position"}
OpenOrders(o)    == {a \in Asset : a[1] = o /\ phase[a] = "order"}

\* What a complete answer for the owner holds.
Held(t, o) ==
  CASE t = "positions" -> OpenPositions(o)
    [] t = "orders"    -> OpenOrders(o)
    [] t = "profits"   -> {Total[o]}

Fresh(t) == [table |-> t, owners |-> {}, failed |-> {}, found |-> {}]

RowsOf(t, S) == {w \in rows[t] : w.thing[1] \in S}

Init ==
  /\ phase \in [Asset -> Phase]
  /\ \A a \in Steady : phase[a] \in {"order", "position"}
  /\ first \in FirstTimes
  /\ rows = [t \in Table |-> {[id |-> <<0, a>>, thing |-> a, time |-> first[a]] :
                               a \in UNION {Held(t, o) : o \in Owner}}]
  /\ clock = 1
  /\ fetches = 0
  /\ pc = [j \in Job |-> "idle"]
  /\ \E f \in Serves : job = [j \in Job |-> Fresh(f[j])]
  /\ batch = [j \in Job |-> {}]
  /\ lost = [t \in Table |-> {}]
  /\ disturbed = [t \in Table |-> {}]
  /\ crowded = [t \in Table |-> {}]
  /\ seen = [t \in Table |-> [o \in Owner |-> Held(t, o)]]

Goto(j, label) == pc' = [pc EXCEPT ![j] = label]

\* The locals of a refresh go with it.
End(S) ==
  /\ pc' = [j \in Job |-> IF j \in S THEN "idle" ELSE pc[j]]
  /\ job' = [j \in Job |-> IF j \in S THEN Fresh(job[j].table) ELSE job[j]]
  /\ batch' = [j \in Job |-> IF j \in S THEN {} ELSE batch[j]]

\* The refreshes in progress for one of these owners.
Busy(t, S) == {j \in Job : pc[j] # "idle" /\ job[j].table = t /\ job[j].owners \cap S # {}}

\* A refresh has deleted and not yet saved.
Deleted(j) == pc[j] \in {"save", "write"}

\* Owners whose rows are deleted and not yet saved.
Window(t) == UNION {job[j].owners : j \in {i \in Job : Deleted(i) /\ job[i].table = t}}

Touch(t, S) == disturbed' = [disturbed EXCEPT ![t] = @ \cup S]

-----------------------------------------------------------------------------
(***************************************************************************)
(* The first half of a refresh: read the page, ask the exchange, make the  *)
(* entities in one loop, which may take until the next millisecond.        *)
(***************************************************************************)

\* Mutant: the stamp is missing.
Unstamped(things, stamp) == {[id |-> <<fetches + 1, a>>, thing |-> a, time |-> -1] : a \in things}

Stamped(things, stamp) ==
  {[id |-> <<fetches + 1, a>>, thing |-> a, time |-> stamp[a]] : a \in things}

HeldBy(t, S) == UNION {Held(t, o) : o \in S}

\* What a refresh takes on; of the answers that failed it has a part.
TakeOn(j, S, failed, part) ==
  /\ pc[j] = "idle"
  /\ fetches < MaxFetch
  /\ fetches' = fetches + 1
  /\ clock' \in {clock, clock + 1}
  /\ job' = [job EXCEPT ![j] = [table |-> @.table, owners |-> S, failed |-> failed,
                                found |-> {}]]
  /\ LET things == HeldBy(job[j].table, S \ failed) \cup part
     IN \E stamp \in [things -> IF LongLoops THEN {clock, clock'} ELSE {clock'}] :
          batch' = [batch EXCEPT ![j] = Stamped(things, stamp)]

\* Total profits come from this database: an error there ends the refresh early.
CanFail(t, S) == IF t = "profits" THEN {{}} ELSE SUBSET S

\* An answer that failed counts as an empty one.  Bybit is asked for the orders of
\* one symbol after the other, and a symbol that fails is passed over.
Parts(t, failed) == IF t = "orders" THEN SUBSET HeldBy(t, failed) ELSE {{}}

Fetch(j) ==
  LET t == job[j].table
  IN \E S \in (SUBSET Owner) \ {{}} : \E failed \in CanFail(t, S) :
       /\ \E part \in Parts(t, failed) : TakeOn(j, S, failed, part)
       /\ Goto(j, IF t = "positions" THEN "merge" ELSE "delete")
       /\ Touch(t, IF Busy(t, S) = {} THEN failed
                   ELSE S \cup UNION {job[i].owners : i \in Busy(t, S)})
       /\ UNCHANGED <<phase, rows, first, lost, crowded, seen>>

Crowd(t, S) == crowded' = [crowded EXCEPT ![t] = @ \cup S]

\* A new key's rows are saved without deleting any.
AddNew(j) ==
  LET t == job[j].table
  IN /\ t # "profits"
     /\ \E o \in Owner : \E failed \in SUBSET {o} :
          /\ \E part \in Parts(t, failed) : TakeOn(j, {o}, failed, part)
          /\ Touch(t, {o})
          /\ Crowd(t, {o})
     /\ Goto(j, "add")
     /\ UNCHANGED <<phase, rows, first, lost, seen>>

\* Mutant: a position keeps the time of the refresh.
OldIgnored(w) == {w}

\* The old row a new position takes its time, its creation and its profit from.
Old(w) ==
  LET found == {v \in rows["positions"] : v.thing = w.thing}
  IN IF found = {} THEN {w} ELSE found

\* One findOne for each new position.
Merge(j) ==
  /\ pc[j] = "merge"
  /\ \E old \in [batch[j] -> rows["positions"] \cup batch[j]] :
       /\ \A w \in batch[j] : old[w] \in Old(w)
       /\ batch' = [batch EXCEPT ![j] = {[w EXCEPT !.time = old[w].time] : w \in batch[j]}]
  /\ Goto(j, "delete")
  /\ UNCHANGED <<phase, rows, clock, fetches, job, history>>

-----------------------------------------------------------------------------
(***************************************************************************)
(* The second half: delete on one connection, save on another.  save is a  *)
(* SELECT by time and, an await later, the updates and inserts.            *)
(***************************************************************************)

\* Mutant: only the owners that have new rows are deleted.
DoomedAnswered(j) ==
  RowsOf(job[j].table, {w.thing[1] : w \in batch[j]})

\* Mutant: only the first owner of the page is deleted.
DoomedFirst(j) == RowsOf(job[j].table, {CHOOSE o \in job[j].owners : TRUE})

\* Mutant: the condition on the owner is left out.
DoomedAll(j) == rows[job[j].table]

Doomed(j) == RowsOf(job[j].table, job[j].owners)

Delete(j) ==
  /\ pc[j] = "delete"
  /\ rows' = [rows EXCEPT ![job[j].table] = @ \ Doomed(j)]
  /\ lost' = [lost EXCEPT ![job[j].table] = @ \cup job[j].failed]
  /\ Goto(j, "save")
  /\ UNCHANGED <<phase, clock, fetches, job, batch, first, disturbed, crowded, seen>>

Times(W) == {w.time : w \in W}

Look(j) ==
  /\ pc[j] \in {"save", "add"}
  /\ job' = [job EXCEPT ![j].found = Times(batch[j]) \cap Times(rows[job[j].table])]
  /\ Goto(j, IF pc[j] = "save" THEN "write" ELSE "insert")
  /\ UNCHANGED <<phase, rows, clock, fetches, batch, history>>

\* Entities that update what has their time, and the rows that have it now.
Updates(j) == {w \in batch[j] : w.time \in job[j].found}
Hit(j)     == {v \in rows[job[j].table] : v.time \in job[j].found}

\* Whose rows such updates may make, change or miss.
Struck(j) == {w.thing[1] : w \in Updates(j) \cup Hit(j)}

\* One update after the other writes the columns in which the entity differs from
\* the one row it was compared with; the others stay.
Rewritten(j, v) ==
  LET said == {v.thing} \cup {w.thing : w \in {u \in Updates(j) : u.time = v.time}}
  IN {[v EXCEPT !.thing = <<a[1], b[2]>>] : a, b \in said}

Written(j, new) ==
  (rows[job[j].table] \ Hit(j)) \cup {new[v] : v \in Hit(j)} \cup (batch[j] \ Updates(j))

Save(j) ==
  LET t == job[j].table
  IN /\ pc[j] \in {"write", "insert"}
     /\ \E new \in [Hit(j) -> UNION {Rewritten(j, v) : v \in Hit(j)}] :
          /\ \A v \in Hit(j) : new[v] \in Rewritten(j, v)
          /\ rows' = [rows EXCEPT ![t] = Written(j, new)]
     /\ Touch(t, Struck(j))
     /\ Crowd(t, Struck(j))
     /\ IF pc[j] = "insert"
        THEN /\ lost' = [lost EXCEPT ![t] = @ \cup Struck(j)]
             /\ UNCHANGED seen
        ELSE /\ lost' = [lost EXCEPT ![t] = (@ \ (job[j].owners \ job[j].failed)) \cup Struck(j)]
             /\ seen' = [seen EXCEPT ![t] =
                  [o \in Owner |-> IF o \in job[j].owners
                                   THEN {w.thing : w \in {v \in batch[j] : v.thing[1] = o}}
                                   ELSE @[o]]]
     /\ End({j})
     /\ UNCHANGED <<phase, clock, fetches, first>>

\* A statement fails: for positions and orders nobody handles the rejection,
\* for profits it is logged.  What was deleted stays deleted.
Reject(j) ==
  /\ pc[j] # "idle"
  /\ LET S == IF Deleted(j) THEN job[j].owners ELSE {}
     IN /\ lost' = [lost EXCEPT ![job[j].table] = @ \cup S]
        /\ Touch(job[j].table, S)
  /\ End({j})
  /\ UNCHANGED <<phase, rows, clock, fetches, first, crowded, seen>>

\* The process stops, perhaps because of such a rejection.
Restart ==
  /\ \E j \in Job : pc[j] # "idle"
  /\ lost' = [t \in Table |-> lost[t] \cup Window(t)]
  /\ disturbed' = [t \in Table |-> disturbed[t] \cup Window(t)]
  /\ End(Job)
  /\ UNCHANGED <<phase, rows, clock, fetches, first, crowded, seen>>

\* At the exchange: orders are opened, filled or cancelled, positions closed.
Move(a) ==
  /\ a \notin Steady
  /\ \E p \in Phase :
       /\ <<phase[a], p>> \in {<<"none", "order">>, <<"order", "position">>,
                               <<"order", "gone">>, <<"position", "gone">>}
       /\ phase' = [phase EXCEPT ![a] = p]
  /\ UNCHANGED <<rows, jobs, history>>

Next ==
  \/ \E j \in Job : \/ Fetch(j) \/ AddNew(j) \/ Merge(j) \/ Delete(j)
                    \/ Look(j) \/ Save(j) \/ Reject(j)
  \/ Restart
  \/ \E a \in Asset : Move(a)

Spec == Init /\ [][Next]_vars

-----------------------------------------------------------------------------
TypeOK ==
  /\ phase \in [Asset -> Phase]
  /\ rows \in [Table -> SUBSET Row]
  /\ clock \in Nat /\ fetches \in Nat
  /\ pc \in [Job -> {"idle", "merge", "delete", "save", "write", "add", "insert"}]
  /\ job \in [Job -> [table : Table, owners : SUBSET Owner, failed : SUBSET Owner,
                       found : SUBSET Nat]]
  /\ batch \in [Job -> SUBSET Row]
  /\ lost \in [Table -> SUBSET Owner] /\ disturbed \in [Table -> SUBSET Owner]
  /\ crowded \in [Table -> SUBSET Owner] /\ first \in [Thing -> Nat]
  /\ seen \in [Table -> [Owner -> SUBSET Thing]]

SteadyIn(t) ==
  {a \in Steady : a \in Held(t, a[1])} \cup (IF t = "profits" THEN {Total[o] : o \in Owner} ELSE {})

\* What stays open has a row, except while a refresh is between its delete and
\* its save, after one that stopped there or took a failed answer for an empty
\* one, and after a save that updated rows of its millisecond; the next that
\* succeeds brings it back.
RowsUnlessLost ==
  \A t \in Table : \A a \in SteadyIn(t) :
    \/ \E w \in rows[t] : w.thing = a
    \/ a[1] \in lost[t] \cup Window(t)

\* Refreshes that come one at a time and succeed make the table what the last of
\* them fetched, with one row for each position or order, whatever refreshes of
\* other owners do, unless a save met a row of its millisecond.
CleanTableIsLastAnswer ==
  \A t \in Table : \A o \in Owner \ (disturbed[t] \cup Window(t)) :
    /\ {w.thing : w \in RowsOf(t, {o})} = seen[t][o]
    /\ \A v, w \in RowsOf(t, {o}) : v.thing = w.thing => v = w

\* A position that stays open keeps the time, the creation date and the realized
\* profit of its first row as long as refreshes come one at a time and succeed, and
\* no save meets a row of its millisecond.
FirstSeenKept ==
  "positions" \in Table =>
    \A w \in rows["positions"] :
      w.thing \in Steady /\ w.thing[1] \notin disturbed["positions"] =>
         w.time = first[w.thing]

\* Overlap adds rows, but never more for one thing than there are refreshes at a
\* time, as long as none saves without deleting or over rows of its millisecond.
DuplicatesBounded ==
  \A t \in Table : \A a \in Thing :
    a[1] \notin crowded[t] =>
      Cardinality({w \in rows[t] : w.thing = a}) <= Cardinality(Job)
=============================================================================
