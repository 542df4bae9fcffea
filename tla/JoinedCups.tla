----------------------------- MODULE JoinedCups -----------------------------
(***************************************************************************)
(* Joining a cup: POST user-join-cup/join checks and then inserts, with an *)
(* await between any two of its queries, while other joins, the deletion   *)
(* of the account and the job that adds the day's profit use the same      *)
(* table, user_join_cups.                                                  *)
(*                                                                         *)
(* The table's primary key is the time of the join in milliseconds, taken  *)
(* from the clock by the handler; TypeORM's save looks the key up and then *)
(* inserts, or updates the row it found.  The profit job writes back whole *)
(* rows it read earlier, deleted_at included.                              *)
(***************************************************************************)
EXTENDS Integers, FiniteSets

CONSTANTS
  User, ExchangeKey, Cup,
  Handler,    \* as many as joins can be in progress at the same time
  Job,        \* as many as profit updates can be in progress at the same time
  Limit,      \* the number of running cups a user may be in: 3 in the code
  MaxTime     \* bound: the last millisecond of the clock

ASSUME HandlerAssumption == IsFiniteSet(Handler)
ASSUME LimitAssumption   == Limit \in Nat \ {0}
ASSUME TimeAssumption    == MaxTime \in Nat

VARIABLES
  rows,        \* user_join_cups
  ended,       \* the cups whose end_time has passed
  gone,        \* the users whose account was deleted
  clock,       \* the time in milliseconds
  pc,          \* where each handler is
  arg,         \* the body of its request
  reached,     \* hasUserReachedNumberOfCupLimit
  stamp,       \* the time of the entity it is saving
  jobPc,       \* where each profit job is
  snapshot     \* the entities it read

handlers == <<pc, arg, reached, stamp>>
jobs     == <<jobPc, snapshot>>
vars     == <<rows, ended, gone, clock, handlers, jobs>>

Body == [user : User, key : ExchangeKey, cup : Cup]
Row  == [time : Nat, user : User, key : ExchangeKey, cup : Cup, deleted : BOOLEAN]

Init ==
  /\ rows = {}
  /\ ended = {}
  /\ gone = {}
  /\ clock = 0
  /\ pc = [h \in Handler |-> "idle"]
  /\ arg \in [Handler -> Body]
  /\ reached = [h \in Handler |-> FALSE]
  /\ stamp = [h \in Handler |-> 0]
  /\ jobPc = [j \in Job |-> "idle"]
  /\ snapshot = [j \in Job |-> {}]

Goto(h, label) == pc' = [pc EXCEPT ![h] = label]

Joined(u) == {w \in rows : w.user = u /\ ~w.deleted}

\* The rows the limit counts: those of cups that are still running.
Counted(u) == {w \in Joined(u) : w.cup \notin ended}

Same(w, b) == w.user = b.user /\ w.key = b.key /\ w.cup = b.cup

-----------------------------------------------------------------------------
(***************************************************************************)
(* joinCup.  Every refusal is a 400, after which the handler is free.      *)
(***************************************************************************)

Receive(h, b) ==
  /\ pc[h] = "idle"
  /\ arg' = [arg EXCEPT ![h] = b]
  /\ Goto(h, "limit")
  /\ UNCHANGED <<rows, ended, gone, clock, reached, stamp, jobs>>

\* Mutant: > for >=.
OverLimit(u) == Cardinality(Counted(u)) > Limit

AtLimit(u) == Cardinality(Counted(u)) >= Limit

CheckLimit(h) ==
  /\ pc[h] = "limit"
  /\ reached' = [reached EXCEPT ![h] = AtLimit(arg[h].user)]
  /\ Goto(h, "balance")
  /\ UNCHANGED <<rows, ended, gone, clock, arg, stamp, jobs>>

\* Today's balance may be missing or too low; both errors are told at once.
CheckBalance(h) ==
  /\ pc[h] = "balance"
  /\ \E enough \in BOOLEAN :
       Goto(h, IF enough /\ ~reached[h] THEN "existing" ELSE "idle")
  /\ UNCHANGED <<rows, ended, gone, clock, arg, reached, stamp, jobs>>

\* Mutant: the entity that was found is not looked at.
ExistsIgnored(b) == FALSE

Exists(b) == \E w \in rows : ~w.deleted /\ Same(w, b)

FindExisting(h) ==
  /\ pc[h] = "existing"
  /\ Goto(h, IF Exists(arg[h]) THEN "idle" ELSE "stamp")
  /\ UNCHANGED <<rows, ended, gone, clock, arg, reached, stamp, jobs>>

\* Mutant: the time of the entity is rounded up.
StampRoundedUp(h) ==
  /\ pc[h] = "stamp"
  /\ stamp' = [stamp EXCEPT ![h] = clock + 1]
  /\ Goto(h, "select")
  /\ UNCHANGED <<rows, ended, gone, clock, arg, reached, jobs>>

\* The new entity is made when the query for the cup has answered.
Stamp(h) ==
  /\ pc[h] = "stamp"
  /\ stamp' = [stamp EXCEPT ![h] = clock]
  /\ Goto(h, "select")
  /\ UNCHANGED <<rows, ended, gone, clock, arg, reached, jobs>>

KeyTaken(t) == \E w \in rows : w.time = t

\* save: is there a row with this primary key?
Select(h) ==
  /\ pc[h] = "select"
  /\ Goto(h, IF KeyTaken(stamp[h]) THEN "update" ELSE "insert")
  /\ UNCHANGED <<rows, ended, gone, clock, arg, reached, stamp, jobs>>

NewRow(h) ==
  [time |-> stamp[h], user |-> arg[h].user, key |-> arg[h].key, cup |-> arg[h].cup,
   deleted |-> FALSE]

\* A key taken since the lookup makes the insert fail.
Insert(h) ==
  /\ pc[h] = "insert"
  /\ rows' = IF KeyTaken(stamp[h]) THEN rows ELSE rows \cup {NewRow(h)}
  /\ Goto(h, "idle")
  /\ UNCHANGED <<ended, gone, clock, arg, reached, stamp, jobs>>

\* The row of a join of the same millisecond becomes this join's.
Update(h) ==
  /\ pc[h] = "update"
  /\ rows' = {IF w.time = stamp[h] THEN NewRow(h) ELSE w : w \in rows}
  /\ Goto(h, "idle")
  /\ UNCHANGED <<ended, gone, clock, arg, reached, stamp, jobs>>

-----------------------------------------------------------------------------
(***************************************************************************)
(* updatedUserJoinedCupProfitValueAndProfitRate, for one key of a user:    *)
(* read the rows, read their cups, write the rows of running cups back.    *)
(***************************************************************************)

ProfitFind(j) ==
  /\ jobPc[j] = "idle"
  /\ \E u \in User, k \in ExchangeKey :
       snapshot' = [snapshot EXCEPT ![j] = {w \in Joined(u) : w.key = k}]
  /\ snapshot'[j] # {}
  /\ jobPc' = [jobPc EXCEPT ![j] = "cups"]
  /\ UNCHANGED <<rows, ended, gone, clock, handlers>>

ProfitCups(j) ==
  /\ jobPc[j] = "cups"
  /\ snapshot' = [snapshot EXCEPT ![j] = {w \in @ : w.cup \notin ended}]
  /\ jobPc' = [jobPc EXCEPT ![j] = "write"]
  /\ UNCHANGED <<rows, ended, gone, clock, handlers>>

\* UPDATE ... WHERE user, key and cup are w's, with every column of w: a second
\* row it matches, or another row with w's time, violates the primary key.
WriteBack(w) ==
  LET hit == {v \in rows : Same(v, w)}
  IN  IF \A v \in hit : \A other \in rows \ {v} : other \notin hit /\ other.time # w.time
      THEN (rows \ hit) \cup {w : v \in hit}
      ELSE rows

ProfitWrite(j) ==
  /\ jobPc[j] = "write"
  /\ \E w \in snapshot[j] :
       /\ rows' = WriteBack(w)
       /\ snapshot' = [snapshot EXCEPT ![j] = @ \ {w}]
  /\ UNCHANGED <<ended, gone, clock, jobPc, handlers>>

ProfitEnd(j) ==
  /\ jobPc[j] = "write" /\ snapshot[j] = {}
  /\ jobPc' = [jobPc EXCEPT ![j] = "idle"]
  /\ UNCHANGED <<rows, ended, gone, clock, snapshot, handlers>>

-----------------------------------------------------------------------------
(***************************************************************************)
(* Around them.                                                            *)
(***************************************************************************)

\* The last statement of verifyDelAccount marks every row of the user.
DeleteAccount(u) ==
  /\ gone' = gone \cup {u}
  /\ rows' = {IF w.user = u THEN [w EXCEPT !.deleted = TRUE] ELSE w : w \in rows}
  /\ UNCHANGED <<ended, clock, handlers, jobs>>

EndCup(c) ==
  /\ ended' = ended \cup {c}
  /\ UNCHANGED <<rows, gone, clock, handlers, jobs>>

Tick ==
  /\ clock < MaxTime
  /\ clock' = clock + 1
  /\ UNCHANGED <<rows, ended, gone, handlers, jobs>>

Restart ==
  /\ pc' = [h \in Handler |-> "idle"]
  /\ jobPc' = [j \in Job |-> "idle"]
  /\ snapshot' = [j \in Job |-> {}]
  /\ UNCHANGED <<rows, ended, gone, clock, arg, reached, stamp>>

Join(h) ==
  \/ \E b \in Body : Receive(h, b)
  \/ CheckLimit(h) \/ CheckBalance(h) \/ FindExisting(h)
  \/ Stamp(h) \/ Select(h) \/ Insert(h) \/ Update(h)

Profit(j) == ProfitFind(j) \/ ProfitCups(j) \/ ProfitWrite(j) \/ ProfitEnd(j)

Next ==
  \/ \E h \in Handler : Join(h)
  \/ \E j \in Job : Profit(j)
  \/ \E u \in User : DeleteAccount(u)
  \/ \E c \in Cup : EndCup(c)
  \/ Tick
  \/ Restart

Spec == Init /\ [][Next]_vars

-----------------------------------------------------------------------------
TypeOK ==
  /\ rows \subseteq Row /\ ended \subseteq Cup /\ gone \subseteq User
  /\ clock \in 0..MaxTime
  /\ pc \in [Handler -> {"idle", "limit", "balance", "existing",
                         "stamp", "select", "insert", "update"}]
  /\ arg \in [Handler -> Body]
  /\ reached \in [Handler -> BOOLEAN]
  /\ stamp \in [Handler -> 0..MaxTime]
  /\ jobPc \in [Job -> {"idle", "cups", "write"}]
  /\ snapshot \in [Job -> SUBSET Row]

\* The limit of checkIfUserReachedJoinCupLimit can be passed only by joins that
\* overlap: with at most n joins in progress at a time a user is in at most n - 1
\* running cups more than the limit, and with one at a time never in more.
LimitPassedOnlyByOverlap ==
  \A u \in User \ gone :
    Cardinality(Counted(u)) <= Limit - 1 + Cardinality(Handler)

\* The same cup is joined again with the same key only by joins that overlap: the
\* live rows of a user, key and cup are at most as many as joins in progress at a
\* time, whatever other joins do to the rows of their millisecond.
CopiesOnlyByOverlap ==
  \A b \in Body : b.user \notin gone =>
    Cardinality({w \in rows : ~w.deleted /\ Same(w, b)}) <= Cardinality(Handler)

\* What insertNewUserJoinedCup's error 'User has already joined this cup!' says:
\* nobody is twice in the same cup with the same key.
JoinedOnce ==
  \A v, w \in rows : ~v.deleted /\ ~w.deleted /\ Same(v, w) => v = w

=============================================================================
