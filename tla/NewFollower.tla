---------------------------- MODULE NewFollower -----------------------------
(***************************************************************************)
(* A user who follows a leader and wants to start IMMEDIATELY gets copies  *)
(* of what the leader has open.  Hasura reports the new row of             *)
(* user_follows to /webhook; WebHookService.placeOrderForUser reads the    *)
(* leader's open positions and then, another await later, the open orders, *)
(* and queues one copy job for each row it finds.                          *)
(*                                                                         *)
(* Both tables are refreshed meanwhile (TableRefresh).  An order of the    *)
(* leader is also copied when it is NEW and when it is FILLED, by          *)
(* copyTrades (CopyTrades), to whoever follows him when the call reads     *)
(* user_follows: not when the order was opened, but when its event is      *)
(* handled.  Here a call is one step.  A request of Hasura that fails is   *)
(* answered with 500 and comes again.                                      *)
(***************************************************************************)
EXTENDS TableRefresh

CONSTANTS
  Leader,       \* the leader's exchange key
  MaxDeliver    \* bound: how often the event is delivered

ASSUME LeaderAssumption == Leader \in Owner /\ {"positions", "orders"} \subseteq Table
ASSUME DeliverAssumption == MaxDeliver \in Nat

VARIABLES
  following,    \* does the row of user_follows exist?
  fpc,          \* where the handler of the event is
  deliveries,   \* how often the event was delivered
  copies,       \* the copy jobs queued and the copies placed for the follower
  events,       \* events of the leader's orders that copyTrades may still handle
  reported,     \* history: the events that were copied to the follower
  hole,         \* history: a table was read while it was being refreshed, or after
                \* a refresh that was not alone or did not succeed
  repeated      \* history: the event was delivered again after a failure

follow == <<following, fpc, deliveries, copies, events, reported, hole, repeated>>

Event == Asset \X {"NEW", "FILLED"}

\* A copy names what made it: an event, or a row of a table in one delivery.
Copy == [thing : Thing, from : {"NEW", "FILLED", "positions", "orders"},
         id : Nat \X Thing, delivery : Nat]

\* What has been reported, or still will be, of what is open.
Past == {e \in Event : /\ e[1][1] = Leader
                       /\ phase[e[1]] \in IF e[2] = "NEW" THEN {"order", "position"}
                                                         ELSE {"position"}}

FollowInit ==
  /\ Init
  /\ following = FALSE /\ fpc = "idle" /\ deliveries = 0 /\ copies = {}
  /\ events = Past
  /\ reported = {} /\ hole = FALSE /\ repeated = FALSE

\* The row is inserted through Hasura.
Follow ==
  /\ ~following
  /\ following' = TRUE
  /\ UNCHANGED <<vars, fpc, deliveries, copies, events, reported, hole, repeated>>

\* An INSERT with start_time IMMEDIATELY; the others make no copies.
Deliver ==
  /\ following
  /\ deliveries < MaxDeliver
  /\ fpc = "idle"
  /\ deliveries' = deliveries + 1
  /\ fpc' = "positions"
  /\ UNCHANGED <<vars, following, copies, events, reported, hole, repeated>>

\* What is open is what the table says is open.
RowsFound(t) == RowsOf(t, {Leader})

\* Mutant: a copy carries the name of the symbol for the id of its row.
QueueUnnumbered(t) ==
  copies' = copies \cup
    {[thing |-> w.thing, from |-> t, id |-> w.thing, delivery |-> deliveries] : w \in RowsFound(t)}

Queue(t) ==
  copies' = copies \cup
    {[thing |-> w.thing, from |-> t, id |-> w.id, delivery |-> deliveries] : w \in RowsFound(t)}

Disturbed(t) == Leader \in disturbed[t] \cup Window(t)

ReadPositions ==
  /\ fpc = "positions"
  /\ Queue("positions")
  /\ fpc' = "orders"
  /\ hole' = (hole \/ Disturbed("positions"))
  /\ UNCHANGED <<vars, following, deliveries, events, reported, repeated>>

\* Mutant: the event is not answered with 200, so it comes again.
ReadOrdersUnanswered ==
  /\ fpc = "orders"
  /\ Queue("orders")
  /\ fpc' = "idle"
  /\ hole' = (hole \/ Disturbed("orders"))
  /\ UNCHANGED <<vars, following, deliveries, events, reported, repeated>>

ReadOrders ==
  /\ fpc = "orders"
  /\ Queue("orders")
  /\ fpc' = "done"
  /\ hole' = (hole \/ Disturbed("orders"))
  /\ UNCHANGED <<vars, following, deliveries, events, reported, repeated>>

\* A query fails, or the process stops: what was queued stays queued.
FollowFails ==
  /\ fpc \in {"positions", "orders"}
  /\ fpc' = "idle"
  /\ repeated' = TRUE
  /\ UNCHANGED <<vars, following, deliveries, copies, events, reported, hole>>

\* A move of one of the leader's orders that copyTrades will be told of.
Reports(a) ==
  IF a[1] # Leader THEN {}
  ELSE IF phase[a] = "none" THEN {<<a, "NEW">>}
  ELSE IF phase[a] = "order" /\ phase'[a] = "position" THEN {<<a, "FILLED">>}
  ELSE {}

MoveAndReport(a) ==
  /\ Move(a)
  /\ events' = events \cup Reports(a)
  /\ UNCHANGED <<following, fpc, deliveries, copies, reported, hole, repeated>>

EventCopy(e) == [thing |-> e[1], from |-> e[2], id |-> <<0, e[1]>>, delivery |-> 0]

\* Who follows the leader when the event is handled gets a copy.  An event handled
\* before the follow, and one whose call ends early, copies nothing for good: both
\* are events for which this step never comes.
CopyEvent(e) ==
  /\ following
  /\ e \in events
  /\ events' = events \ {e}
  /\ copies' = copies \cup {EventCopy(e)}
  /\ reported' = reported \cup {e}
  /\ UNCHANGED <<vars, following, fpc, deliveries, hole, repeated>>

\* Saves without a delete and restarts of the refreshes are left to TableRefresh:
\* here they would only make more holes.
Refresh(j) ==
  /\ \/ Fetch(j) \/ Merge(j) \/ Delete(j) \/ Look(j) \/ Save(j) \/ Reject(j)
  /\ UNCHANGED follow

FollowNext ==
  \/ \E j \in Job : Refresh(j)
  \/ \E a \in Asset : MoveAndReport(a)
  \/ \E e \in Event : CopyEvent(e)
  \/ Follow \/ Deliver \/ ReadPositions \/ ReadOrders \/ FollowFails

FollowSpec == FollowInit /\ [][FollowNext]_<<vars, follow>>

-----------------------------------------------------------------------------
FollowTypeOK ==
  /\ TypeOK
  /\ following \in BOOLEAN /\ hole \in BOOLEAN /\ repeated \in BOOLEAN
  /\ fpc \in {"idle", "positions", "orders", "done"}
  /\ deliveries \in Nat
  /\ copies \subseteq Copy
  /\ events \subseteq Event /\ reported \subseteq Event

CopiesOf(a) == {c \in copies : c.thing = a}

\* The events about it that were copied after the follow.
ReportsOf(a) == {e \in reported : e[1] = a}

LeadersSteady == {a \in Steady : a[1] = Leader}

\* A delivery of the event that is handled to its end makes exactly one copy of what
\* the leader keeps open, whatever is refreshed between the two reads; and if none
\* was repeated there are no more copies of it than that and one for each event
\* about it that was still on its way when the user began to follow.  Except when a
\* table was read in the gap of a refresh, or after one that went wrong, overlapped
\* or met rows of its millisecond.
SteadyCopiedOnce ==
  fpc = "done" /\ ~hole =>
    \A a \in LeadersSteady :
      /\ Cardinality({c \in CopiesOf(a) : c.delivery = deliveries}) = 1
      /\ ~repeated => Cardinality(CopiesOf(a)) = 1 + Cardinality(ReportsOf(a))

\* With the same reservation one delivery copies nothing from one table twice; and
\* if none was repeated, what is copied twice was reported after the follow or was
\* filled.
TwiceOnlyIfItMoved ==
  ~hole =>
    \A a \in Thing :
      /\ \A c, d \in CopiesOf(a) :
           c.from = d.from /\ (repeated => c.delivery = d.delivery) => c = d
      /\ ~repeated /\ Cardinality(CopiesOf(a)) > 1 =>
           ReportsOf(a) # {} \/ phase[a] \in {"position", "gone"}
=============================================================================
