-------------------------- MODULE NewFollowerProofs --------------------------
(***************************************************************************)
(* Proofs about NewFollower, for any leader, things, owners and number of  *)
(* refreshes at a time.  The refreshes keep the invariant of               *)
(* TableRefreshProofs: every step of NewFollower is one of theirs or       *)
(* leaves their variables alone.                                           *)
(***************************************************************************)
EXTENDS NewFollower, TableRefreshProofs

\* The tables that are read for a new follower.
Copied == {"positions", "orders"}

\* What a row or a copy says is open was open once; what is steady is only in the
\* table it belongs to.
WasOpen(t, a) ==
  /\ a \in Asset
  /\ phase[a] \in IF t = "positions" THEN {"position", "gone"} ELSE {"order", "position", "gone"}
  /\ a \in Steady => a \in Held(t, a[1])

\* A save over rows of its millisecond may mix the columns of two.
RowsOpen ==
  \A t \in Copied : \A w \in rows[t] :
    w.thing[1] \notin disturbed[t] => WasOpen(t, w.thing)

BatchOpen ==
  \A j \in Job : job[j].table \in Copied => \A w \in batch[j] : WasOpen(job[j].table, w.thing)

SteadyOpen == \A a \in Steady : phase[a] \in {"order", "position"}

OpenInv == RowsOpen /\ BatchOpen /\ SteadyOpen

EventsCopied ==
  /\ \A c \in copies : c.from \notin Copied => \E e \in reported : c = EventCopy(e)
  /\ \A e \in reported : EventCopy(e) \in copies

CopiesOpen == ~hole => \A c \in copies : c.from \in Copied => WasOpen(c.from, c.thing)

\* What a delivery copied before it reached the place where its handler is.
ReadInOrder ==
  /\ fpc # "idle" => deliveries > 0
  /\ \A c \in copies : c.from \in Copied =>
       /\ c.delivery <= deliveries
       /\ ~repeated => fpc # "idle" /\ c.delivery = deliveries
       /\ c.delivery = deliveries =>
            fpc # "positions" /\ (fpc = "orders" => c.from = "positions")

\* What the handler has read so far.
Read(a) ==
  \/ a \in Held("positions", Leader) /\ fpc \in {"orders", "done"}
  \/ a \in Held("orders", Leader) /\ fpc = "done"

CopiedNow(a) == \E c \in copies : c.thing = a /\ c.from \in Copied /\ c.delivery = deliveries

CopiedAlready == ~hole => \A a \in LeadersSteady : Read(a) => CopiedNow(a)

OneFromEach ==
  ~hole =>
    \A c, d \in copies : c.thing = d.thing /\ c.from = d.from /\ c.delivery = d.delivery => c = d

CopyInv == EventsCopied /\ CopiesOpen /\ ReadInOrder /\ CopiedAlready /\ OneFromEach

FollowInv == FirstInv /\ FollowTypeOK /\ OpenInv /\ CopyInv

-----------------------------------------------------------------------------
(***************************************************************************)
(* The steps of the refreshes.                                             *)
(***************************************************************************)
LEMMA FollowStep ==
  ASSUME [FollowNext]_<<vars, follow>>
  PROVE  [Next]_vars
  BY DEF FollowNext, Refresh, MoveAndReport, CopyEvent, Follow, Deliver, ReadPositions,
         ReadOrders, FollowFails, Next

LEMMA FollowFirst ==
  ASSUME FirstInv, [FollowNext]_<<vars, follow>>
  PROVE  FirstInv'
  BY FollowStep, NextFirst

LEMMA WasOpenHeld ==
  ASSUME NEW t \in Copied, NEW o \in Owner, NEW a \in Held(t, o)
  PROVE  WasOpen(t, a)
  <1>1. t \in Table
    BY LeaderAssumption DEF Copied
  <1>2. a[1] = o
    BY <1>1, HeldOwner
  <1> QED
    BY <1>2 DEF Copied, WasOpen, Held, OpenPositions, OpenOrders

\* What was open once was open once, whatever moves.
LEMMA WasOpenMoves ==
  ASSUME TypeInv, NEW b \in Asset, Move(b), NEW t \in Copied, NEW a, WasOpen(t, a)
  PROVE  WasOpen(t, a)'
  <1>1. a \in Asset
    BY DEF WasOpen
  <1>2. CASE a # b
    <2>1. phase'[a] = phase[a]
      BY <1>1, <1>2 DEF Move, TypeInv, TypeOK
    <2> QED
      BY <1>1, <2>1 DEF Copied, WasOpen, Held, OpenPositions, OpenOrders
  <1>3. CASE a = b
    <2>1. a \notin Steady
      BY <1>3 DEF Move
    <2>2. /\ <<phase[a], phase'[a]>> \in {<<"none", "order">>, <<"order", "position">>,
                                          <<"order", "gone">>, <<"position", "gone">>}
      BY <1>3 DEF Move, TypeInv, TypeOK
    <2>3. phase[a] \in IF t = "positions" THEN {"position", "gone"}
                                          ELSE {"order", "position", "gone"}
      BY DEF WasOpen
    <2>4. phase'[a] \in IF t = "positions" THEN {"position", "gone"}
                                           ELSE {"order", "position", "gone"}
      BY <2>2, <2>3
    <2> QED
      BY <1>1, <2>1, <2>4 DEF WasOpen
  <1> QED
    BY <1>2, <1>3

LEMMA WasOpenSame ==
  ASSUME NEW t, NEW a, UNCHANGED phase
  PROVE  WasOpen(t, a)' <=> WasOpen(t, a)
  BY DEF WasOpen, Held, OpenPositions, OpenOrders

LEMMA InitOpen == Init => OpenInv
  <1> SUFFICES ASSUME Init PROVE OpenInv
    OBVIOUS
  <1>1. RowsOpen
    <2> SUFFICES ASSUME NEW t \in Copied, NEW w \in rows[t] PROVE WasOpen(t, w.thing)
      BY DEF RowsOpen
    <2>1. t \in Table
      BY LeaderAssumption DEF Copied
    <2>2. PICK o \in Owner : w.thing \in Held(t, o)
      BY <2>1 DEF Init
    <2> QED
      BY <2>2, WasOpenHeld
  <1>2. BatchOpen
    BY DEF Init, BatchOpen
  <1>3. SteadyOpen
    BY DEF Init, SteadyOpen
  <1> QED
    BY <1>1, <1>2, <1>3 DEF OpenInv

LEMMA RowsOpenSame ==
  ASSUME OpenInv, UNCHANGED phase, \A t \in Table : rows'[t] \subseteq rows[t],
         \A t \in Table : disturbed[t] \subseteq disturbed'[t]
  PROVE  RowsOpen'
  <1>1. Copied \subseteq Table
    BY LeaderAssumption DEF Copied
  <1> QED
    BY <1>1, WasOpenSame DEF OpenInv, RowsOpen

LEMMA FetchOpen ==
  ASSUME TypeInv, OpenInv, NEW j \in Job, Fetch(j)
  PROVE  OpenInv'
  <1>1. PICK S \in SUBSET Owner : \E failed \in SUBSET S : \E things \in SUBSET Thing :
          Fetched(j, S, failed, things)
    BY FetchFetched
  <1>2. PICK failed \in SUBSET S : \E things \in SUBSET Thing : Fetched(j, S, failed, things)
    BY <1>1
  <1>3. PICK things \in SUBSET Thing : Fetched(j, S, failed, things)
    BY <1>2
  <1>4. /\ \A i \in Job \ {j} : job'[i] = job[i] /\ batch'[i] = batch[i]
        /\ job'[j].table = job[j].table
        /\ \A w \in batch'[j] : w.thing \in things
    <2>1. Begun(j, S, failed, things)
      BY <1>3 DEF Fetched
    <2>2. /\ \A i \in Job \ {j} : job'[i] = job[i] /\ batch'[i] = batch[i]
          /\ job'[j] = [table |-> job[j].table, owners |-> S, failed |-> failed, found |-> {}]
          /\ \A a : (\E w \in batch'[j] : w.thing = a) <=> a \in things
      BY <2>1, BegunFrame
    <2> QED
      BY <2>2
  <1>5. /\ UNCHANGED <<phase, rows>>
        /\ \A u \in Table : disturbed[u] \subseteq disturbed'[u]
    BY <1>3, TouchGrows DEF Fetched
  <1>6. BatchOpen'
    <2> SUFFICES ASSUME NEW i \in Job, NEW t \in Copied, t = job'[i].table, NEW w \in batch'[i]
                 PROVE  WasOpen(t, w.thing)
      BY <1>5, WasOpenSame DEF BatchOpen
    <2>1. CASE i = j
      <3>1. t = job[j].table /\ w.thing \in things
        BY <1>4, <2>1
      <3>2. PICK o \in S : w.thing \in Held(t, o)
        BY <1>3, <3>1 DEF Fetched
      <3> QED
        BY <3>2, WasOpenHeld
    <2>2. CASE i # j
      BY <1>4, <2>2 DEF OpenInv, BatchOpen
    <2> QED
      BY <2>1, <2>2
  <1>7. RowsOpen' /\ SteadyOpen'
    BY <1>5, RowsOpenSame DEF OpenInv, SteadyOpen
  <1> QED
    BY <1>6, <1>7 DEF OpenInv

LEMMA MergeOpen ==
  ASSUME TypeInv, OpenInv, NEW j \in Job, Merge(j)
  PROVE  OpenInv'
  <1>1. /\ \A v \in batch'[j] : \E w \in batch[j] : v.thing = w.thing
        /\ \A i \in Job \ {j} : batch'[i] = batch[i]
        /\ UNCHANGED <<phase, rows, job, disturbed>>
    BY MergeThings DEF Merge, history
  <1>2. BatchOpen'
    <2> SUFFICES ASSUME NEW i \in Job, job[i].table \in Copied, NEW w \in batch'[i]
                 PROVE  WasOpen(job[i].table, w.thing)
      BY <1>1, WasOpenSame DEF BatchOpen
    <2>1. \E v \in batch[i] : v.thing = w.thing
      BY <1>1
    <2> QED
      BY <2>1 DEF OpenInv, BatchOpen
  <1>3. RowsOpen' /\ SteadyOpen'
    BY <1>1, RowsOpenSame DEF OpenInv, SteadyOpen
  <1> QED
    BY <1>2, <1>3 DEF OpenInv

LEMMA DeleteOpen ==
  ASSUME TypeInv, OpenInv, NEW j \in Job, Delete(j)
  PROVE  OpenInv'
  <1>1. /\ UNCHANGED <<phase, job, batch, disturbed>>
        /\ \A t \in Table : rows'[t] \subseteq rows[t]
    BY DEF Delete, TypeInv, TypeOK
  <1>2. BatchOpen' /\ SteadyOpen'
    BY <1>1, WasOpenSame DEF OpenInv, BatchOpen, SteadyOpen
  <1> QED
    BY <1>1, <1>2, RowsOpenSame DEF OpenInv

LEMMA LookOpen ==
  ASSUME TypeInv, OpenInv, NEW j \in Job, Look(j)
  PROVE  OpenInv'
  <1>1. /\ UNCHANGED <<phase, rows, batch, disturbed>>
        /\ \A i \in Job : job'[i].table = job[i].table
    BY LookFrame DEF history
  <1>2. BatchOpen' /\ SteadyOpen'
    BY <1>1, WasOpenSame DEF OpenInv, BatchOpen, SteadyOpen
  <1> QED
    BY <1>1, <1>2, RowsOpenSame DEF OpenInv

\* What ends takes its entities with it.
LEMMA EndOpen ==
  ASSUME TypeInv, OpenInv, NEW j \in Job, End({j}), UNCHANGED phase
  PROVE  BatchOpen' /\ SteadyOpen'
  <1>1. /\ \A i \in Job \ {j} : job'[i] = job[i] /\ batch'[i] = batch[i]
        /\ batch'[j] = {}
    BY EndFrame
  <1>2. BatchOpen'
    BY <1>1, WasOpenSame DEF OpenInv, BatchOpen
  <1> QED
    BY <1>2 DEF OpenInv, SteadyOpen

LEMMA SaveOpen ==
  ASSUME TypeInv, OpenInv, NEW j \in Job, Save(j)
  PROVE  OpenInv'
  <1> DEFINE t == job[j].table
  <1>1. End({j}) /\ UNCHANGED phase
    BY DEF Save
  <1>2. /\ \A u \in Table \ {t} : rows'[u] = rows[u] /\ disturbed'[u] = disturbed[u]
        /\ \A w \in rows'[t] : w.thing[1] \in Struck(j) \/ w \in rows[t] \cup batch[j]
        /\ disturbed'[t] = disturbed[t] \cup Struck(j)
    BY SaveFrame, SaveHistory
  <1>3. Copied \subseteq Table
    BY LeaderAssumption DEF Copied
  <1>4. RowsOpen'
    <2> SUFFICES ASSUME NEW u \in Copied, NEW w \in rows'[u], w.thing[1] \notin disturbed'[u]
                 PROVE  WasOpen(u, w.thing)
      BY <1>1, WasOpenSame DEF RowsOpen
    <2>1. CASE u # t
      BY <1>2, <1>3, <2>1 DEF OpenInv, RowsOpen
    <2>2. CASE u = t
      <3>1. w \in rows[t] \cup batch[j] /\ w.thing[1] \notin disturbed[t]
        BY <1>2, <2>2
      <3> QED
        BY <2>2, <3>1 DEF OpenInv, RowsOpen, BatchOpen
    <2> QED
      BY <2>1, <2>2
  <1>5. BatchOpen' /\ SteadyOpen'
    BY <1>1, EndOpen
  <1> QED
    BY <1>4, <1>5 DEF OpenInv

LEMMA RejectOpen ==
  ASSUME TypeInv, OpenInv, NEW j \in Job, Reject(j)
  PROVE  OpenInv'
  <1>1. End({j}) /\ UNCHANGED <<phase, rows>>
    BY DEF Reject
  <1>2. \A u \in Table : disturbed[u] \subseteq disturbed'[u]
    BY TouchGrows DEF Reject
  <1>3. RowsOpen'
    BY <1>1, <1>2, RowsOpenSame
  <1> QED
    BY <1>1, <1>3, EndOpen DEF OpenInv

LEMMA MoveOpen ==
  ASSUME TypeInv, OpenInv, NEW b \in Asset, Move(b)
  PROVE  OpenInv'
  <1>1. UNCHANGED <<rows, job, batch, disturbed>>
    BY DEF Move, jobs, history
  <1>2. RowsOpen' /\ BatchOpen'
    BY <1>1, WasOpenMoves DEF OpenInv, RowsOpen, BatchOpen
  <1>3. SteadyOpen'
    <2>1. \A a \in Steady : phase'[a] = phase[a]
      BY SteadyAssumption DEF Move, TypeInv, TypeOK
    <2> QED
      BY <2>1 DEF OpenInv, SteadyOpen
  <1> QED
    BY <1>2, <1>3 DEF OpenInv

LEMMA SameOpen ==
  ASSUME OpenInv, UNCHANGED vars
  PROVE  OpenInv'
  <1>1. UNCHANGED <<phase, rows, job, batch, disturbed>>
    BY DEF vars, jobs, history
  <1> QED
    BY <1>1, WasOpenSame DEF OpenInv, RowsOpen, BatchOpen, SteadyOpen

LEMMA FollowOpen ==
  ASSUME TypeInv, OpenInv, [FollowNext]_<<vars, follow>>
  PROVE  OpenInv'
  <1>1. CASE UNCHANGED vars
    BY <1>1, SameOpen
  <1>2. ASSUME NEW j \in Job, Refresh(j) PROVE OpenInv'
    BY <1>2, FetchOpen, MergeOpen, DeleteOpen, LookOpen, SaveOpen, RejectOpen DEF Refresh
  <1>3. ASSUME NEW a \in Asset, MoveAndReport(a) PROVE OpenInv'
    BY <1>3, MoveOpen DEF MoveAndReport
  <1> QED
    BY <1>1, <1>2, <1>3
       DEF FollowNext, CopyEvent, Follow, Deliver, ReadPositions, ReadOrders, FollowFails

-----------------------------------------------------------------------------
(***************************************************************************)
(* The copies.                                                             *)
(***************************************************************************)
\* One of the two reads; the handler's place has the name of the table.
Looking(t) ==
  /\ fpc = t
  /\ Queue(t)
  /\ fpc' \in {"orders", "done"}
  /\ hole' = (hole \/ Disturbed(t))
  /\ UNCHANGED <<vars, following, deliveries, events, reported, repeated>>

LEMMA Reads ==
  /\ ReadPositions => Looking("positions") /\ fpc' = "orders"
  /\ ReadOrders => Looking("orders") /\ fpc' = "done"
  BY DEF ReadPositions, ReadOrders, Looking

\* A copy of a row.
CopyOf(w, t) == [thing |-> w.thing, from |-> t, id |-> w.id, delivery |-> deliveries]

\* What a read leaves: the copies there were, and one of each row of the leader.
LEMMA LookingCopies ==
  ASSUME FollowTypeOK, NEW t \in Copied, Looking(t)
  PROVE  /\ copies \subseteq copies'
         /\ \A c \in copies' \ copies :
              \E w \in rows[t] : w \in Row /\ w.thing[1] = Leader /\ c = CopyOf(w, t)
         /\ \A w \in rows[t] : w.thing[1] = Leader => CopyOf(w, t) \in copies'
         /\ \A w \in rows[t] : CopyOf(w, t) \in Copy
  <1>1. t \in Table /\ rows[t] \subseteq Row
    BY LeaderAssumption DEF Copied, FollowTypeOK, TypeOK
  <1>2. copies' = copies \cup {CopyOf(w, t) : w \in RowsFound(t)}
    BY DEF Looking, Queue, CopyOf
  <1>3. \A w \in rows[t] : w \in RowsFound(t) <=> w.thing[1] = Leader
    BY DEF RowsFound, RowsOf
  <1>4. RowsFound(t) \subseteq rows[t]
    BY DEF RowsFound, RowsOf
  <1>5. \A w \in Row : CopyOf(w, t) \in Copy
    BY DEF CopyOf, Copy, Row, Copied, FollowTypeOK
  <1> QED
    BY <1>1, <1>2, <1>3, <1>4, <1>5

\* An event's copy, by which the event can be told.
LEMMA EventCopied ==
  ASSUME NEW e \in Event
  PROVE  /\ EventCopy(e) \in Copy
         /\ EventCopy(e).thing = e[1] /\ EventCopy(e).from = e[2] /\ EventCopy(e).delivery = 0
         /\ e[2] \notin Copied /\ e = <<e[1], e[2]>>
  BY AssetAssumption DEF EventCopy, Copy, Event, Copied

LEMMA InitCopies == FollowInit => FollowTypeOK /\ CopyInv
  <1> SUFFICES ASSUME FollowInit PROVE FollowTypeOK /\ CopyInv
    OBVIOUS
  <1>1. TypeOK
    BY InitTypeInv DEF FollowInit, TypeInv
  <1>2. FollowTypeOK
    BY <1>1 DEF FollowInit, FollowTypeOK, Past
  <1>3. CopyInv
    BY DEF FollowInit, CopyInv, EventsCopied, CopiesOpen, ReadInOrder, CopiedAlready,
           OneFromEach, Read
  <1> QED
    BY <1>2, <1>3

LEMMA NextFollowType ==
  ASSUME FollowTypeOK, TypeOK', [FollowNext]_<<vars, follow>>
  PROVE  FollowTypeOK'
  <1>1. CASE UNCHANGED follow
    BY <1>1 DEF follow, FollowTypeOK
  <1>2. CASE Follow \/ Deliver \/ FollowFails
    <2>1. CASE Follow
      BY <2>1 DEF Follow, FollowTypeOK
    <2>2. CASE Deliver
      BY <2>2 DEF Deliver, FollowTypeOK
    <2>3. CASE FollowFails
      BY <2>3 DEF FollowFails, FollowTypeOK
    <2> QED
      BY <1>2, <2>1, <2>2, <2>3
  <1>3. ASSUME NEW t \in Copied, Looking(t) PROVE FollowTypeOK'
    <2>1. copies' \subseteq Copy
      BY <1>3, LookingCopies DEF FollowTypeOK
    <2>2. hole' \in BOOLEAN
      BY <1>3 DEF Looking, Disturbed, FollowTypeOK
    <2> QED
      BY <1>3, <2>1, <2>2 DEF Looking, FollowTypeOK
  <1>4. ASSUME NEW a \in Asset, MoveAndReport(a) PROVE FollowTypeOK'
    <2>1. events' \subseteq Event
      BY <1>4 DEF MoveAndReport, Reports, FollowTypeOK, Event
    <2> QED
      BY <1>4, <2>1 DEF MoveAndReport, FollowTypeOK
  <1>5. ASSUME NEW e \in Event, CopyEvent(e) PROVE FollowTypeOK'
    <2>1. copies' \subseteq Copy
      BY <1>5, EventCopied DEF CopyEvent, FollowTypeOK
    <2> QED
      BY <1>5, <2>1 DEF CopyEvent, FollowTypeOK
  <1>6. CASE ReadPositions \/ ReadOrders
    BY <1>3, <1>6, Reads DEF Copied
  <1> QED
    BY <1>1, <1>2, <1>4, <1>5, <1>6 DEF FollowNext, Refresh

LEMMA ReadSame ==
  ASSUME NEW a, UNCHANGED phase, fpc' = fpc \/ fpc' \notin {"orders", "done"}, Read(a)'
  PROVE  Read(a)
  BY DEF Read, Held, OpenPositions, OpenOrders

\* A step that makes no copies and after which no more was read.
LEMMA SameCopies ==
  ASSUME FollowTypeOK, CopyInv, UNCHANGED <<phase, copies, reported, hole>>,
         \/ UNCHANGED <<fpc, repeated, deliveries>>
         \/ /\ fpc = "idle" /\ fpc' = "positions" /\ UNCHANGED repeated
            /\ deliveries' = deliveries + 1
         \/ fpc' = "idle" /\ repeated' /\ UNCHANGED deliveries
  PROVE  CopyInv'
  <1>1. EventsCopied'
    BY DEF CopyInv, EventsCopied, EventCopy
  <1>2. CopiesOpen'
    BY WasOpenSame DEF CopyInv, CopiesOpen
  <1>3. ReadInOrder'
    <2>1. deliveries \in Nat /\ \A c \in copies : c.delivery \in Nat
      BY DEF FollowTypeOK, Copy
    <2>2. CASE UNCHANGED deliveries
      BY <2>1, <2>2 DEF CopyInv, ReadInOrder
    <2>3. CASE /\ fpc = "idle" /\ fpc' = "positions" /\ UNCHANGED repeated
               /\ deliveries' = deliveries + 1
      BY <2>1, <2>3 DEF CopyInv, ReadInOrder
    <2> QED
      BY <2>2, <2>3
  <1>4. CopiedAlready'
    <2> SUFFICES ASSUME ~hole, NEW a \in LeadersSteady, Read(a)'
                 PROVE  CopiedNow(a)'
      BY DEF CopiedAlready, LeadersSteady
    <2>1. UNCHANGED <<fpc, deliveries>>
      BY DEF Read
    <2>2. Read(a)
      BY <2>1, ReadSame
    <2> QED
      BY <2>1, <2>2 DEF CopyInv, CopiedAlready, CopiedNow
  <1>5. OneFromEach'
    BY DEF CopyInv, OneFromEach
  <1> QED
    BY <1>1, <1>2, <1>3, <1>4, <1>5 DEF CopyInv

LEMMA MoveCopies ==
  ASSUME FollowInv, NEW a \in Asset, MoveAndReport(a)
  PROVE  CopyInv'
  <1>1. Move(a) /\ UNCHANGED <<fpc, deliveries, copies, reported, hole, repeated>>
    BY DEF MoveAndReport
  <1>2. CopyInv /\ TypeInv
    BY DEF FollowInv, FirstInv, CleanInv
  <1>3. EventsCopied' /\ ReadInOrder' /\ OneFromEach'
    BY <1>1, <1>2 DEF CopyInv, EventsCopied, EventCopy, ReadInOrder, OneFromEach
  <1>4. CopiesOpen'
    <2> SUFFICES ASSUME ~hole, NEW c \in copies, NEW t \in Copied, c.from = t
                 PROVE  WasOpen(t, c.thing)'
      BY <1>1 DEF CopiesOpen
    <2>1. WasOpen(t, c.thing)
      BY <1>2 DEF CopyInv, CopiesOpen
    <2> QED
      BY <1>1, <1>2, <2>1, WasOpenMoves
  <1>5. CopiedAlready'
    <2> SUFFICES ASSUME ~hole, NEW b \in LeadersSteady, Read(b)'
                 PROVE  CopiedNow(b)
      BY <1>1 DEF CopiedAlready, CopiedNow, LeadersSteady
    <2>1. a \notin Steady
      BY <1>1 DEF Move
    <2>2. phase'[b] = phase[b]
      BY <1>1, <1>2, <2>1, SteadyAssumption DEF Move, LeadersSteady, TypeInv, TypeOK
    <2>3. Read(b)
      BY <1>1, <2>2 DEF Read, Held, OpenPositions, OpenOrders
    <2> QED
      BY <1>2, <2>3 DEF CopyInv, CopiedAlready
  <1> QED
    BY <1>3, <1>4, <1>5 DEF CopyInv

LEMMA CopyEventCopies ==
  ASSUME FollowInv, NEW e \in Event, CopyEvent(e)
  PROVE  CopyInv'
  <1> DEFINE new == EventCopy(e)
  <1>1. /\ copies' = copies \cup {new} /\ reported' = reported \cup {e}
        /\ UNCHANGED <<phase, fpc, deliveries, hole, repeated>>
    BY DEF CopyEvent, vars
  <1>2. new.from \notin Copied
    BY EventCopied
  <1>3. CopyInv /\ reported \subseteq Event
    BY DEF FollowInv, FollowTypeOK
  <1>4. \A f : EventCopy(f)' = EventCopy(f)
    BY DEF EventCopy
  <1>5. EventsCopied'
    BY <1>1, <1>3, <1>4 DEF CopyInv, EventsCopied
  <1> HIDE DEF new
  <1>6. CopiesOpen' /\ ReadInOrder'
    BY <1>1, <1>2, <1>3, WasOpenSame DEF CopyInv, CopiesOpen, ReadInOrder
  <1>7. CopiedAlready'
    <2> SUFFICES ASSUME ~hole, NEW a \in LeadersSteady, Read(a)'
                 PROVE  CopiedNow(a)'
      BY <1>1 DEF CopiedAlready, LeadersSteady
    <2>1. CopiedNow(a)
      BY <1>1, <1>3, ReadSame DEF CopyInv, CopiedAlready
    <2> QED
      BY <1>1, <2>1 DEF CopiedNow
  <1>8. OneFromEach'
    <2> SUFFICES ASSUME ~hole, NEW c \in copies', NEW d \in copies',
                        c.thing = d.thing, c.from = d.from, c.delivery = d.delivery
                 PROVE  c = d
      BY <1>1 DEF OneFromEach
    <2>1. CASE c.from \in Copied
      BY <1>1, <1>2, <1>3, <2>1 DEF CopyInv, OneFromEach
    <2>2. CASE c.from \notin Copied
      <3>1. PICK f \in reported' : c = EventCopy(f)
        BY <1>4, <1>5, <2>2 DEF EventsCopied
      <3>2. PICK g \in reported' : d = EventCopy(g)
        BY <1>4, <1>5, <2>2 DEF EventsCopied
      <3>3. f \in Event /\ g \in Event
        BY <1>1, <1>3
      <3>4. f = g
        BY <3>1, <3>2, <3>3, EventCopied
      <3> QED
        BY <3>1, <3>2, <3>4
    <2> QED
      BY <2>1, <2>2
  <1> QED
    BY <1>5, <1>6, <1>7, <1>8 DEF CopyInv

\* The table has a row for what the leader keeps open, and one row for each thing.
LEMMA TableRead ==
  ASSUME FirstInv, NEW t \in Copied, ~Disturbed(t)
  PROVE  /\ \A a \in LeadersSteady : a \in Held(t, Leader) => \E w \in rows[t] : w.thing = a
         /\ \A v, w \in rows[t] :
              v.thing[1] = Leader /\ w.thing[1] = Leader /\ v.thing = w.thing => v = w
  <1>1. t \in Table /\ Leader \in Owner
    BY LeaderAssumption DEF Copied
  <1>2. Leader \notin disturbed[t] \cup Window(t)
    BY DEF Disturbed
  <1>3. ASSUME NEW a \in LeadersSteady, a \in Held(t, Leader)
        PROVE  \E w \in rows[t] : w.thing = a
    <2>1. a \in SteadyIn(t) /\ a[1] = Leader
      BY <1>3 DEF LeadersSteady, SteadyIn
    <2>2. a[1] \notin lost[t]
      BY <1>1, <1>2, <2>1 DEF FirstInv, Excused, LostDisturbed
    <2>3. ~\E j \in Job : ToSave(j, t, a)
      BY <1>2, <2>1, WindowMember DEF ToSave, Answering
    <2> QED
      BY <1>1, <2>1, <2>2, <2>3 DEF FirstInv, RowsInv, RowOrReason, HasRow
  <1>4. Clean(t, Leader)
    BY <1>1, <1>2 DEF FirstInv, CleanInv, AllClean
  <1>5. \A v, w \in rows[t] :
          v.thing[1] = Leader /\ w.thing[1] = Leader /\ v.thing = w.thing => v = w
    BY <1>4 DEF Clean, RowsOf
  <1> QED
    BY <1>3, <1>5

LEMMA LookingKeeps ==
  ASSUME FollowInv, FollowTypeOK', NEW t \in Copied, Looking(t)
  PROVE  /\ EventsCopied' /\ CopiesOpen' /\ OneFromEach'
         /\ \A c \in copies' \ copies : c.from = t /\ c.delivery = deliveries
         /\ ~hole' => \A a \in LeadersSteady : a \in Held(t, Leader) => CopiedNow(a)'
  <1>1. /\ copies \subseteq copies'
        /\ \A c \in copies' \ copies :
             \E w \in rows[t] : w \in Row /\ w.thing[1] = Leader /\ c = CopyOf(w, t)
        /\ \A w \in rows[t] : w.thing[1] = Leader => CopyOf(w, t) \in copies'
    BY LookingCopies DEF FollowInv
  <1>2. \A w : /\ CopyOf(w, t).from = t /\ CopyOf(w, t).thing = w.thing
               /\ CopyOf(w, t).delivery = deliveries
    BY DEF CopyOf
  <1>3. /\ UNCHANGED <<phase, deliveries, reported, repeated>>
        /\ hole' = (hole \/ Disturbed(t))
        /\ fpc = t
    BY DEF Looking, vars
  <1>4. CopyInv
    BY DEF FollowInv
  <1>5. \A c \in copies' \ copies : c.from = t /\ c.delivery = deliveries
    BY <1>1, <1>2
  <1>6. EventsCopied'
    BY <1>1, <1>3, <1>4, <1>5 DEF CopyInv, EventsCopied, EventCopy
  <1>7. CopiesOpen'
    <2> SUFFICES ASSUME ~hole, ~Disturbed(t), NEW c \in copies', NEW u \in Copied, c.from = u
                 PROVE  WasOpen(u, c.thing)
      BY <1>3, WasOpenSame DEF CopiesOpen
    <2>1. CASE c \in copies
      BY <1>4, <2>1 DEF CopyInv, CopiesOpen
    <2>2. CASE c \notin copies
      <3>1. PICK w \in rows[t] : c.thing = w.thing /\ w.thing[1] = Leader
        BY <1>1, <1>2, <2>2
      <3>2. w.thing[1] \notin disturbed[t]
        BY <3>1 DEF Disturbed
      <3> QED
        BY <1>5, <2>2, <3>1, <3>2 DEF FollowInv, OpenInv, RowsOpen
    <2> QED
      BY <2>1, <2>2
  <1>8. OneFromEach'
    <2> SUFFICES ASSUME ~hole, ~Disturbed(t), NEW c \in copies', NEW d \in copies',
                        c.thing = d.thing, c.from = d.from, c.delivery = d.delivery
                 PROVE  c = d
      BY <1>3 DEF OneFromEach
    <2>1. \A e \in copies : e.from = t => e.delivery # deliveries
      BY <1>3, <1>4 DEF CopyInv, ReadInOrder, Copied
    <2>2. CASE c \in copies
      <3>1. d \in copies
        BY <1>5, <2>1, <2>2
      <3> QED
        BY <1>4, <2>2, <3>1 DEF CopyInv, OneFromEach
    <2>3. CASE c \notin copies
      <3>1. d \notin copies
        BY <1>5, <2>1, <2>3
      <3>2. PICK v \in rows[t] : v \in Row /\ v.thing[1] = Leader /\ c = CopyOf(v, t)
        BY <1>1, <2>3
      <3>3. PICK w \in rows[t] : w \in Row /\ w.thing[1] = Leader /\ d = CopyOf(w, t)
        BY <1>1, <3>1
      <3>4. v.thing = w.thing
        BY <1>2, <3>2, <3>3
      <3>5. v = w
        BY <3>2, <3>3, <3>4, TableRead DEF FollowInv
      <3> QED
        BY <3>2, <3>3, <3>5
    <2> QED
      BY <2>2, <2>3
  <1>9. ASSUME ~hole', NEW a \in LeadersSteady, a \in Held(t, Leader)
        PROVE  CopiedNow(a)'
    <2>1. PICK w \in rows[t] : w.thing = a
      BY <1>3, <1>9, TableRead DEF FollowInv
    <2>2. CopyOf(w, t) \in copies' /\ CopyOf(w, t).thing = a
      BY <1>1, <1>2, <2>1 DEF LeadersSteady
    <2> QED
      BY <1>2, <1>3, <2>2 DEF CopiedNow
  <1> QED
    BY <1>5, <1>6, <1>7, <1>8, <1>9

LEMMA ReadPositionsCopies ==
  ASSUME FollowInv, FollowTypeOK', ReadPositions
  PROVE  CopyInv'
  <1> DEFINE t == "positions"
  <1>1. t \in Copied /\ Looking(t) /\ fpc' = "orders" /\ fpc = "positions"
    BY Reads DEF Copied, ReadPositions
  <1>2. /\ EventsCopied' /\ CopiesOpen' /\ OneFromEach'
        /\ \A c \in copies' \ copies : c.from = t /\ c.delivery = deliveries
        /\ ~hole' => \A a \in LeadersSteady : a \in Held(t, Leader) => CopiedNow(a)'
    BY <1>1, LookingKeeps
  <1>3. ReadInOrder'
    <2>1. UNCHANGED <<repeated, deliveries>> /\ deliveries \in Nat
      BY DEF ReadPositions, FollowInv, FollowTypeOK
    <2> QED
      BY <1>1, <1>2, <2>1 DEF FollowInv, CopyInv, ReadInOrder
  <1>4. CopiedAlready'
    <2>1. \A a : Read(a)' => a \in Held(t, Leader)
      BY <1>1 DEF Read, ReadPositions, vars, Held, OpenPositions
    <2> QED
      BY <1>2, <2>1 DEF CopiedAlready, LeadersSteady
  <1> QED
    BY <1>2, <1>3, <1>4 DEF CopyInv

LEMMA ReadOrdersCopies ==
  ASSUME FollowInv, FollowTypeOK', ReadOrders
  PROVE  CopyInv'
  <1> DEFINE t == "orders"
  <1>1. t \in Copied /\ Looking(t) /\ fpc' = "done" /\ fpc = "orders"
    BY Reads DEF Copied, ReadOrders
  <1>2. /\ EventsCopied' /\ CopiesOpen' /\ OneFromEach'
        /\ \A c \in copies' \ copies : c.from = t /\ c.delivery = deliveries
        /\ ~hole' => \A a \in LeadersSteady : a \in Held(t, Leader) => CopiedNow(a)'
    BY <1>1, LookingKeeps
  <1>3. ReadInOrder'
    <2>1. UNCHANGED <<repeated, deliveries>> /\ deliveries \in Nat
      BY DEF ReadOrders, FollowInv, FollowTypeOK
    <2> QED
      BY <1>1, <1>2, <2>1 DEF FollowInv, CopyInv, ReadInOrder
  <1>4. CopiedAlready'
    <2> SUFFICES ASSUME ~hole', NEW a \in LeadersSteady, Read(a)'
                 PROVE  CopiedNow(a)'
      BY DEF CopiedAlready, LeadersSteady
    <2>1. a \in Held("orders", Leader) \/ Read(a)
      BY <1>1 DEF Read, ReadOrders, vars, Held, OpenPositions, OpenOrders
    <2>2. CASE Read(a)
      <3>1. ~hole /\ UNCHANGED deliveries /\ copies \subseteq copies'
        BY DEF ReadOrders, Queue, FollowInv, FollowTypeOK
      <3> QED
        BY <2>2, <3>1 DEF FollowInv, CopyInv, CopiedAlready, CopiedNow
    <2> QED
      BY <1>2, <2>1, <2>2
  <1> QED
    BY <1>2, <1>3, <1>4 DEF CopyInv

LEMMA NextFollow ==
  ASSUME FollowInv, [FollowNext]_<<vars, follow>>
  PROVE  FollowInv'
  <1>1. FirstInv' /\ OpenInv'
    BY FollowFirst, FollowOpen DEF FollowInv, FirstInv, CleanInv
  <1>2. FollowTypeOK'
    BY <1>1, NextFollowType DEF FollowInv, FirstInv, CleanInv, TypeInv
  <1>3. CASE UNCHANGED <<vars, follow>>
    <2>1. CopyInv'
      BY <1>3, SameCopies DEF FollowInv, vars, follow
    <2> QED
      BY <1>1, <1>2, <2>1 DEF FollowInv
  <1>4. ASSUME NEW j \in Job, Refresh(j) PROVE CopyInv'
    <2>1. UNCHANGED <<phase, fpc, deliveries, copies, reported, hole, repeated>>
      BY <1>4 DEF Refresh, follow, Fetch, Merge, Delete, Look, Save, Reject
    <2> QED
      BY <2>1, SameCopies DEF FollowInv
  <1>5. CASE Follow \/ Deliver \/ FollowFails
    <2>1. UNCHANGED <<phase, copies, reported, hole>>
      BY <1>5 DEF Follow, Deliver, FollowFails, vars
    <2>2. \/ UNCHANGED <<fpc, repeated, deliveries>>
          \/ /\ fpc = "idle" /\ fpc' = "positions" /\ UNCHANGED repeated
             /\ deliveries' = deliveries + 1
          \/ fpc' = "idle" /\ repeated' /\ UNCHANGED deliveries
      BY <1>5 DEF Follow, Deliver, FollowFails
    <2>3. CopyInv'
      BY <2>1, <2>2, SameCopies DEF FollowInv
    <2> QED
      BY <1>1, <1>2, <2>3 DEF FollowInv
  <1> QED
    BY <1>1, <1>2, <1>3, <1>4, <1>5, MoveCopies, CopyEventCopies, ReadPositionsCopies,
       ReadOrdersCopies
       DEF FollowNext, FollowInv

LEMMA InitFollow == FollowInit => FollowInv
  <1>1. FollowInit => Init
    BY DEF FollowInit
  <1> QED
    BY <1>1, InitFirst, InitOpen, InitCopies DEF FollowInv

-----------------------------------------------------------------------------
\* The handler, the copies and the tables hold values of their types.
THEOREM FollowTypesHold == FollowSpec => []FollowTypeOK
  <1>1. FollowInv => FollowTypeOK
    BY DEF FollowInv
  <1> QED
    BY <1>1, InitFollow, NextFollow, PTL DEF FollowSpec

\* A table's copy of what stays open is from the table it belongs to.
LEMMA SteadySource ==
  ASSUME FollowInv, ~hole, NEW a \in Steady, NEW c \in CopiesOf(a), c.from \in Copied
  PROVE  c.from = IF phase[a] = "position" THEN "positions" ELSE "orders"
  <1>1. WasOpen(c.from, a)
    BY DEF FollowInv, CopyInv, CopiesOpen, CopiesOf
  <1> QED
    BY <1>1 DEF WasOpen, Copied, Held, OpenPositions, OpenOrders

\* An event makes one copy of its order, told by the event.
LEMMA EventsOf ==
  ASSUME FollowInv, NEW a
  PROVE  /\ \A e \in ReportsOf(a) : e \in {<<a, "NEW">>, <<a, "FILLED">>}
         /\ \A e \in ReportsOf(a) : EventCopy(e) \in CopiesOf(a) /\ EventCopy(e).from \notin Copied
         /\ \A c \in CopiesOf(a) : c.from \notin Copied => \E e \in ReportsOf(a) : c = EventCopy(e)
         /\ \A e \in ReportsOf(a) : EventCopy(e).from = e[2] /\ EventCopy(e).delivery = 0
  <1>1. /\ reported \subseteq Event
        /\ \A c \in copies : c.from \notin Copied => \E e \in reported : c = EventCopy(e)
        /\ \A e \in reported : EventCopy(e) \in copies
    BY DEF FollowInv, FollowTypeOK, CopyInv, EventsCopied
  <1>2. \A e \in ReportsOf(a) : e \in reported /\ e \in Event /\ e[1] = a
    BY <1>1 DEF ReportsOf
  <1>3. \A e \in reported : /\ EventCopy(e).thing = e[1] /\ EventCopy(e).from = e[2]
                            /\ EventCopy(e).delivery = 0 /\ e[2] \notin Copied
    BY <1>1, EventCopied
  <1>4. \A e \in ReportsOf(a) : e \in {<<a, "NEW">>, <<a, "FILLED">>}
    BY <1>2 DEF Event
  <1>5. \A c \in CopiesOf(a) : c.from \notin Copied => \E e \in ReportsOf(a) : c = EventCopy(e)
    BY <1>1, <1>3 DEF CopiesOf, ReportsOf
  <1> QED
    BY <1>1, <1>2, <1>3, <1>4, <1>5 DEF CopiesOf

\* One copy from the tables and one for each event.
LEMMA CardTwo ==
  ASSUME NEW x, NEW y, x # y
  PROVE  IsFiniteSet({x, y}) /\ Cardinality({x, y}) = 2
  <1>1. IsFiniteSet({x}) /\ Cardinality({x}) = 1
    BY FS_Singleton
  <1>2. IsFiniteSet({x} \cup {y}) /\ Cardinality({x} \cup {y}) = 1 + 1
    BY <1>1, FS_AddElement
  <1>3. {x, y} = {x} \cup {y}
    OBVIOUS
  <1> QED
    BY <1>2, <1>3

LEMMA CardThree ==
  ASSUME NEW x, NEW y, NEW z, x # y, x # z, y # z
  PROVE  Cardinality({x, y, z}) = 3
  <1>1. IsFiniteSet({x, y}) /\ Cardinality({x, y}) = 2
    BY CardTwo
  <1>2. Cardinality({x, y} \cup {z}) = 2 + 1
    BY <1>1, FS_AddElement
  <1>3. {x, y, z} = {x, y} \cup {z}
    OBVIOUS
  <1> QED
    BY <1>2, <1>3

LEMMA CopiesCounted ==
  ASSUME FollowInv, NEW a, NEW c, c \in CopiesOf(a), c.from \in Copied,
         \A d \in CopiesOf(a) : d.from \in Copied => d = c
  PROVE  Cardinality(CopiesOf(a)) = 1 + Cardinality(ReportsOf(a))
  <1> DEFINE n == <<a, "NEW">>
             f == <<a, "FILLED">>
             copied == {EventCopy(e) : e \in ReportsOf(a)}
  <1>1. ReportsOf(a) \in SUBSET {n, f} /\ n # f
    BY EventsOf
  <1>2. CopiesOf(a) = {c} \cup copied
    BY EventsOf
  <1>3. c \notin copied
    BY EventsOf
  <1>4. ASSUME NEW e, ReportsOf(a) = {e}
        PROVE  Cardinality(CopiesOf(a)) = 1 + Cardinality(ReportsOf(a))
    <2>1. CopiesOf(a) = {c, EventCopy(e)} /\ EventCopy(e) # c
      BY <1>2, <1>3, <1>4
    <2>2. Cardinality(CopiesOf(a)) = 2
      BY <2>1, CardTwo
    <2>3. Cardinality(ReportsOf(a)) = 1
      BY <1>4, FS_Singleton
    <2> QED
      BY <2>2, <2>3
  <1>5. ASSUME ReportsOf(a) = {n, f}
        PROVE  Cardinality(CopiesOf(a)) = 1 + Cardinality(ReportsOf(a))
    <2>1. EventCopy(n) # EventCopy(f)
      BY <1>5, EventsOf
    <2>2. CopiesOf(a) = {c, EventCopy(n), EventCopy(f)} /\ c # EventCopy(n) /\ c # EventCopy(f)
      BY <1>2, <1>3, <1>5
    <2>3. Cardinality(CopiesOf(a)) = 3
      <3> SUFFICES ASSUME NEW x, NEW y, CopiesOf(a) = {c, x, y}, c # x, c # y, x # y
                   PROVE  Cardinality(CopiesOf(a)) = 3
        BY <2>1, <2>2
      <3> QED
        BY CardThree
    <2>4. Cardinality({n, f}) = 2
      BY <1>1, CardTwo, Zenon
    <2>5. Cardinality(ReportsOf(a)) = 2
      BY <1>5, <2>4
    <2> QED
      BY <2>3, <2>5
  <1>6. ASSUME ReportsOf(a) = {}
        PROVE  Cardinality(CopiesOf(a)) = 1 + Cardinality(ReportsOf(a))
    <2>1. CopiesOf(a) = {c}
      BY <1>2, <1>6
    <2>2. Cardinality(CopiesOf(a)) = 1 /\ Cardinality(ReportsOf(a)) = 0
      BY <1>6, <2>1, FS_Singleton, FS_EmptySet
    <2> QED
      BY <2>2
  <1>7. ReportsOf(a) = {} \/ ReportsOf(a) = {n} \/ ReportsOf(a) = {f} \/ ReportsOf(a) = {n, f}
    BY <1>1
  <1> HIDE DEF n, f, copied
  <1> QED
    BY <1>4, <1>5, <1>6, <1>7

\* Whatever is refreshed between the two reads, a delivery that is handled to its end
\* makes exactly one copy of what the leader keeps open, and unless one was repeated
\* there is only one more for each event that was on its way: except when a table was
\* read in a gap, or after a refresh that went wrong or met rows of its millisecond.
THEOREM CopiedOnce == FollowSpec => []SteadyCopiedOnce
  <1>1. ASSUME FollowInv PROVE SteadyCopiedOnce
    <2> SUFFICES ASSUME fpc = "done", ~hole, NEW a \in LeadersSteady
                 PROVE  /\ Cardinality({c \in CopiesOf(a) : c.delivery = deliveries}) = 1
                        /\ ~repeated => Cardinality(CopiesOf(a)) = 1 + Cardinality(ReportsOf(a))
      BY DEF SteadyCopiedOnce
    <2>1. a \in Steady /\ a[1] = Leader
      BY DEF LeadersSteady
    <2>2. Read(a)
      BY <1>1, <2>1, SteadyAssumption
         DEF FollowInv, OpenInv, SteadyOpen, Read, Held, OpenPositions, OpenOrders
    <2>3. PICK c \in copies : c.thing = a /\ c.from \in Copied /\ c.delivery = deliveries
      BY <1>1, <2>2 DEF FollowInv, CopyInv, CopiedAlready, CopiedNow
    <2>4. c \in CopiesOf(a)
      BY <2>3 DEF CopiesOf
    <2>5. \A d \in CopiesOf(a) : d.from \in Copied /\ d.delivery = deliveries => d = c
      <3> SUFFICES ASSUME NEW d \in CopiesOf(a), d.from \in Copied, d.delivery = deliveries
                   PROVE  d = c
        OBVIOUS
      <3>1. d.from = c.from
        BY <1>1, <2>1, <2>3, <2>4, SteadySource
      <3>2. d \in copies /\ d.thing = a
        BY DEF CopiesOf
      <3> QED
        BY <1>1, <2>3, <3>1, <3>2 DEF FollowInv, CopyInv, OneFromEach
    <2>6. deliveries \in Nat /\ deliveries > 0
      BY <1>1 DEF FollowInv, FollowTypeOK, CopyInv, ReadInOrder
    <2>7. {d \in CopiesOf(a) : d.delivery = deliveries} = {c}
      <3>1. \A d \in CopiesOf(a) : d.delivery = deliveries => d.from \in Copied
        BY <1>1, <2>6, EventsOf
      <3> QED
        BY <2>3, <2>4, <2>5, <3>1
    <2>8. ASSUME ~repeated PROVE Cardinality(CopiesOf(a)) = 1 + Cardinality(ReportsOf(a))
      <3>1. \A d \in CopiesOf(a) : d.from \in Copied => d.delivery = deliveries
        BY <1>1, <2>8 DEF CopiesOf, FollowInv, CopyInv, ReadInOrder
      <3>2. \A d \in CopiesOf(a) : d.from \in Copied => d = c
        BY <2>5, <3>1
      <3> QED
        BY <1>1, <2>3, <2>4, <3>2, CopiesCounted
    <2> QED
      BY <2>7, <2>8, FS_Singleton
  <1> QED
    BY <1>1, InitFollow, NextFollow, PTL DEF FollowSpec

\* One delivery copies nothing from one table twice, and unless one was repeated what
\* is copied twice was reported after the follow or was filled.
THEOREM TwiceIfMoved == FollowSpec => []TwiceOnlyIfItMoved
  <1>1. ASSUME FollowInv PROVE TwiceOnlyIfItMoved
    <2> SUFFICES ASSUME ~hole, NEW a \in Thing
                 PROVE  /\ \A c, d \in CopiesOf(a) :
                             c.from = d.from /\ (repeated => c.delivery = d.delivery) => c = d
                        /\ ~repeated /\ Cardinality(CopiesOf(a)) > 1 =>
                             ReportsOf(a) # {} \/ phase[a] \in {"position", "gone"}
      BY DEF TwiceOnlyIfItMoved
    <2>1. ASSUME NEW c \in CopiesOf(a), NEW d \in CopiesOf(a), c.from = d.from,
                 repeated => c.delivery = d.delivery
          PROVE  c = d
      <3>1. c \in copies /\ d \in copies /\ c.thing = d.thing
        BY DEF CopiesOf
      <3>2. c.delivery = d.delivery
        <4>1. CASE c.from \in Copied
          BY <1>1, <2>1, <3>1, <4>1 DEF FollowInv, CopyInv, ReadInOrder
        <4>2. CASE c.from \notin Copied
          BY <1>1, <2>1, <4>2, EventsOf
        <4> QED
          BY <4>1, <4>2
      <3> QED
        BY <1>1, <2>1, <3>1, <3>2 DEF FollowInv, CopyInv, OneFromEach
    <2>2. ASSUME ~repeated, ReportsOf(a) = {}, phase[a] \notin {"position", "gone"}
          PROVE  Cardinality(CopiesOf(a)) \in {0, 1}
      <3>1. \A c \in CopiesOf(a) : c.from = "orders"
        <4> SUFFICES ASSUME NEW c \in CopiesOf(a) PROVE c.from = "orders"
          OBVIOUS
        <4>1. c \in copies /\ c.thing = a
          BY DEF CopiesOf
        <4>2. c.from \in Copied
          BY <1>1, <2>2, EventsOf
        <4>3. WasOpen(c.from, a)
          BY <1>1, <4>1, <4>2 DEF FollowInv, CopyInv, CopiesOpen
        <4> QED
          BY <2>2, <4>2, <4>3 DEF WasOpen, Copied
      <3>2. CASE CopiesOf(a) = {}
        BY <3>2, FS_EmptySet
      <3>3. CASE CopiesOf(a) # {}
        <4>1. PICK c : c \in CopiesOf(a)
          BY <3>3
        <4>2. CopiesOf(a) = {c}
          BY <2>1, <2>2, <3>1, <4>1
        <4> QED
          BY <4>2, FS_Singleton
      <3> QED
        BY <3>2, <3>3
    <2> QED
      BY <2>1, <2>2
  <1> QED
    BY <1>1, InitFollow, NextFollow, PTL DEF FollowSpec

=============================================================================
