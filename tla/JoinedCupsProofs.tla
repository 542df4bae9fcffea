-------------------------- MODULE JoinedCupsProofs --------------------------
(***************************************************************************)
(* Proofs about JoinedCups, for any number of users, cups, handlers and    *)
(* profit jobs and any limit.                                              *)
(*                                                                         *)
(* The two bounds are kept by counting the joins that have passed a check  *)
(* together with the rows the check counted: a join that passes the check  *)
(* starts with few enough rows, and the row it adds later takes its place. *)
(***************************************************************************)
EXTENDS JoinedCups, FiniteSetTheorems, TLAPS

-----------------------------------------------------------------------------
(***************************************************************************)
(* Counting.                                                               *)
(***************************************************************************)

\* A set that loses elements does not grow.
LEMMA Shrink ==
  ASSUME NEW S, IsFiniteSet(S), NEW T, T \subseteq S
  PROVE  /\ IsFiniteSet(T) /\ Cardinality(T) <= Cardinality(S)
         /\ Cardinality(S) \in Nat /\ Cardinality(T) \in Nat
  BY FS_Subset, FS_CardinalityType, T \in SUBSET S

\* A set that gains at most one element grows by at most one.
LEMMA Grow ==
  ASSUME NEW S, IsFiniteSet(S), NEW x, NEW T, T \subseteq S \cup {x}
  PROVE  /\ IsFiniteSet(T) /\ Cardinality(T) <= Cardinality(S) + 1
         /\ Cardinality(S) \in Nat /\ Cardinality(T) \in Nat
  <1>0. Cardinality(S) \in Nat
    BY FS_CardinalityType
  <1>1. /\ IsFiniteSet(S \cup {x})
        /\ Cardinality(S \cup {x}) = IF x \in S THEN Cardinality(S) ELSE Cardinality(S) + 1
    BY FS_AddElement
  <1>2. /\ IsFiniteSet(T) /\ Cardinality(T) <= Cardinality(S \cup {x})
        /\ Cardinality(T) \in Nat
    BY <1>1, Shrink
  <1> QED
    BY <1>0, <1>1, <1>2

\* A set that loses an element it had is smaller.
LEMMA Lose ==
  ASSUME NEW S, IsFiniteSet(S), NEW x \in S, NEW T, T \subseteq S \ {x}
  PROVE  /\ IsFiniteSet(T) /\ Cardinality(T) + 1 <= Cardinality(S)
         /\ Cardinality(S) \in Nat /\ Cardinality(T) \in Nat
  <1>1. /\ IsFiniteSet(S \ {x})
        /\ Cardinality(S \ {x}) = Cardinality(S) - 1
    BY FS_RemoveElement
  <1> QED
    BY <1>1, Shrink, FS_CardinalityType

\* Putting one element in the place of another does not make a set larger.
LEMMA Swap ==
  ASSUME NEW S, IsFiniteSet(S), NEW x \in S, NEW y, NEW T, T \subseteq (S \ {x}) \cup {y}
  PROVE  /\ IsFiniteSet(T) /\ Cardinality(T) <= Cardinality(S)
         /\ Cardinality(S) \in Nat /\ Cardinality(T) \in Nat
  <1>1. /\ IsFiniteSet(S \ {x}) /\ Cardinality(S \ {x}) + 1 <= Cardinality(S)
        /\ Cardinality(S \ {x}) \in Nat
    BY Lose
  <1>2. /\ IsFiniteSet(T) /\ Cardinality(T) <= Cardinality(S \ {x}) + 1
        /\ Cardinality(T) \in Nat
    BY <1>1, Grow
  <1> QED
    BY <1>1, <1>2, FS_CardinalityType

\* What each step does to a set of rows and to the joins that may still add to it.
Balanced(R, R1, H, H1) ==
  \/ R1 \subseteq R /\ H1 \subseteq H
  \/ /\ \E y : R1 \subseteq R \cup {y}
     /\ \E h \in H : H1 \subseteq H \ {h}
  \/ /\ \E x \in R : \E y : R1 \subseteq (R \ {x}) \cup {y}
     /\ H1 \subseteq H

\* A balanced step keeps every bound on the two sizes together.
LEMMA BalancedKeepsBound ==
  ASSUME NEW R, IsFiniteSet(R), NEW R1, NEW H, IsFiniteSet(H), NEW H1,
         Balanced(R, R1, H, H1), NEW n \in Int,
         Cardinality(R) + Cardinality(H) <= n
  PROVE  Cardinality(R1) + Cardinality(H1) <= n
  <1>1. CASE R1 \subseteq R /\ H1 \subseteq H
    <2>1. /\ Cardinality(R1) <= Cardinality(R)
          /\ Cardinality(R1) \in Nat /\ Cardinality(R) \in Nat
      BY <1>1, Shrink
    <2>2. /\ Cardinality(H1) <= Cardinality(H)
          /\ Cardinality(H1) \in Nat /\ Cardinality(H) \in Nat
      BY <1>1, Shrink
    <2> QED
      BY <2>1, <2>2
  <1>2. CASE (\E y : R1 \subseteq R \cup {y}) /\ (\E h \in H : H1 \subseteq H \ {h})
    <2>1. /\ Cardinality(R1) <= Cardinality(R) + 1
          /\ Cardinality(R1) \in Nat /\ Cardinality(R) \in Nat
      BY <1>2, Grow
    <2>2. /\ Cardinality(H1) + 1 <= Cardinality(H)
          /\ Cardinality(H1) \in Nat /\ Cardinality(H) \in Nat
      BY <1>2, Lose
    <2> QED
      BY <2>1, <2>2
  <1>3. CASE (\E x \in R : \E y : R1 \subseteq (R \ {x}) \cup {y}) /\ H1 \subseteq H
    <2>1. /\ Cardinality(R1) <= Cardinality(R)
          /\ Cardinality(R1) \in Nat /\ Cardinality(R) \in Nat
      BY <1>3, Swap
    <2>2. /\ Cardinality(H1) <= Cardinality(H)
          /\ Cardinality(H1) \in Nat /\ Cardinality(H) \in Nat
      BY <1>3, Shrink
    <2> QED
      BY <2>1, <2>2
  <1> QED
    BY <1>1, <1>2, <1>3 DEF Balanced

-----------------------------------------------------------------------------
(***************************************************************************)
(* Types, and what is known of the rows: they are finitely many, and only  *)
(* the rows of deleted accounts are marked.                                *)
(***************************************************************************)
RowsOK ==
  /\ IsFiniteSet(rows)
  /\ \A w \in rows : w.deleted => w.user \in gone
  /\ \A j \in Job : \A w \in snapshot[j] : ~w.deleted

LEMMA InitRows == Init => TypeOK /\ RowsOK
  BY FS_EmptySet, TimeAssumption DEF Init, TypeOK, RowsOK

LEMMA JoinTypes ==
  ASSUME TypeOK, NEW h \in Handler, Join(h)
  PROVE  TypeOK'
  <1> USE DEF TypeOK, Goto, jobs
  <1>1. CASE \E b \in Body : Receive(h, b)
    BY <1>1 DEF Receive
  <1>2. CASE CheckLimit(h)
    <2>1. AtLimit(arg[h].user) \in BOOLEAN
      BY DEF AtLimit
    <2>2. reached' \in [Handler -> BOOLEAN]
      BY <1>2, <2>1 DEF CheckLimit
    <2> QED
      BY <1>2, <2>2 DEF CheckLimit
  <1>5. CASE CheckBalance(h) \/ FindExisting(h)
    BY <1>5 DEF CheckBalance, FindExisting
  <1>3. CASE Stamp(h) \/ Select(h)
    BY <1>3 DEF Stamp, Select
  <1>4. CASE Insert(h) \/ Update(h)
    <2>1. NewRow(h) \in Row
      BY TimeAssumption DEF NewRow, Row, Body
    <2> QED
      BY <1>4, <2>1 DEF Insert, Update
  <1> QED
    BY <1>1, <1>2, <1>3, <1>4, <1>5 DEF Join

LEMMA NextTypes == TypeOK /\ [Next]_vars => TypeOK'
  <1> SUFFICES ASSUME TypeOK, [Next]_vars PROVE TypeOK'
    OBVIOUS
  <1>1. ASSUME NEW j \in Job, Profit(j) PROVE TypeOK'
    <2> USE DEF TypeOK, handlers
    <2>1. CASE ProfitFind(j)
      BY <2>1 DEF ProfitFind, Joined
    <2>2. CASE ProfitCups(j)
      BY <2>2 DEF ProfitCups
    <2>3. CASE ProfitWrite(j)
      BY <2>3 DEF ProfitWrite, WriteBack
    <2>4. CASE ProfitEnd(j)
      BY <2>4 DEF ProfitEnd
    <2> QED
      BY <1>1, <2>1, <2>2, <2>3, <2>4 DEF Profit
  <1>2. ASSUME NEW u \in User, DeleteAccount(u) PROVE TypeOK'
    BY <1>2 DEF TypeOK, DeleteAccount, Row, handlers, jobs
  <1>3. CASE (\E c \in Cup : EndCup(c)) \/ Tick \/ Restart \/ UNCHANGED vars
    BY <1>3, TimeAssumption DEF TypeOK, EndCup, Tick, Restart, vars, handlers, jobs
  <1> QED
    BY <1>1, <1>2, <1>3, JoinTypes DEF Next

\* The row a profit job writes back is in the place of at most one other.
LEMMA WriteBackSwaps ==
  ASSUME NEW w
  PROVE  \/ WriteBack(w) = rows
         \/ \E v \in rows : Same(v, w) /\ WriteBack(w) = (rows \ {v}) \cup {w}
  <1> DEFINE hit == {v \in rows : Same(v, w)}
  <1>1. CASE hit = {}
    BY <1>1 DEF WriteBack
  <1>2. CASE \E v \in hit : \E other \in rows \ {v} : other \in hit \/ other.time = w.time
    BY <1>2 DEF WriteBack
  <1>3. ASSUME NEW v \in hit,
               \A x \in hit : \A other \in rows \ {x} : other \notin hit /\ other.time # w.time
        PROVE  hit = {v} /\ WriteBack(w) = (rows \ {v}) \cup {w}
    <2>1. hit = {v}
      BY <1>3
    <2> QED
      BY <1>3, <2>1 DEF WriteBack
  <1> QED
    BY <1>1, <1>2, <1>3

LEMMA NextRows == TypeOK /\ RowsOK /\ [Next]_vars => RowsOK'
  <1> SUFFICES ASSUME TypeOK, RowsOK, [Next]_vars PROVE RowsOK'
    OBVIOUS
  <1> USE DEF RowsOK
  <1>1. ASSUME NEW h \in Handler, Insert(h) \/ Update(h) PROVE RowsOK'
    <2>1. rows' \subseteq rows \cup {NewRow(h)} /\ ~NewRow(h).deleted
      BY <1>1 DEF Insert, Update, NewRow
    <2>2. IsFiniteSet(rows')
      BY <2>1, Grow
    <2> QED
      BY <1>1, <2>1, <2>2 DEF Insert, Update, jobs
  <1>2. ASSUME NEW h \in Handler, Join(h), ~Insert(h), ~Update(h) PROVE RowsOK'
    BY <1>2 DEF Join, Receive, CheckLimit, CheckBalance, FindExisting, Stamp, Select, jobs
  <1>3. ASSUME NEW j \in Job, ProfitWrite(j) PROVE RowsOK'
    <2>1. PICK w \in snapshot[j] : rows' = WriteBack(w)
      BY <1>3 DEF ProfitWrite
    <2>2. rows' \subseteq rows \cup {w} /\ ~w.deleted
      BY <2>1, WriteBackSwaps
    <2>3. IsFiniteSet(rows')
      BY <2>2, Grow
    <2> QED
      BY <1>3, <2>2, <2>3 DEF ProfitWrite, TypeOK
  <1>4. ASSUME NEW j \in Job, ProfitFind(j) \/ ProfitCups(j) \/ ProfitEnd(j) PROVE RowsOK'
    BY <1>4 DEF ProfitFind, ProfitCups, ProfitEnd, Joined, TypeOK
  <1>5. ASSUME NEW u \in User, DeleteAccount(u) PROVE RowsOK'
    <2> DEFINE mark == [w \in rows |-> IF w.user = u THEN [w EXCEPT !.deleted = TRUE] ELSE w]
    <2>1. mark \in Surjection(rows, rows')
      BY <1>5 DEF DeleteAccount, Surjection
    <2>2. IsFiniteSet(rows')
      BY <2>1, FS_Surjection
    <2>3. \A w \in rows' : w.deleted => w.user \in gone'
      BY <1>5 DEF DeleteAccount, TypeOK, Row
    <2> QED
      BY <1>5, <2>2, <2>3 DEF DeleteAccount, jobs
  <1>6. CASE (\E c \in Cup : EndCup(c)) \/ Tick \/ Restart \/ UNCHANGED vars
    BY <1>6 DEF EndCup, Tick, Restart, vars, jobs
  <1> QED
    BY <1>1, <1>2, <1>3, <1>4, <1>5, <1>6 DEF Next, Profit

\* The variables keep their types, whatever joins, jobs and deletions do.
THEOREM JoinedCupsTypes == Spec => []TypeOK
  <1>1. Init => TypeOK
    BY InitRows
  <1> QED
    BY <1>1, NextTypes, PTL DEF Spec

LEMMA RowsInvariant == Spec => [](TypeOK /\ RowsOK)
  BY InitRows, NextTypes, NextRows, PTL DEF Spec

-----------------------------------------------------------------------------
(***************************************************************************)
(* The limit.                                                              *)
(***************************************************************************)
Saving == {"stamp", "select", "insert", "update"}

\* The joins of u that have passed the check of the limit.
Passed(u) ==
  {h \in Handler : /\ arg[h].user = u
                   /\ \/ pc[h] \in {"existing"} \cup Saving
                      \/ pc[h] = "balance" /\ ~reached[h]}

LimitInv ==
  \A u \in User \ gone :
    Cardinality(Counted(u)) + Cardinality(Passed(u)) <= Limit - 1 + Cardinality(Handler)

LEMMA FiniteCounts ==
  ASSUME RowsOK, NEW u
  PROVE  IsFiniteSet(Counted(u)) /\ IsFiniteSet(Passed(u))
  BY HandlerAssumption, Shrink, Counted(u) \subseteq rows, Passed(u) \subseteq Handler
     DEF Counted, Joined, Passed, RowsOK

\* Every step but a check that passes is balanced.
LEMMA LimitBalanced ==
  ASSUME TypeOK, RowsOK, [Next]_vars, NEW u \in User \ gone', u \notin gone,
         \A h \in Handler : ~(CheckLimit(h) /\ arg[h].user = u /\ ~AtLimit(u))
  PROVE  Balanced(Counted(u), Counted(u)', Passed(u), Passed(u)')
  <1> USE DEF Counted, Joined, Passed, Saving
  <1>1. ASSUME NEW h \in Handler, Insert(h) \/ Update(h)
        PROVE  Balanced(Counted(u), Counted(u)', Passed(u), Passed(u)')
    <2>1. CASE arg[h].user = u
      <3>1. Counted(u)' \subseteq Counted(u) \cup {NewRow(h)}
        BY <1>1 DEF Insert, Update
      <3>2. h \in Passed(u) /\ Passed(u)' \subseteq Passed(u) \ {h}
        BY <1>1, <2>1 DEF Insert, Update, Goto, TypeOK
      <3> QED
        BY <3>1, <3>2 DEF Balanced
    <2>2. CASE arg[h].user # u
      <3>1. Counted(u)' \subseteq Counted(u)
        BY <1>1, <2>2 DEF Insert, Update, NewRow
      <3>2. Passed(u)' \subseteq Passed(u)
        BY <1>1 DEF Insert, Update, Goto, TypeOK
      <3> QED
        BY <3>1, <3>2 DEF Balanced
    <2> QED
      BY <2>1, <2>2
  <1>2. ASSUME NEW h \in Handler, Join(h), ~Insert(h), ~Update(h)
        PROVE  Balanced(Counted(u), Counted(u)', Passed(u), Passed(u)')
    <2>1. Counted(u)' = Counted(u)
      BY <1>2 DEF Join, Receive, CheckLimit, CheckBalance, FindExisting, Stamp, Select
    <2>2. Passed(u)' \subseteq Passed(u)
      <3>1. CASE \E b \in Body : Receive(h, b)
        BY <3>1 DEF Receive, Goto, TypeOK
      <3>2. CASE CheckLimit(h)
        BY <3>2 DEF CheckLimit, Goto, TypeOK
      <3>3. CASE CheckBalance(h) \/ FindExisting(h) \/ Stamp(h) \/ Select(h)
        BY <3>3 DEF CheckBalance, FindExisting, Stamp, Select, Goto, TypeOK
      <3> QED
        BY <1>2, <3>1, <3>2, <3>3 DEF Join
    <2> QED
      BY <2>1, <2>2 DEF Balanced
  <1>3. ASSUME NEW j \in Job, ProfitWrite(j)
        PROVE  Balanced(Counted(u), Counted(u)', Passed(u), Passed(u)')
    <2>1. PICK w \in snapshot[j] : rows' = WriteBack(w)
      BY <1>3 DEF ProfitWrite
    <2>2. Passed(u)' = Passed(u) /\ ended' = ended
      BY <1>3 DEF ProfitWrite, handlers
    <2>3. CASE rows' = rows
      BY <2>2, <2>3 DEF Balanced
    <2>4. ASSUME NEW v \in rows, Same(v, w), rows' = (rows \ {v}) \cup {w}
          PROVE  Balanced(Counted(u), Counted(u)', Passed(u), Passed(u)')
      <3>1. CASE v \in Counted(u)
        <4>1. Counted(u)' \subseteq (Counted(u) \ {v}) \cup {w}
          BY <2>2, <2>4
        <4> QED
          BY <2>2, <3>1, <4>1 DEF Balanced
      <3>2. CASE v \notin Counted(u)
        <4>1. w \notin Counted(u)'
          BY <2>2, <2>4, <3>2 DEF Same, RowsOK
        <4> QED
          BY <2>2, <2>4, <4>1 DEF Balanced
      <3> QED
        BY <3>1, <3>2
    <2> QED
      BY <2>1, <2>3, <2>4, WriteBackSwaps
  <1>4. ASSUME NEW j \in Job, ProfitFind(j) \/ ProfitCups(j) \/ ProfitEnd(j)
        PROVE  Balanced(Counted(u), Counted(u)', Passed(u), Passed(u)')
    BY <1>4 DEF ProfitFind, ProfitCups, ProfitEnd, handlers, Balanced
  <1>5. ASSUME NEW d \in User, DeleteAccount(d)
        PROVE  Balanced(Counted(u), Counted(u)', Passed(u), Passed(u)')
    <2>1. Counted(u)' \subseteq Counted(u)
      BY <1>5 DEF DeleteAccount, TypeOK, Row
    <2> QED
      BY <1>5, <2>1 DEF DeleteAccount, handlers, Balanced
  <1>6. CASE (\E c \in Cup : EndCup(c)) \/ Tick \/ Restart \/ UNCHANGED vars
    BY <1>6 DEF EndCup, Tick, Restart, vars, handlers, Balanced
  <1> QED
    BY <1>1, <1>2, <1>3, <1>4, <1>5, <1>6 DEF Next, Profit

\* gone only grows.
LEMMA GoneGrows == [Next]_vars => gone \subseteq gone'
  BY DEF Next, Join, Profit, vars, Receive, CheckLimit, CheckBalance, FindExisting, Stamp,
         Select, Insert, Update, ProfitFind, ProfitCups, ProfitWrite, ProfitEnd,
         DeleteAccount, EndCup, Tick, Restart

LEMMA LimitStep == TypeOK /\ RowsOK /\ LimitInv /\ [Next]_vars => LimitInv'
  <1> SUFFICES ASSUME TypeOK, RowsOK, LimitInv, [Next]_vars, NEW u \in User \ gone'
               PROVE  Cardinality(Counted(u)') + Cardinality(Passed(u)')
                        <= Limit - 1 + Cardinality(Handler)
    BY DEF LimitInv
  <1>0. u \notin gone /\ Cardinality(Handler) \in Nat /\ Limit \in Nat
    BY GoneGrows, HandlerAssumption, LimitAssumption, FS_CardinalityType
  <1>1. ASSUME NEW h \in Handler, CheckLimit(h), arg[h].user = u, ~AtLimit(u)
        PROVE  Cardinality(Counted(u)') + Cardinality(Passed(u)')
                 <= Limit - 1 + Cardinality(Handler)
    <2>1. Counted(u)' = Counted(u)
      BY <1>1 DEF CheckLimit, Counted, Joined
    <2>2. Cardinality(Counted(u)) < Limit /\ Cardinality(Counted(u)) \in Nat
      <3>1. Cardinality(Counted(u)) \in Nat
        BY FiniteCounts, FS_CardinalityType
      <3> QED
        BY <1>0, <1>1, <3>1 DEF AtLimit
    <2>3. /\ Cardinality(Passed(u)') <= Cardinality(Handler)
          /\ Cardinality(Passed(u)') \in Nat
      BY HandlerAssumption, Shrink, Passed(u)' \subseteq Handler DEF Passed
    <2> QED
      BY <1>0, <2>1, <2>2, <2>3
  <1>2. CASE \A h \in Handler : ~(CheckLimit(h) /\ arg[h].user = u /\ ~AtLimit(u))
    <2>1. Balanced(Counted(u), Counted(u)', Passed(u), Passed(u)')
      BY <1>0, <1>2, LimitBalanced
    <2>2. Cardinality(Counted(u)) + Cardinality(Passed(u)) <= Limit - 1 + Cardinality(Handler)
      BY <1>0 DEF LimitInv
    <2> QED
      BY <1>0, <2>1, <2>2, FiniteCounts, BalancedKeepsBound
  <1> QED
    BY <1>1, <1>2

\* With n joins in progress at a time a user is in at most n - 1 running cups
\* more than the limit.
THEOREM LimitHolds == Spec => []LimitPassedOnlyByOverlap
  <1>1. Init => LimitInv
    <2> SUFFICES ASSUME Init, NEW u \in User
                 PROVE  Cardinality(Counted(u)) + Cardinality(Passed(u))
                          <= Limit - 1 + Cardinality(Handler)
      BY DEF LimitInv
    <2>1. Counted(u) = {} /\ Passed(u) = {}
      BY DEF Init, Counted, Joined, Passed, Saving
    <2> QED
      BY <2>1, FS_EmptySet, HandlerAssumption, LimitAssumption, FS_CardinalityType
  <1>2. TypeOK /\ RowsOK /\ LimitInv => LimitPassedOnlyByOverlap
    <2> SUFFICES ASSUME TypeOK, RowsOK, LimitInv, NEW u \in User \ gone
                 PROVE  Cardinality(Counted(u)) <= Limit - 1 + Cardinality(Handler)
      BY DEF LimitPassedOnlyByOverlap
    <2>1. Cardinality(Counted(u)) \in Nat /\ Cardinality(Passed(u)) \in Nat
      BY FiniteCounts, FS_CardinalityType
    <2>2. Cardinality(Handler) \in Nat /\ Limit \in Nat
      BY HandlerAssumption, LimitAssumption, FS_CardinalityType
    <2> QED
      BY <2>1, <2>2 DEF LimitInv
  <1> QED
    BY <1>1, <1>2, LimitStep, RowsInvariant, PTL DEF Spec

-----------------------------------------------------------------------------
(***************************************************************************)
(* Copies of one join.                                                     *)
(***************************************************************************)
Live(b) == {w \in rows : ~w.deleted /\ Same(w, b)}

\* The joins that have found no row like theirs and have not saved it yet.
InFlight(b) == {h \in Handler : arg[h] = b /\ pc[h] \in Saving}

CopyInv ==
  \A b \in Body : b.user \notin gone =>
    Cardinality(Live(b)) + Cardinality(InFlight(b)) <= Cardinality(Handler)

LEMMA FiniteCopies ==
  ASSUME RowsOK, NEW b
  PROVE  IsFiniteSet(Live(b)) /\ IsFiniteSet(InFlight(b))
  BY HandlerAssumption, Shrink, Live(b) \subseteq rows, InFlight(b) \subseteq Handler
     DEF Live, InFlight, RowsOK

\* Every step but a lookup that finds nothing is balanced.
LEMMA CopiesBalanced ==
  ASSUME TypeOK, RowsOK, [Next]_vars, NEW b \in Body, b.user \notin gone,
         \A h \in Handler : ~(FindExisting(h) /\ arg[h] = b /\ ~Exists(b))
  PROVE  Balanced(Live(b), Live(b)', InFlight(b), InFlight(b)')
  <1> USE DEF Live, InFlight, Saving
  <1>1. ASSUME NEW h \in Handler, Insert(h) \/ Update(h)
        PROVE  Balanced(Live(b), Live(b)', InFlight(b), InFlight(b)')
    <2>1. CASE arg[h] = b
      <3>1. Live(b)' \subseteq Live(b) \cup {NewRow(h)}
        BY <1>1 DEF Insert, Update
      <3>2. h \in InFlight(b) /\ InFlight(b)' \subseteq InFlight(b) \ {h}
        BY <1>1, <2>1 DEF Insert, Update, Goto, TypeOK
      <3> QED
        BY <3>1, <3>2 DEF Balanced
    <2>2. CASE arg[h] # b
      <3>1. ~Same(NewRow(h), b)
        BY <2>2 DEF Same, NewRow, Body, TypeOK
      <3>2. Live(b)' \subseteq Live(b)
        BY <1>1, <3>1 DEF Insert, Update
      <3>3. InFlight(b)' \subseteq InFlight(b)
        BY <1>1 DEF Insert, Update, Goto, TypeOK
      <3> QED
        BY <3>2, <3>3 DEF Balanced
    <2> QED
      BY <2>1, <2>2
  <1>2. ASSUME NEW h \in Handler, Join(h), ~Insert(h), ~Update(h)
        PROVE  Balanced(Live(b), Live(b)', InFlight(b), InFlight(b)')
    <2>1. Live(b)' = Live(b)
      BY <1>2 DEF Join, Receive, CheckLimit, CheckBalance, FindExisting, Stamp, Select
    <2>2. InFlight(b)' \subseteq InFlight(b)
      <3>1. CASE \E c \in Body : Receive(h, c)
        BY <3>1 DEF Receive, Goto, TypeOK
      <3>2. CASE CheckLimit(h) \/ CheckBalance(h)
        BY <3>2 DEF CheckLimit, CheckBalance, Goto, TypeOK
      <3>3. CASE FindExisting(h)
        BY <3>3 DEF FindExisting, Goto, TypeOK
      <3>4. CASE Stamp(h) \/ Select(h)
        BY <3>4 DEF Stamp, Select, Goto, TypeOK
      <3> QED
        BY <1>2, <3>1, <3>2, <3>3, <3>4 DEF Join
    <2> QED
      BY <2>1, <2>2 DEF Balanced
  <1>3. ASSUME NEW j \in Job, ProfitWrite(j)
        PROVE  Balanced(Live(b), Live(b)', InFlight(b), InFlight(b)')
    <2>1. PICK w \in snapshot[j] : rows' = WriteBack(w)
      BY <1>3 DEF ProfitWrite
    <2>2. InFlight(b)' = InFlight(b)
      BY <1>3 DEF ProfitWrite, handlers
    <2>3. CASE rows' = rows
      BY <2>2, <2>3 DEF Balanced
    <2>4. ASSUME NEW v \in rows, Same(v, w), rows' = (rows \ {v}) \cup {w}
          PROVE  Balanced(Live(b), Live(b)', InFlight(b), InFlight(b)')
      <3>1. CASE v \in Live(b)
        <4>1. Live(b)' \subseteq (Live(b) \ {v}) \cup {w}
          BY <2>4
        <4> QED
          BY <2>2, <3>1, <4>1 DEF Balanced
      <3>2. CASE v \notin Live(b)
        <4>1. w \notin Live(b)'
          BY <2>4, <3>2 DEF Same, RowsOK
        <4> QED
          BY <2>2, <2>4, <4>1 DEF Balanced
      <3> QED
        BY <3>1, <3>2
    <2> QED
      BY <2>1, <2>3, <2>4, WriteBackSwaps
  <1>4. ASSUME NEW j \in Job, ProfitFind(j) \/ ProfitCups(j) \/ ProfitEnd(j)
        PROVE  Balanced(Live(b), Live(b)', InFlight(b), InFlight(b)')
    BY <1>4 DEF ProfitFind, ProfitCups, ProfitEnd, handlers, Balanced
  <1>5. ASSUME NEW d \in User, DeleteAccount(d)
        PROVE  Balanced(Live(b), Live(b)', InFlight(b), InFlight(b)')
    <2>1. Live(b)' \subseteq Live(b)
      BY <1>5 DEF DeleteAccount, TypeOK, Row
    <2> QED
      BY <1>5, <2>1 DEF DeleteAccount, handlers, Balanced
  <1>6. CASE (\E c \in Cup : EndCup(c)) \/ Tick \/ Restart \/ UNCHANGED vars
    BY <1>6 DEF EndCup, Tick, Restart, vars, handlers, Balanced
  <1> QED
    BY <1>1, <1>2, <1>3, <1>4, <1>5, <1>6 DEF Next, Profit

LEMMA CopiesStep == TypeOK /\ RowsOK /\ CopyInv /\ [Next]_vars => CopyInv'
  <1> SUFFICES ASSUME TypeOK, RowsOK, CopyInv, [Next]_vars,
                      NEW b \in Body, b.user \notin gone'
               PROVE  Cardinality(Live(b)') + Cardinality(InFlight(b)') <= Cardinality(Handler)
    BY DEF CopyInv
  <1>0. b.user \notin gone /\ Cardinality(Handler) \in Nat
    BY GoneGrows, HandlerAssumption, FS_CardinalityType
  <1>1. ASSUME NEW h \in Handler, FindExisting(h), arg[h] = b, ~Exists(b)
        PROVE  Cardinality(Live(b)') + Cardinality(InFlight(b)') <= Cardinality(Handler)
    <2>1. Live(b)' = {}
      BY <1>1 DEF FindExisting, Exists, Live
    <2>2. /\ Cardinality(InFlight(b)') <= Cardinality(Handler)
          /\ Cardinality(InFlight(b)') \in Nat
      BY HandlerAssumption, Shrink, InFlight(b)' \subseteq Handler DEF InFlight
    <2> QED
      BY <1>0, <2>1, <2>2, FS_EmptySet
  <1>2. CASE \A h \in Handler : ~(FindExisting(h) /\ arg[h] = b /\ ~Exists(b))
    <2>1. Balanced(Live(b), Live(b)', InFlight(b), InFlight(b)')
      BY <1>0, <1>2, CopiesBalanced
    <2>2. Cardinality(Live(b)) + Cardinality(InFlight(b)) <= Cardinality(Handler)
      BY <1>0 DEF CopyInv
    <2> QED
      BY <1>0, <2>1, <2>2, FiniteCopies, BalancedKeepsBound
  <1> QED
    BY <1>1, <1>2

\* A cup is joined twice with the same key only by joins that overlap.
THEOREM CopiesHold == Spec => []CopiesOnlyByOverlap
  <1>1. Init => CopyInv
    <2> SUFFICES ASSUME Init, NEW b \in Body
                 PROVE  Cardinality(Live(b)) + Cardinality(InFlight(b)) <= Cardinality(Handler)
      BY DEF CopyInv
    <2>1. Live(b) = {} /\ InFlight(b) = {}
      BY DEF Init, Live, InFlight, Saving
    <2> QED
      BY <2>1, FS_EmptySet, HandlerAssumption, FS_CardinalityType
  <1>2. TypeOK /\ RowsOK /\ CopyInv => CopiesOnlyByOverlap
    <2> SUFFICES ASSUME TypeOK, RowsOK, CopyInv, NEW b \in Body, b.user \notin gone
                 PROVE  Cardinality(Live(b)) <= Cardinality(Handler)
      BY DEF CopiesOnlyByOverlap, Live
    <2>1. Cardinality(Live(b)) \in Nat /\ Cardinality(InFlight(b)) \in Nat
      BY FiniteCopies, FS_CardinalityType
    <2>2. Cardinality(Handler) \in Nat
      BY HandlerAssumption, FS_CardinalityType
    <2> QED
      BY <2>1, <2>2 DEF CopyInv
  <1> QED
    BY <1>1, <1>2, CopiesStep, RowsInvariant, PTL DEF Spec

-----------------------------------------------------------------------------
(***************************************************************************)
(* The rules as the code means them, for joins that come one at a time.    *)
(***************************************************************************)
LimitKept == \A u \in User \ gone : Cardinality(Counted(u)) <= Limit

NobodyTwice ==
  \A v, w \in rows : v.user \notin gone /\ ~v.deleted /\ ~w.deleted /\ Same(v, w) => v = w

\* With one join at a time both rules hold as they are written, whatever profit
\* updates, deletions of accounts and the end of cups do in between.
THEOREM OneAtATime ==
  ASSUME Cardinality(Handler) = 1
  PROVE  Spec => [](LimitKept /\ NobodyTwice)
  <1>1. TypeOK /\ RowsOK /\ LimitPassedOnlyByOverlap => LimitKept
    <2> SUFFICES ASSUME TypeOK, RowsOK, LimitPassedOnlyByOverlap, NEW u \in User \ gone
                 PROVE  Cardinality(Counted(u)) <= Limit
      BY DEF LimitKept
    <2>1. Cardinality(Counted(u)) \in Nat
      BY FiniteCounts, FS_CardinalityType
    <2>2. Cardinality(Counted(u)) <= Limit - 1 + 1
      BY DEF LimitPassedOnlyByOverlap
    <2> QED
      BY <2>1, <2>2, LimitAssumption
  <1>2. TypeOK /\ RowsOK /\ CopiesOnlyByOverlap => NobodyTwice
    <2> SUFFICES ASSUME TypeOK, RowsOK, CopiesOnlyByOverlap, NEW v \in rows, NEW w \in rows,
                        v.user \notin gone, ~v.deleted, ~w.deleted, Same(v, w)
                 PROVE  v = w
      BY DEF NobodyTwice
    <2> DEFINE b == [user |-> v.user, key |-> v.key, cup |-> v.cup]
    <2>1. b \in Body /\ b.user \notin gone
      BY DEF TypeOK, Row, Body
    <2>2. Same(v, b) /\ Same(w, b)
      BY DEF Same
    <2> HIDE DEF b
    <2>3. v \in Live(b) /\ w \in Live(b)
      BY <2>2 DEF Live
    <2>4. IsFiniteSet(Live(b)) /\ Cardinality(Live(b)) <= 1
      BY <2>1, FiniteCopies DEF CopiesOnlyByOverlap, Live
    <2>5. Cardinality(Live(b)) = 1
      <3>1. Cardinality(Live(b)) \in Nat /\ Cardinality(Live(b)) # 0
        BY <2>3, <2>4, FS_CardinalityType, FS_EmptySet
      <3> QED
        BY <2>4, <3>1
    <2>6. PICK x : Live(b) = {x}
      BY <2>4, <2>5, FS_Singleton
    <2> QED
      BY <2>3, <2>6
  <1> QED
    BY <1>1, <1>2, LimitHolds, CopiesHold, RowsInvariant, PTL

=============================================================================
