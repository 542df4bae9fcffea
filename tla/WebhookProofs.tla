---------------------------- MODULE WebhookProofs ----------------------------
(***************************************************************************)
(* Proofs about Webhook, and through it about CupStandings, for any        *)
(* members, keys and numbers of calls in progress.                         *)
(***************************************************************************)
EXTENDS Webhook, FiniteSetTheorems, TLAPS

\* What Webhook does to the variables of CupStandings.
Standings ==
  \/ StandingsNext
  \/ StandingsRestart
  \/ /\ UNCHANGED <<standing, period, call, event, ranking, history>>
     /\ started' \in {started, started + 1}

LEMMA NextStandings ==
  ASSUME [WebhookNext]_allVars
  PROVE  Standings
  <1>1. CASE UNCHANGED allVars
    BY <1>1 DEF allVars, vars, Standings
  <1>2. CASE StandingsNext \/ Restart
    BY <1>2 DEF Standings, Restart
  <1>3. CASE KeyNext
    BY <1>3 DEF KeyNext, ChangeKey, DeliverChange, Execute, Begin, Standings, vars
  <1>4. CASE PushNext
    BY <1>4 DEF PushNext, Store, ReadMessage, SendOk, SendError, DeleteMessage, Begin, Standings, vars
  <1> QED
    BY <1>1, <1>2, <1>3, <1>4 DEF WebhookNext

-----------------------------------------------------------------------------
(***************************************************************************)
(* Types.                                                                  *)
(***************************************************************************)
LEMMA PlaceType == Place \subseteq Nat
  <1>1. Cardinality(Member) \in Nat
    BY MemberAssumption, FS_CardinalityType
  <1> QED
    BY <1>1 DEF Place

LEMMA RateType ==
  ASSUME NEW initial \in Nat, NEW profit \in Int
  PROVE  Rate(initial, profit) \in Int
  BY DEF Rate

LEMMA AddedType ==
  ASSUME NEW row \in Row, NEW amount \in Int
  PROVE  /\ Added(row, amount) \in Row
         /\ Added(row, amount).profit = row.profit + amount
  <1>1. row.profit + amount \in Int /\ row.initial \in Nat
    BY DEF Row
  <1>2. Rate(row.initial, row.profit + amount) \in Int
    BY <1>1, RateType
  <1> QED
    BY <1>1, <1>2 DEF Added, Row

LEMMA FirstTimeType ==
  ASSUME NEW row \in Row, NEW value \in Nat
  PROVE  FirstTime(row, value) \in Row /\ FirstTime(row, value).profit = 0
  BY DEF FirstTime, NewRow, Row

\* A profit update in progress.
LEMMA CallType ==
  ASSUME TypeOK, NEW c \in Call, call[c].at # "idle"
  PROVE  call[c] \in [at : {"check", "write"}, member : Member, amount : Amount, row : Row, seen : Period]
  BY DEF TypeOK, CallState, NoCall

LEMMA EventUpdateType ==
  ASSUME TypeOK, NEW e \in Event, event[e].at = "update"
  PROVE  event[e].member \in Member /\ event[e].value \in Nat
  <1>1. event[e] \in EventState
    BY DEF TypeOK
  <1>2. event[e] \in [at : {"update"}, member : Member, value : Balance]
    BY <1>1 DEF EventState, NoEvent
  <1> QED
    BY <1>2, BalanceAssumption

LEMMA RankType ==
  ASSUME TypeOK, NEW r \in Ranking, ranking[r].at = "save"
  PROVE  ranking[r] \in [at : {"save"}, todo : SUBSET (Member \X Place), alone : BOOLEAN]
  BY DEF TypeOK, RankState, NoRanking

LEMMA TardyType ==
  ASSUME TypeOK, NEW late \in BOOLEAN, Tardy(late)
  PROVE  ranked' \in BOOLEAN /\ ranking' \in [Ranking -> RankState]
  <1>1. ranked' \in BOOLEAN
    BY DEF TypeOK, Tardy
  <1>2. ASSUME NEW r \in Ranking
        PROVE  (IF late /\ ranking[r].at = "save" THEN [ranking[r] EXCEPT !.alone = FALSE] ELSE ranking[r])
                 \in RankState
    <2>1. CASE late /\ ranking[r].at = "save"
      BY <2>1, RankType DEF RankState
    <2>2. CASE ~(late /\ ranking[r].at = "save")
      BY <2>2 DEF TypeOK
    <2> QED
      BY <2>1, <2>2
  <1> QED
    BY <1>1, <1>2 DEF Tardy

LEMMA SameCalls ==
  ASSUME TypeOK, UNCHANGED <<standing, period, call, event, ranking, history>>, started' \in Nat
  PROVE  TypeOK'
  BY DEF TypeOK, history, earned

LEMMA EventTypes ==
  ASSUME TypeOK, NEW e \in Event,
         (\E m \in Member : Deliver(e, m)) \/ FindBalance(e) \/ EventFails(e) \/ UpdateFirstTime(e)
  PROVE  TypeOK'
  <1>1. ASSUME NEW m \in Member, Deliver(e, m) PROVE TypeOK'
    <2>1. [at |-> "cup", member |-> m] \in EventState
      BY DEF EventState
    <2> QED
      BY <1>1, <2>1 DEF Deliver, Begin, history, earned, TypeOK
  <1>2. ASSUME FindBalance(e) PROVE TypeOK'
    <2>1. PICK value \in Balance :
            event' = [event EXCEPT ![e] = [at |-> "update", member |-> event[e].member, value |-> value]]
      BY <1>2 DEF FindBalance
    <2>2. event[e].member \in Member
      BY <1>2, MemberAssumption DEF FindBalance
    <2>3. [at |-> "update", member |-> event[e].member, value |-> value] \in EventState
      BY <2>2 DEF EventState
    <2> QED
      BY <1>2, <2>1, <2>3 DEF FindBalance, history, earned, TypeOK
  <1>3. NoEvent \in EventState
    BY DEF EventState
  <1>4. ASSUME EventFails(e) PROVE TypeOK'
    BY <1>3, <1>4 DEF EventFails, history, earned, TypeOK
  <1>5. ASSUME UpdateFirstTime(e) PROVE TypeOK'
    <2> DEFINE m == event[e].member
    <2>1. m \in Member /\ event[e].value \in Nat
      BY <1>5, EventUpdateType DEF UpdateFirstTime
    <2>2. FirstTime(standing[m], event[e].value) \in Row
      BY <2>1, FirstTimeType DEF TypeOK
    <2>3. ranked' \in BOOLEAN /\ ranking' \in [Ranking -> RankState]
      BY <1>5, TardyType DEF UpdateFirstTime
    <2>4. standing' \in [Member -> Row] /\ amiss' \subseteq Member
      BY <1>5, <2>1, <2>2 DEF UpdateFirstTime, TypeOK
    <2> QED
      BY <1>3, <1>5, <2>3, <2>4 DEF UpdateFirstTime, earned, TypeOK
  <1> QED
    BY <1>1, <1>2, <1>4, <1>5

LEMMA EarnedTypes ==
  ASSUME TypeOK, NEW m \in Member, NEW day \in Day, NEW amount \in Amount, Earned(m, day, amount)
  PROVE  /\ updated' \in [Member -> SUBSET Day] /\ due' \in [Member -> Int]
         /\ sums' \in [Member -> SUBSET Int] /\ repeated' \subseteq Member
  <1>1. amount \in Int
    BY AmountAssumption
  <1>2. CASE day \in updated[m]
    BY <1>2 DEF Earned, TypeOK
  <1>3. CASE day \notin updated[m]
    BY <1>1, <1>3 DEF Earned, TypeOK
  <1> QED
    BY <1>2, <1>3

LEMMA CallTypes ==
  ASSUME TypeOK, NEW c \in Call,
         (\E m \in Member : FindRow(c, m)) \/ CheckCup(c) \/ WriteBack(c) \/ CallFails(c)
  PROVE  TypeOK'
  <1>1. NoCall \in CallState
    BY DEF CallState
  <1>2. ASSUME NEW m \in Member, FindRow(c, m) PROVE TypeOK'
    <2>1. PICK day \in Day, amount \in Amount :
            /\ Earned(m, day, amount)
            /\ \/ /\ call' = [call EXCEPT ![c] =
                       [at |-> "check", member |-> m, amount |-> amount, row |-> standing[m], seen |-> period]]
                  /\ amiss' = IF CallsOf(m) = {} THEN amiss ELSE amiss \cup {m}
               \/ call' = call /\ amiss' = amiss \cup {m}
      BY <1>2 DEF FindRow
    <2>2. [at |-> "check", member |-> m, amount |-> amount, row |-> standing[m], seen |-> period]
            \in CallState
      BY DEF CallState, TypeOK
    <2>3. call' \in [Call -> CallState] /\ amiss' \subseteq Member
      BY <2>1, <2>2 DEF TypeOK
    <2>4. /\ updated' \in [Member -> SUBSET Day] /\ due' \in [Member -> Int]
          /\ sums' \in [Member -> SUBSET Int] /\ repeated' \subseteq Member
      BY <2>1, EarnedTypes
    <2>5. UNCHANGED <<standing, period, event, ranking, ranked>> /\ started' = started + 1
      BY <1>2 DEF FindRow, Begin
    <2> QED
      BY <2>3, <2>4, <2>5 DEF TypeOK
  <1>3. ASSUME CheckCup(c) PROVE TypeOK'
    <2>1. [call[c] EXCEPT !.at = "write", !.seen = period] \in CallState
      <3>1. call[c] \in [at : {"check", "write"}, member : Member, amount : Amount, row : Row, seen : Period]
        BY <1>3, CallType DEF CheckCup
      <3> QED
        BY <3>1 DEF CallState, TypeOK
    <2>2. call[c].member \in Member /\ call[c].amount \in Int
      BY <1>3, CallType, AmountAssumption DEF CheckCup
    <2>3. due' \in [Member -> Int]
      BY <1>3, <2>2 DEF CheckCup, TypeOK
    <2> QED
      BY <1>1, <1>3, <2>1, <2>3 DEF CheckCup, TypeOK
  <1>4. ASSUME WriteBack(c) PROVE TypeOK'
    <2> DEFINE m == call[c].member
    <2>1. m \in Member /\ call[c].amount \in Int /\ call[c].row \in Row
      BY <1>4, CallType, AmountAssumption DEF WriteBack
    <2>2. Added(call[c].row, call[c].amount) \in Row
      BY <2>1, AddedType
    <2>3. ranked' \in BOOLEAN /\ ranking' \in [Ranking -> RankState]
      BY <1>4, TardyType DEF WriteBack
    <2>4. standing' \in [Member -> Row]
      BY <1>4, <2>1, <2>2 DEF WriteBack, TypeOK
    <2> QED
      BY <1>1, <1>4, <2>3, <2>4 DEF WriteBack, earned, TypeOK
  <1>5. ASSUME CallFails(c) PROVE TypeOK'
    <2>1. call[c].member \in Member
      BY <1>5, CallType DEF CallFails
    <2> QED
      BY <1>1, <1>5, <2>1 DEF CallFails, earned, TypeOK
  <1> QED
    BY <1>2, <1>3, <1>4, <1>5

LEMMA RanksType ==
  ASSUME NEW f \in Orders
  PROVE  Ranks(f) \subseteq Member \X Place
  BY DEF Orders, Ranks

LEMMA RankTypes ==
  ASSUME TypeOK, NEW r \in Ranking,
         FindOrdered(r) \/ SaveRank(r) \/ SaveFails(r) \/ EndRanking(r)
  PROVE  TypeOK'
  <1>1. ASSUME FindOrdered(r) PROVE TypeOK'
    <2>1. PICK f \in Orders :
            ranking' = [ranking EXCEPT ![r] = [at |-> "save", todo |-> Ranks(f),
                          alone |-> \A s \in Ranking : ranking[s].at = "idle"]]
      BY <1>1 DEF FindOrdered
    <2> DEFINE free == \A s \in Ranking : ranking[s].at = "idle"
    <2>2. [at |-> "save", todo |-> Ranks(f), alone |-> free] \in RankState
      <3>1. free \in BOOLEAN
        OBVIOUS
      <3> HIDE DEF free
      <3> QED
        BY <3>1, RanksType DEF RankState
    <2> HIDE DEF free
    <2>3. ranking' \in [Ranking -> RankState]
      BY <2>1, <2>2 DEF TypeOK, free
    <2> QED
      <3>1. /\ ranked' = FALSE /\ started' = started + 1
            /\ UNCHANGED <<standing, period, call, event, earned, amiss>>
        BY <1>1 DEF FindOrdered, Begin
      <3>2. started' \in Nat
        BY <3>1 DEF TypeOK
      <3>3. ranked' \in BOOLEAN
        BY <3>1
      <3> QED
        BY <2>3, <3>1, <3>2, <3>3 DEF earned, TypeOK
  <1>2. ASSUME SaveRank(r) PROVE TypeOK'
    <2>1. PICK p \in ranking[r].todo :
            /\ standing' = [standing EXCEPT ![p[1]].rank = p[2]]
            /\ ranking' = [s \in Ranking |->
                 IF s = r THEN [ranking[r] EXCEPT !.todo = @ \ {p}]
                 ELSE IF ranking[s].at = "save" THEN [ranking[s] EXCEPT !.alone = FALSE]
                 ELSE ranking[s]]
      BY <1>2 DEF SaveRank
    <2>2. ranking[r].todo \subseteq Member \X Place
      BY <1>2, RankType DEF SaveRank
    <2>3. p[1] \in Member /\ p[2] \in Nat
      BY <2>2, PlaceType
    <2>4. standing' \in [Member -> Row]
      BY <2>1, <2>3 DEF TypeOK, Row
    <2>5. [ranking[r] EXCEPT !.todo = @ \ {p}] \in RankState
      BY <1>2, RankType DEF SaveRank, RankState
    <2>6. \A s \in Ranking : ranking[s].at = "save" => [ranking[s] EXCEPT !.alone = FALSE] \in RankState
      BY RankType DEF RankState
    <2>7. ranking' \in [Ranking -> RankState]
      BY <2>1, <2>5, <2>6 DEF TypeOK
    <2> QED
      BY <1>2, <2>4, <2>7 DEF SaveRank, history, earned, TypeOK
  <1>3. ASSUME SaveFails(r) PROVE TypeOK'
    <2>1. PICK p \in ranking[r].todo :
            ranking' = [ranking EXCEPT ![r] = [ranking[r] EXCEPT !.todo = @ \ {p}, !.alone = FALSE]]
      BY <1>3 DEF SaveFails
    <2>2. [ranking[r] EXCEPT !.todo = @ \ {p}, !.alone = FALSE] \in RankState
      BY <1>3, RankType DEF SaveFails, RankState
    <2> QED
      <3>1. ranking' \in [Ranking -> RankState]
        BY <2>1, <2>2 DEF TypeOK
      <3> QED
        BY <1>3, <3>1 DEF SaveFails, history, earned, TypeOK
  <1>4. ASSUME EndRanking(r) PROVE TypeOK'
    <2>1. NoRanking \in RankState
      BY DEF RankState
    <2>2. ranking[r].alone \in BOOLEAN
      BY <1>4, RankType DEF EndRanking
    <2> QED
      BY <1>4, <2>1, <2>2 DEF EndRanking, earned, TypeOK
  <1> QED
    BY <1>1, <1>2, <1>3, <1>4

LEMMA StandingsType ==
  ASSUME TypeOK, Standings
  PROVE  TypeOK'
  <1>1. ASSUME CupTime PROVE TypeOK'
    BY <1>1 DEF CupTime, history, earned, TypeOK, Period
  <1>2. ASSUME StandingsRestart PROVE TypeOK'
    <2>1. amiss' \subseteq Member
      BY <1>2, CallType DEF StandingsRestart, TypeOK
    <2> QED
      BY <1>2, <2>1 DEF StandingsRestart, earned, TypeOK, CallState, EventState, RankState
  <1>3. ASSUME StandingsNext PROVE TypeOK'
    BY <1>1, <1>3, EventTypes, CallTypes, RankTypes DEF StandingsNext
  <1>4. CASE /\ UNCHANGED <<standing, period, call, event, ranking, history>>
             /\ started' \in {started, started + 1}
    BY <1>4, SameCalls DEF TypeOK
  <1> QED
    BY <1>2, <1>3, <1>4 DEF Standings

LEMMA InitStandings == Init => TypeOK
  <1> SUFFICES ASSUME Init PROVE TypeOK
    OBVIOUS
  <1>1. NewRow \in Row
    BY DEF NewRow, Row
  <1>2. NoCall \in CallState /\ NoEvent \in EventState /\ NoRanking \in RankState
    BY DEF CallState, EventState, RankState
  <1>3. ranked \in BOOLEAN
    BY DEF Init
  <1> QED
    BY <1>1, <1>2, <1>3 DEF Init, TypeOK, Period

-----------------------------------------------------------------------------
(***************************************************************************)
(* ProfitsAddUp and NoProfitTwice, member by member.  What a call read and *)
(* what it brings make one of the sums; and while nothing is amiss, the    *)
(* one call in progress read what the table still shows, and brings what   *)
(* is missing there.                                                       *)
(***************************************************************************)
Books(m) ==
  /\ 0 \in sums[m]
  /\ updated[m] = {} => CallsOf(m) = {} /\ due[m] = 0
  /\ m \notin repeated =>
       /\ standing[m].profit \in sums[m]
       /\ \A c \in CallsOf(m) : call[c].row.profit + call[c].amount \in sums[m]
  /\ m \notin amiss \cup repeated =>
       /\ CallsOf(m) = {} => standing[m].profit = due[m]
       /\ \A c \in CallsOf(m) : /\ CallsOf(m) = {c}
                                /\ call[c].row.profit = standing[m].profit
                                /\ standing[m].profit + call[c].amount = due[m]

ProfitInv == TypeOK /\ \A m \in Member : Books(m)

LEMMA InitProfit == Init => ProfitInv
  <1> SUFFICES ASSUME Init, NEW m \in Member PROVE Books(m)
    BY InitStandings DEF ProfitInv
  <1>1. CallsOf(m) = {}
    BY DEF Init, NoCall, CallsOf
  <1> QED
    BY <1>1 DEF Init, NewRow, Books

\* A member whose row no step of a call touches.
LEMMA BooksStay ==
  ASSUME NEW m \in Member, Books(m),
         standing'[m].profit = standing[m].profit,
         due'[m] = due[m], sums'[m] = sums[m], updated'[m] = updated[m],
         m \in amiss => m \in amiss', m \in repeated => m \in repeated',
         CallsOf(m)' = CallsOf(m),
         \A c \in CallsOf(m) : call'[c].row = call[c].row /\ call'[c].amount = call[c].amount
  PROVE  Books(m)'
  <1>1. (0 \in sums[m])' /\ (updated[m] = {} => CallsOf(m) = {} /\ due[m] = 0)'
    BY DEF Books
  <1>2. (m \notin repeated =>
           /\ standing[m].profit \in sums[m]
           /\ \A c \in CallsOf(m) : call[c].row.profit + call[c].amount \in sums[m])'
    BY DEF Books
  <1>3. (m \notin amiss \cup repeated =>
           /\ CallsOf(m) = {} => standing[m].profit = due[m]
           /\ \A c \in CallsOf(m) : /\ CallsOf(m) = {c}
                                    /\ call[c].row.profit = standing[m].profit
                                    /\ standing[m].profit + call[c].amount = due[m])'
    BY DEF Books
  <1> QED
    BY <1>1, <1>2, <1>3 DEF Books

\* No profit is written, and no call begins or ends.
LEMMA NoWrite ==
  ASSUME ProfitInv, TypeOK', UNCHANGED <<call, earned, amiss>>,
         \A m \in Member : standing'[m].profit = standing[m].profit
  PROVE  ProfitInv'
  <1>1. \A m \in Member : CallsOf(m)' = CallsOf(m)
    BY DEF CallsOf
  <1> QED
    BY <1>1, BooksStay DEF ProfitInv, earned

\* The calls of one member change; those of the others are as they were.
LEMMA OtherCalls ==
  ASSUME NEW c \in Call, NEW m \in Member, NEW n \in Member \ {m},
         \A d \in Call \ {c} : call'[d] = call[d],
         call[c].at = "idle" \/ call[c].member = m,
         call'[c].at = "idle" \/ call'[c].member = m
  PROVE  /\ CallsOf(n)' = CallsOf(n)
         /\ \A d \in CallsOf(n) : call'[d] = call[d]
  BY DEF CallsOf

LEMMA FindRowProfit ==
  ASSUME ProfitInv, TypeOK', NEW c \in Call, NEW m \in Member, FindRow(c, m)
  PROVE  ProfitInv'
  <1>1. PICK day \in Day, amount \in Amount :
          /\ Earned(m, day, amount)
          /\ \/ /\ call' = [call EXCEPT ![c] =
                     [at |-> "check", member |-> m, amount |-> amount, row |-> standing[m], seen |-> period]]
                /\ amiss' = IF CallsOf(m) = {} THEN amiss ELSE amiss \cup {m}
             \/ call' = call /\ amiss' = amiss \cup {m}
    BY DEF FindRow
  <1>2. amount \in Int /\ standing[m].profit \in Int /\ due[m] \in Int /\ sums[m] \subseteq Int
    BY AmountAssumption DEF ProfitInv, TypeOK, Row
  <1>3. call[c].at = "idle" /\ standing' = standing
    BY DEF FindRow
  <1>4. /\ \A d \in Call \ {c} : call'[d] = call[d]
        /\ call'[c].at = "idle" \/ call'[c].member = m
    BY <1>1, <1>3 DEF ProfitInv, TypeOK
  <1>5. /\ \A n \in Member \ {m} :
             due'[n] = due[n] /\ sums'[n] = sums[n] /\ updated'[n] = updated[n]
        /\ repeated \subseteq repeated' /\ amiss \subseteq amiss'
    BY <1>1 DEF Earned, ProfitInv, TypeOK
  <1>6. ASSUME NEW n \in Member \ {m} PROVE Books(n)'
    <2>1. CallsOf(n)' = CallsOf(n) /\ \A d \in CallsOf(n) : call'[d] = call[d]
      BY <1>3, <1>4, OtherCalls
    <2> QED
      BY <1>3, <1>5, <2>1, BooksStay DEF ProfitInv
  <1>7. Books(m)'
    <2>1. sums[m] \subseteq sums'[m] /\ updated'[m] # {}
      BY <1>1 DEF Earned, ProfitInv, TypeOK
    <2>2. 0 \in sums'[m]
      BY <2>1 DEF ProfitInv, Books
    <2>3. m \notin repeated' => /\ m \notin repeated
                                /\ due'[m] = due[m] + amount
                                /\ sums'[m] = sums[m] \cup {s + amount : s \in sums[m]}
      BY <1>1 DEF Earned, ProfitInv, TypeOK
    <2>4. \A d \in CallsOf(m)' : \/ d \in CallsOf(m) /\ call'[d] = call[d]
                                 \/ d = c /\ call'[c].row = standing[m] /\ call'[c].amount = amount
      BY <1>1, <1>3, <1>4 DEF CallsOf, ProfitInv, TypeOK
    <2>5. ASSUME m \notin repeated'
          PROVE  /\ standing[m].profit \in sums'[m]
                 /\ \A d \in CallsOf(m)' : call'[d].row.profit + call'[d].amount \in sums'[m]
      <3>1. /\ standing[m].profit \in sums[m]
            /\ \A d \in CallsOf(m) : call[d].row.profit + call[d].amount \in sums[m]
        BY <2>3, <2>5 DEF ProfitInv, Books
      <3>2. standing[m].profit + amount \in sums'[m]
        BY <2>3, <2>5, <3>1
      <3> QED
        BY <2>1, <2>4, <3>1, <3>2
    <2>6. ASSUME m \notin amiss' \cup repeated'
          PROVE  /\ CallsOf(m)' = {c}
                 /\ call'[c].row = standing[m] /\ call'[c].amount = amount
                 /\ standing[m].profit + amount = due'[m]
      <3>1. /\ CallsOf(m) = {} /\ m \notin amiss
            /\ call' = [call EXCEPT ![c] =
                 [at |-> "check", member |-> m, amount |-> amount, row |-> standing[m], seen |-> period]]
        BY <1>1, <2>6
      <3>2. /\ call'[c].at = "check" /\ call'[c].member = m
            /\ call'[c].row = standing[m] /\ call'[c].amount = amount
        BY <3>1 DEF ProfitInv, TypeOK
      <3>3. CallsOf(m)' = {c}
        BY <1>4, <3>1, <3>2 DEF CallsOf
      <3>4. standing[m].profit = due[m]
        BY <2>3, <2>6, <3>1 DEF ProfitInv, Books
      <3> QED
        BY <2>3, <2>6, <3>2, <3>3, <3>4
    <2>7. (m \notin amiss \cup repeated =>
             /\ CallsOf(m) = {} => standing[m].profit = due[m]
             /\ \A d \in CallsOf(m) : /\ CallsOf(m) = {d}
                                      /\ call[d].row.profit = standing[m].profit
                                      /\ standing[m].profit + call[d].amount = due[m])'
      BY <1>3, <2>6
    <2> QED
      BY <1>3, <2>1, <2>2, <2>5, <2>7 DEF Books
  <1> QED
    BY <1>6, <1>7 DEF ProfitInv

\* What the checks and the write of a call's row start from.
LEMMA CallFacts ==
  ASSUME ProfitInv, NEW c \in Call, call[c].at # "idle"
  PROVE  /\ call[c].member \in Member /\ call[c].amount \in Int /\ call[c].row \in Row
         /\ call[c].row.profit \in Int
         /\ standing[call[c].member].profit \in Int /\ due[call[c].member] \in Int
         /\ c \in CallsOf(call[c].member)
         /\ updated[call[c].member] # {}
  <1>1. /\ call[c].member \in Member /\ call[c].amount \in Int /\ call[c].row \in Row
    BY CallType, AmountAssumption DEF ProfitInv
  <1>2. c \in CallsOf(call[c].member)
    BY DEF CallsOf
  <1>3. updated[call[c].member] # {}
    BY <1>1, <1>2 DEF ProfitInv, Books
  <1> QED
    BY <1>1, <1>2, <1>3 DEF ProfitInv, TypeOK, Row

\* A call that ends, in whatever way: the books of its member must balance, the others stay.
LEMMA CallEnds ==
  ASSUME ProfitInv, TypeOK', NEW c \in Call, NEW m \in Member,
         call[c].at # "idle", call[c].member = m, call' = [call EXCEPT ![c] = NoCall],
         UNCHANGED <<updated, sums, repeated>>, amiss \subseteq amiss',
         \A n \in Member \ {m} : standing'[n] = standing[n] /\ due'[n] = due[n],
         m \notin repeated => standing'[m].profit \in sums[m],
         m \notin amiss' \cup repeated => standing'[m].profit = due'[m]
  PROVE  ProfitInv'
  <1>1. /\ \A d \in Call \ {c} : call'[d] = call[d]
        /\ call'[c].at = "idle"
    BY DEF NoCall, ProfitInv, TypeOK
  <1>2. ASSUME NEW n \in Member \ {m} PROVE Books(n)'
    <2>1. CallsOf(n)' = CallsOf(n) /\ \A d \in CallsOf(n) : call'[d] = call[d]
      BY <1>1, OtherCalls
    <2> QED
      BY <2>1, BooksStay DEF ProfitInv
  <1>3. Books(m)'
    <2>1. CallsOf(m)' = CallsOf(m) \ {c}
      BY <1>1 DEF CallsOf
    <2>2. \A d \in CallsOf(m)' : call'[d] = call[d]
      BY <1>1, <2>1 DEF CallsOf
    <2>3. 0 \in sums'[m] /\ updated'[m] # {}
      BY CallFacts DEF ProfitInv, Books
    <2>4. \A d \in CallsOf(m)' : m \notin repeated => call'[d].row.profit + call'[d].amount \in sums'[m]
      BY <2>1, <2>2 DEF ProfitInv, Books
    <2>5. m \notin amiss' \cup repeated' => CallsOf(m)' = {}
      <3>1. c \in CallsOf(m)
        BY CallFacts
      <3> QED
        BY <2>1, <3>1 DEF ProfitInv, Books
    <2> QED
      BY <2>3, <2>4, <2>5 DEF Books
  <1> QED
    BY <1>2, <1>3 DEF ProfitInv

LEMMA CheckCupProfit ==
  ASSUME ProfitInv, TypeOK', NEW c \in Call, CheckCup(c)
  PROVE  ProfitInv'
  <1> DEFINE m == call[c].member
  <1>1. call[c].at # "idle" /\ UNCHANGED <<standing, updated, sums, repeated, amiss>>
    BY DEF CheckCup
  <1>2. m \in Member /\ call[c].amount \in Int /\ standing[m].profit \in Int /\ due[m] \in Int
        /\ c \in CallsOf(m)
    BY <1>1, CallFacts
  <1>3. CASE Running
    <2>1. call[c] \in [at : {"check", "write"}, member : Member, amount : Amount, row : Row, seen : Period]
      BY <1>1, CallType DEF ProfitInv
    <2>2. call' = [call EXCEPT ![c] = [call[c] EXCEPT !.at = "write", !.seen = period]] /\ due' = due
      BY <1>3 DEF CheckCup
    <2>3. /\ \A d \in Call \ {c} : call'[d] = call[d]
          /\ call'[c].at # "idle" /\ call'[c].member = call[c].member
          /\ call'[c].row = call[c].row /\ call'[c].amount = call[c].amount
      BY <2>1, <2>2 DEF ProfitInv, TypeOK
    <2>4. \A n \in Member : CallsOf(n)' = CallsOf(n)
      BY <1>1, <2>3 DEF CallsOf
    <2>5. \A d \in Call : call'[d].row = call[d].row /\ call'[d].amount = call[d].amount
      BY <2>3
    <2>6. \A n \in Member : \A d \in CallsOf(n) : call'[d].row = call[d].row /\ call'[d].amount = call[d].amount
      BY <2>5 DEF CallsOf
    <2> QED
      BY <1>1, <2>2, <2>4, <2>6, BooksStay DEF ProfitInv
  <1>4. CASE ~Running
    <2>1. call' = [call EXCEPT ![c] = NoCall] /\ due' = [due EXCEPT ![m] = @ - call[c].amount]
      BY <1>4 DEF CheckCup
    <2>2. /\ due'[m] = due[m] - call[c].amount
          /\ \A n \in Member \ {m} : due'[n] = due[n]
      BY <1>2, <2>1 DEF ProfitInv, TypeOK
    <2>3. m \notin repeated => standing[m].profit \in sums[m]
      BY <1>2 DEF ProfitInv, Books
    <2>4. m \notin amiss \cup repeated => standing[m].profit + call[c].amount = due[m]
      BY <1>2 DEF ProfitInv, Books
    <2>5. m \notin amiss \cup repeated => standing[m].profit = due'[m]
      BY <1>2, <2>2, <2>4
    <2> HIDE DEF m
    <2> QED
      BY <1>1, <1>2, <2>1, <2>2, <2>3, <2>5, CallEnds DEF m
  <1> QED
    BY <1>3, <1>4

LEMMA WriteBackProfit ==
  ASSUME ProfitInv, TypeOK', NEW c \in Call, WriteBack(c)
  PROVE  ProfitInv'
  <1> DEFINE m == call[c].member
             a == call[c].amount
  <1>1. /\ call[c].at # "idle" /\ call' = [call EXCEPT ![c] = NoCall]
        /\ UNCHANGED <<updated, due, sums, repeated, amiss>>
    BY DEF WriteBack, earned
  <1>2. /\ m \in Member /\ a \in Int /\ call[c].row \in Row /\ c \in CallsOf(m)
        /\ standing[m].profit \in Int
    BY <1>1, CallFacts
  <1>3. /\ standing'[m].profit = call[c].row.profit + a
        /\ \A n \in Member \ {m} : standing'[n] = standing[n]
    BY <1>2, AddedType DEF WriteBack, ProfitInv, TypeOK
  <1>4. m \notin repeated => standing'[m].profit \in sums[m]
    BY <1>2, <1>3 DEF ProfitInv, Books
  <1>5. m \notin amiss \cup repeated => standing'[m].profit = due[m]
    BY <1>2, <1>3 DEF ProfitInv, Books
  <1> QED
    BY <1>1, <1>2, <1>3, <1>4, <1>5, CallEnds

LEMMA CallFailsProfit ==
  ASSUME ProfitInv, TypeOK', NEW c \in Call, CallFails(c)
  PROVE  ProfitInv'
  <1> DEFINE m == call[c].member
  <1>1. /\ call[c].at # "idle" /\ call' = [call EXCEPT ![c] = NoCall]
        /\ UNCHANGED <<standing, updated, due, sums, repeated>>
        /\ amiss' = amiss \cup {m}
    BY DEF CallFails, earned
  <1>2. m \in Member
    BY <1>1, CallFacts
  <1>3. m \notin repeated => standing'[m].profit \in sums[m]
    BY <1>1, <1>2 DEF ProfitInv, Books
  <1> QED
    BY <1>1, <1>2, <1>3, CallEnds

LEMMA RestartProfit ==
  ASSUME ProfitInv, TypeOK', StandingsRestart
  PROVE  ProfitInv'
  <1>1. /\ UNCHANGED <<standing, updated, due, sums, repeated>>
        /\ amiss' = amiss \cup {call[c].member : c \in {d \in Call : call[d].at # "idle"}}
        /\ \A c \in Call : call'[c].at = "idle"
    BY DEF StandingsRestart, earned, NoCall
  <1> SUFFICES ASSUME NEW m \in Member PROVE Books(m)'
    BY DEF ProfitInv
  <1>2. CallsOf(m)' = {}
    BY <1>1 DEF CallsOf
  <1>3. m \notin amiss' => m \notin amiss /\ CallsOf(m) = {}
    BY <1>1 DEF CallsOf
  <1> QED
    BY <1>1, <1>2, <1>3 DEF ProfitInv, Books

LEMMA UpdateFirstTimeProfit ==
  ASSUME ProfitInv, TypeOK', NEW e \in Event, UpdateFirstTime(e)
  PROVE  ProfitInv'
  <1>0. event[e].member \in Member /\ event[e].value \in Nat
    BY EventUpdateType DEF UpdateFirstTime, ProfitInv
  <1>1. PICK m \in Member : m = event[e].member
    BY <1>0
  <1>2. /\ standing'[m].profit = 0
        /\ \A n \in Member \ {m} : standing'[n] = standing[n]
    BY <1>0, <1>1, FirstTimeType DEF UpdateFirstTime, ProfitInv, TypeOK
  <1>3. UNCHANGED <<call, updated, due, sums, repeated>> /\ amiss \subseteq amiss'
    BY DEF UpdateFirstTime, earned
  <1>4. \A n \in Member : CallsOf(n)' = CallsOf(n)
    BY <1>3 DEF CallsOf
  <1>5. m \notin amiss' => updated[m] = {}
    BY <1>1 DEF UpdateFirstTime
  <1>6. Books(m)'
    <2>1. 0 \in sums[m] /\ (updated[m] = {} => CallsOf(m) = {} /\ due[m] = 0)
      BY <1>1 DEF ProfitInv, Books
    <2>2. m \notin repeated => \A c \in CallsOf(m) : call[c].row.profit + call[c].amount \in sums[m]
      BY <1>1 DEF ProfitInv, Books
    <2>3. m \notin amiss' => CallsOf(m) = {} /\ standing'[m].profit = due[m]
      BY <1>2, <1>5, <2>1
    <2>4. CallsOf(m)' = CallsOf(m)
      BY <1>1, <1>4
    <2>5. (m \notin repeated =>
             /\ standing[m].profit \in sums[m]
             /\ \A c \in CallsOf(m) : call[c].row.profit + call[c].amount \in sums[m])'
      BY <1>2, <1>3, <2>1, <2>2, <2>4
    <2>6. (m \notin amiss \cup repeated =>
             /\ CallsOf(m) = {} => standing[m].profit = due[m]
             /\ \A c \in CallsOf(m) : /\ CallsOf(m) = {c}
                                      /\ call[c].row.profit = standing[m].profit
                                      /\ standing[m].profit + call[c].amount = due[m])'
      BY <1>3, <2>3, <2>4
    <2> QED
      BY <1>3, <2>1, <2>4, <2>5, <2>6 DEF Books
  <1>7. ASSUME NEW n \in Member \ {m} PROVE Books(n)'
    <2>1. CallsOf(n)' = CallsOf(n) /\ standing'[n] = standing[n] /\ Books(n)
      BY <1>2, <1>4 DEF ProfitInv
    <2> QED
      BY <1>3, <2>1, BooksStay
  <1> QED
    BY <1>6, <1>7 DEF ProfitInv

LEMMA SaveRankProfit ==
  ASSUME TypeOK, NEW r \in Ranking, SaveRank(r)
  PROVE  \A m \in Member : /\ standing'[m].profit = standing[m].profit
                           /\ standing'[m].rate = standing[m].rate
  <1>1. PICK p \in ranking[r].todo : standing' = [standing EXCEPT ![p[1]].rank = p[2]]
    BY DEF SaveRank
  <1> QED
    BY <1>1 DEF TypeOK, Row

LEMMA StandingsProfit ==
  ASSUME ProfitInv, Standings
  PROVE  ProfitInv'
  <1>1. TypeOK'
    BY StandingsType DEF ProfitInv
  <1>2. ASSUME UNCHANGED <<standing, call, earned, amiss>> PROVE ProfitInv'
    BY <1>1, <1>2, NoWrite
  <1>3. ASSUME NEW r \in Ranking, SaveRank(r) PROVE ProfitInv'
    <2>1. UNCHANGED <<call, earned, amiss>>
      BY <1>3 DEF SaveRank, history, earned
    <2> QED
      BY <1>1, <1>3, <2>1, SaveRankProfit, NoWrite DEF ProfitInv
  <1>4. CASE \E e \in Event : (\E m \in Member : Deliver(e, m)) \/ FindBalance(e) \/ EventFails(e)
    BY <1>2, <1>4 DEF Deliver, FindBalance, EventFails, history, earned
  <1>5. CASE \E r \in Ranking : FindOrdered(r) \/ SaveFails(r) \/ EndRanking(r)
    BY <1>2, <1>5 DEF FindOrdered, SaveFails, EndRanking, history, earned
  <1>6. CASE CupTime
    BY <1>2, <1>6 DEF CupTime, history, earned
  <1>7. CASE StandingsNext
    BY <1>1, <1>3, <1>4, <1>5, <1>6, <1>7, UpdateFirstTimeProfit, FindRowProfit, CheckCupProfit,
       WriteBackProfit, CallFailsProfit DEF StandingsNext
  <1>8. CASE StandingsRestart
    BY <1>1, <1>8, RestartProfit
  <1>9. CASE /\ UNCHANGED <<standing, period, call, event, ranking, history>>
             /\ started' \in {started, started + 1}
    BY <1>2, <1>9 DEF history, earned
  <1> QED
    BY <1>7, <1>8, <1>9 DEF Standings

\* Once its updates have ended, a row's profit is all that was earned on the days they
\* found within the cup's time, unless two of them overlapped, one failed or was lost,
\* a day came twice, or the event of the join was handled after one had begun.
THEOREM ProfitsAdded == WebhookSpec => []ProfitsAddUp
  <1>1. ProfitInv => ProfitsAddUp
    BY DEF ProfitInv, Books, ProfitsAddUp
  <1>2. WebhookInit => ProfitInv
    BY InitProfit DEF WebhookInit
  <1>3. ProfitInv /\ [WebhookNext]_allVars => ProfitInv'
    BY NextStandings, StandingsProfit
  <1> QED
    BY <1>1, <1>2, <1>3, PTL DEF WebhookSpec

\* However profit updates overlap, fail and are lost, no day's profit is in a row twice
\* as long as no day is given to the code twice.
THEOREM ProfitsOnce == WebhookSpec => []NoProfitTwice
  <1>1. ProfitInv => NoProfitTwice
    BY DEF ProfitInv, Books, NoProfitTwice
  <1>2. WebhookInit => ProfitInv
    BY InitProfit DEF WebhookInit
  <1>3. ProfitInv /\ [WebhookNext]_allVars => ProfitInv'
    BY NextStandings, StandingsProfit
  <1> QED
    BY <1>1, <1>2, <1>3, PTL DEF WebhookSpec

-----------------------------------------------------------------------------
(***************************************************************************)
(* RanksFollowRates.  Once the cup has ended, every change of a rate is    *)
(* tardy.  So as long as a rank job is alone, the rates are those it read, *)
(* and each rank is saved or still to save.                                *)
(***************************************************************************)
WritesWereChecked == \A c \in Call : call[c].at = "write" => call[c].seen = "running"

RankedAfterEnd ==
  ranked \/ (\E r \in Ranking : ranking[r].at = "save") => period = "ended"

AloneFollows ==
  \A r \in Ranking : ranking[r].at = "save" /\ ranking[r].alone =>
    \E f \in Orders :
      /\ ranking[r].todo \subseteq Ranks(f)
      /\ \A m \in Member : <<m, f[m]>> \in ranking[r].todo \/ standing[m].rank = f[m]

RankedFollows ==
  ranked => /\ \A r \in Ranking : ranking[r].at = "idle"
            /\ \E f \in Orders : \A m \in Member : standing[m].rank = f[m]

RankInv == TypeOK /\ WritesWereChecked /\ RankedAfterEnd /\ AloneFollows /\ RankedFollows

LEMMA InitRank == Init => RankInv
  BY InitStandings DEF Init, RankInv, WritesWereChecked, RankedAfterEnd, AloneFollows,
     RankedFollows, NoCall, NoRanking

\* The orders depend on the rates alone.
LEMMA SameOrders ==
  ASSUME \A m \in Member : standing'[m].rate = standing[m].rate
  PROVE  Orders' = Orders
  <1>1. \A m, n \in Member : Ahead(m, n)' <=> Ahead(m, n)
    BY DEF Ahead
  <1> QED
    BY <1>1 DEF Orders

\* Neither the rows nor the rank jobs are concerned.
LEMMA NoRanks ==
  ASSUME RankInv, TypeOK', WritesWereChecked', UNCHANGED <<standing, ranking, ranked>>,
         period = "ended" => period' = "ended"
  PROVE  RankInv'
  <1>1. Orders' = Orders
    BY SameOrders
  <1>2. RankedAfterEnd'
    BY DEF RankInv, RankedAfterEnd
  <1>3. AloneFollows' /\ RankedFollows'
    BY <1>1 DEF RankInv, AloneFollows, RankedFollows
  <1> QED
    BY <1>2, <1>3 DEF RankInv

\* A row is written: either the cup runs, and there are no ranks yet, or the write is tardy.
LEMMA TardyRanks ==
  ASSUME RankInv, TypeOK', WritesWereChecked', period' = period,
         NEW late \in BOOLEAN, late <=> period = "ended", Tardy(late)
  PROVE  RankInv'
  <1>1. CASE period = "ended"
    <2>1. ranked' = FALSE
      BY <1>1 DEF Tardy
    <2>2. \A r \in Ranking : ranking'[r].at = "save" => ~ranking'[r].alone
      <3> SUFFICES ASSUME NEW r \in Ranking, ranking'[r].at = "save" PROVE ~ranking'[r].alone
        OBVIOUS
      <3>1. ranking'[r] = IF ranking[r].at = "save" THEN [ranking[r] EXCEPT !.alone = FALSE] ELSE ranking[r]
        BY <1>1 DEF Tardy
      <3>2. ranking[r].at = "save"
        BY <3>1
      <3>3. ranking[r] \in [at : {"save"}, todo : SUBSET (Member \X Place), alone : BOOLEAN]
        BY <3>2, RankType DEF RankInv
      <3> QED
        BY <3>1, <3>2, <3>3
    <2>3. RankedAfterEnd'
      BY <1>1, <2>1 DEF RankedAfterEnd
    <2>4. AloneFollows' /\ RankedFollows'
      BY <2>1, <2>2 DEF AloneFollows, RankedFollows
    <2> QED
      BY <2>3, <2>4 DEF RankInv
  <1>2. CASE period # "ended"
    <2>1. ~ranked /\ \A r \in Ranking : ranking[r].at # "save"
      BY <1>2 DEF RankInv, RankedAfterEnd
    <2>2. ~ranked'
      BY <2>1 DEF Tardy
    <2>3. \A r \in Ranking : ranking'[r] = ranking[r]
      BY <2>1 DEF Tardy
    <2>4. RankedAfterEnd' /\ AloneFollows' /\ RankedFollows'
      BY <2>1, <2>2, <2>3 DEF RankedAfterEnd, AloneFollows, RankedFollows
    <2> QED
      BY <2>4 DEF RankInv
  <1> QED
    BY <1>1, <1>2

LEMMA WriteBackRanks ==
  ASSUME RankInv, TypeOK', NEW c \in Call, WriteBack(c)
  PROVE  RankInv'
  <1>1. call[c].seen = "running"
    BY DEF WriteBack, RankInv, WritesWereChecked
  <1>2. call'[c] = NoCall /\ \A d \in Call \ {c} : call'[d] = call[d]
    BY DEF WriteBack, RankInv, TypeOK
  <1>3. WritesWereChecked'
    BY <1>2 DEF RankInv, WritesWereChecked, NoCall
  <1> DEFINE late == period = "ended" /\ call[c].seen = "running"
  <1>4. Tardy(late) /\ period' = period
    BY DEF WriteBack
  <1>5. late \in BOOLEAN /\ (late <=> period = "ended")
    BY <1>1
  <1> HIDE DEF late
  <1> QED
    BY <1>3, <1>4, <1>5, TardyRanks

LEMMA UpdateFirstTimeRanks ==
  ASSUME RankInv, TypeOK', NEW e \in Event, UpdateFirstTime(e)
  PROVE  RankInv'
  <1> DEFINE late == period = "ended"
  <1>1. Tardy(late) /\ period' = period /\ call' = call
    BY DEF UpdateFirstTime
  <1>2. late \in BOOLEAN /\ (late <=> period = "ended")
    OBVIOUS
  <1> HIDE DEF late
  <1>3. WritesWereChecked'
    BY <1>1 DEF RankInv, WritesWereChecked
  <1> QED
    BY <1>1, <1>2, <1>3, TardyRanks

LEMMA FindOrderedRanks ==
  ASSUME RankInv, TypeOK', NEW r \in Ranking, FindOrdered(r)
  PROVE  RankInv'
  <1>1. PICK f \in Orders :
          ranking' = [ranking EXCEPT ![r] = [at |-> "save", todo |-> Ranks(f),
                        alone |-> \A s \in Ranking : ranking[s].at = "idle"]]
    BY DEF FindOrdered
  <1>2. UNCHANGED <<standing, period, call>> /\ ranked' = FALSE /\ period = "ended"
    BY DEF FindOrdered
  <1>3. Orders' = Orders
    BY <1>2, SameOrders
  <1>4. /\ ranking'[r].todo = Ranks(f)
        /\ \A s \in Ranking \ {r} : ranking'[s] = ranking[s]
    BY <1>1 DEF RankInv, TypeOK
  <1>5. AloneFollows'
    <2> SUFFICES ASSUME NEW s \in Ranking, ranking'[s].at = "save", ranking'[s].alone
                 PROVE  \E g \in Orders :
                          /\ ranking'[s].todo \subseteq Ranks(g)
                          /\ \A m \in Member : <<m, g[m]>> \in ranking'[s].todo \/ standing[m].rank = g[m]
      BY <1>2, <1>3 DEF AloneFollows, Ranks
    <2>1. CASE s = r
      BY <1>4, <2>1 DEF Ranks
    <2>2. CASE s # r
      BY <1>4, <2>2 DEF RankInv, AloneFollows
    <2> QED
      BY <2>1, <2>2
  <1>6. WritesWereChecked' /\ RankedAfterEnd' /\ RankedFollows'
    BY <1>2 DEF RankInv, WritesWereChecked, RankedAfterEnd, RankedFollows
  <1> QED
    BY <1>5, <1>6 DEF RankInv

LEMMA SaveRankRanks ==
  ASSUME RankInv, TypeOK', NEW r \in Ranking, SaveRank(r)
  PROVE  RankInv'
  <1>1. PICK p \in ranking[r].todo :
          /\ standing' = [standing EXCEPT ![p[1]].rank = p[2]]
          /\ ranking' = [s \in Ranking |->
               IF s = r THEN [ranking[r] EXCEPT !.todo = @ \ {p}]
               ELSE IF ranking[s].at = "save" THEN [ranking[s] EXCEPT !.alone = FALSE]
               ELSE ranking[s]]
    BY DEF SaveRank
  <1>2. UNCHANGED <<period, call, ranked>> /\ ranking[r].at = "save"
    BY DEF SaveRank, history, earned
  <1>3. Orders' = Orders
    BY SaveRankProfit, SameOrders DEF RankInv
  <1>4. ~ranked /\ period = "ended"
    BY <1>2 DEF RankInv, RankedFollows, RankedAfterEnd
  <1>5. ranking[r] \in [at : {"save"}, todo : SUBSET (Member \X Place), alone : BOOLEAN]
    BY <1>2, RankType DEF RankInv
  <1>6. p \in Member \X Place
    BY <1>5
  <1>7. /\ standing'[p[1]].rank = p[2]
        /\ \A m \in Member \ {p[1]} : standing'[m] = standing[m]
    BY <1>1, <1>6 DEF RankInv, TypeOK, Row
  <1>8. /\ ranking'[r].todo = ranking[r].todo \ {p}
        /\ ranking'[r].alone = ranking[r].alone
    BY <1>1, <1>5
  <1>9. AloneFollows'
    <2> SUFFICES ASSUME NEW s \in Ranking, ranking'[s].at = "save", ranking'[s].alone
                 PROVE  \E g \in Orders :
                          /\ ranking'[s].todo \subseteq Ranks(g)
                          /\ \A m \in Member : <<m, g[m]>> \in ranking'[s].todo \/ standing'[m].rank = g[m]
      BY <1>3 DEF AloneFollows, Ranks
    <2>1. CASE s = r
      <3>1. PICK f \in Orders :
              /\ ranking[r].todo \subseteq Ranks(f)
              /\ \A m \in Member : <<m, f[m]>> \in ranking[r].todo \/ standing[m].rank = f[m]
        BY <1>2, <1>8, <2>1 DEF RankInv, AloneFollows
      <3>2. p = <<p[1], f[p[1]]>>
        BY <3>1 DEF Ranks
      <3>3. ASSUME NEW m \in Member
            PROVE  <<m, f[m]>> \in ranking'[r].todo \/ standing'[m].rank = f[m]
        <4>1. CASE m = p[1]
          BY <1>7, <3>2, <4>1
        <4>2. CASE m # p[1]
          BY <1>7, <1>8, <3>1, <4>2
        <4> QED
          BY <4>1, <4>2
      <3>4. ranking'[r].todo \subseteq Ranks(f)
        BY <1>8, <3>1
      <3> QED
        BY <2>1, <3>3, <3>4
    <2>2. CASE s # r
      <3>1. ranking[s].at = "save"
        BY <1>1, <2>2
      <3>2. ranking[s] \in [at : {"save"}, todo : SUBSET (Member \X Place), alone : BOOLEAN]
        BY <3>1, RankType DEF RankInv
      <3>3. ~ranking'[s].alone
        BY <1>1, <2>2, <3>1, <3>2
      <3> QED
        BY <3>3
    <2> QED
      BY <2>1, <2>2
  <1>10. WritesWereChecked' /\ RankedAfterEnd' /\ RankedFollows'
    BY <1>2, <1>4 DEF RankInv, WritesWereChecked, RankedAfterEnd, RankedFollows
  <1> QED
    BY <1>9, <1>10 DEF RankInv

\* A save that fails, or the end of a rank job.
LEMMA EndRanks ==
  ASSUME RankInv, TypeOK', NEW r \in Ranking, SaveFails(r) \/ EndRanking(r)
  PROVE  RankInv'
  <1>1. UNCHANGED <<standing, period, call>> /\ ranking[r].at = "save"
    BY DEF SaveFails, EndRanking, history, earned
  <1>2. ranking[r] \in [at : {"save"}, todo : SUBSET (Member \X Place), alone : BOOLEAN]
    BY <1>1, RankType DEF RankInv
  <1>3. Orders' = Orders
    BY <1>1, SameOrders
  <1>4. ~ranked /\ period = "ended"
    BY <1>1 DEF RankInv, RankedFollows, RankedAfterEnd
  <1>5. WritesWereChecked'
    BY <1>1 DEF RankInv, WritesWereChecked
  <1>6. RankedAfterEnd'
    BY <1>1, <1>4 DEF RankedAfterEnd
  <1>7. /\ \A s \in Ranking \ {r} : ranking'[s] = ranking[s]
        /\ ranking'[r].at = "save" => ~ranking'[r].alone
    <2>1. CASE SaveFails(r)
      <3>1. PICK p \in ranking[r].todo :
              ranking' = [ranking EXCEPT ![r] = [ranking[r] EXCEPT !.todo = @ \ {p}, !.alone = FALSE]]
        BY <2>1 DEF SaveFails
      <3>2. ~[ranking[r] EXCEPT !.todo = @ \ {p}, !.alone = FALSE].alone
        BY <1>2
      <3> QED
        BY <3>1, <3>2 DEF RankInv, TypeOK
    <2>2. CASE EndRanking(r)
      BY <2>2 DEF EndRanking, NoRanking, RankInv, TypeOK
    <2> QED
      BY <2>1, <2>2
  <1>8. AloneFollows'
    <2> SUFFICES ASSUME NEW s \in Ranking, ranking'[s].at = "save", ranking'[s].alone
                 PROVE  \E g \in Orders :
                          /\ ranking'[s].todo \subseteq Ranks(g)
                          /\ \A m \in Member : <<m, g[m]>> \in ranking'[s].todo \/ standing[m].rank = g[m]
      BY <1>1, <1>3 DEF AloneFollows, Ranks
    <2>1. s # r /\ ranking'[s] = ranking[s]
      BY <1>7
    <2> QED
      BY <2>1 DEF RankInv, AloneFollows
  <1>9. RankedFollows'
    <2>1. CASE SaveFails(r)
      BY <1>4, <2>1 DEF SaveFails, history, earned, RankedFollows
    <2>2. CASE EndRanking(r)
      <3> SUFFICES ASSUME ranked'
                   PROVE  /\ \A s \in Ranking : ranking'[s].at = "idle"
                          /\ \E f \in Orders : \A m \in Member : standing[m].rank = f[m]
        BY <1>1, <1>3 DEF RankedFollows
      <3>1. /\ ranking[r].todo = {} /\ ranking[r].alone
            /\ \A s \in Ranking \ {r} : ranking[s].at = "idle"
            /\ ranking'[r] = NoRanking
        BY <2>2 DEF EndRanking, RankInv, TypeOK
      <3>2. \E f \in Orders : \A m \in Member : standing[m].rank = f[m]
        BY <1>1, <3>1 DEF RankInv, AloneFollows
      <3>3. \A s \in Ranking : ranking'[s].at = "idle"
        BY <1>7, <3>1 DEF NoRanking
      <3> QED
        BY <3>2, <3>3
    <2> QED
      BY <2>1, <2>2
  <1> QED
    BY <1>5, <1>6, <1>8, <1>9 DEF RankInv

LEMMA StandingsRank ==
  ASSUME RankInv, Standings
  PROVE  RankInv'
  <1>1. TypeOK'
    BY StandingsType DEF RankInv
  <1>2. ASSUME UNCHANGED <<standing, period, call, ranking, ranked>> PROVE RankInv'
    BY <1>1, <1>2, NoRanks DEF RankInv, WritesWereChecked
  <1>3. ASSUME NEW c \in Call, (\E m \in Member : FindRow(c, m)) \/ CheckCup(c) \/ CallFails(c)
        PROVE  RankInv'
    <2>1. UNCHANGED <<standing, period, ranking, ranked>>
      BY <1>3 DEF FindRow, CheckCup, CallFails, history, earned
    <2>2. \A d \in Call \ {c} : call'[d] = call[d]
      BY <1>3 DEF FindRow, CheckCup, CallFails, RankInv, TypeOK
    <2>3. call'[c].at = "write" => call'[c].seen = "running"
      <3>1. CASE \E m \in Member : FindRow(c, m)
        BY <3>1 DEF FindRow, RankInv, TypeOK
      <3>2. CASE CheckCup(c)
        <4>1. call[c] \in [at : {"check", "write"}, member : Member, amount : Amount, row : Row, seen : Period]
          BY <3>2, CallType DEF CheckCup, RankInv
        <4>2. call'[c] = IF period = "running" THEN [call[c] EXCEPT !.at = "write", !.seen = period] ELSE NoCall
          BY <3>2 DEF CheckCup, Running, RankInv, TypeOK
        <4> QED
          BY <4>1, <4>2 DEF NoCall
      <3>3. CASE CallFails(c)
        BY <3>3 DEF CallFails, NoCall, RankInv, TypeOK
      <3> QED
        BY <1>3, <3>1, <3>2, <3>3
    <2>4. WritesWereChecked'
      BY <2>2, <2>3 DEF RankInv, WritesWereChecked
    <2> QED
      BY <1>1, <2>1, <2>4, NoRanks
  <1>4. ASSUME NEW e \in Event, (\E m \in Member : Deliver(e, m)) \/ FindBalance(e) \/ EventFails(e)
        PROVE  RankInv'
    BY <1>2, <1>4 DEF Deliver, FindBalance, EventFails, history, earned
  <1>5. ASSUME CupTime PROVE RankInv'
    <2>1. /\ UNCHANGED <<standing, call, ranking, ranked>>
          /\ period = "ended" => period' = "ended"
      BY <1>5 DEF CupTime, history, earned
    <2> QED
      BY <1>1, <2>1, NoRanks DEF RankInv, WritesWereChecked
  <1>6. ASSUME StandingsRestart PROVE RankInv'
    <2>1. /\ UNCHANGED <<standing, period, ranked>>
          /\ \A r \in Ranking : ranking'[r] = NoRanking
          /\ \A c \in Call : call'[c] = NoCall
      BY <1>6 DEF StandingsRestart, history, earned
    <2>2. Orders' = Orders
      BY <2>1, SameOrders
    <2>3. WritesWereChecked' /\ AloneFollows'
      BY <2>1 DEF WritesWereChecked, AloneFollows, NoCall, NoRanking
    <2>4. RankedAfterEnd' /\ RankedFollows'
      BY <2>1, <2>2 DEF RankInv, RankedAfterEnd, RankedFollows, NoRanking
    <2> QED
      BY <1>1, <2>3, <2>4 DEF RankInv
  <1>7. CASE StandingsNext
    BY <1>1, <1>3, <1>4, <1>5, <1>7, UpdateFirstTimeRanks, WriteBackRanks, FindOrderedRanks,
       SaveRankRanks, EndRanks DEF StandingsNext
  <1>8. CASE /\ UNCHANGED <<standing, period, call, event, ranking, history>>
             /\ started' \in {started, started + 1}
    BY <1>2, <1>8 DEF history, earned
  <1> QED
    BY <1>6, <1>7, <1>8 DEF Standings

LEMMA RankedShows ==
  ASSUME RankInv
  PROVE  RanksFollowRates
  <1> SUFFICES ASSUME ranked, NEW m \in Member, NEW n \in Member
               PROVE  /\ standing[m].rank \in Place
                      /\ standing[m].rank = standing[n].rank => m = n
                      /\ standing[m].rate > standing[n].rate => standing[m].rank < standing[n].rank
                      /\ standing[m].rate = standing[n].rate /\ JoinTime[m] < JoinTime[n] =>
                           standing[m].rank < standing[n].rank
    BY DEF RanksFollowRates
  <1>1. PICK f \in Orders : \A k \in Member : standing[k].rank = f[k]
    BY DEF RankInv, RankedFollows
  <1>2. /\ f \in [Member -> Place]
        /\ f[m] = f[n] => m = n
        /\ Ahead(m, n) => f[m] < f[n]
    BY DEF Orders
  <1> QED
    BY <1>1, <1>2 DEF Ahead

\* After a rank job that was alone and saved every rank, the ranks are 1, 2, 3, ... by
\* rate and then by time of joining, until a write that was on its way at the cup's end.
THEOREM RanksFollow == WebhookSpec => []RanksFollowRates
  <1>1. WebhookInit => RankInv
    BY InitRank DEF WebhookInit
  <1>2. RankInv /\ [WebhookNext]_allVars => RankInv'
    BY NextStandings, StandingsRank
  <1> QED
    BY <1>1, <1>2, RankedShows, PTL DEF WebhookSpec

-----------------------------------------------------------------------------
(***************************************************************************)
(* Types of Webhook's own variables.                                       *)
(***************************************************************************)
KeyTypes ==
  /\ keys \in [KeyRow -> Nat]
  /\ changes \subseteq Change /\ handled \subseteq changes /\ commands \subseteq handled
  /\ IsFiniteSet(changes)
  /\ cache \in [Api -> {NoEntry} \cup (KeyRow \X Nat)]
  /\ newest \in [Api -> Nat]
  /\ crooked \subseteq Api

PushTypes ==
  /\ slot \in Nat /\ stored \in Nat
  /\ send \in [Send -> [at : {"idle", "sending", "deleting"}, message : Nat]]
  /\ sent \subseteq Nat /\ excused \subseteq Nat

WebhookTypes == TypeOK /\ KeyTypes /\ PushTypes

LEMMA InitWebhookTypes == WebhookInit => WebhookTypes
  <1> SUFFICES ASSUME WebhookInit PROVE WebhookTypes
    OBVIOUS
  <1>1. KeyTypes
    BY FS_EmptySet DEF WebhookInit, KeyTypes
  <1>2. PushTypes
    BY DEF WebhookInit, PushTypes, Idle
  <1> QED
    BY <1>1, <1>2, InitStandings DEF WebhookInit, WebhookTypes

LEMMA ApiType ==
  ASSUME NEW k \in KeyRow
  PROVE  ApiKey[k] \in Api
  BY DEF Api

LEMMA ChangeKeyTypes ==
  ASSUME KeyTypes, NEW op \in {"INSERT", "UPDATE", "DELETE"}, NEW k \in KeyRow, ChangeKey(op, k)
  PROVE  KeyTypes'
  <1> DEFINE n == Cardinality(changes) + 1
             x == [n |-> n, op |-> op, row |-> k]
  <1>1. n \in Nat
    BY FS_CardinalityType DEF KeyTypes
  <1>2. /\ keys' = [keys EXCEPT ![k] = IF op = "DELETE" THEN 0 ELSE n]
        /\ changes' = changes \cup {x}
        /\ UNCHANGED <<handled, commands, cache, newest>>
        /\ crooked' = crooked \cup {ApiKey[k]} \/ crooked' = crooked
    BY DEF ChangeKey
  <1>3. x \in Change
    BY <1>1 DEF Change
  <1>4. IsFiniteSet(changes')
    BY <1>2, FS_AddElement DEF KeyTypes
  <1>5. keys' \in [KeyRow -> Nat]
    <2> HIDE DEF n
    <2> QED
      BY <1>1, <1>2 DEF KeyTypes
  <1> HIDE DEF x
  <1>6. crooked' \subseteq Api
    BY <1>2, ApiType DEF KeyTypes
  <1> QED
    BY <1>2, <1>3, <1>4, <1>5, <1>6 DEF KeyTypes

LEMMA ExecuteTypes ==
  ASSUME KeyTypes, NEW x \in commands, Execute(x)
  PROVE  KeyTypes'
  <1> DEFINE a == ApiKey[x.row]
  <1>1. x.row \in KeyRow /\ x.n \in Nat /\ x \in changes
    BY DEF KeyTypes, Change
  <1>2. a \in Api
    BY <1>1, ApiType
  <1>3. Entry(x) \in {NoEntry} \cup (KeyRow \X Nat)
    BY <1>1 DEF Entry
  <1>4. /\ commands' = commands \ {x}
        /\ cache' = [cache EXCEPT ![a] = Entry(x)]
        /\ newest' = [newest EXCEPT ![a] = IF x.n > newest[a] THEN x.n ELSE newest[a]]
        /\ crooked' = crooked \cup {a} \/ crooked' = crooked
        /\ UNCHANGED <<keys, changes, handled>>
    BY DEF Execute
  <1> HIDE DEF a
  <1>5. cache' \in [Api -> {NoEntry} \cup (KeyRow \X Nat)]
    BY <1>3, <1>4 DEF KeyTypes
  <1>6. newest' \in [Api -> Nat]
    BY <1>1, <1>2, <1>4 DEF KeyTypes
  <1> QED
    BY <1>2, <1>4, <1>5, <1>6 DEF KeyTypes

LEMMA RestartKeyTypes ==
  ASSUME KeyTypes, Restart
  PROVE  KeyTypes'
  <1>1. {ApiKey[x.row] : x \in commands} \subseteq Api
    BY ApiType DEF KeyTypes, Change
  <1> QED
    BY <1>1 DEF Restart, KeyTypes

LEMMA NextKeyTypes ==
  ASSUME KeyTypes, [WebhookNext]_allVars
  PROVE  KeyTypes'
  <1>1. CASE UNCHANGED keyVars
    BY <1>1 DEF keyVars, KeyTypes
  <1>2. ASSUME NEW x \in changes, DeliverChange(x) PROVE KeyTypes'
    BY <1>2 DEF DeliverChange, KeyTypes
  <1>3. CASE KeyNext
    BY <1>2, <1>3, ChangeKeyTypes, ExecuteTypes DEF KeyNext
  <1>4. CASE PushNext
    BY <1>1, <1>4 DEF PushNext, Store, ReadMessage, SendOk, SendError, DeleteMessage
  <1>5. CASE UNCHANGED allVars
    BY <1>1, <1>5 DEF allVars
  <1> QED
    BY <1>1, <1>3, <1>4, <1>5, RestartKeyTypes DEF WebhookNext

LEMMA NextPushTypes ==
  ASSUME PushTypes, [WebhookNext]_allVars
  PROVE  PushTypes'
  <1>1. CASE UNCHANGED pushVars
    BY <1>1 DEF pushVars, PushTypes
  <1>2. ASSUME NEW p \in Send, ReadMessage(p) \/ SendOk(p) \/ SendError(p) \/ DeleteMessage(p)
        PROVE  PushTypes'
    <2>1. Idle \in [at : {"idle", "sending", "deleting"}, message : Nat]
      BY DEF Idle
    <2>2. send[p] \in [at : {"idle", "sending", "deleting"}, message : Nat] /\ slot \in Nat
      BY DEF PushTypes
    <2>3. send' \in [Send -> [at : {"idle", "sending", "deleting"}, message : Nat]]
      BY <1>2, <2>1, <2>2 DEF ReadMessage, SendOk, SendError, DeleteMessage, PushTypes
    <2>4. sent' \subseteq Nat
      BY <1>2, <2>2 DEF ReadMessage, SendOk, SendError, DeleteMessage, PushTypes
    <2> QED
      BY <1>2, <2>3, <2>4 DEF ReadMessage, SendOk, SendError, DeleteMessage, PushTypes
  <1>3. ASSUME Store PROVE PushTypes'
    BY <1>3 DEF Store, PushTypes
  <1>4. CASE KeyNext
    BY <1>1, <1>4 DEF KeyNext, ChangeKey, DeliverChange, Execute
  <1>5. CASE Restart
    BY <1>5 DEF Restart, PushTypes, Idle
  <1>6. CASE UNCHANGED allVars
    BY <1>1, <1>6 DEF allVars
  <1> QED
    BY <1>1, <1>2, <1>3, <1>4, <1>5, <1>6 DEF WebhookNext, PushNext

LEMMA NextWebhookTypes ==
  ASSUME WebhookTypes, [WebhookNext]_allVars
  PROVE  WebhookTypes'
  BY NextStandings, StandingsType, NextKeyTypes, NextPushTypes DEF WebhookTypes

\* The rows, the jobs, the events and the cache hold values of their types; only
\* reported changes are handled, and only handled ones are on their way to Redis.
THEOREM TypesHold == WebhookSpec => []WebhookTypeOK
  <1>1. WebhookTypes => WebhookTypeOK
    BY DEF WebhookTypes, KeyTypes, PushTypes, WebhookTypeOK
  <1> QED
    BY <1>1, InitWebhookTypes, NextWebhookTypes, PTL DEF WebhookSpec

-----------------------------------------------------------------------------
(***************************************************************************)
(* NoMessageLost.  A request knows the message it is about to delete, or   *)
(* the one there is excused.                                               *)
(***************************************************************************)
SendsTheSlot ==
  \A p \in Send : send[p].at # "idle" =>
    slot = 0 \/ slot = send[p].message \/ slot \in excused

DeletesSent == \A p \in Send : send[p].at = "deleting" => send[p].message \in sent

PushInv == PushTypes /\ NoMessageLost /\ SendsTheSlot /\ DeletesSent

LEMMA InitPush == WebhookInit => PushInv
  BY InitWebhookTypes DEF WebhookInit, WebhookTypes, PushInv, NoMessageLost, SendsTheSlot, DeletesSent, Idle

LEMMA StorePush ==
  ASSUME PushInv, PushTypes', Store
  PROVE  PushInv'
  <1>1. /\ stored' = stored + 1 /\ slot' = stored + 1
        /\ excused' = excused \cup (IF slot = 0 THEN {} ELSE {slot})
                             \cup (IF \E p \in Send : send[p].at # "idle" THEN {stored + 1} ELSE {})
        /\ UNCHANGED <<send, sent>>
    BY DEF Store
  <1>2. NoMessageLost'
    <2> SUFFICES ASSUME NEW n \in 1..(stored + 1) PROVE n \in sent \cup excused' \cup {stored + 1}
      BY <1>1 DEF NoMessageLost
    <2>1. CASE n = stored + 1
      BY <2>1
    <2>2. CASE n # stored + 1
      <3>1. n \in 1..stored
        BY <2>2 DEF PushInv, PushTypes
      <3>2. n \in sent \cup excused \cup {slot} /\ n # 0
        BY <3>1 DEF PushInv, NoMessageLost, PushTypes
      <3> QED
        BY <1>1, <3>2
    <2> QED
      BY <2>1, <2>2
  <1>3. SendsTheSlot'
    BY <1>1 DEF SendsTheSlot
  <1>4. DeletesSent'
    BY <1>1 DEF PushInv, DeletesSent
  <1> QED
    BY <1>2, <1>3, <1>4 DEF PushInv

LEMMA SendPush ==
  ASSUME PushInv, PushTypes', NEW p \in Send,
         ReadMessage(p) \/ SendOk(p) \/ SendError(p) \/ DeleteMessage(p)
  PROVE  PushInv'
  <1>1. /\ \A q \in Send \ {p} : send'[q] = send[q]
        /\ stored' = stored /\ excused' = excused /\ sent \subseteq sent'
    BY DEF ReadMessage, SendOk, SendError, DeleteMessage, PushInv, PushTypes
  <1>2. send[p] \in [at : {"idle", "sending", "deleting"}, message : Nat]
    BY DEF PushInv, PushTypes
  <1>3. ASSUME ~DeleteMessage(p) PROVE slot' = slot
    BY <1>3 DEF ReadMessage, SendOk, SendError
  <1>4. NoMessageLost'
    <2>1. CASE ~DeleteMessage(p)
      BY <1>1, <1>3, <2>1 DEF PushInv, NoMessageLost
    <2>2. CASE DeleteMessage(p)
      <3>1. slot = 0 \/ slot \in sent \cup excused
        BY <2>2 DEF DeleteMessage, PushInv, SendsTheSlot, DeletesSent
      <3> QED
        BY <1>1, <3>1 DEF PushInv, NoMessageLost, PushTypes
    <2> QED
      BY <2>1, <2>2
  <1>5. SendsTheSlot'
    <2>1. CASE DeleteMessage(p)
      BY <2>1 DEF DeleteMessage, SendsTheSlot
    <2>2. CASE ~DeleteMessage(p)
      <3>1. send'[p].at # "idle" => slot = 0 \/ slot = send'[p].message \/ slot \in excused
        BY <1>2, <2>2 DEF ReadMessage, SendOk, SendError, Idle, PushInv, PushTypes, SendsTheSlot
      <3> QED
        BY <1>1, <1>3, <2>2, <3>1 DEF PushInv, SendsTheSlot
    <2> QED
      BY <2>1, <2>2
  <1>6. DeletesSent'
    <2>1. send'[p].at = "deleting" => send'[p].message \in sent'
      BY <1>2 DEF ReadMessage, SendOk, SendError, DeleteMessage, Idle, PushInv, PushTypes, DeletesSent
    <2> QED
      BY <1>1, <2>1 DEF PushInv, DeletesSent
  <1> QED
    BY <1>4, <1>5, <1>6 DEF PushInv

LEMMA NextPush ==
  ASSUME PushInv, [WebhookNext]_allVars
  PROVE  PushInv'
  <1>1. PushTypes'
    BY NextPushTypes DEF PushInv
  <1>2. CASE UNCHANGED pushVars
    BY <1>1, <1>2 DEF pushVars, PushInv, NoMessageLost, SendsTheSlot, DeletesSent
  <1>3. CASE KeyNext
    BY <1>2, <1>3 DEF KeyNext, ChangeKey, DeliverChange, Execute
  <1>4. CASE Restart
    BY <1>1, <1>4 DEF Restart, Idle, PushInv, NoMessageLost, SendsTheSlot, DeletesSent
  <1>5. CASE UNCHANGED allVars
    BY <1>2, <1>5 DEF allVars
  <1> QED
    BY <1>1, <1>2, <1>3, <1>4, <1>5, StorePush, SendPush DEF WebhookNext, PushNext

\* A message that is gone was sent, or another one was stored over it, or it was
\* itself stored while a request was about to delete the one before.
THEOREM MessagesKept == WebhookSpec => []NoMessageLost
  <1>1. PushInv => NoMessageLost
    BY DEF PushInv
  <1> QED
    BY <1>1, InitPush, NextPush, PTL DEF WebhookSpec

-----------------------------------------------------------------------------
(***************************************************************************)
(* CacheFollowsKeys.  The entry is that of the newest change that reached  *)
(* the cache, no older one is missing, and the last change of an API key   *)
(* says which row is live.                                                 *)
(***************************************************************************)
Of(a) == {x \in changes : ApiKey[x.row] = a}

Numbered ==
  /\ \A x \in changes : 1 <= x.n /\ x.n <= Cardinality(changes)
  /\ \A x, y \in changes : x.n = y.n => x = y

LastSays(a) ==
  \/ Of(a) = {} /\ Live(a) = {}
  \/ \E x \in Of(a) :
       /\ \A y \in Of(a) : y.n <= x.n
       /\ \/ x.op = "INSERT" /\ Live(a) = {x.row} /\ keys[x.row] = x.n
          \/ x.op = "DELETE" /\ Live(a) = {}

NoneMissing(a) ==
  \A x \in Of(a) : x.op # "UPDATE" /\ (x \in handled \ commands => x.n <= newest[a])

NewestHeld(a) ==
  \/ newest[a] = 0 /\ cache[a] = NoEntry
  \/ \E x \in Of(a) : x.n = newest[a] /\ cache[a] = Entry(x)

Straight(a) == LastSays(a) /\ NoneMissing(a) /\ NewestHeld(a)

CacheInv == KeyTypes /\ Numbered /\ \A a \in Api \ crooked : Straight(a)

LEMMA InitCache == WebhookInit => CacheInv
  <1> SUFFICES ASSUME WebhookInit PROVE CacheInv
    OBVIOUS
  <1>1. KeyTypes
    BY InitWebhookTypes DEF WebhookTypes
  <1>2. Numbered
    BY DEF WebhookInit, Numbered
  <1>3. ASSUME NEW a \in Api PROVE Straight(a)
    BY DEF WebhookInit, Straight, LastSays, NoneMissing, NewestHeld, Of, Live
  <1> QED
    BY <1>1, <1>2, <1>3 DEF CacheInv

LEMMA ChangeKeyCache ==
  ASSUME CacheInv, KeyTypes', NEW op \in {"INSERT", "UPDATE", "DELETE"}, NEW k \in KeyRow,
         ChangeKey(op, k)
  PROVE  CacheInv'
  <1> DEFINE n == Cardinality(changes) + 1
             x == [n |-> n, op |-> op, row |-> k]
             b == ApiKey[k]
  <1>1. Cardinality(changes) \in Nat
    BY FS_CardinalityType DEF CacheInv, KeyTypes
  <1>2. /\ keys' = [keys EXCEPT ![k] = IF op = "DELETE" THEN 0 ELSE n]
        /\ changes' = changes \cup {x}
        /\ UNCHANGED <<handled, commands, cache, newest>>
        /\ (op = "INSERT") <=> (keys[k] = 0)
        /\ crooked' = IF op = "UPDATE" \/ (Live(b) \ {k}) # {} THEN crooked \cup {b} ELSE crooked
    BY DEF ChangeKey
  <1>3. x.n = n /\ x.op = op /\ x.row = k
    OBVIOUS
  <1>4. x \notin changes
    BY <1>1, <1>3 DEF CacheInv, Numbered
  <1>5. Cardinality(changes') = n
    <2> HIDE DEF x
    <2> QED
      BY <1>2, <1>4, FS_AddElement DEF CacheInv, KeyTypes
  <1>6. \A y \in changes : 1 <= y.n /\ y.n < n /\ y.n \in Nat
    BY <1>1 DEF CacheInv, Numbered, KeyTypes, Change
  <1> HIDE DEF x
  <1>7. Numbered'
    BY <1>1, <1>2, <1>3, <1>5, <1>6 DEF CacheInv, Numbered
  <1>8. /\ keys'[k] = IF op = "DELETE" THEN 0 ELSE n
        /\ \A i \in KeyRow \ {k} : keys'[i] = keys[i]
    BY <1>2 DEF CacheInv, KeyTypes
  <1>9. ASSUME NEW a \in Api \ crooked', a # b PROVE Straight(a)'
    <2>1. a \notin crooked
      BY <1>2, <1>9
    <2>2. Of(a)' = Of(a)
      BY <1>2, <1>3, <1>9 DEF Of
    <2>3. Live(a)' = Live(a)
      BY <1>8, <1>9 DEF Live
    <2>4. \A y \in Of(a) : y.row # k /\ y.row \in KeyRow
      BY <1>9 DEF Of, CacheInv, KeyTypes, Change
    <2>5. Straight(a)
      BY <2>1 DEF CacheInv
    <2>6. LastSays(a)'
      BY <1>8, <2>2, <2>3, <2>4, <2>5 DEF Straight, LastSays
    <2>7. NoneMissing(a)' /\ NewestHeld(a)'
      BY <1>2, <2>2, <2>5 DEF Straight, NoneMissing, NewestHeld, Entry
    <2> QED
      BY <2>6, <2>7 DEF Straight
  <1>10. ASSUME b \in Api \ crooked' PROVE Straight(b)'
    <2>1. op # "UPDATE" /\ Live(b) \subseteq {k} /\ b \notin crooked
      BY <1>2, <1>10
    <2>2. Of(b)' = Of(b) \cup {x}
      BY <1>2, <1>3 DEF Of
    <2>3. Straight(b)
      BY <1>10, <2>1 DEF CacheInv
    <2>4. \A y \in Of(b)' : y.n <= x.n
      BY <1>1, <1>3, <1>6, <2>2 DEF Of
    <2>5. Live(b)' = IF op = "DELETE" THEN {} ELSE {k}
      BY <1>1, <1>8, <2>1 DEF Live
    <2>6. LastSays(b)'
      <3>1. CASE op = "INSERT"
        BY <1>3, <1>8, <2>2, <2>4, <2>5, <3>1 DEF LastSays
      <3>2. CASE op = "DELETE"
        BY <1>3, <2>2, <2>4, <2>5, <3>2 DEF LastSays
      <3> QED
        BY <2>1, <3>1, <3>2
    <2>7. x \notin handled
      BY <1>4 DEF CacheInv, KeyTypes
    <2>8. NoneMissing(b)'
      BY <1>2, <1>3, <2>1, <2>2, <2>3, <2>7 DEF Straight, NoneMissing
    <2>9. NewestHeld(b)'
      BY <1>2, <2>2, <2>3 DEF Straight, NewestHeld, Entry
    <2> QED
      BY <2>6, <2>8, <2>9 DEF Straight
  <1> QED
    BY <1>7, <1>9, <1>10 DEF CacheInv

LEMMA DeliverChangeCache ==
  ASSUME CacheInv, KeyTypes', NEW x \in changes, DeliverChange(x)
  PROVE  CacheInv'
  <1>1. /\ handled' = handled \cup {x}
        /\ commands' = IF x.op \in {"INSERT", "DELETE"} THEN commands \cup {x} ELSE commands
        /\ UNCHANGED <<keys, changes, cache, newest, crooked>>
    BY DEF DeliverChange, ActedUpon
  <1>2. x.op \in {"INSERT", "UPDATE", "DELETE"}
    BY DEF CacheInv, KeyTypes, Change
  <1>3. Numbered'
    BY <1>1 DEF CacheInv, Numbered
  <1>4. ASSUME NEW a \in Api \ crooked PROVE Straight(a)'
    <2>1. Straight(a) /\ Of(a)' = Of(a) /\ Live(a)' = Live(a)
      BY <1>1 DEF CacheInv, Of, Live
    <2>2. LastSays(a)' /\ NewestHeld(a)'
      BY <1>1, <2>1 DEF Straight, LastSays, NewestHeld, Entry
    <2>3. NoneMissing(a)'
      BY <1>1, <1>2, <2>1 DEF Straight, NoneMissing
    <2> QED
      BY <2>2, <2>3 DEF Straight
  <1> QED
    BY <1>1, <1>3, <1>4 DEF CacheInv

LEMMA ExecuteCache ==
  ASSUME CacheInv, KeyTypes', NEW x \in commands, Execute(x)
  PROVE  CacheInv'
  <1> DEFINE b == ApiKey[x.row]
  <1>1. x \in changes /\ x.n \in Nat /\ x.row \in KeyRow /\ x \in handled
    BY DEF CacheInv, KeyTypes, Change
  <1>2. b \in Api
    BY <1>1, ApiType
  <1>3. /\ commands' = commands \ {x}
        /\ cache' = [cache EXCEPT ![b] = Entry(x)]
        /\ newest' = [newest EXCEPT ![b] = IF x.n > newest[b] THEN x.n ELSE newest[b]]
        /\ crooked' = IF x.n < newest[b] THEN crooked \cup {b} ELSE crooked
        /\ UNCHANGED <<keys, changes, handled>>
    BY DEF Execute
  <1>4. Numbered'
    BY <1>3 DEF CacheInv, Numbered
  <1> HIDE DEF b
  <1>5. /\ cache'[b] = Entry(x)
        /\ newest'[b] = IF x.n > newest[b] THEN x.n ELSE newest[b]
        /\ \A a \in Api \ {b} : cache'[a] = cache[a] /\ newest'[a] = newest[a]
        /\ newest[b] \in Nat
    BY <1>2, <1>3 DEF CacheInv, KeyTypes
  <1>6. ASSUME NEW a \in Api \ crooked' PROVE Straight(a)'
    <2>1. a \notin crooked
      BY <1>3
    <2>2. Straight(a) /\ Of(a)' = Of(a) /\ Live(a)' = Live(a)
      BY <1>3, <2>1 DEF CacheInv, Of, Live
    <2>3. LastSays(a)'
      BY <1>3, <2>2 DEF Straight, LastSays
    <2>4. CASE a # b
      <3>1. x \notin Of(a)
        BY <2>4 DEF Of, b
      <3>2. NoneMissing(a)' /\ NewestHeld(a)'
        BY <1>3, <1>5, <2>2, <2>4, <3>1 DEF Straight, NoneMissing, NewestHeld, Entry
      <3> QED
        BY <2>3, <3>2 DEF Straight
    <2>5. CASE a = b
      <3>1. x \in Of(a)
        BY <1>1, <2>5 DEF Of, b
      <3>2. newest[b] <= x.n /\ newest'[b] = x.n
        BY <1>1, <1>3, <1>5, <2>5
      <3>3. NewestHeld(a)'
        BY <1>5, <2>2, <2>5, <3>1, <3>2 DEF NewestHeld, Entry
      <3>4. \A y \in Of(a) : y.n \in Nat
        BY DEF Of, CacheInv, KeyTypes, Change
      <3>5. NoneMissing(a)'
        BY <1>1, <1>3, <1>5, <2>2, <2>5, <3>2, <3>4 DEF Straight, NoneMissing
      <3> QED
        BY <2>3, <3>3, <3>5 DEF Straight
    <2> QED
      BY <2>4, <2>5
  <1> QED
    BY <1>4, <1>6 DEF CacheInv

LEMMA RestartCache ==
  ASSUME CacheInv, KeyTypes', Restart
  PROVE  CacheInv'
  <1>1. /\ commands' = {}
        /\ crooked' = crooked \cup {ApiKey[x.row] : x \in commands}
        /\ UNCHANGED <<keys, changes, handled, cache, newest>>
    BY DEF Restart
  <1>2. Numbered'
    BY <1>1 DEF CacheInv, Numbered
  <1>3. ASSUME NEW a \in Api \ crooked' PROVE Straight(a)'
    <2>1. a \notin crooked /\ \A x \in commands : ApiKey[x.row] # a
      BY <1>1
    <2>2. Straight(a) /\ Of(a)' = Of(a) /\ Live(a)' = Live(a)
      BY <1>1, <2>1 DEF CacheInv, Of, Live
    <2>3. LastSays(a)' /\ NewestHeld(a)'
      BY <1>1, <2>2 DEF Straight, LastSays, NewestHeld, Entry
    <2>4. NoneMissing(a)'
      BY <1>1, <2>1, <2>2 DEF Straight, NoneMissing, Of
    <2> QED
      BY <2>3, <2>4 DEF Straight
  <1> QED
    BY <1>2, <1>3 DEF CacheInv

LEMMA NextCache ==
  ASSUME CacheInv, [WebhookNext]_allVars
  PROVE  CacheInv'
  <1>1. KeyTypes'
    BY NextKeyTypes DEF CacheInv
  <1>2. CASE UNCHANGED keyVars
    <2>1. Numbered'
      BY <1>2 DEF keyVars, CacheInv, Numbered
    <2>2. \A a \in Api \ crooked' : Straight(a)'
      BY <1>2 DEF keyVars, CacheInv, Straight, LastSays, NoneMissing, NewestHeld, Of, Live, Entry
    <2> QED
      BY <1>1, <2>1, <2>2 DEF CacheInv
  <1>3. CASE KeyNext
    BY <1>1, <1>3, ChangeKeyCache, DeliverChangeCache, ExecuteCache DEF KeyNext
  <1>4. CASE PushNext
    BY <1>2, <1>4 DEF PushNext, Store, ReadMessage, SendOk, SendError, DeleteMessage
  <1>5. CASE UNCHANGED allVars
    BY <1>2, <1>5 DEF allVars
  <1> QED
    BY <1>1, <1>2, <1>3, <1>4, <1>5, RestartCache DEF WebhookNext

LEMMA StraightFollows ==
  ASSUME CacheInv, NEW a \in Api \ crooked, Settled(a)
  PROVE  IF Live(a) = {} THEN cache[a] = NoEntry
         ELSE cache[a] \in {<<k, keys[k]>> : k \in Live(a)}
  <1>1. Straight(a)
    BY DEF CacheInv
  <1>2. \A x \in Of(a) : x.n \in Nat /\ 1 <= x.n /\ x.n <= newest[a]
    BY <1>1 DEF Settled, Of, Straight, NoneMissing, CacheInv, Numbered, KeyTypes, Change
  <1>3. CASE Of(a) = {} /\ Live(a) = {}
    BY <1>1, <1>3 DEF Straight, NewestHeld
  <1>4. ASSUME NEW x \in Of(a), \A y \in Of(a) : y.n <= x.n PROVE cache[a] = Entry(x)
    <2>1. newest[a] # 0
      BY <1>2, <1>4
    <2>2. PICK y \in Of(a) : y.n = newest[a] /\ cache[a] = Entry(y)
      BY <1>1, <2>1 DEF Straight, NewestHeld
    <2>3. y.n = x.n
      BY <1>2, <1>4, <2>2
    <2>4. y = x
      BY <2>3 DEF Of, CacheInv, Numbered
    <2> QED
      BY <2>2, <2>4
  <1>5. CASE \E x \in Of(a) :
               /\ \A y \in Of(a) : y.n <= x.n
               /\ \/ x.op = "INSERT" /\ Live(a) = {x.row} /\ keys[x.row] = x.n
                  \/ x.op = "DELETE" /\ Live(a) = {}
    BY <1>4, <1>5 DEF Entry
  <1> QED
    BY <1>1, <1>3, <1>5 DEF Straight, LastSays

\* When Hasura and Redis have caught up, the cache holds the keys that exist and no
\* others, unless commands were lost or out of order, or a row was updated or shared.
THEOREM CacheFollows == WebhookSpec => []CacheFollowsKeys
  <1>1. CacheInv => CacheFollowsKeys
    BY StraightFollows DEF CacheFollowsKeys
  <1> QED
    BY <1>1, InitCache, NextCache, PTL DEF WebhookSpec

==============================================================================
