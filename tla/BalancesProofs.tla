--------------------------- MODULE BalancesProofs ---------------------------
(***************************************************************************)
(* Proofs about Balances, for any keys, prices, length of the day and      *)
(* number of refreshes.                                                    *)
(***************************************************************************)
EXTENDS Balances, FiniteSetTheorems, TLAPS

-----------------------------------------------------------------------------
(***************************************************************************)
(* Types, but for the reckoning.                                           *)
(***************************************************************************)
InProgress == [at : Label \ {"idle"}, row : Row]

Types ==
  /\ clock \in Nat /\ clock <= MaxTime
  /\ rolling \in SUBSET Key
  /\ wallet \in [Key -> Int]
  /\ flow \in [Key -> Flow]
  /\ opening \in [Key -> [0..MaxTime -> Flow]]
  /\ moves \in Nat /\ refreshes \in Nat /\ failures \in Nat
  /\ rows \subseteq Row
  /\ job \in [Job -> JobState]
  /\ crossed \subseteq Key

LEMMA DayType ==
  ASSUME NEW hour \in Nat
  PROVE  Day(hour) \in Nat /\ Day(hour) * Hours <= hour
  BY HoursAssumption DEF Day

LEMMA WorthType ==
  ASSUME NEW k \in Key, NEW x \in Int, NEW y \in Int
  PROVE  Worth(k, x) \in Int /\ Worth(k, x - y) + Worth(k, y) = Worth(k, x)
  BY PriceAssumption DEF Worth

LEMMA BlankType ==
  ASSUME NEW k \in Key
  PROVE  Blank(k) \in Row
  BY DEF Blank, Row

LEMMA JobType ==
  ASSUME Types, NEW j \in Job, job[j].at # "idle"
  PROVE  job[j] \in InProgress
  BY DEF Types, JobState, InProgress

LEMMA SinceType ==
  ASSUME Types, NEW k \in Key
  PROVE  Since(k) \in 0..MaxTime
  <1>1. Today \in 0..MaxTime
    <2>1. Day(clock) \in Nat /\ Day(clock) * Hours <= clock
      BY DayType DEF Types
    <2>2. Day(clock) * Hours \in Nat
      BY <2>1, HoursAssumption
    <2> QED
      BY <2>1, <2>2, BoundAssumption DEF Types, Today
  <1>2. LastHours \in 0..MaxTime
    BY HoursAssumption, BoundAssumption DEF Types, LastHours
  <1> QED
    BY <1>1, <1>2 DEF Since

LEMMA TransfersType ==
  ASSUME Types, NEW k \in Key
  PROVE  Transfers(k).in \in Int /\ Transfers(k).out \in Int
  <1>1. Since(k) \in 0..MaxTime
    BY SinceType
  <1>2. opening[k][Since(k)] \in Flow /\ flow[k] \in Flow
    BY <1>1 DEF Types
  <1> QED
    BY <1>2 DEF Transfers, Flow

-----------------------------------------------------------------------------
(***************************************************************************)
(* The steps of a refresh, each as what it does to the row in hand.        *)
(***************************************************************************)
LEMMA FetchBalanceRow ==
  ASSUME Types, NEW j \in Job, FetchBalance(j), ~job[j].row.exact
  PROVE  \E row \in Row :
           /\ job' = [job EXCEPT ![j] = [at |-> "income", row |-> row]]
           /\ row.key = job[j].row.key /\ row.date = job[j].row.date /\ ~row.exact
           /\ row.sound => row.total = row.earned + row.moved
           /\ row.n = refreshes + 1 /\ row.base = job[j].row.base
  <1> DEFINE old == job[j].row
             k == old.key
  <1>0. old \in Row /\ k \in Key
    BY JobType DEF FetchBalance, InProgress, Row
  <1>1. PICK ok \in BOOLEAN :
          job' = [job EXCEPT ![j] = [at |-> "income", row |-> [old EXCEPT
            !.n      = refreshes + 1,
            !.total  = Answered(k, ok),
            !.earned = Worth(k, wallet[k] - Moved(k)),
            !.moved  = Worth(k, Moved(k)),
            !.sound  = ok /\ wallet[k] >= 0]]]
    BY DEF FetchBalance
  <1>2. wallet[k] \in Int /\ flow[k] \in Flow /\ Moved(k) \in Int
    <2> HIDE DEF k
    <2> QED
      BY <1>0 DEF Types, Flow, Moved
  <1>3. /\ Worth(k, wallet[k] - Moved(k)) \in Int /\ Worth(k, Moved(k)) \in Int
        /\ Worth(k, wallet[k]) \in Int
        /\ Worth(k, wallet[k] - Moved(k)) + Worth(k, Moved(k)) = Worth(k, wallet[k])
    <2> HIDE DEF k
    <2>1. ASSUME NEW x \in Int, NEW y \in Int
          PROVE  /\ Worth(k, x - y) \in Int /\ Worth(k, y) \in Int /\ Worth(k, x) \in Int
                 /\ Worth(k, x - y) + Worth(k, y) = Worth(k, x)
      <3>1. x - y \in Int
        OBVIOUS
      <3>2. Worth(k, x - y) \in Int /\ Worth(k, y) \in Int /\ Worth(k, x) \in Int
        BY <1>0, <3>1, WorthType
      <3>3. Worth(k, x - y) + Worth(k, y) = Worth(k, x)
        BY <1>0, WorthType
      <3> QED
        BY <3>2, <3>3
    <2> QED
      BY <1>2, <2>1
  <1>4. Answered(k, ok) \in Int
    BY <1>3 DEF Answered, Total
  <1>5. ok /\ wallet[k] >= 0 => Answered(k, ok) = Worth(k, wallet[k])
    <2> HIDE DEF k
    <2>1. wallet[k] = 0 => Worth(k, wallet[k]) = 0
      BY <1>0, PriceAssumption DEF Worth
    <2> QED
      BY <1>2, <2>1 DEF Answered, Total
  <1>6. refreshes + 1 \in Nat
    BY DEF Types
  <1> DEFINE total == Answered(k, ok)
             earned == Worth(k, wallet[k] - Moved(k))
             moved == Worth(k, Moved(k))
             sound == ok /\ wallet[k] >= 0
             row == [old EXCEPT !.n = refreshes + 1, !.total = total,
                                !.earned = earned, !.moved = moved, !.sound = sound]
  <1>7. job' = [job EXCEPT ![j] = [at |-> "income", row |-> row]]
    BY <1>1
  <1>8. sound \in BOOLEAN
    OBVIOUS
  <1>9. total \in Int /\ earned \in Int /\ moved \in Int /\ (sound => total = earned + moved)
    BY <1>3, <1>4, <1>5
  <1> HIDE DEF total, earned, moved, sound
  <1>11. row \in Row
    BY <1>0, <1>6, <1>8, <1>9 DEF Row
  <1>12. /\ row.key = old.key /\ row.date = old.date /\ row.exact = old.exact
         /\ row.sound = sound /\ row.total = total /\ row.earned = earned /\ row.moved = moved
         /\ row.n = refreshes + 1 /\ row.base = old.base
    BY <1>0 DEF Row
  <1> HIDE DEF row
  <1> QED
    BY <1>7, <1>9, <1>11, <1>12

LEMMA FetchIncomeRow ==
  ASSUME Types, NEW j \in Job, FetchIncome(j)
  PROVE  \E row \in Row :
           /\ job' = [job EXCEPT ![j] = [at |-> "profit", row |-> row]]
           /\ row.key = job[j].row.key /\ row.date = job[j].row.date
           /\ row.exact = job[j].row.exact /\ row.sound = job[j].row.sound
           /\ row.total = job[j].row.total /\ row.earned = job[j].row.earned
           /\ row.moved = job[j].row.moved
           /\ row.n = job[j].row.n /\ row.base = job[j].row.base
  <1> DEFINE w == job[j].row
             k == w.key
  <1>1. job[j] \in InProgress
    BY JobType DEF FetchIncome
  <1>2. w \in Row /\ k \in Key
    BY <1>1 DEF InProgress, Row
  <1>3. PICK ok \in BOOLEAN :
          LET income == IF ok THEN Transfers(k) ELSE [in |-> 0, out |-> 0]
          IN job' = [job EXCEPT ![j] = [at |-> "profit", row |-> [w EXCEPT
               !.deposit  = Worth(k, income.in),
               !.withdraw = Worth(k, income.out)]]]
    BY DEF FetchIncome
  <1> DEFINE income == IF ok THEN Transfers(k) ELSE [in |-> 0, out |-> 0]
             row == [w EXCEPT !.deposit = Worth(k, income.in), !.withdraw = Worth(k, income.out)]
  <1>4. job' = [job EXCEPT ![j] = [at |-> "profit", row |-> row]]
    BY <1>3
  <1>5. income.in \in Int /\ income.out \in Int
    BY <1>2, TransfersType
  <1>6. Worth(k, income.in) \in Int /\ Worth(k, income.out) \in Int
    <2> HIDE DEF income, k
    <2> QED
      BY <1>2, <1>5, WorthType
  <1> HIDE DEF income
  <1>7. row \in Row
    BY <1>2, <1>6 DEF Row
  <1>8. /\ row.key = w.key /\ row.date = w.date
        /\ row.exact = w.exact /\ row.sound = w.sound
        /\ row.total = w.total /\ row.earned = w.earned
        /\ row.moved = w.moved
        /\ row.n = w.n /\ row.base = w.base
    BY <1>2 DEF Row
  <1> HIDE DEF row
  <1> QED
    BY <1>4, <1>7, <1>8

\* The row gets a profit, and is exact only if the profit is the gain.
LEMMA ProfitRow ==
  ASSUME Types, NEW j \in Job, CalculateDailyProfit(j), ~job[j].row.exact,
         job[j].row.sound => job[j].row.total = job[j].row.earned + job[j].row.moved,
         \A y \in rows : y.sound => y.total = y.earned + y.moved
  PROVE  \E row \in Row :
           /\ job' = [job EXCEPT ![j] = [at |-> "delete", row |-> row]]
           /\ row.key = job[j].row.key /\ row.date = job[j].row.date
           /\ row.exact => row.profit = row.gain
           /\ row.sound => row.total = row.earned + row.moved
           /\ row.n = job[j].row.n /\ row.total = job[j].row.total
           /\ \/ row.base = job[j].row.base
              \/ \E y \in rows : row.base = y.n /\ row.profit = ProfitOf(row, y)
  <1> DEFINE w == job[j].row
             yesterday == Yesterday(w.key)
  <1>1. job[j] \in InProgress
    BY JobType DEF CalculateDailyProfit
  <1>2. w \in Row
    BY <1>1 DEF InProgress
  <1>3. CASE job' = [job EXCEPT ![j] = [at |-> "delete", row |-> w]]
    BY <1>2, <1>3
  <1>4. ASSUME NEW y \in yesterday,
               job' = [job EXCEPT ![j] = [at |-> "delete", row |-> [w EXCEPT
                 !.profit = ProfitOf(w, y),
                 !.base   = y.n,
                 !.exact  = w.sound /\ y.sound /\ w.deposit - w.withdraw = w.moved - y.moved,
                 !.gain   = w.earned - y.earned]]]
        PROVE  \E row \in Row :
                 /\ job' = [job EXCEPT ![j] = [at |-> "delete", row |-> row]]
                 /\ row.key = w.key /\ row.date = w.date
                 /\ row.exact => row.profit = row.gain
                 /\ row.sound => row.total = row.earned + row.moved
                 /\ row.n = w.n /\ row.total = w.total
                 /\ \E z \in rows : row.base = z.n /\ row.profit = ProfitOf(row, z)
    <2>10. y \in rows
      BY DEF Yesterday
    <2>2. y \in Row /\ (y.sound => y.total = y.earned + y.moved)
      BY <2>10 DEF Types
    <2> DEFINE profit == ProfitOf(w, y)
               gain == w.earned - y.earned
               exact == w.sound /\ y.sound /\ w.deposit - w.withdraw = w.moved - y.moved
               row == [w EXCEPT !.profit = profit, !.base = y.n, !.exact = exact, !.gain = gain]
    <2>3. /\ w.total \in Int /\ w.deposit \in Int /\ w.withdraw \in Int /\ w.moved \in Int /\ w.earned \in Int
          /\ y.total \in Int /\ y.moved \in Int /\ y.earned \in Int /\ y.n \in Nat
      BY <1>2, <2>2 DEF Row
    <2>4. exact => profit = gain
      <3> SUFFICES ASSUME w.sound, y.sound, w.deposit - w.withdraw = w.moved - y.moved
                   PROVE  w.total - y.total - w.deposit + w.withdraw = w.earned - y.earned
        BY DEF ProfitOf
      <3>1. w.total = w.earned + w.moved /\ y.total = y.earned + y.moved
        BY <2>2
      <3> QED
        BY <2>3, <3>1
    <2>5. profit \in Int /\ gain \in Int
      BY <2>3 DEF ProfitOf
    <2>6. exact \in BOOLEAN
      OBVIOUS
    <2>7. job' = [job EXCEPT ![j] = [at |-> "delete", row |-> row]]
      BY <1>4
    <2>11. profit = ProfitOf(w, y)
      OBVIOUS
    <2> HIDE DEF profit, gain, exact, yesterday
    <2>8. row \in Row
      BY <1>2, <2>3, <2>5, <2>6 DEF Row
    <2>9. /\ row.key = w.key /\ row.date = w.date
          /\ row.exact = exact /\ row.profit = profit /\ row.gain = gain
          /\ row.sound = w.sound /\ row.total = w.total /\ row.earned = w.earned /\ row.moved = w.moved
          /\ row.n = w.n /\ row.base = y.n
          /\ row.deposit = w.deposit /\ row.withdraw = w.withdraw
      BY <1>2 DEF Row
    <2> HIDE DEF row
    <2>12. row.profit = ProfitOf(row, y)
      BY <2>9, <2>11 DEF ProfitOf
    <2>14. row.sound => row.total = row.earned + row.moved
      BY <2>9
    <2> HIDE DEF w
    <2>13. \E z \in rows : row.base = z.n /\ row.profit = ProfitOf(row, z)
      BY <2>9, <2>10, <2>12
    <2>15. row.exact => row.profit = row.gain
      BY <2>4, <2>9
    <2> QED
      BY <2>7, <2>8, <2>9, <2>13, <2>14, <2>15
  <1> QED
    BY <1>3, <1>4 DEF CalculateDailyProfit

-----------------------------------------------------------------------------
(***************************************************************************)
(* The invariant.  The profit of a row is its gain because the row was     *)
(* balanced when it was read, and the row it is compared with when it was  *)
(* saved.  There is one row for a day because a refresh alone with its key *)
(* has found it clear between its delete and its save.                     *)
(***************************************************************************)
Balanced(row) == row.sound => row.total = row.earned + row.moved
Right(row)    == row.exact => row.profit = row.gain

Fine(v) ==
  v.at # "idle" =>
    /\ Balanced(v.row)
    /\ v.at \in {"balance", "income", "profit"} => ~v.row.exact
    /\ v.at \in {"delete", "save"} => Right(v.row)

Solo ==
  \A i, j \in Job :
    i # j /\ job[i].at # "idle" /\ job[j].at # "idle" /\ job[i].row.key = job[j].row.key
      => job[i].row.key \in crossed

Clear ==
  \A j \in Job : job[j].at = "save" /\ job[j].row.key \notin crossed =>
    \A y \in rows : y.key = job[j].row.key => y.date # job[j].row.date

Inv ==
  /\ Types
  /\ \A y \in rows : Balanced(y) /\ Right(y)
  /\ \A j \in Job : Fine(job[j])
  /\ Solo
  /\ Clear
  /\ OneRowPerDay

\* What every step of a refresh has in common.
LEMMA RefreshKeeps ==
  ASSUME Inv, NEW j \in Job, NEW v \in JobState, Fine(v),
         job' = [job EXCEPT ![j] = v],
         UNCHANGED <<clock, world>>, refreshes' \in Nat, failures' \in Nat,
         rows' \subseteq rows \/ (rows' = rows \cup {job[j].row} /\ job[j].at = "save" /\ v.at = "idle"),
         crossed \subseteq crossed', crossed' \subseteq Key,
         v.at # "idle" =>
           \/ job[j].at # "idle" /\ v.row.key = job[j].row.key
           \/ \A i \in Job : i # j /\ job[i].at # "idle" /\ job[i].row.key = v.row.key
                => v.row.key \in crossed',
         v.at = "save" /\ v.row.key \notin crossed' =>
           \A y \in rows' : y.key = v.row.key => y.date # v.row.date
  PROVE  Inv'
  <1>1. /\ job \in [Job -> JobState] /\ rows \subseteq Row
        /\ job' \in [Job -> JobState] /\ job'[j] = v
        /\ \A i \in Job : i # j => job'[i] = job[i]
    BY DEF Inv, Types
  <1>2. job[j].at = "save" => job[j] \in InProgress /\ job[j].row \in Row
    BY JobType DEF Inv, InProgress
  <1>3. rows' \subseteq Row
    BY <1>1, <1>2
  <1>4. Types'
    BY <1>1, <1>3 DEF Inv, Types, world
  <1>5. \A y \in rows' : Balanced(y) /\ Right(y)
    <2>1. job[j].at = "save" => Balanced(job[j].row) /\ Right(job[j].row)
      BY DEF Inv, Fine
    <2> QED
      BY <2>1 DEF Inv
  <1>6. \A i \in Job : Fine(job'[i])
    BY <1>1 DEF Inv
  <1>7. Solo'
    <2> SUFFICES ASSUME NEW a \in Job, NEW b \in Job, a # b, job'[a].at # "idle", job'[b].at # "idle",
                        job'[a].row.key = job'[b].row.key
                 PROVE  job'[a].row.key \in crossed'
      BY DEF Solo
    <2>1. CASE a # j /\ b # j
      BY <1>1, <2>1 DEF Inv, Solo
    <2>2. CASE a = j
      BY <1>1, <2>2 DEF Inv, Solo
    <2>3. CASE b = j
      BY <1>1, <2>3 DEF Inv, Solo
    <2> QED
      BY <2>1, <2>2, <2>3
  <1>8. Clear'
    <2> SUFFICES ASSUME NEW i \in Job, job'[i].at = "save", job'[i].row.key \notin crossed',
                        NEW y \in rows', y.key = job'[i].row.key
                 PROVE  y.date # job'[i].row.date
      BY DEF Clear
    <2>1. CASE i = j
      BY <1>1, <2>1
    <2>2. CASE i # j
      <3>1. job'[i] = job[i] /\ job[i].at = "save" /\ job[i].row.key \notin crossed
        BY <1>1, <2>2
      <3>2. y \in rows
        <4> SUFFICES ASSUME y = job[j].row, job[j].at = "save"
                     PROVE  FALSE
          OBVIOUS
        <4> QED
          BY <2>2, <3>1 DEF Inv, Solo
      <3> QED
        BY <3>1, <3>2 DEF Inv, Clear
    <2> QED
      BY <2>1, <2>2
  <1>9. OneRowPerDay'
    <2> SUFFICES ASSUME NEW y \in rows', NEW z \in rows',
                        y.key = z.key, y.date = z.date, y.key \notin crossed'
                 PROVE  y = z
      BY DEF OneRowPerDay
    <2>1. y.key \notin crossed
      OBVIOUS
    <2>2. CASE y \in rows /\ z \in rows
      BY <2>1, <2>2 DEF Inv, OneRowPerDay
    <2>3. CASE ~(y \in rows /\ z \in rows)
      <3>1. job[j].at = "save" /\ rows' = rows \cup {job[j].row}
        BY <2>3
      <3>2. job[j].row.key \notin crossed => \A x \in rows : x.key = job[j].row.key => x.date # job[j].row.date
        BY <3>1 DEF Inv, Clear
      <3> QED
        BY <2>1, <2>3, <3>1, <3>2
    <2> QED
      BY <2>2, <2>3
  <1> QED
    BY <1>4, <1>5, <1>6, <1>7, <1>8, <1>9 DEF Inv

LEMMA InitInv == Init => Inv
  <1> SUFFICES ASSUME Init
               PROVE  Inv
    OBVIOUS
  <1>1. [in |-> 0, out |-> 0] \in Flow /\ [at |-> "idle"] \in JobState
    BY DEF Flow, JobState
  <1>2. wallet \in [Key -> Int] /\ flow \in [Key -> Flow] /\ opening \in [Key -> [0..MaxTime -> Flow]]
    BY <1>1 DEF Init
  <1>3. job \in [Job -> JobState] /\ \A j \in Job : job[j].at = "idle"
    BY <1>1 DEF Init
  <1>4. Types
    BY <1>2, <1>3, BoundAssumption DEF Init, Types
  <1>5. \A j \in Job : Fine(job[j])
    BY <1>3 DEF Fine
  <1>6. Solo /\ Clear
    BY <1>3 DEF Solo, Clear
  <1> QED
    BY <1>4, <1>5, <1>6 DEF Init, Inv, OneRowPerDay

LEMMA TickKeeps ==
  ASSUME Inv, Tick
  PROVE  Inv'
  <1>1. clock' \in Nat /\ clock' <= MaxTime
    BY BoundAssumption DEF Tick, Inv, Types
  <1>2. opening' \in [Key -> [0..MaxTime -> Flow]]
    BY DEF Tick, Inv, Types
  <1>3. Types'
    BY <1>1, <1>2 DEF Tick, Inv, Types
  <1> QED
    BY <1>3 DEF Tick, Inv, Solo, Clear, OneRowPerDay

LEMMA MoveKeeps ==
  ASSUME Inv, NEW k \in Key, NEW kind, NEW amount \in Change, Move(k, kind, amount)
  PROVE  Inv'
  <1>1. amount \in Int /\ wallet[k] \in Int /\ flow[k] \in Flow
    BY ChangeAssumption DEF Inv, Types
  <1>2. wallet' \in [Key -> Int]
    BY <1>1 DEF Move, Inv, Types
  <1> DEFINE in == IF kind = "transfer" /\ amount > 0 THEN amount ELSE 0
             out == IF kind = "transfer" /\ amount < 0 THEN amount ELSE 0
  <1>3. flow' = [flow EXCEPT ![k] = [in |-> flow[k].in + in, out |-> flow[k].out - out]]
    BY DEF Move, Inv, Types
  <1>4. in \in Int /\ out \in Int
    BY <1>1
  <1> HIDE DEF in, out
  <1>5. flow' \in [Key -> Flow] /\ moves' \in Nat
    BY <1>1, <1>3, <1>4 DEF Move, Flow, Inv, Types
  <1>6. Types'
    BY <1>2, <1>5 DEF Move, Inv, Types
  <1> QED
    BY <1>6 DEF Move, Inv, Solo, Clear, OneRowPerDay

LEMMA SettlesType ==
  ASSUME Types, NEW ok \in BOOLEAN, Settles(ok)
  PROVE  failures' \in Nat
  BY DEF Types, Settles

LEMMA BeginKeeps ==
  ASSUME Inv, NEW j \in Job, NEW k \in Key, Begin(j, k)
  PROVE  Inv'
  <1> DEFINE row == [Blank(k) EXCEPT !.date = Day(clock)]
             v == [at |-> "balance", row |-> row]
  <1>1. row \in Row /\ row.key = k /\ row.exact = FALSE /\ row.sound = FALSE
    <2>1. Blank(k) \in Row /\ Day(clock) \in Nat
      BY BlankType, DayType DEF Inv, Types
    <2>2. Blank(k).key = k /\ Blank(k).exact = FALSE /\ Blank(k).sound = FALSE
      BY DEF Blank
    <2> QED
      BY <2>1, <2>2 DEF Row
  <1>2. v \in JobState /\ v.at = "balance" /\ v.row = row
    BY <1>1 DEF JobState, Label
  <1>3. job' = [job EXCEPT ![j] = v]
    BY DEF Begin
  <1> HIDE DEF v, row
  <1>4. Fine(v)
    BY <1>1, <1>2 DEF Fine, Balanced
  <1>5. refreshes' \in Nat /\ failures' \in Nat /\ rows' = rows /\ UNCHANGED <<clock, world>>
    BY DEF Begin, Inv, Types
  <1>6. crossed \subseteq crossed' /\ crossed' \subseteq Key /\ (Busy(k) # {} => k \in crossed')
    BY DEF Begin, Inv, Types
  <1>7. \A i \in Job : i # j /\ job[i].at # "idle" /\ job[i].row.key = row.key => row.key \in crossed'
    BY <1>1, <1>6 DEF Busy
  <1> QED
    BY <1>2, <1>3, <1>4, <1>5, <1>6, <1>7, RefreshKeeps

LEMMA FetchBalanceKeeps ==
  ASSUME Inv, NEW j \in Job, FetchBalance(j)
  PROVE  Inv'
  <1>1. PICK row \in Row :
          /\ job' = [job EXCEPT ![j] = [at |-> "income", row |-> row]]
          /\ row.key = job[j].row.key /\ row.date = job[j].row.date /\ ~row.exact
          /\ row.sound => row.total = row.earned + row.moved
    BY FetchBalanceRow DEF Inv, Fine, FetchBalance
  <1> DEFINE v == [at |-> "income", row |-> row]
  <1>2. v \in JobState /\ v.at = "income" /\ v.row = row
    BY DEF JobState, Label
  <1>3. Fine(v)
    BY <1>1, <1>2 DEF Fine, Balanced
  <1>4. /\ refreshes' \in Nat /\ failures' \in Nat /\ rows' = rows /\ UNCHANGED <<clock, world>>
        /\ crossed \subseteq crossed' /\ crossed' \subseteq Key /\ job[j].at = "balance"
    BY SettlesType DEF FetchBalance, Inv, Types
  <1>5. job' = [job EXCEPT ![j] = v]
    BY <1>1
  <1> HIDE DEF v
  <1> QED
    BY <1>1, <1>2, <1>3, <1>4, <1>5, RefreshKeeps

LEMMA FetchIncomeKeeps ==
  ASSUME Inv, NEW j \in Job, FetchIncome(j)
  PROVE  Inv'
  <1>1. PICK row \in Row :
          /\ job' = [job EXCEPT ![j] = [at |-> "profit", row |-> row]]
          /\ row.key = job[j].row.key /\ row.date = job[j].row.date
          /\ row.exact = job[j].row.exact /\ row.sound = job[j].row.sound
          /\ row.total = job[j].row.total /\ row.earned = job[j].row.earned
          /\ row.moved = job[j].row.moved
    BY FetchIncomeRow DEF Inv
  <1> DEFINE v == [at |-> "profit", row |-> row]
  <1>2. v \in JobState /\ v.at = "profit" /\ v.row = row
    BY DEF JobState, Label
  <1>3. job[j].at = "income" /\ Balanced(job[j].row) /\ ~job[j].row.exact
    BY DEF FetchIncome, Inv, Fine
  <1>4. Fine(v)
    BY <1>1, <1>2, <1>3 DEF Fine, Balanced
  <1>5. /\ refreshes' \in Nat /\ failures' \in Nat /\ rows' = rows /\ UNCHANGED <<clock, world>>
        /\ crossed \subseteq crossed' /\ crossed' \subseteq Key
    BY SettlesType DEF FetchIncome, Inv, Types
  <1>6. job' = [job EXCEPT ![j] = v]
    BY <1>1
  <1> HIDE DEF v
  <1> QED
    BY <1>1, <1>2, <1>3, <1>4, <1>5, <1>6, RefreshKeeps

LEMMA CalculateDailyProfitKeeps ==
  ASSUME Inv, NEW j \in Job, CalculateDailyProfit(j)
  PROVE  Inv'
  <1>1. job[j].at = "profit" /\ Balanced(job[j].row) /\ ~job[j].row.exact
    BY DEF CalculateDailyProfit, Inv, Fine
  <1>2. PICK row \in Row :
          /\ job' = [job EXCEPT ![j] = [at |-> "delete", row |-> row]]
          /\ row.key = job[j].row.key /\ row.date = job[j].row.date
          /\ row.exact => row.profit = row.gain
          /\ row.sound => row.total = row.earned + row.moved
    BY <1>1, ProfitRow DEF Inv, Balanced
  <1> DEFINE v == [at |-> "delete", row |-> row]
  <1>3. v \in JobState /\ v.at = "delete" /\ v.row = row
    BY DEF JobState, Label
  <1>4. Fine(v)
    BY <1>2, <1>3 DEF Fine, Balanced, Right
  <1>5. /\ refreshes' \in Nat /\ failures' \in Nat /\ rows' = rows /\ UNCHANGED <<clock, world>>
        /\ crossed \subseteq crossed' /\ crossed' \subseteq Key
    BY SettlesType DEF CalculateDailyProfit, Inv, Types
  <1>6. job' = [job EXCEPT ![j] = v]
    BY <1>2
  <1> HIDE DEF v
  <1> QED
    BY <1>1, <1>2, <1>3, <1>4, <1>5, <1>6, RefreshKeeps

\* The delete leaves the day clear, unless it is another day than the row's.
LEMMA DeleteKeeps ==
  ASSUME Inv, NEW j \in Job, Delete(j)
  PROVE  Inv'
  <1> DEFINE w == job[j].row
             v == [at |-> "save", row |-> w]
  <1>1. job[j].at = "delete" /\ job[j] \in InProgress
    BY JobType DEF Delete, Inv
  <1>2. w \in Row /\ w.key \in Key
    BY <1>1 DEF InProgress, Row
  <1>3. v \in JobState /\ v.at = "save" /\ v.row = w
    BY <1>2 DEF JobState, Label
  <1>4. Fine(v)
    BY <1>1, <1>3 DEF Inv, Fine
  <1>5. /\ refreshes' \in Nat /\ failures' \in Nat /\ UNCHANGED <<clock, world>>
        /\ crossed \subseteq crossed' /\ crossed' \subseteq Key
        /\ w.date # Day(clock) => w.key \in crossed'
    BY <1>2 DEF Delete, Inv, Types
  <1>6. PICK whole \in BOOLEAN : rows' = rows \ Deleted(w.key, whole)
    BY DEF Delete
  <1>7. w.key \notin crossed' => \A y \in rows' : y.key = w.key => y.date # w.date
    BY <1>5, <1>6 DEF Deleted, AllRows, RowsOfToday
  <1>8. job' = [job EXCEPT ![j] = v]
    BY DEF Delete
  <1>9. rows' \subseteq rows
    BY <1>6
  <1> HIDE DEF v
  <1> QED
    BY <1>1, <1>3, <1>4, <1>5, <1>7, <1>8, <1>9, RefreshKeeps

LEMMA EndKeeps ==
  ASSUME Inv, NEW j \in Job, Save(j) \/ Abandon(j)
  PROVE  Inv'
  <1> DEFINE v == [at |-> "idle"]
  <1>1. v \in JobState /\ v.at = "idle"
    BY DEF JobState
  <1>2. Fine(v)
    BY <1>1 DEF Fine
  <1>3. /\ refreshes' \in Nat /\ failures' \in Nat /\ UNCHANGED <<clock, world>>
        /\ crossed \subseteq crossed' /\ crossed' \subseteq Key
    BY DEF Save, Abandon, Inv, Types
  <1>4. rows' \subseteq rows \/ (rows' = rows \cup {job[j].row} /\ job[j].at = "save")
    BY DEF Save, Abandon
  <1>5. job' = [job EXCEPT ![j] = v]
    BY DEF Save, Abandon
  <1> HIDE DEF v
  <1> QED
    BY <1>1, <1>2, <1>3, <1>4, <1>5, RefreshKeeps

\* The reckoning of the total profits only reads.
LEMMA TallyKeeps ==
  ASSUME Inv, UNCHANGED <<clock, world, refreshes, failures, rows, job, crossed>>
  PROVE  Inv'
  <1>1. Types'
    BY DEF Inv, Types, world
  <1> QED
    BY <1>1 DEF Inv, Solo, Clear, OneRowPerDay

LEMMA NextInv ==
  ASSUME Inv, [Next]_vars
  PROVE  Inv'
  <1>1. CASE Tick
    BY <1>1, TickKeeps
  <1>2. CASE \E k \in Key, amount \in Change, kind \in {"trade", "transfer"} : Move(k, kind, amount)
    BY <1>2, MoveKeeps
  <1>3. CASE \E j \in Job, k \in Key : Begin(j, k)
    BY <1>3, BeginKeeps
  <1>4. ASSUME NEW j \in Job,
               FetchBalance(j) \/ FetchIncome(j) \/ CalculateDailyProfit(j) \/ Delete(j) \/ Save(j) \/ Abandon(j)
        PROVE  Inv'
    BY <1>4, FetchBalanceKeeps, FetchIncomeKeeps, CalculateDailyProfitKeeps, DeleteKeeps, EndKeeps
  <1>5. CASE (\E k \in Key : StartTally(k)) \/ ReadProfits \/ ReadFirst \/ EndTally \/ UNCHANGED vars
    BY <1>5, TallyKeeps DEF StartTally, ReadProfits, ReadFirst, EndTally, vars
  <1> QED
    BY <1>1, <1>2, <1>3, <1>4, <1>5 DEF Next

LEMMA Invariance == Spec => []Inv
  <1> QED
    BY InitInv, NextInv, PTL DEF Spec

\* The profit of a day that was reckoned from complete answers is the gain.
THEOREM ProfitsAreGains == Spec => []ProfitIsGain
  <1>1. Inv => ProfitIsGain
    BY DEF Inv, Right, ProfitIsGain
  <1> QED
    BY <1>1, Invariance, PTL

\* A key that was never refreshed twice at a time, nor across midnight, has one row a day.
THEOREM OneRow == Spec => []OneRowPerDay
  <1>1. Inv => OneRowPerDay
    BY DEF Inv
  <1> QED
    BY <1>1, Invariance, PTL

-----------------------------------------------------------------------------
(***************************************************************************)
(* Sums.  The model adds up by a fold, MapThenSumSet, which adds up some   *)
(* element and then the others.  What is needed of it is that every        *)
(* element may be the first.  Induction over finite sets is stated with a  *)
(* set of the good subsets in place of a predicate.                        *)
(***************************************************************************)
LEMMA SubsetInduction ==
  ASSUME NEW S, IsFiniteSet(S), NEW Good \in SUBSET (SUBSET S),
         \A T \in SUBSET S : (\A x \in T : T \ {x} \in Good) => T \in Good
  PROVE  Good = SUBSET S
  <1> DEFINE R == StrictSubsetOrdering(S)
             Bad == (SUBSET S) \ Good
  <1>1. IsWellFoundedOn(R, SUBSET S)
    BY FS_StrictSubsetOrderingWellFounded, FS_FiniteSubsetsOfFinite
  <1>2. SUFFICES ASSUME Bad # {} PROVE FALSE
    OBVIOUS
  <1>3. PICK T \in Bad : \A y \in Bad : ~(<<y, T>> \in R)
    <2> HIDE DEF R, Bad
    <2>1. Bad \subseteq SUBSET S
      BY DEF Bad
    <2> QED
      BY <1>1, <1>2, <2>1, WFMin
  <1>4. \A x \in T : T \ {x} \in Good
    <2> SUFFICES ASSUME NEW x \in T, T \ {x} \notin Good PROVE FALSE
      OBVIOUS
    <2>1. T \ {x} \in Bad /\ T \in SUBSET S
      OBVIOUS
    <2>2. <<T \ {x}, T>> \in R
      BY <2>1 DEF StrictSubsetOrdering
    <2> QED
      BY <1>3, <2>1, <2>2
  <1> QED
    BY <1>4

Chosen(s) == CHOOSE x \in s : TRUE

\* g gives the sum of f over each subset of S.
IsSum(f, S, g) ==
  g = [s \in SUBSET S |-> IF s = {} THEN 0 ELSE f[Chosen(s)] + g[s \ {Chosen(s)}]]

LEMMA ChosenIn ==
  ASSUME NEW s, s # {}
  PROVE  Chosen(s) \in s
  BY DEF Chosen

\* h reckons the sums of the sets of A, among them all that they rest on.
Reckons(f, A, h) ==
  \A s \in A :
    \/ s = {} /\ h[s] = 0
    \/ s # {} /\ s \ {Chosen(s)} \in A /\ h[s] = f[Chosen(s)] + h[s \ {Chosen(s)}]

LEMMA ReckonsOnce ==
  ASSUME NEW f, NEW S, IsFiniteSet(S), NEW A, NEW h, Reckons(f, A, h), NEW B, NEW g, Reckons(f, B, g)
  PROVE  \A s \in SUBSET S : s \in A /\ s \in B => h[s] = g[s]
  <1> DEFINE Good == {s \in SUBSET S : s \in A /\ s \in B => h[s] = g[s]}
  <1>1. ASSUME NEW T \in SUBSET S, \A x \in T : T \ {x} \in Good
        PROVE  T \in Good
    <2> SUFFICES ASSUME T \in A, T \in B PROVE h[T] = g[T]
      OBVIOUS
    <2>1. CASE T = {}
      BY <2>1 DEF Reckons
    <2>2. CASE T # {}
      <3> DEFINE r == T \ {Chosen(T)}
      <3>1. r \in A /\ h[T] = f[Chosen(T)] + h[r]
        BY <2>2 DEF Reckons
      <3>2. r \in B /\ g[T] = f[Chosen(T)] + g[r]
        BY <2>2 DEF Reckons
      <3>3. r \in Good
        BY <1>1, <2>2, ChosenIn
      <3> QED
        BY <3>1, <3>2, <3>3
    <2> QED
      BY <2>1, <2>2
  <1>2. Good = SUBSET S
    <2> Good \in SUBSET (SUBSET S)
      OBVIOUS
    <2> HIDE DEF Good
    <2> QED
      BY <1>1, SubsetInduction
  <1> QED
    BY <1>2

\* Something reckons the sum of each finite set.
LEMMA ReckonsAll ==
  ASSUME NEW f, NEW S, IsFiniteSet(S)
  PROVE  \A s \in SUBSET S : \E A : \E h : Reckons(f, A, h) /\ s \in A
  <1> DEFINE Good == {s \in SUBSET S : \E A : \E h : Reckons(f, A, h) /\ s \in A}
  <1>1. ASSUME NEW T \in SUBSET S, \A x \in T : T \ {x} \in Good
        PROVE  T \in Good
    <2>1. CASE T = {}
      <3>1. Reckons(f, {{}}, [s \in {{}} |-> 0])
        BY DEF Reckons
      <3> QED
        BY <2>1, <3>1
    <2>2. CASE T # {}
      <3> DEFINE r == T \ {Chosen(T)}
      <3>1. r \in Good /\ r # T
        BY <1>1, <2>2, ChosenIn
      <3>2. PICK A : \E h : Reckons(f, A, h) /\ r \in A
        BY <3>1
      <3>3. PICK h : Reckons(f, A, h) /\ r \in A
        BY <3>2
      <3> DEFINE g == [s \in A \cup {T} |-> IF s \in A THEN h[s] ELSE f[Chosen(T)] + h[r]]
      <3>4. \A s \in A : g[s] = h[s]
        OBVIOUS
      <3>5. T \notin A => g[T] = f[Chosen(T)] + g[r]
        BY <3>3
      <3> HIDE DEF g
      <3>6. ASSUME NEW s \in A
            PROVE  \/ s = {} /\ g[s] = 0
                   \/ s # {} /\ s \ {Chosen(s)} \in A /\ g[s] = f[Chosen(s)] + g[s \ {Chosen(s)}]
        BY <3>3, <3>4 DEF Reckons
      <3>7. Reckons(f, A \cup {T}, g)
        BY <2>2, <3>3, <3>5, <3>6 DEF Reckons
      <3> QED
        BY <3>7
    <2> QED
      BY <2>1, <2>2
  <1>2. Good = SUBSET S
    <2> Good \in SUBSET (SUBSET S)
      OBVIOUS
    <2> HIDE DEF Good
    <2> QED
      BY <1>1, SubsetInduction
  <1> QED
    BY <1>2

LEMMA SumExists ==
  ASSUME NEW f, NEW S, IsFiniteSet(S)
  PROVE  \E g : IsSum(f, S, g)
  <1> DEFINE Value(s, v) == \E A : \E h : Reckons(f, A, h) /\ s \in A /\ v = h[s]
             g == [s \in SUBSET S |-> CHOOSE v : Value(s, v)]
  <1>1. ASSUME NEW A, NEW h, Reckons(f, A, h), NEW s \in SUBSET S, s \in A
        PROVE  g[s] = h[s]
    <2>1. Value(s, h[s])
      BY <1>1
    <2>2. Value(s, g[s])
      <3>1. g[s] = CHOOSE v : Value(s, v)
        OBVIOUS
      <3> HIDE DEF Value, g
      <3> QED
        BY <2>1, <3>1
    <2>3. PICK B : \E k : Reckons(f, B, k) /\ s \in B /\ g[s] = k[s]
      BY <2>2
    <2>4. PICK k : Reckons(f, B, k) /\ s \in B /\ g[s] = k[s]
      BY <2>3
    <2> HIDE DEF g
    <2> QED
      BY <1>1, <2>4, ReckonsOnce
  <1>2. g = [s \in SUBSET S |-> g[s]]
    OBVIOUS
  <1> HIDE DEF g
  <1>3. ASSUME NEW s \in SUBSET S
        PROVE  g[s] = IF s = {} THEN 0 ELSE f[Chosen(s)] + g[s \ {Chosen(s)}]
    <2>1. PICK A : \E h : Reckons(f, A, h) /\ s \in A
      BY ReckonsAll
    <2>2. PICK h : Reckons(f, A, h) /\ s \in A
      BY <2>1
    <2>3. g[s] = h[s]
      BY <1>1, <2>2
    <2>4. CASE s = {}
      BY <2>2, <2>3, <2>4 DEF Reckons
    <2>5. CASE s # {}
      <3> DEFINE r == s \ {Chosen(s)}
      <3>1. r \in A /\ h[s] = f[Chosen(s)] + h[r]
        BY <2>2, <2>5 DEF Reckons
      <3>2. g[r] = h[r]
        BY <1>1, <2>2, <3>1
      <3> QED
        BY <2>3, <2>5, <3>1, <3>2
    <2> QED
      BY <2>4, <2>5
  <1>4. g = [s \in SUBSET S |-> IF s = {} THEN 0 ELSE f[Chosen(s)] + g[s \ {Chosen(s)}]]
    <2> DEFINE k == [s \in SUBSET S |-> IF s = {} THEN 0 ELSE f[Chosen(s)] + g[s \ {Chosen(s)}]]
    <2>1. \A s \in SUBSET S : k[s] = g[s]
      BY <1>3
    <2>2. k = [s \in SUBSET S |-> k[s]]
      OBVIOUS
    <2> HIDE DEF k
    <2>3. k = g
      BY <1>2, <2>1, <2>2
    <2> QED
      BY <2>3 DEF k
  <1> QED
    BY <1>4 DEF IsSum

LEMMA SumLaws ==
  ASSUME NEW S, IsFiniteSet(S), NEW f, \A x \in S : f[x] \in Int, NEW g, IsSum(f, S, g)
  PROVE  /\ g[{}] = 0
         /\ \A T \in SUBSET S : g[T] \in Int /\ \A x \in T : g[T] = f[x] + g[T \ {x}]
  <1>1. \A s \in SUBSET S : g[s] = IF s = {} THEN 0 ELSE f[Chosen(s)] + g[s \ {Chosen(s)}]
    <2> DEFINE k == [s \in SUBSET S |-> IF s = {} THEN 0 ELSE f[Chosen(s)] + g[s \ {Chosen(s)}]]
    <2>1. \A s \in SUBSET S : k[s] = IF s = {} THEN 0 ELSE f[Chosen(s)] + g[s \ {Chosen(s)}]
      OBVIOUS
    <2>2. g = k
      BY DEF IsSum
    <2> HIDE DEF k
    <2> QED
      BY <2>1, <2>2
  <1> DEFINE Good == {T \in SUBSET S : g[T] \in Int /\ \A x \in T : g[T] = f[x] + g[T \ {x}] /\ g[T \ {x}] \in Int}
  <1>2. ASSUME NEW T \in SUBSET S, \A x \in T : T \ {x} \in Good
        PROVE  T \in Good
    <2>1. CASE T = {}
      <3>1. g[T] = 0
        BY <1>1, <2>1
      <3> QED
        BY <2>1, <3>1
    <2>2. CASE T # {}
      <3> DEFINE c == Chosen(T)
      <3>1. c \in T /\ c \in S
        BY <2>2, ChosenIn
      <3>2. g[T] = f[c] + g[T \ {c}]
        BY <1>1, <2>2
      <3> HIDE DEF c
      <3>3. g[T \ {c}] \in Int /\ f[c] \in Int
        BY <1>2, <3>1
      <3>4. ASSUME NEW x \in T
            PROVE  g[T] = f[x] + g[T \ {x}] /\ g[T \ {x}] \in Int
        <4>1. CASE x = c
          BY <3>2, <3>3, <4>1
        <4>2. CASE x # c
          <5>1. (T \ {x}) \ {c} = (T \ {c}) \ {x}
            OBVIOUS
          <5>2. T \ {c} \in Good /\ x \in T \ {c}
            BY <1>2, <3>1, <4>2
          <5>3. T \ {x} \in Good /\ c \in T \ {x}
            BY <1>2, <3>1, <4>2
          <5> DEFINE r == (T \ {c}) \ {x}
          <5>4. g[T \ {c}] = f[x] + g[r] /\ g[r] \in Int /\ f[x] \in Int
            BY <5>2
          <5>5. g[T \ {x}] = f[c] + g[r] /\ g[T \ {x}] \in Int
            BY <5>1, <5>3
          <5> HIDE DEF r, Good
          <5> QED
            BY <3>2, <3>3, <5>4, <5>5
        <4> QED
          BY <4>1, <4>2
      <3>5. g[T] \in Int
        BY <3>2, <3>3
      <3> QED
        BY <3>4, <3>5
    <2> QED
      BY <2>1, <2>2
  <1>3. Good = SUBSET S
    <2> Good \in SUBSET (SUBSET S)
      OBVIOUS
    <2> HIDE DEF Good
    <2> QED
      BY <1>2, SubsetInduction
  <1>4. g[{}] = 0
    BY <1>1
  <1> QED
    BY <1>3, <1>4

Summed(f, S) == (CHOOSE g : IsSum(f, S, g))[S]

LEMMA SumReckons ==
  ASSUME NEW f, NEW S, NEW g, IsSum(f, S, g)
  PROVE  Reckons(f, SUBSET S, g)
  <1> SUFFICES ASSUME NEW s \in SUBSET S
               PROVE  \/ s = {} /\ g[s] = 0
                      \/ s # {} /\ s \ {Chosen(s)} \in SUBSET S /\ g[s] = f[Chosen(s)] + g[s \ {Chosen(s)}]
    BY DEF Reckons
  <1> DEFINE k == [t \in SUBSET S |-> IF t = {} THEN 0 ELSE f[Chosen(t)] + g[t \ {Chosen(t)}]]
  <1>1. k[s] = IF s = {} THEN 0 ELSE f[Chosen(s)] + g[s \ {Chosen(s)}]
    OBVIOUS
  <1>2. g = k
    BY DEF IsSum
  <1> HIDE DEF k
  <1> QED
    BY <1>1, <1>2

\* The sum does not depend on the set it is reckoned within.
LEMMA SummedWithin ==
  ASSUME NEW f, NEW S, IsFiniteSet(S), NEW g, IsSum(f, S, g), NEW T \in SUBSET S
  PROVE  Summed(f, T) = g[T]
  <1>1. IsFiniteSet(T)
    BY FS_Subset
  <1> DEFINE h == CHOOSE h : IsSum(f, T, h)
  <1>2. IsSum(f, T, h)
    BY <1>1, SumExists
  <1> HIDE DEF h
  <1>3. Reckons(f, SUBSET T, h) /\ Reckons(f, SUBSET S, g)
    BY <1>2, SumReckons
  <1>4. h[T] = g[T]
    <2>1. \A s \in SUBSET T : s \in SUBSET T /\ s \in SUBSET S => h[s] = g[s]
      BY <1>1, <1>3, ReckonsOnce
    <2> QED
      BY <2>1
  <1> QED
    BY <1>4 DEF Summed, h

LEMMA SummedLaws ==
  ASSUME NEW S, IsFiniteSet(S), NEW f, \A x \in S : f[x] \in Int
  PROVE  /\ Summed(f, {}) = 0
         /\ Summed(f, S) \in Int
         /\ \A x \in S : Summed(f, S) = f[x] + Summed(f, S \ {x})
  <1>1. PICK g : IsSum(f, S, g)
    BY SumExists
  <1>2. /\ g[{}] = 0
        /\ \A T \in SUBSET S : g[T] \in Int /\ \A x \in T : g[T] = f[x] + g[T \ {x}]
    BY <1>1, SumLaws
  <1>3. \A T \in SUBSET S : Summed(f, T) = g[T]
    BY <1>1, SummedWithin
  <1> QED
    BY <1>2, <1>3

\* The two sums of the model.
ProfitSum(S) == MapThenSumSet(LAMBDA w : w.profit, S)
NetSum(S)    == MapThenSumSet(LAMBDA w : w.deposit - w.withdraw, S)

Profits == [w \in Row |-> w.profit]
Nets    == [w \in Row |-> w.deposit - w.withdraw]

LEMMA ProfitSummed ==
  ASSUME NEW S \in SUBSET Row, IsFiniteSet(S)
  PROVE  ProfitSum(S) = Summed(Profits, S)
  <1> DEFINE Folds(g) == g = [s \in SUBSET S |-> IF s = {} THEN 0
                                ELSE Chosen(s).profit + g[s \ {Chosen(s)}]]
             fold == CHOOSE g : Folds(g)
  <1>1. ProfitSum(S) = fold[S]
    BY Zenon DEF ProfitSum, MapThenSumSet, MapThenFoldSet, Chosen
  <1>2. ASSUME NEW g
        PROVE  Folds(g) <=> IsSum(Profits, S, g)
    <2>1. \A s \in SUBSET S : s # {} => Profits[Chosen(s)] = Chosen(s).profit
      BY ChosenIn DEF Profits
    <2> QED
      BY <2>1 DEF IsSum
  <1>3. IsSum(Profits, S, fold)
    <2>1. \E g : Folds(g)
      BY <1>2, SumExists
    <2>2. Folds(fold)
      <3> HIDE DEF Folds
      <3> QED
        BY <2>1
    <2> QED
      BY <1>2, <2>2
  <1> HIDE DEF fold
  <1> QED
    BY <1>1, <1>3, SummedWithin

LEMMA NetSummed ==
  ASSUME NEW S \in SUBSET Row, IsFiniteSet(S)
  PROVE  NetSum(S) = Summed(Nets, S)
  <1> DEFINE Folds(g) == g = [s \in SUBSET S |-> IF s = {} THEN 0
                                ELSE (Chosen(s).deposit - Chosen(s).withdraw) + g[s \ {Chosen(s)}]]
             fold == CHOOSE g : Folds(g)
  <1>1. NetSum(S) = fold[S]
    BY Zenon DEF NetSum, MapThenSumSet, MapThenFoldSet, Chosen
  <1>2. ASSUME NEW g
        PROVE  Folds(g) <=> IsSum(Nets, S, g)
    <2>1. \A s \in SUBSET S : s # {} => Nets[Chosen(s)] = Chosen(s).deposit - Chosen(s).withdraw
      BY ChosenIn DEF Nets
    <2> QED
      BY <2>1 DEF IsSum
  <1>3. IsSum(Nets, S, fold)
    <2>1. \E g : Folds(g)
      BY <1>2, SumExists
    <2>2. Folds(fold)
      <3> HIDE DEF Folds
      <3> QED
        BY <2>1
    <2> QED
      BY <1>2, <2>2
  <1> HIDE DEF fold
  <1> QED
    BY <1>1, <1>3, SummedWithin

LEMMA SumsType ==
  ASSUME NEW S \in SUBSET Row, IsFiniteSet(S)
  PROVE  /\ ProfitSum({}) = 0 /\ NetSum({}) = 0
         /\ ProfitSum(S) \in Int /\ NetSum(S) \in Int
         /\ \A w \in S : /\ ProfitSum(S) = w.profit + ProfitSum(S \ {w})
                         /\ NetSum(S) = w.deposit - w.withdraw + NetSum(S \ {w})
  <1>1. \A w \in S : /\ Profits[w] = w.profit /\ Profits[w] \in Int
                     /\ Nets[w] = w.deposit - w.withdraw /\ Nets[w] \in Int
    BY DEF Profits, Nets, Row
  <1>2. IsFiniteSet({}) /\ {} \in SUBSET Row
    BY FS_EmptySet
  <1>3. \A w \in S : IsFiniteSet(S \ {w}) /\ S \ {w} \in SUBSET Row
    BY FS_RemoveElement
  <1>4. /\ ProfitSum({}) = Summed(Profits, {}) /\ ProfitSum(S) = Summed(Profits, S)
        /\ \A w \in S : ProfitSum(S \ {w}) = Summed(Profits, S \ {w})
    BY <1>2, <1>3, ProfitSummed
  <1>5. /\ NetSum({}) = Summed(Nets, {}) /\ NetSum(S) = Summed(Nets, S)
        /\ \A w \in S : NetSum(S \ {w}) = Summed(Nets, S \ {w})
    BY <1>2, <1>3, NetSummed
  <1>6. /\ Summed(Profits, {}) = 0 /\ Summed(Profits, S) \in Int
        /\ \A x \in S : Summed(Profits, S) = Profits[x] + Summed(Profits, S \ {x})
    BY <1>1, SummedLaws
  <1>7. /\ Summed(Nets, {}) = 0 /\ Summed(Nets, S) \in Int
        /\ \A x \in S : Summed(Nets, S) = Nets[x] + Summed(Nets, S \ {x})
    BY <1>1, SummedLaws
  <1> QED
    BY <1>1, <1>4, <1>5, <1>6, <1>7

-----------------------------------------------------------------------------
(***************************************************************************)
(* The profits of rows that follow each other day by day add up to the     *)
(* rise of the balance, less what was transferred.                         *)
(***************************************************************************)
IsLast(w, T) == w \in T /\ \A v \in T : v.date <= w.date

LEMMA LastExists ==
  ASSUME NEW S \in SUBSET Row, IsFiniteSet(S), S # {}
  PROVE  \E w : IsLast(w, S)
  <1> DEFINE Good == {T \in SUBSET S : T # {} => \E w : IsLast(w, T)}
  <1>1. ASSUME NEW T \in SUBSET S, \A x \in T : T \ {x} \in Good
        PROVE  T \in Good
    <2> SUFFICES ASSUME T # {} PROVE \E w : IsLast(w, T)
      OBVIOUS
    <2>1. PICK x \in T : TRUE
      OBVIOUS
    <2>2. \A v \in T : v.date \in Nat
      BY DEF Row
    <2>3. CASE T \ {x} = {}
      <3>1. IsLast(x, T)
        BY <2>2, <2>3 DEF IsLast
      <3> QED
        BY <3>1
    <2>4. CASE T \ {x} # {}
      <3>1. PICK w : IsLast(w, T \ {x})
        BY <1>1, <2>4
      <3>2. CASE x.date <= w.date
        <4>1. IsLast(w, T)
          BY <3>1, <3>2 DEF IsLast
        <4> QED
          BY <4>1
      <3>3. CASE ~(x.date <= w.date)
        <4>1. IsLast(x, T)
          BY <2>2, <3>1, <3>3 DEF IsLast
        <4> QED
          BY <4>1
      <3> QED
        BY <3>2, <3>3
    <2> QED
      BY <2>3, <2>4
  <1>2. Good = SUBSET S
    <2> Good \in SUBSET (SUBSET S)
      OBVIOUS
    <2> HIDE DEF Good
    <2> QED
      BY <1>1, SubsetInduction
  <1> QED
    BY <1>2

DayByDay(F, first) ==
  /\ \A w \in F : first.date <= w.date
  /\ \A v, w \in F : v.date = w.date => v = w
  /\ \A w \in F : w # first => \E y \in F : y.date = w.date - 1 /\ w.profit = ProfitOf(w, y)

LEMMA Telescope ==
  ASSUME NEW F \in SUBSET Row, IsFiniteSet(F), NEW first \in F, DayByDay(F, first),
         NEW last, IsLast(last, F)
  PROVE  ProfitSum(F \ {first}) = last.total - first.total - NetSum(F \ {first})
  <1> DEFINE Closed(T) == first \in T /\ \A w \in T : \A v \in F : v.date < w.date => v \in T
             Adds(T, l) == ProfitSum(T \ {first}) = l.total - first.total - NetSum(T \ {first})
             Good == {T \in SUBSET F : Closed(T) => \A l : IsLast(l, T) => Adds(T, l)}
  <1>1. \A w \in F : /\ w \in Row /\ w.date \in Nat /\ w.total \in Int
                     /\ w.deposit \in Int /\ w.withdraw \in Int /\ w.profit \in Int
    BY DEF Row
  <1>2. ASSUME NEW T \in SUBSET F, \A x \in T : T \ {x} \in Good
        PROVE  T \in Good
    <2> SUFFICES ASSUME Closed(T), NEW l, IsLast(l, T) PROVE Adds(T, l)
      OBVIOUS
    <2>1. l \in T /\ l \in F /\ first \in T /\ \A v \in T : v.date <= l.date
      BY DEF IsLast
    <2>2. CASE l = first
      <3>1. \A v \in T : v.date = first.date
        BY <1>1, <2>1, <2>2 DEF DayByDay
      <3>2. T \ {first} = {}
        BY <2>1, <3>1 DEF DayByDay
      <3>3. ProfitSum(T \ {first}) = 0 /\ NetSum(T \ {first}) = 0
        BY <3>2, SumsType
      <3>4. first.total \in Int
        BY <1>1
      <3> QED
        BY <2>2, <3>3, <3>4
    <2>3. CASE l # first
      <3>1. PICK y \in F : y.date = l.date - 1 /\ l.profit = ProfitOf(l, y)
        BY <2>1, <2>3 DEF DayByDay
      <3>2. y \in T /\ y # l
        BY <1>1, <2>1, <3>1
      <3> DEFINE U == T \ {l}
                 R == U \ {first}
      <3>3. Closed(U)
        <4>1. ASSUME NEW w \in U, NEW v \in F, v.date < w.date
              PROVE  v \in U
          <5>1. v \in T
            BY <4>1
          <5>2. w.date <= l.date /\ v.date \in Nat /\ w.date \in Nat /\ l.date \in Nat
            BY <1>1, <2>1
          <5>3. v # l
            BY <4>1, <5>2
          <5> QED
            BY <5>1, <5>3
        <4> QED
          BY <2>1, <2>3, <4>1
      <3>4. IsLast(y, U)
        <4>1. ASSUME NEW v \in U
              PROVE  v.date <= y.date
          <5>1. v.date # l.date /\ v.date <= l.date
            BY <2>1 DEF DayByDay
          <5>2. v.date \in Nat /\ l.date \in Nat
            BY <1>1, <2>1
          <5> QED
            BY <3>1, <5>1, <5>2
        <4> QED
          BY <3>2, <4>1 DEF IsLast
      <3>5. Adds(U, y)
        <4>1. U \in Good
          BY <1>2, <2>1
        <4> HIDE DEF U, Closed, Adds
        <4> QED
          BY <3>3, <3>4, <4>1
      <3>6. (T \ {first}) \ {l} = R
        OBVIOUS
      <3>7. /\ IsFiniteSet(T \ {first}) /\ T \ {first} \in SUBSET Row /\ l \in T \ {first}
            /\ IsFiniteSet(R) /\ R \in SUBSET Row
        <4>1. T \ {first} \in SUBSET F /\ R \in SUBSET F
          OBVIOUS
        <4>2. IsFiniteSet(T \ {first}) /\ IsFiniteSet(R)
          <5> HIDE DEF R
          <5> QED
            BY <4>1, FS_Subset
        <4> QED
          BY <2>1, <2>3, <4>1, <4>2
      <3>8. /\ ProfitSum(T \ {first}) = l.profit + ProfitSum(R)
            /\ NetSum(T \ {first}) = l.deposit - l.withdraw + NetSum(R)
        <4> HIDE DEF R
        <4> QED
          BY <3>6, <3>7, SumsType
      <3>9. ProfitSum(R) \in Int /\ NetSum(R) \in Int
        <4> HIDE DEF R
        <4> QED
          BY <3>7, SumsType
      <3>10. l.profit = l.total - y.total - l.deposit + l.withdraw
        BY <3>1 DEF ProfitOf
      <3>11. /\ l.total \in Int /\ l.deposit \in Int /\ l.withdraw \in Int
             /\ y.total \in Int /\ first.total \in Int
        BY <1>1, <2>1, <3>1
      <3>12. ProfitSum(R) = y.total - first.total - NetSum(R)
        BY <3>5
      <3> HIDE DEF R, U
      <3> QED
        BY <3>8, <3>9, <3>10, <3>11, <3>12
    <2> QED
      BY <2>2, <2>3
  <1>3. Good = SUBSET F
    <2> Good \in SUBSET (SUBSET F)
      OBVIOUS
    <2> HIDE DEF Good, Closed, Adds
    <2>1. \A T \in SUBSET F : (\A x \in T : T \ {x} \in Good) => T \in Good
      BY <1>2
    <2> QED
      BY <2>1, SubsetInduction
  <1>4. Closed(F)
    OBVIOUS
  <1>5. F \in Good
    BY <1>3
  <1> QED
    BY <1>4, <1>5

-----------------------------------------------------------------------------
(***************************************************************************)
(* What the rows say of each other: the rows that were saved, those in the *)
(* hands of refreshes and those that a reckoning added up.  Rows of one refresh have one total, and the    *)
(* profit of a row is the one reckoned from whichever row has the number   *)
(* it was reckoned from, so it does not matter that the one found then may *)
(* have been deleted and saved again by another refresh since.             *)
(***************************************************************************)
Seen    == IF tally.at \in {"profits", "done"} THEN tally.seen ELSE {}
Written == rows \cup {job[j].row : j \in {i \in Job : job[i].at \notin {"idle", "balance"}}} \cup Seen

Numbered(W, m) == \A v \in W : v.n > 0 /\ v.n <= m /\ v.base <= m
SameTotal(W)   == \A v, w \in W : v.n = w.n => v.total = w.total
Based(W)       == \A v, w \in W : v.base # 0 /\ v.base = w.n => v.profit = ProfitOf(v, w)

Kept(W, m) == Numbered(W, m) /\ SameTotal(W) /\ Based(W)

Unbased == \A j \in Job : job[j].at \in {"balance", "income", "profit"} => job[j].row.base = 0

Book ==
  /\ IsFiniteSet(rows)
  /\ IsFiniteSet(Seen) /\ Seen \subseteq Row
  /\ Kept(Written, refreshes)
  /\ Unbased

LEMMA KeptOfFewer ==
  ASSUME NEW W, NEW V \in SUBSET W, NEW m, Kept(W, m)
  PROVE  Kept(V, m)
  BY DEF Kept, Numbered, SameTotal, Based

\* The row of a new refresh.
LEMMA KeptWithNew ==
  ASSUME NEW W \in SUBSET Row, NEW m \in Nat, Kept(W, m),
         NEW row \in Row, row.n = m + 1, row.base = 0
  PROVE  Kept(W \cup {row}, m + 1)
  <1>1. \A v \in W : v.n \in Nat /\ v.base \in Nat /\ v.n > 0 /\ v.n <= m /\ v.base <= m
    BY DEF Row, Kept, Numbered
  <1>2. \A v \in W : v.n # row.n /\ v.base # row.n
    BY <1>1
  <1>3. Numbered(W \cup {row}, m + 1)
    BY <1>1 DEF Numbered
  <1>4. SameTotal(W \cup {row})
    BY <1>2 DEF Kept, SameTotal
  <1>5. Based(W \cup {row})
    BY <1>2 DEF Kept, Based
  <1> QED
    BY <1>3, <1>4, <1>5 DEF Kept

\* The row of a refresh that goes on: not reckoned from another yet, or just now.
LEMMA KeptWithNext ==
  ASSUME NEW W \in SUBSET Row, NEW m \in Nat, Kept(W, m),
         NEW old \in W, NEW row \in Row, row.n = old.n, row.total = old.total,
         row.base = 0 \/ \E y \in W : row.base = y.n /\ row.profit = ProfitOf(row, y)
  PROVE  Kept(W \cup {row}, m)
  <1>1. Numbered(W \cup {row}, m)
    BY DEF Kept, Numbered
  <1>2. SameTotal(W \cup {row})
    BY DEF Kept, SameTotal
  <1>3. Based(W \cup {row})
    <2> SUFFICES ASSUME NEW v \in W \cup {row}, NEW w \in W \cup {row}, v.base # 0, v.base = w.n
                 PROVE  v.profit = ProfitOf(v, w)
      BY DEF Based
    <2>1. PICK x \in W : x.n = w.n /\ x.total = w.total
      OBVIOUS
    <2>2. ProfitOf(v, w) = ProfitOf(v, x)
      BY <2>1 DEF ProfitOf
    <2>3. CASE v \in W
      BY <2>1, <2>2, <2>3 DEF Kept, Based
    <2>4. CASE v = row
      <3>1. PICK y \in W : row.base = y.n /\ row.profit = ProfitOf(row, y)
        BY <2>4
      <3>2. x.total = y.total
        BY <2>1, <2>4, <3>1 DEF Kept, SameTotal
      <3>3. ProfitOf(row, x) = ProfitOf(row, y)
        BY <3>2 DEF ProfitOf
      <3> QED
        BY <2>2, <2>4, <3>1, <3>3
    <2> QED
      BY <2>3, <2>4
  <1> QED
    BY <1>1, <1>2, <1>3 DEF Kept

LEMMA WrittenType ==
  ASSUME Types, Seen \subseteq Row
  PROVE  Written \subseteq Row
  <1>1. \A j \in Job : job[j].at # "idle" => job[j].row \in Row
    BY JobType DEF InProgress
  <1> QED
    BY <1>1 DEF Written, Types

\* A step of a refresh writes its row, saves one or deletes some.
LEMMA WrittenNext ==
  ASSUME Types, NEW j \in Job, NEW v, job' = [job EXCEPT ![j] = v], rows' \subseteq Written, tally' = tally,
         NEW row, v.at \in {"idle", "balance"} \/ v.row = row
  PROVE  Written' \subseteq Written \cup {row} /\ Seen' = Seen
  <1>1. job'[j] = v /\ \A i \in Job : i # j => job'[i] = job[i]
    BY DEF Types
  <1>2. ASSUME NEW i \in Job, job'[i].at \notin {"idle", "balance"}
        PROVE  job'[i].row \in Written \cup {row}
    BY <1>1, <1>2 DEF Written
  <1>3. Seen' = Seen /\ Seen \subseteq Written
    BY DEF Seen, Written
  <1> QED
    BY <1>2, <1>3 DEF Written

LEMMA UnbasedNext ==
  ASSUME Types, Unbased, NEW j \in Job, NEW v, job' = [job EXCEPT ![j] = v],
         v.at \in {"balance", "income", "profit"} => v.row.base = 0
  PROVE  Unbased'
  BY DEF Types, Unbased

LEMMA BeginBooks ==
  ASSUME Inv, Book, NEW j \in Job, NEW k \in Key, Begin(j, k)
  PROVE  Book'
  <1> DEFINE row == [Blank(k) EXCEPT !.date = Day(clock)]
             v == [at |-> "balance", row |-> row]
  <1>1. job' = [job EXCEPT ![j] = v] /\ v.at = "balance" /\ v.row.base = 0
    BY DEF Begin, Blank
  <1> HIDE DEF v
  <1>2. /\ rows' = rows /\ refreshes' = refreshes /\ tally' = tally
        /\ job \in [Job -> JobState]
    BY DEF Begin, Inv, Types
  <1>3. Seen' = Seen
    BY <1>2 DEF Seen
  <1>4. Written' \subseteq Written
    BY <1>1, <1>2, <1>3 DEF Written
  <1>5. Kept(Written', refreshes')
    BY <1>2, <1>4, KeptOfFewer DEF Book
  <1>6. Unbased'
    BY <1>1, UnbasedNext DEF Inv, Book
  <1> QED
    BY <1>2, <1>3, <1>5, <1>6 DEF Book

LEMMA FetchBalanceBooks ==
  ASSUME Inv, Book, NEW j \in Job, FetchBalance(j)
  PROVE  Book'
  <1>0. job[j].at = "balance" /\ job[j].row.base = 0 /\ ~job[j].row.exact
    BY DEF FetchBalance, Book, Unbased, Inv, Fine
  <1>1. PICK row \in Row : /\ job' = [job EXCEPT ![j] = [at |-> "income", row |-> row]]
                           /\ row.n = refreshes + 1 /\ row.base = 0
    BY <1>0, FetchBalanceRow DEF Inv
  <1> DEFINE v == [at |-> "income", row |-> row]
  <1>2. v.row = row /\ job' = [job EXCEPT ![j] = v]
    BY <1>1
  <1>3. rows' = rows /\ tally' = tally /\ refreshes' = refreshes + 1 /\ refreshes \in Nat /\ Types
    BY DEF FetchBalance, Inv, Types
  <1>4. Written' \subseteq Written \cup {row} /\ Seen' = Seen
    <2> HIDE DEF v
    <2>1. rows' \subseteq Written
      BY <1>3 DEF Written
    <2> QED
      BY <1>2, <1>3, <2>1, WrittenNext
  <1>5. Kept(Written \cup {row}, refreshes + 1)
    BY <1>1, <1>3, WrittenType, KeptWithNew DEF Book
  <1>6. Kept(Written', refreshes')
    BY <1>3, <1>4, <1>5, KeptOfFewer
  <1>7. Unbased'
    <2>1. v.at \in {"balance", "income", "profit"} => v.row.base = 0
      BY <1>1
    <2> HIDE DEF v
    <2> QED
      BY <1>2, <1>3, <2>1, UnbasedNext DEF Book
  <1> QED
    BY <1>3, <1>4, <1>6, <1>7 DEF Book

\* What the steps of a refresh in progress have in common.
LEMMA RefreshBooks ==
  ASSUME Inv, Book, NEW j \in Job, job[j].at \notin {"idle", "balance"}, NEW v, job' = [job EXCEPT ![j] = v],
         refreshes' = refreshes, tally' = tally, rows' \subseteq rows \cup {job[j].row},
         v.at \in {"balance", "income", "profit"} => v.row.base = 0,
         NEW row \in Row, v.at = "idle" \/ v.row = row,
         row.n = job[j].row.n, row.total = job[j].row.total,
         \/ row \in Written
         \/ row.base = 0
         \/ \E y \in rows : row.base = y.n /\ row.profit = ProfitOf(row, y)
  PROVE  Book'
  <1>1. job[j].row \in Written /\ rows \subseteq Written /\ Types /\ refreshes \in Nat
    BY DEF Written, Inv, Types
  <1>2. Written' \subseteq Written \cup {row} /\ Seen' = Seen
    BY <1>1, WrittenNext
  <1>3. Kept(Written \cup {row}, refreshes)
    <2>1. CASE row \in Written
      <3>1. Written \cup {row} = Written
        BY <2>1
      <3> QED
        BY <3>1 DEF Book
    <2>2. CASE row.base = 0 \/ \E y \in Written : row.base = y.n /\ row.profit = ProfitOf(row, y)
      BY <1>1, <2>2, WrittenType, KeptWithNext DEF Book
    <2> QED
      BY <1>1, <2>1, <2>2
  <1>4. Kept(Written', refreshes')
    BY <1>2, <1>3, KeptOfFewer
  <1>5. IsFiniteSet(rows')
    <2>1. IsFiniteSet(rows \cup {job[j].row})
      BY FS_AddElement DEF Book
    <2> QED
      BY <2>1, FS_Subset
  <1>6. Unbased'
    BY <1>1, UnbasedNext DEF Book
  <1> QED
    BY <1>2, <1>4, <1>5, <1>6 DEF Book

LEMMA FetchIncomeBooks ==
  ASSUME Inv, Book, NEW j \in Job, FetchIncome(j)
  PROVE  Book'
  <1>1. PICK row \in Row : /\ job' = [job EXCEPT ![j] = [at |-> "profit", row |-> row]]
                           /\ row.n = job[j].row.n /\ row.base = job[j].row.base
                           /\ row.total = job[j].row.total
    BY FetchIncomeRow DEF Inv
  <1> DEFINE v == [at |-> "profit", row |-> row]
  <1>2. v.row = row /\ job' = [job EXCEPT ![j] = v]
    BY <1>1
  <1>3. rows' = rows /\ tally' = tally /\ refreshes' = refreshes /\ job[j].at = "income"
    BY DEF FetchIncome
  <1>4. row.base = 0
    BY <1>1, <1>3 DEF Book, Unbased
  <1>5. v.at \in {"balance", "income", "profit"} => v.row.base = 0
    BY <1>4
  <1> HIDE DEF v
  <1> QED
    BY <1>1, <1>2, <1>3, <1>4, <1>5, RefreshBooks

LEMMA CalculateDailyProfitBooks ==
  ASSUME Inv, Book, NEW j \in Job, CalculateDailyProfit(j)
  PROVE  Book'
  <1>1. rows' = rows /\ tally' = tally /\ refreshes' = refreshes /\ job[j].at = "profit"
    BY DEF CalculateDailyProfit
  <1>2. Balanced(job[j].row) /\ ~job[j].row.exact
    BY <1>1 DEF Inv, Fine
  <1>3. PICK row \in Row : /\ job' = [job EXCEPT ![j] = [at |-> "delete", row |-> row]]
                           /\ row.n = job[j].row.n /\ row.total = job[j].row.total
                           /\ \/ row.base = job[j].row.base
                              \/ \E y \in rows : row.base = y.n /\ row.profit = ProfitOf(row, y)
    BY <1>2, ProfitRow DEF Inv, Balanced
  <1> DEFINE v == [at |-> "delete", row |-> row]
  <1>4. v.at = "delete" /\ v.row = row /\ job' = [job EXCEPT ![j] = v]
    BY <1>3
  <1>5. row.base = 0 \/ \E y \in rows : row.base = y.n /\ row.profit = ProfitOf(row, y)
    BY <1>1, <1>3 DEF Book, Unbased
  <1> HIDE DEF v
  <1> QED
    BY <1>1, <1>3, <1>4, <1>5, RefreshBooks

\* The last steps write no other row than the one in hand.
LEMMA EndBooks ==
  ASSUME Inv, Book, NEW j \in Job, Delete(j) \/ Save(j)
  PROVE  Book'
  <1> DEFINE row == job[j].row
  <1>1. job[j].at \notin {"idle", "balance"} /\ row \in Row /\ row \in Written
    BY JobType DEF Delete, Save, Inv, InProgress, Written
  <1>2. refreshes' = refreshes /\ tally' = tally /\ rows' \subseteq rows \cup {row}
    BY DEF Delete, Save
  <1>3. PICK v \in {[at |-> "save", row |-> row], [at |-> "idle"]} : job' = [job EXCEPT ![j] = v]
    BY DEF Delete, Save
  <1>4. v.at \notin {"balance", "income", "profit"} /\ (v.at = "idle" \/ v.row = row)
    OBVIOUS
  <1>5. row.n = job[j].row.n /\ row.total = job[j].row.total /\ rows' \subseteq rows \cup {job[j].row}
    BY <1>2
  <1> HIDE DEF row
  <1> QED
    BY <1>1, <1>2, <1>3, <1>4, <1>5, RefreshBooks

\* A refresh that has read nothing yet stops.
LEMMA AbandonBooks ==
  ASSUME Inv, Book, NEW j \in Job, Abandon(j)
  PROVE  Book'
  <1>1. /\ rows' = rows /\ refreshes' = refreshes /\ tally' = tally
        /\ \A i \in Job : job'[i] = job[i] \/ job'[i].at = "idle"
    BY DEF Abandon, Inv, Types
  <1>2. Seen' = Seen
    BY <1>1 DEF Seen
  <1>3. Written' \subseteq Written
    BY <1>1, <1>2 DEF Written
  <1>4. Kept(Written', refreshes')
    BY <1>1, <1>3, KeptOfFewer DEF Book
  <1> QED
    BY <1>1, <1>2, <1>4 DEF Book, Unbased

\* A reckoning sees rows of the table, or those it saw before.
LEMMA TallyBooks ==
  ASSUME Inv, Book, UNCHANGED <<refreshes, rows, job>>,
         Seen' \subseteq rows \/ Seen' = Seen
  PROVE  Book'
  <1>1. Written' \subseteq Written
    BY DEF Written
  <1>2. Kept(Written', refreshes')
    BY <1>1, KeptOfFewer DEF Book
  <1>3. IsFiniteSet(Seen') /\ Seen' \subseteq Row
    BY FS_Subset DEF Book, Inv, Types
  <1> QED
    BY <1>2, <1>3 DEF Book, Unbased

LEMMA InitBook == Init => Book
  <1> SUFFICES ASSUME Init PROVE Book
    OBVIOUS
  <1>1. Written = {} /\ Seen = {}
    BY DEF Init, NoTally, Seen, Written
  <1>2. Kept(Written, refreshes)
    BY <1>1 DEF Kept, Numbered, SameTotal, Based
  <1> QED
    BY <1>1, <1>2, FS_EmptySet DEF Init, Book, Unbased

-----------------------------------------------------------------------------
(***************************************************************************)
(* The reckoning.  Its sum is that of the rows it saw, whatever becomes of *)
(* the table afterwards.                                                   *)
(***************************************************************************)
Reading ==
  [at : {"asked", "profits", "first", "done"}, key : Key, day : Nat, profit : Int, first : Row, seen : SUBSET Row]

\* The rows among those seen whose profits were added up.
Counted(S, day) == {w \in S : w.date >= day - (Window - 1)}

TallyRight ==
  /\ tally \in TallyState
  /\ tally.at \in {"profits", "done"} =>
       /\ tally.profit = ProfitSum(Counted(tally.seen, tally.day))
       /\ \A w \in tally.seen : w.date >= tally.day - Window

LEMMA TallySame ==
  ASSUME TallyRight, tally' = tally
  PROVE  TallyRight'
  BY DEF TallyRight

\* With the first answer the reckoning is half done, with the second it is done.
LEMMA AnsweringType ==
  ASSUME TallyRight, NEW query \in {"profits", "first"}, Unread(query)
  PROVE  /\ tally \in Reading
         /\ Answering(query) \in Reading
         /\ Answering(query).key = tally.key /\ Answering(query).day = tally.day
         /\ Answering(query).profit = tally.profit
         /\ Answering(query).first = tally.first /\ Answering(query).seen = tally.seen
         /\ Answering(query).at = IF tally.at = "asked" THEN query ELSE "done"
  <1>1. tally \in Reading
    BY DEF TallyRight, TallyState, Unread, Reading
  <1> QED
    BY <1>1 DEF Answering, Reading

LEMMA DaysType ==
  ASSUME Inv, Book, NEW k, NEW day \in Nat
  PROVE  /\ BalanceDays(k, day) \in SUBSET Row /\ BalanceDays(k, day) \subseteq rows
         /\ IsFiniteSet(BalanceDays(k, day))
         /\ ProfitDays(k, day) = Counted(BalanceDays(k, day), day)
         /\ \A w \in BalanceDays(k, day) : w.date >= day - Window
  <1>1. \A w \in rows : w \in Row /\ w.date \in Nat
    BY DEF Inv, Types, Row
  <1>2. Window \in Nat \ {0}
    BY HoursAssumption
  <1>3. BalanceDays(k, day) \subseteq rows
    BY DEF BalanceDays, RowsFrom
  <1>4. IsFiniteSet(BalanceDays(k, day))
    BY <1>3, FS_Subset DEF Book
  <1>5. ProfitDays(k, day) = Counted(BalanceDays(k, day), day)
    <2>1. \A w \in rows : w.date >= day - (Window - 1) => w.date >= day - Window
      BY <1>1, <1>2
    <2> QED
      BY <2>1 DEF ProfitDays, BalanceDays, RowsFrom, Counted
  <1> QED
    BY <1>1, <1>3, <1>4, <1>5 DEF BalanceDays, RowsFrom

LEMMA ReadProfitsRight ==
  ASSUME Inv, Book, TallyRight, ReadProfits
  PROVE  TallyRight' /\ Seen' \subseteq rows
  <1> DEFINE a == Answering("profits")
             S == BalanceDays(tally.key, tally.day)
             sum == ProfitSum(ProfitDays(tally.key, tally.day))
  <1>1. /\ tally \in Reading /\ a \in Reading /\ a.key = tally.key /\ a.day = tally.day
        /\ a.at \in {"profits", "done"}
    BY AnsweringType DEF ReadProfits
  <1>2. tally.day \in Nat
    BY <1>1 DEF Reading
  <1>3. /\ S \in SUBSET Row /\ S \subseteq rows /\ IsFiniteSet(S)
        /\ ProfitDays(tally.key, tally.day) = Counted(S, tally.day)
        /\ \A w \in S : w.date >= tally.day - Window
    BY <1>2, DaysType
  <1>4. sum \in Int /\ sum = ProfitSum(Counted(S, tally.day))
    <2>1. Counted(S, tally.day) \in SUBSET Row /\ IsFiniteSet(Counted(S, tally.day))
      <3> HIDE DEF S
      <3> QED
        BY <1>3, FS_Subset DEF Counted
    <2> HIDE DEF S
    <2> QED
      BY <1>3, <2>1, SumsType
  <1>5. tally' = [a EXCEPT !.profit = sum, !.seen = S]
    BY DEF ReadProfits, ProfitSum
  <1> HIDE DEF a, S, sum
  <1>6. /\ tally' \in Reading /\ tally'.at = a.at /\ tally'.day = tally.day
        /\ tally'.profit = sum /\ tally'.seen = S
    BY <1>1, <1>3, <1>4, <1>5 DEF Reading
  <1>7. tally' \in TallyState
    BY <1>6 DEF Reading, TallyState
  <1> QED
    BY <1>1, <1>3, <1>4, <1>6, <1>7 DEF TallyRight, Seen

LEMMA ReadFirstRight ==
  ASSUME Inv, Book, TallyRight, ReadFirst
  PROVE  TallyRight' /\ (Seen' = Seen \/ Seen' = {})
  <1> DEFINE a == Answering("first")
  <1>1. /\ tally \in Reading /\ a \in Reading /\ a.day = tally.day
        /\ a.profit = tally.profit /\ a.seen = tally.seen
        /\ \/ tally.at = "asked" /\ a.at = "first"
           \/ tally.at = "profits" /\ a.at = "done"
    BY AnsweringType DEF ReadFirst, Unread
  <1>2. PICK w \in Earliest(BalanceDays(tally.key, tally.day)) : tally' = [a EXCEPT !.first = w]
    BY DEF ReadFirst
  <1>3. w \in Row
    BY DEF Earliest, BalanceDays, RowsFrom, Inv, Types
  <1> HIDE DEF a
  <1>4. /\ tally' \in Reading /\ tally'.at = a.at /\ tally'.day = tally.day
        /\ tally'.profit = tally.profit /\ tally'.seen = tally.seen
    BY <1>1, <1>2, <1>3 DEF Reading
  <1>5. tally' \in TallyState
    BY <1>4 DEF Reading, TallyState
  <1> QED
    BY <1>1, <1>4, <1>5 DEF TallyRight, Seen

LEMMA TallyBegins ==
  ASSUME Inv, TallyRight, EndTally \/ \E k \in Key : StartTally(k)
  PROVE  TallyRight' /\ Seen' = {}
  <1>1. CASE EndTally
    BY <1>1 DEF EndTally, NoTally, TallyRight, TallyState, Seen
  <1>2. ASSUME NEW k \in Key, StartTally(k)
        PROVE  TallyRight' /\ Seen' = {}
    <2>1. Blank(k) \in Row /\ Day(clock) \in Nat
      BY BlankType, DayType DEF Inv, Types
    <2>2. tally' = [at |-> "asked", key |-> k, day |-> Day(clock), profit |-> 0, first |-> Blank(k), seen |-> {}]
      BY <1>2 DEF StartTally
    <2>3. tally' \in TallyState
      BY <2>1, <2>2 DEF TallyState
    <2> QED
      BY <2>2, <2>3 DEF TallyRight, Seen
  <1> QED
    BY <1>1, <1>2

LEMMA InitTally == Init => TallyRight
  BY DEF Init, NoTally, TallyRight, TallyState

LEMMA NextTally ==
  ASSUME Inv, Book, TallyRight, [Next]_vars
  PROVE  TallyRight'
  <1>1. CASE tally' = tally
    BY <1>1, TallySame
  <1>2. CASE ReadProfits \/ ReadFirst
    BY <1>2, ReadProfitsRight, ReadFirstRight
  <1>3. CASE EndTally \/ \E k \in Key : StartTally(k)
    BY <1>3, TallyBegins
  <1>4. ASSUME NEW j \in Job,
               \/ \E k \in Key : Begin(j, k)
               \/ FetchBalance(j) \/ FetchIncome(j) \/ CalculateDailyProfit(j)
               \/ Delete(j) \/ Save(j) \/ Abandon(j)
        PROVE  tally' = tally
    BY <1>4 DEF Begin, FetchBalance, FetchIncome, CalculateDailyProfit, Delete, Save, Abandon
  <1>5. ASSUME Tick \/ \E k \in Key, amount \in Change, kind \in {"trade", "transfer"} : Move(k, kind, amount)
        PROVE  tally' = tally
    BY <1>5 DEF Tick, Move
  <1> QED
    BY <1>1, <1>2, <1>3, <1>4, <1>5 DEF Next, vars

LEMMA NextBook ==
  ASSUME Inv, Book, TallyRight, [Next]_vars
  PROVE  Book'
  <1>1. CASE UNCHANGED <<refreshes, rows, job, tally>>
    BY <1>1, TallyBooks DEF Seen
  <1>2. CASE (\E k \in Key : StartTally(k)) \/ ReadProfits \/ ReadFirst \/ EndTally
    <2>1. UNCHANGED <<refreshes, rows, job>>
      BY <1>2 DEF StartTally, ReadProfits, ReadFirst, EndTally
    <2>2. Seen' \subseteq rows \/ Seen' = Seen
      BY <1>2, TallyBegins, ReadProfitsRight, ReadFirstRight
    <2> QED
      BY <2>1, <2>2, TallyBooks
  <1>3. CASE \E j \in Job, k \in Key : Begin(j, k)
    BY <1>3, BeginBooks
  <1>4. ASSUME NEW j \in Job,
               FetchBalance(j) \/ FetchIncome(j) \/ CalculateDailyProfit(j) \/ Delete(j) \/ Save(j) \/ Abandon(j)
        PROVE  Book'
    <2>1. CASE Abandon(j)
      BY <2>1, AbandonBooks
    <2>2. CASE Delete(j) \/ Save(j)
      BY <2>2, EndBooks
    <2> QED
      BY <1>4, <2>1, <2>2, FetchBalanceBooks, FetchIncomeBooks, CalculateDailyProfitBooks
  <1> QED
    BY <1>1, <1>2, <1>3, <1>4 DEF Next, Tick, Move, vars

BalanceInv == Inv /\ Book /\ TallyRight

LEMMA BalanceInvariance == Spec => []BalanceInv
  <1>1. Init => BalanceInv
    BY InitInv, InitBook, InitTally DEF BalanceInv
  <1>2. BalanceInv /\ [Next]_vars => BalanceInv'
    BY NextInv, NextBook, NextTally DEF BalanceInv
  <1> QED
    BY <1>1, <1>2, PTL DEF Spec

\* Every variable keeps to its type, the sums of the reckoning too.
THEOREM BalanceTypes == Spec => []TypeOK
  <1>1. BalanceInv => TypeOK
    BY DEF BalanceInv, Inv, Types, TallyRight, TypeOK
  <1> QED
    BY <1>1, BalanceInvariance, PTL

\* Rows without a missing day between them were each reckoned from the one before.
LEMMA ChainedDayByDay ==
  ASSUME Book, Inv, tally.at = "done", NEW first, Chained(tally.seen, first)
  PROVE  DayByDay(tally.seen, first) /\ first \in tally.seen
  <1> DEFINE F == tally.seen
  <1>1. F = Seen /\ F \subseteq Row /\ F \subseteq Written
    BY DEF Seen, Written, Book
  <1>2. first \in F /\ \A w \in F : first.date <= w.date
    BY DEF Chained, Earliest
  <1>3. ASSUME NEW w \in F, w # first
        PROVE  \E y \in F : y.date = w.date - 1 /\ w.profit = ProfitOf(w, y)
    <2>1. PICK y \in F : y.date = w.date - 1 /\ y.n = w.base
      BY <1>3 DEF Chained
    <2>2. y \in Written /\ w \in Written
      BY <1>1
    <2>3. y.n > 0
      BY <2>2 DEF Book, Kept, Numbered
    <2>4. w.base # 0
      BY <2>1, <2>3
    <2>5. w.profit = ProfitOf(w, y)
      BY <2>1, <2>2, <2>4 DEF Book, Kept, Based
    <2> QED
      BY <2>1, <2>5
  <1> QED
    BY <1>2, <1>3 DEF DayByDay, Chained

\* What is shown as the profit of some days is the rise of the balance less the
\* transfers, whatever was written between the two queries.
THEOREM ProfitsTelescope == Spec => []ProfitTelescopes
  <1>1. ASSUME BalanceInv PROVE ProfitTelescopes
    <2> DEFINE first == tally.first
               F     == tally.seen
               day   == tally.day
               later == F \ {first}
               last  == CHOOSE w \in F : \A v \in F : v.date <= w.date
               net   == MapThenSumSet(LAMBDA w : w.deposit - w.withdraw, later)
    <2> SUFFICES ASSUME tally.at = "done", Chained(F, first)
                 PROVE  tally.profit = last.total - first.total - net
                          + (IF first.date < day - (Window - 1) THEN 0 ELSE first.profit)
      BY DEF ProfitTelescopes
    <2>1. /\ tally \in Reading /\ tally.profit = ProfitSum(Counted(F, day))
          /\ \A w \in F : w.date >= day - Window
      BY <1>1 DEF BalanceInv, TallyRight, TallyState, Reading
    <2>2. first \in F /\ F \in SUBSET Row /\ IsFiniteSet(F) /\ day \in Nat /\ DayByDay(F, first)
      BY <1>1, <2>1, ChainedDayByDay DEF BalanceInv, Book, Seen, Reading
    <2> HIDE DEF first, F, day
    <2>3. IsLast(last, F)
      <3>1. \E w : IsLast(w, F)
        BY <2>2, LastExists
      <3> QED
        BY <3>1 DEF IsLast
    <2>4. net = NetSum(F \ {first})
      BY DEF NetSum
    <2> HIDE DEF later, last, net
    <2>5. ProfitSum(F \ {first}) = last.total - first.total - NetSum(F \ {first})
      BY <2>2, <2>3, Telescope
    <2>6. /\ last.total \in Int /\ first.total \in Int /\ first.profit \in Int
          /\ first.date \in Nat /\ Window \in Nat \ {0}
          /\ \A w \in F : w.date \in Nat
      BY <2>2, <2>3, HoursAssumption DEF IsLast, Row
    <2>7. /\ ProfitSum(F) = first.profit + ProfitSum(F \ {first})
          /\ NetSum(F \ {first}) \in Int
      <3>1. F \ {first} \in SUBSET Row /\ IsFiniteSet(F \ {first})
        BY <2>2, FS_RemoveElement
      <3> QED
        BY <2>2, <3>1, SumsType
    <2>8. CASE first.date < day - (Window - 1)
      <3>1. first.date = day - Window
        BY <2>1, <2>2, <2>6, <2>8
      <3>2. ASSUME NEW w \in F
            PROVE  w.date >= day - (Window - 1) <=> w # first
        <4>1. w.date = first.date => w = first
          BY <2>2 DEF DayByDay
        <4>2. first.date <= w.date
          BY <2>2 DEF DayByDay
        <4> QED
          BY <2>2, <2>6, <3>1, <4>1, <4>2
      <3>3. Counted(F, day) = F \ {first}
        BY <3>2 DEF Counted
      <3> QED
        BY <2>1, <2>4, <2>5, <2>6, <2>7, <2>8, <3>3
    <2>9. CASE ~(first.date < day - (Window - 1))
      <3>1. ASSUME NEW w \in F
            PROVE  w.date >= day - (Window - 1)
        <4>1. first.date <= w.date
          BY <2>2 DEF DayByDay
        <4> QED
          BY <2>2, <2>6, <2>9, <4>1
      <3>2. Counted(F, day) = F
        BY <3>1 DEF Counted
      <3> QED
        BY <2>1, <2>4, <2>5, <2>6, <2>7, <2>9, <3>2
    <2> QED
      BY <2>8, <2>9
  <1> QED
    BY <1>1, BalanceInvariance, PTL

=============================================================================
